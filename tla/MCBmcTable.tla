----------------------------- MODULE MCBmcTable -----------------------------
EXTENDS BmcTable

Sender(clock) == [clock |-> clock, port |-> 1]

LocalQuality == <<1, 248, 1, 1, 1>>

\* The attributes each grandmaster has: 8 and 9 differ only in identity, 7 is
\* better by an early attribute and worse by a later one.
QualityOf(gm) ==
    CASE gm = 7 -> <<1, 6, 9, 1, 9>>
      [] OTHER  -> <<1, 7, 1, 1, 1>>

\* Four senders, each announcing any grandmaster up to three steps away.
Announced ==
    {[id |-> Sender(s), src |-> Sender(s),
      ds |-> [quality |-> QualityOf(g), gm |-> g, stepsRemoved |-> n]] :
     s \in {3, 4, 5, 6}, g \in {7, 8, 9}, n \in 0..2}
=============================================================================
