------------------------------ MODULE MCServo ------------------------------
(***************************************************************************)
(* Options of the daemon for the model of the servo: as it is started, and *)
(* those that forbid steps or tune the largest plausible delay.            *)
(***************************************************************************)
EXTENDS Servo

Default == [noAdjust |-> FALSE, noResetClock |-> FALSE, maxReset |-> 0, maxDelay |-> 6,
            origMaxDelay |-> 0, maxDelayAutoTune |-> FALSE, discardedPacketThreshold |-> 60]

NeverStep == [Default EXCEPT !.noResetClock = TRUE]
AutoTune  == [Default EXCEPT !.maxDelayAutoTune = TRUE, !.discardedPacketThreshold = 1,
                             !.origMaxDelay = 6]

Scenario(options, syncs, responses, others) ==
    [options |-> options,
     budget |-> [syncs |-> syncs, responses |-> responses, others |-> others]]

\* Long enough to become syntonised, with a response or with a restart; long
\* enough for the filter to be as stiff as it gets.
AllScenarios ==
    {Scenario(Default, 9, 1, 0), Scenario(Default, 9, 0, 1), Scenario(Default, 2, 8, 0),
     Scenario(Default, 1, 8, 1), Scenario(NeverStep, 4, 1, 1), Scenario(AutoTune, 2, 5, 0)}

\* Off by a part of a second ahead or behind, and by more than one.
Errors  == {-12, 20, 35}

\* Three nanoseconds and a fraction.
Residences == {13}
=============================================================================
