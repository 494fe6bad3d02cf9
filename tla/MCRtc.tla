------------------------------- MODULE MCRtc --------------------------------
(***************************************************************************)
(* Instances of Rtc: a second of seven ticks and a half, an interrupt      *)
(* every two ticks and a half, corrections by nearly a second either way,  *)
(* and by a second back.                                                   *)
(***************************************************************************)
EXTENDS Rtc

MCNsOffsets == {-14, -3, 0, 13}
MCSecondsOffsets == {-1, 0}
=============================================================================
