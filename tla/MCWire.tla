------------------------------- MODULE MCWire -------------------------------
(***************************************************************************)
(* Instances of WireTse: every kind of frame; management replies without   *)
(* data, of the longest data set of fixed length, an error, and the two    *)
(* with the user's text at its longest, where both are padded, or in the   *)
(* clock description one octet shorter, where it is not.                   *)
(***************************************************************************)
EXTENDS WireTse

Reply(set, text) == [set |-> set, text |-> text]

MCDataSets ==
    {Reply("EMPTY", 0), Reply("PARENT_DATA_SET", 0),
     Reply("ERROR_STATUS", 0), Reply("USER_DESCRIPTION", USER_DESCRIPTION_MAX),
     Reply("CLOCK_DESCRIPTION", USER_DESCRIPTION_MAX),
     Reply("CLOCK_DESCRIPTION", USER_DESCRIPTION_MAX - 1)}
MCOptions == Encodings
=============================================================================
