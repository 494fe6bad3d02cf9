------------------------------ MODULE MCDelay ------------------------------
(***************************************************************************)
(* The constants of MCProtocol for the specification with history.         *)
(***************************************************************************)
EXTENDS MCProtocol, ProtocolHistory
=============================================================================
