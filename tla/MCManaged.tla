------------------------------ MODULE MCManaged ------------------------------
(***************************************************************************)
(* A manager (clock 9) and some frames of module MCProtocol at one port.   *)
(***************************************************************************)
EXTENDS MCProtocol, ManagedPort

Manage(domain, id, action, value) ==
    [type |-> "MANAGEMENT", form |-> "full", src |-> [clock |-> 9, port |-> 1], seq |-> 0,
     domain |-> domain, tlv |-> "MANAGEMENT", id |-> id, action |-> action, value |-> value,
     startingBoundaryHops |-> 1, boundaryHops |-> 1]

Command(id) == Manage(0, id, "COMMAND", [initializeKey |-> 0])

\* What another port sends in answer to the manager, which this one hears too.
HeardAcknowledge == Manage(0, "ENABLE_PORT", "ACKNOWLEDGE", NoValue)
HeardError == [HeardAcknowledge EXCEPT !.tlv = "MANAGEMENT_ERROR_STATUS"]

ManagerFrames ==
    {Command("DISABLE_PORT"), Command("ENABLE_PORT"), Command("INITIALIZE"),
     Manage(0, "DELAY_MECHANISM", "SET", [delayMechanism |-> "P2P"]),
     Manage(0, "PRIORITY1", "SET", [priority1 |-> 3]),
     Manage(0, "DOMAIN", "SET", [domainNumber |-> 1]),
     HeardAcknowledge, HeardError}

ConfiguredPriorities == {1, 3}

\* A master that is better than the local clock until its priority1 is set to
\* 3 no longer matters; its Sync; and a truncated frame.
ManagedPortFrames ==
    {Announce(1, 2, 1, 0), Message("SYNC", 1, 0), [Message("SYNC", 1, 0) EXCEPT !.form = "runt"]}
=============================================================================
