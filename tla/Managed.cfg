SPECIFICATION ManagedSpec
CONSTANTS
  Self = 2
  OwnQuality <- DefaultClass
  MaxForeign = 1
  IntMax = 100
  SlaveOnly = FALSE
  DelayMechanism = "E2E"
  TwoStep = FALSE
  SeqMod = 1
  ListenTicks = 1
  AnnounceReceiptTicks = 1
  AnnounceTicks = 1
  SyncTicks = 1
  PdelayReqTicks = 1
  InitialDelayReqTicks = 1
  MaxElapsed = 1
  Frames <- ManagedPortFrames
  TxTimestampMayMiss = FALSE
  UserDescriptionMax = 128
  ManagementFrames <- ManagerFrames
  Priorities1 <- ConfiguredPriorities
INVARIANTS
  WatchdogArmed
  DisabledQuiet
PROPERTIES
  ConversationsEnd
  DisabledHolds
