SPECIFICATION FairSpec
CONSTANTS
  Self = 2
  OwnQuality <- SlaveOnlyClass
  MaxForeign = 2
  IntMax = 100
  SlaveOnly = FALSE
  DelayMechanism = "E2E"
  TwoStep = FALSE
  SeqMod = 2
  ListenTicks = 1
  AnnounceReceiptTicks = 1
  AnnounceTicks = 1
  SyncTicks = 1
  PdelayReqTicks = 1
  InitialDelayReqTicks = 1
  MaxElapsed = 1
  Frames <- FickleMasterFrames
  TxTimestampMayMiss = TRUE
INVARIANTS
  SlaveClassYields
PROPERTIES
  RequestsGoOn
