SPECIFICATION FairSpec
CONSTANTS
  Self = 2
  OwnQuality <- PrimaryClass
  MaxForeign = 2
  IntMax = 100
  SlaveOnly = FALSE
  DelayMechanism = "E2E"
  TwoStep = FALSE
  SeqMod = 2
  ListenTicks = 2
  AnnounceReceiptTicks = 2
  AnnounceTicks = 1
  SyncTicks = 1
  PdelayReqTicks = 1
  InitialDelayReqTicks = 1
  MaxElapsed = 1
  Frames <- FaultFrames
  TxTimestampMayMiss = FALSE
INVARIANTS
  WatchdogArmed
  MasterDataset
PROPERTIES
  SilenceResolves
