SPECIFICATION Spec
CONSTANTS
  Self = 2
  OwnQuality <- DefaultClass
  MaxForeign = 2
  IntMax = 100
  SlaveOnly = FALSE
  DelayMechanism = "E2E"
  TwoStep = FALSE
  SeqMod = 2
  ListenTicks = 2
  AnnounceReceiptTicks = 2
  AnnounceTicks = 1
  SyncTicks = 1
  PdelayReqTicks = 1
  InitialDelayReqTicks = 1
  MaxElapsed = 1
  Frames <- ElectionFrames
  TxTimestampMayMiss = FALSE
INVARIANTS
  SlaveRecordIsParent
  NoDuplicateRecords
  ElectionSound
PROPERTIES
  RefinesPortRole
