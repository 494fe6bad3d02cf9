SPECIFICATION Spec
CONSTANTS
  Self = 2
  OwnQuality <- DefaultClass
  MaxForeign = 2
  IntMax = 100
  SlaveOnly = FALSE
  DelayMechanism = "P2P"
  TwoStep = TRUE
  SeqMod = 2
  ListenTicks = 1
  AnnounceReceiptTicks = 1
  AnnounceTicks = 1
  SyncTicks = 1
  PdelayReqTicks = 1
  InitialDelayReqTicks = 1
  MaxElapsed = 1
  Frames <- PeerFrames
  TxTimestampMayMiss = TRUE
INVARIANTS
  TypeOK
  PeerFollowUpAnswers
