SPECIFICATION HistorySpec
CONSTANTS
  Self = 2
  OwnQuality <- DefaultClass
  MaxForeign = 2
  IntMax = 100
  SlaveOnly = FALSE
  DelayMechanism = "E2E"
  TwoStep = FALSE
  SeqMod = 3
  ListenTicks = 1
  AnnounceReceiptTicks = 1
  AnnounceTicks = 1
  SyncTicks = 1
  PdelayReqTicks = 1
  InitialDelayReqTicks = 1
  MaxElapsed = 1
  Frames <- DelayFrames
  TxTimestampMayMiss = FALSE
INVARIANTS
  RequestTimerArmed
  HandledAsDue
PROPERTIES
  DelayRespPaired
  FollowUpPaired
