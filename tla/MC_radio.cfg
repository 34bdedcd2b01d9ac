CONSTANTS
  Channels <- MCChannels
  Frames <- MCFramesRadio
  Senders = {"s1"}
  Seqnos = {1, 2, 3}
  None = None
  Null = Null
  MAX_SEQNOS_LL = 2
  MAX_SILENCE_PERIODS = 1
  MAX_NONACTIVITY_PERIODS = 2
  CCA_COUNT_MAX = 1
  CCA_COUNT_MAX_TOT = 2
  ROOT_SLOTS = 2
  STROBE_LIMIT = 2
  PHASE_STROBE_LIMIT = 1
  MaxBurst = 2
  MaxFrames = 1
SPECIFICATION Spec
INVARIANT TypeOK
INVARIANT StrobeTrainIntact
INVARIANT PowercycleScheduled
INVARIANT KeepRadioOnHonoured
INVARIANT RadioFlagTracksRadio
PROPERTY BurstEventuallyEnds
PROPERTY ImplementsRdcSendSpec
