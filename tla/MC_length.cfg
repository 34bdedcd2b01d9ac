CONSTANTS
  Channels <- MCChannels
  Frames <- MCFramesLength
  Senders = {"s1"}
  Seqnos = {1, 2, 3}
  None = None
  Null = Null
  MAX_SEQNOS_LL = 2
  MAX_SILENCE_PERIODS = 0
  MAX_NONACTIVITY_PERIODS = 1
  CCA_COUNT_MAX = 1
  CCA_COUNT_MAX_TOT = 1
  ROOT_SLOTS = 1
  STROBE_LIMIT = 2
  PHASE_STROBE_LIMIT = 1
  MaxBurst = 1
  MaxFrames = 1
SPECIFICATION Spec
INVARIANT DeliveredWithinReceived
