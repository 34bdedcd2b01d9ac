CONSTANTS
  HOP_SEQUENCE_COL_NUM = 4
  HOP_SEQUENCE_ROW_NUM = 2
  hop_sequence <- MCHop4
  BC_HOP_SEQUENCE_COL_NUM = 2
  BC_HOP_SEQUENCE_ROW_NUM = 1
  bc_hop_sequence <- MCBcHop
  R_ADDRESS_BYTE = 3
  S_ADDRESS_BYTE = 0
  RF_CHANNEL = 11
  None = None
  MaxTrains = 2
SPECIFICATION Spec
INVARIANT TypeOK
INVARIANT RendezvousWithinRow
INVARIANT SeedTracksReceiver
