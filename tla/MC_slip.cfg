CONSTANTS
  Bytes <- MCBytes
  RIMEADDR_SIZE = 2
  ETH_ALEN = 1
  Addrs <- MCAddrs
  LocalAddr <- MCLocalAddr
  BootLladdr <- MCBootLladdr
  PANID <- MCPanId
  BROADCASTPANID <- MCBroadcastPanId
  MaxData = 2
SPECIFICATION Spec
INVARIANT SlipRoundTrip
INVARIANT ParseAcceptsWellFormed
