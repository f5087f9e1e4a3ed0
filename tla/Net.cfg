SPECIFICATION Spec
CONSTANTS
  far = far
  gateway = gateway
  Hosts = {far}
  NoHost = NoHost
  Neighbours = {gateway}
  NextHop <- ViaGateway
  MAX_SOCKETS = 2
  MAX_FDS = 1
  SOCKET_RX_BUF_SIZE = 2
  MAX_DGRAM_QUEUE = 1
  FirstPort = 1
  LastPort = 2
  BindPorts = {1}
  Programs = {{"stream"}, {"dgram"}, {"raw"}}
  Counts = {1}
  Chunks = {2}
  ARP_TABLE_SIZE = 1
  NUM_RX_DESC = 3
  CONNECT_POLLS = 2
  WAIT_POLLS = 1
  POLL_ROUNDS = {1, 2}
  ARP_RETRIES = 1
  MaxDepth = 2
  MaxSockets = 2
  MaxConns = 2
  MaxFrames = 4
  MaxBytes = 2
CONSTRAINT Scope
INVARIANTS NetTypeOK StreamIsPeers DatagramsAreMine SlotsOwned RingInStep
VIEW NetView
