SPECIFICATION Spec
CONSTANTS
  Parts = {"negotiation", "mppe", "link", "pppos", "slip", "pppoe", "l2tp", "vj", "bridge", "lowpan6"}
  PPP_DEFMRU = 15
  PPP_MINMRU = 1
  ASYNC = {"xon", "xoff"}
  MAX_STATES = 4
  IFACEIDS = {1, 2, 3}
  NEG_CASES <- MCNegCases
  RND = {1, 2}
  NEG_ID_MOD = 16
  NEG_CONF_REQ = 2
  NEG_TERM = 1
  LOOPBACKFAIL = 2
  Reorder = FALSE
  MaxNegFaults = 1
  MPPE_CCOUNT_SPACE = 16
  MPPE_BLOCK = 4
  SANITY_BAD = 4
  SANITY_MAX = 8
  Stateful = {TRUE, FALSE}
  MppeReorder = FALSE
  MaxMppeSends = 9
  MaxMppeLost = 2
  MaxMppeDamaged = 2
  LINK_CASES <- MCLinkCases
  LINK_CONF_REQ = 1
  LINK_TERM = 1
  LINK_NAK = 1
  LINK_AUTH_MAX = 2
  LINK_EAP_ALLOW = 2
  LINK_RECHALLENGE = TRUE
  ECHO_FAILS = 2
  MaxTimers = 1
  MaxNpOpen = 4
  PAYLOADS <- MCPayloads
  PROTOCOLS <- MCProtocols
  SERIAL_CONFS <- MCSerialConfs
  MaxFrames = 2
  MaxSerialFaults = 1
  SOFTCS = {s1, s2}
  ACS = {a1}
  SESSION_IDS = {1, 2}
  COOKIES = {c1}
  PPPOE_DISC_MAXPADI = 1
  PPPOE_DISC_MAXPADR = 1
  PERSIST = FALSE
  MaxConnects = 2
  PPPOL2TP_MAXSCCRQ = 1
  PPPOL2TP_MAXICRQ = 1
  PPPOL2TP_MAXICCN = 1
  L2TP_SECRET = FALSE
  L2TP_PERSIST = FALSE
  MaxDials = 2
  CONVS = {"c1", "c2", "c3"}
  MAX_SLOTS = 2
  COMPRESS_SLOT = {TRUE, FALSE}
  MAX_DELTA = 1
  VjFocuses = {"fields", "slots"}
  SLIP_MAX_SIZE = 2
  SlipBytes = {"END", "ESC", "x"}
  SlipModes = {"input", "single", "queue"}
  MaxSlipPackets = 2
  MaxLostBytes = 1
  HOSTS = {"h1", "h2"}
  PORTS <- MCPorts
  MAX_PORTS = 2
  FDBD = 1
  FDBS = 1
  BR_FDB_TIMEOUT_SEC = 2
  BridgeMbox = 1
  STATICS = {"h1"}
  ETHTYPES = {"arp", "other"}
  SENDERS = {1, 2}
  RECEIVER = 3
  CONTEXTS <- MCContexts
  LowpanFocuses = {"headers", "fragments"}
  FRAME = 6
  MaxDatagram = 8
  MaxLowpanSent = 2
  MaxRepeats = 1
INVARIANTS
  NegotiationAgrees LinkPhasesAgree FramesAreRestored
  DecryptsRight PppoeSessions L2tpTunnels HeadersRestored BridgeForwards
