SPECIFICATION Spec
CONSTANTS
  Parts = {"tcp", "transport", "loopback", "heap", "pbuf", "tcpip", "timeouts", "netconn", "sockets", "options"}
  SEQ = 8
  TCP_WND = 2
  TCP_MSS = 1
  TCP_SND_BUF = 3
  TCP_SND_QUEUELEN = 4
  TCP_WND_UPDATE_THRESHOLD = 1
  TCPWND_MAX = 8
  TCP_MAXRTX = 3
  TCP_SYNMAXRTX = 2
  ISS <- MCISS
  MaxBytes <- MCMaxBytes
  TcpWriteSizes <- MCWriteSizes
  MaxFlight = 2
  Budget <- MCBudget
  BACKLOG = 1
  TCP_PCBS = {1, 2}
  LISTEN_PCBS = {3}
  IPS = {"host4", "other4"}
  TCP_LOCAL_PORT_RANGE_START = 10
  TCP_LOCAL_PORT_RANGE_END = 11
  TCP_PRIO_MAX = 2
  MaxAge = 1
  UDP_PCBS = {1, 2}
  RAW_PCBS = {1, 2}
  UDP_LOCAL_PORT_RANGE_START = 10
  UDP_LOCAL_PORT_RANGE_END = 11
  NETIFS = {1, 2}
  NETIF_NUMS = 3
  LWIP_SINGLE_NETIF = FALSE
  LWIP_IPV6_NUM_ADDRESSES = 2
  EXT_CALLBACKS = {1}
  BindPorts = {0, 10}
  RemotePorts = {7}
  UserIps = {"host4", "other4"}
  TcpIps = {"host4"}
  TcpPrios = {1, 2}
  Focuses = {"tcp", "udp", "raw", "netif", "netif6", "move"}
  MEM_SIZE = 8
  SIZEOF_STRUCT_MEM = 1
  MIN_SIZE = 1
  MallocSizes = {0, 1, 3, 9}
  POOLS <- MCPools
  PBUFS = {1, 2, 3}
  U16 = 5
  POOL_BUFSIZE = 2
  Packets <- MCPackets
  HeaderRoom = 1
  MaxHeld = 2
  MaxPbufSteps = 6
  TIME = 12
  CYCLIC <- MCCyclic
  TCP_TMR_INTERVAL = 2
  UserDelays = {0, 3}
  MaxUser = 1
  MaxPcbs = 1
  MaxLate = 2
  EndOfTime = 14
  CALLERS = {t1, t2}
  SYS_MBOX_SIZE = 2
  API_POOL = 2
  INPKT_POOL = 1
  CORE_LOCKINGS = {TRUE, FALSE}
  TIMERS = TRUE
  CONNS = {c1, c2}
  NCTHREADS = {t1, t2}
  RECVMBOX_SIZE = 1
  ACCEPTMBOX_SIZE = 1
  NETCONN_SND_BUF = 3
  TCP_SNDLOWAT = 1
  WriteSizes = {1, 4}
  POLLS = 1
  MaxChunks = 2
  MaxNew = 1
  MaxConnections = 2
  NUM_SOCKETS = 2
  SOCKCONNS = {c1, c2}
  SOCKTHREADS = {t1, t2}
  SOCK_MBOX_SIZE = 1
  MaxSockEvents = 1
  MaxSockCalls = 3
  WatchSets <- MCWatchSets
  U8 = 4
  OPT_U16 = 16
  U32 = 40
  S16MAX = 7
  MSECS = 3
  OptValues = {0, 2, 9, 20}
  OPTSOCKS = {c1, c2}
  GROUPS = {t1, t2}
  LWIP_SOCKET_MAX_MEMBERSHIPS = 3
  MaxOptSteps = 2
  LOOP_MAX_PBUFS = 5
  ChainLengths = {1, 2}
  LOOP_MBOX = 2
SYMMETRY MCSymmetry
INVARIANTS
  TcpStreamIsKept TransportIsConsistent WorkIsScheduled MemoryIsAccounted
  NobodySleepsOnWork HolderIsRunner NetconnTellsItsThreads SocketsServeTheirThreads
PROPERTY PromisesAreKept
