SPECIFICATION Spec
CONSTANTS
  Parts = {"etharp", "frag", "dns", "nd6", "multicast", "dhcp", "ip"}
  ARPHOSTS = {h1, h2, h3}
  MOVERS = {h2}
  GATEWAY = h1
  ARP_TABLE_SIZE = 2
  ARP_QUEUE_LEN = 1
  ARP_MAXAGE = 3
  ARP_MAXPENDING = 2
  ARP_AGE_REREQUEST = 1
  UNIT = 2
  DATAGRAMS <- MCDatagrams
  ROOMS = {2, 4}
  CLENS = {1, 2}
  IP_REASS_MAX_PBUFS = 3
  MEMP_NUM_REASSDATA = 2
  IP_REASS_MAXAGE = 1
  VERSIONS = {4, 6}
  NAMES = {n1, n2}
  n1 = n1
  n2 = n2
  USES <- MCUses
  DNS_TABLE_SIZE = 2
  DNS_MAX_SOURCE_PORTS = 2
  DNS_MAX_RETRIES = 1
  DNS_MAX_TTL = 1
  DNS_MAX_SERVERS = 2
  SEQNO_MOD = 3
  TXIDS = {1, 2}
  r1 = r1
  r2 = r2
  h1 = h1
  l1 = l1
  l2 = l2
  l3 = l3
  HOSTS <- MCHosts
  PrefixOf <- MCPrefixOf
  ROUTERS = {r1, r2}
  PREFIXES = {"2001"}
  NUM_NEIGHBORS = 2
  NUM_DESTINATIONS = 2
  NUM_ROUTERS = 2
  NUM_PREFIXES = 1
  NUM_ADDRESSES = 2
  ND6_QUEUE = 1
  REACHABLE = 1
  DELAY_FIRST_PROBE = 1
  MAX_SOLICIT = 1
  DUP_DETECT_ATTEMPTS = 1
  LIFETIMES = {0, 1}
  TWO_HOURS = 1
  MaxAge = 1
  NdFocuses = {"neighbors", "routers", "prefixes", "addresses"}
  MHOSTS = {h1, h2}
  MGROUPS = {g1}
  PROTOCOLS_M = {"igmp", "mld"}
  JOIN_DELAY = 3
  MaxResp = 2
  MaxUse = 2
  MaxLan = 2
  QUERY_INTERVAL = 2
  MEMBERSHIP = 5
  LAST_MEMBER = 3
  LEASABLE = {"a1"}
  LINKLOCAL <- MCLinkLocal
  COARSE = 2
  WORD = 64
  MAX_TIMEOUT = 3
  DHCP_TRIES = 1
  REBOOT_TRIES = 1
  COOP_TRIES = 1
  TRIES_CAP = 2
  PROBE_NUM = 1
  ANNOUNCE_NUM = 1
  MAX_CONFLICTS = 1
  SCENARIOS <- MCScenarios
  IFS = {"a0", "r0", "r1", "b0"}
  NODES = {"A", "B", "R"}
  OwnerOf <- MCOwnerOf
  LanOf <- MCLanOf
  NetifList <- MCNetifList
  ROUTER = "R"
  FAMILIES = {4, 6}
  ADDRSTATES = {"tentative", "deprecated", "preferred"}
  HBHS = {"none", "report", "report_unicast"}
  NARROW = {"r1"}
  WORLDS <- MCWorlds
INVARIANTS
  ArpDelivers DatagramsReassembled DnsAnswersFit NeighborsAgree
  MembershipsAreKnown LeasesAreTimed IpAnswersAreWarranted
