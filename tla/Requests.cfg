CONSTANTS
  ann = ann
  bob = bob
  g = g
  d = d
  t1 = t1
  t2 = t2
  t3 = t3
  t4 = t4
  h = h
  proxy = proxy
  other = other
  NoName = NoName
  NoDomain = NoDomain
  NoToken = NoToken
  NoClaims = NoClaims
  NoSession = NoSession
  NoURI = NoURI
  Socket = Socket
  NoAddr = NoAddr
  BadAddr = BadAddr
  Client = Client
  Canonical = "dash"
  Spellings = {"dash", "under"}
  Names = {ann, bob}
  Groups = {g, h}
  Domains = {d}
  Tokens = {t1, t2, t3, t4}
  Addrs = {proxy, other}
  TrustedIPs = {proxy}
  TrustedProxies = {proxy}
  ApiRoutes = {"api"}
  AllowedGroups = {g}
  BasicGroups = {g, h}
  DomainOf <- MCDomainOf
  Claims <- MCClaims
  ProviderSessions <- MCProviderSessions
  URIs <- MCURIs
  EndpointOf <- MCEndpointOf
  Routes <- MCRoutes
  Requests <- MCRequests
  Configs <- MCConfigs
  EmailLists <- MCEmailLists
  UserLists <- MCUserLists
SPECIFICATION Spec
INVARIANTS
  VerifiedTokenWins
  HeadersFromSession
  InvalidTokenStops
  RefusedIsLoggedOut
PROPERTY UpstreamEntitled
