CONSTANTS
  www = www
  inside = inside
  loop = loop
  single = single
  Blank = blank
  Names = {www}
  Suffixes = {}
  Literals = {single}
  PermanentlyDenied = {loop}
  Addresses <- MCAddresses
  Covers <- MCCovers
  AllOf <- MCAllOf
  HostsOf <- MCHostsOf
  Ports <- MCPorts
  CommonPorts <- MCCommonPorts
  Serves <- MCServes
  Sensitive <- MCSensitive
  Calls <- MCCalls
  Zones <- MCZones
  Wires <- MCWires
  MaxLate = 1
  MaxPointers = 2
  Protocols = {"TLSv1.1", "TLSv1.2", "TLSv1.3"}
  Certificates <- MCCertificates
  Paths <- MCPaths
  PathWeight <- MCPathWeight
  PlainPaths = {"/.env"}
  Responses <- MCResponses
  SecurePorts = {443}
  Banners <- MCBanners
SPECIFICATION MainSpec
INVARIANTS
  MainTypeOK
  FoundExact
  NothingLeftBehind
  CursorExact
  VerdictsTrue
  FaultReported
  OnlyVerifiedFields
  SocketsClosed
  ProbesIndependent
  EachReplyItsOwn
  ExitFaithful
PROPERTIES
  EngineImplemented
  MainEnds
