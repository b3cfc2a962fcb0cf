CONSTANTS
  www = www
  sub = sub
  dom = dom
  inside = inside
  outside = outside
  shut = shut
  loop = loop
  single = single
  range = range
  Blank = blank
  Names = {www, sub}
  Suffixes = {dom}
  Literals = {single, range}
  PermanentlyDenied = {loop}
  Addresses <- MCAddresses
  Covers <- MCCovers
  AllOf <- MCAllOf
  HostsOf <- MCHostsOf
  Ports <- MCPorts
  CommonPorts <- MCCommonPorts
  Serves <- MCServes
  Calls <- MCCalls
SPECIFICATION FairSpec
INVARIANTS
  TypeOK
  ContactsPermitted
  OwnPortsOnly
  EveryTargetAccounted
PROPERTIES
  Terminates
