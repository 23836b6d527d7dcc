\* Two peers, SYNs answered twice, one request too short; three UDP listeners;
\* bytes at the edges, texts of two letters.
CONSTANTS
  Peers = {p, q}
  ShortPeers = {q}
  Request = 3
  MaxParts = 3
  PartLen = 10
  SeqnumMod = 8
  MaxSyn = 2
  Ports = {a, b}
  Foreign = c
  MaxListeners = 3
  SampleBytes = {0, 1, 127, 248, 255}
  MaxMessage = 5
  SampleChars = {97, 98}
  MaxText = 2
  PageBytes = 5
  StashLengths = {0, 1, 2, 6, 7, 8}
  HostName <- Name
  Addresses <- SomeAddresses
  Aliases <- SomeAliases
  MaxRecords = 3
SPECIFICATION ServersSpec
INVARIANTS PageInOrder OneConnection OwnNotServed
INVARIANTS NumbersAddUp DnsAddressFound BodiesFound TextsReadBack FormatsAgree
PROPERTY PageArrives
