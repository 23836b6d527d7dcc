\* The server on the LAN or elsewhere, the DNS server anywhere.
CONSTANTS
  Lan = {gw, dns, phone, api}
  Gw = gw
  Phone = phone
  Web = web
  NoIp = NoIp
  allOnes = allOnes
  DnsIps = {gw, dns, web}
  Cycle = 2
  ApiIps = {web, api}
SPECIFICATION Spec
INVARIANTS ToNextHop
PROPERTY SynLeaves
