--------------------------- MODULE NextHopProofs ---------------------------
(***************************************************************************)
(* Frames reach their next hop on every LAN, whatever the addresses of the *)
(* server and of the DNS server and however rarely the gateway is asked.   *)
(***************************************************************************)
EXTENDS NextHop, TLAPS

USE NextHopAssumption

\* The gateway's MAC is the one that counts as known.
GatewayKnown == "HAVE_GW_MAC" \in waitgwmac => gwmacaddr = Gw

\* dnsLookup() comes before everything else that uses destmacaddr: until its
\* query is sent, nobody asks for another host, and the address is kept.
DnsFirst ==
  /\ pc \in {"dns", "answer", "ready"} => bound
  /\ pc \in {"dhcp", "dns"} => hisip = NoIp /\ ~waiting_for_dest_mac
  /\ pc \in {"dhcp", "dns"} /\ has_dns_mac => destmacaddr = dnsip

\* A SYN is pending only in a call, and goes to the server.
SynIsCalls == syn => pc = "call" /\ hisip = api_ip

HopInv == ToNextHop /\ GatewayKnown /\ DnsFirst /\ SynIsCalls

----------------------------------------------------------------------------
(* The frames, by what is known when they are sent.                        *)

\* Sent at all, a SYN goes to the gateway, or the server is on the LAN.
LEMMA SynToGateway ==
  ASSUME HopInv, SendsSyn
  PROVE  client_syn = <<api_ip, Gw>> \/ api_ip \in Lan
  BY DEF HopInv, ToNextHop, TypeOK, GatewayKnown, SynIsCalls, SendsSyn, client_syn, setMACandIPs,
     MacFor, is_lan

\* The query goes to the DNS server or to the gateway.
LEMMA DnsToHop ==
  ASSUME HopInv, pc = "dns", ~clientWaitingDns
  PROVE  udpPrepare(dnsip) = <<dnsip, IF dnsip \in Lan THEN dnsip ELSE Gw>>
  BY DEF HopInv, ToNextHop, TypeOK, GatewayKnown, DnsFirst, clientWaitingDns, udpPrepare,
     setMACandIPs, MacFor, is_lan

----------------------------------------------------------------------------
LEMMA HopInit == Init => HopInv
  <1> SUFFICES ASSUME Init PROVE HopInv
    OBVIOUS
  <1>1. TypeOK
    <2>1. 0 \in 0..Cycle - 1
      OBVIOUS
    <2> QED  BY <2>1 DEF Init, TypeOK
  <1> QED  BY <1>1 DEF Init, HopInv, ToNextHop, GatewayKnown, DnsFirst, SynIsCalls

\* What polls for nothing sends is the pending SYN.
LEMMA EmptyPollKeepsHop == HopInv /\ EmptyPoll => HopInv'
  <1> SUFFICES ASSUME HopInv, EmptyPoll PROVE HopInv'
    OBVIOUS
  <1>1. TypeOK'
    <2>1. delaycnt' \in 0..Cycle - 1
      BY DEF HopInv, ToNextHop, TypeOK, EmptyPoll
    <2>2. waitgwmac' \subseteq {"INITIAL_ARP", "HAVE_GW_MAC", "ACCEPT_ARP_REPLY"} /\ replies' \subseteq Lan
      BY DEF HopInv, ToNextHop, TypeOK, EmptyPoll, client_arp_whohas
    <2> QED  BY <2>1, <2>2 DEF HopInv, ToNextHop, TypeOK, EmptyPoll, AsksDns, AsksDest, addresses
  <1>2. sent' = sent \/ (sent' = client_syn /\ SendsSyn)
    BY DEF EmptyPoll
  <1>3. ToNextHop'
    <2>1. CASE sent' = sent
      BY <1>1, <2>1 DEF HopInv, ToNextHop, EmptyPoll, addresses, Unknown
    <2>2. CASE sent' = client_syn /\ SendsSyn
      BY <1>1, <2>2, SynToGateway DEF HopInv, ToNextHop, TypeOK, EmptyPoll, addresses, client_syn, setMACandIPs, SynIsCalls, SendsSyn, Unknown
    <2> QED  BY <1>2, <2>1, <2>2
  <1>4. GatewayKnown' /\ DnsFirst' /\ SynIsCalls'
    BY DEF HopInv, GatewayKnown, DnsFirst, SynIsCalls, EmptyPoll, AsksDest, is_lan, addresses
  <1> QED  BY <1>3, <1>4 DEF HopInv

\* One reply may serve the gateway, the DNS server and the destination.
LEMMA ReplyKeepsHop ==
  ASSUME NEW h \in Lan, HopInv, ArpReply(h)
  PROVE  HopInv'
  <1>1. TypeOK'
    BY DEF HopInv, ToNextHop, TypeOK, ArpReply, addresses
  <1>2. GatewayKnown'
    BY DEF HopInv, GatewayKnown, ArpReply, client_store_mac
  <1>3. DnsFirst'
    BY DEF HopInv, DnsFirst, ArpReply, client_store_mac, addresses
  <1>4. ToNextHop' /\ SynIsCalls'
    BY <1>1 DEF HopInv, ToNextHop, SynIsCalls, ArpReply, addresses, Unknown
  <1> QED  BY <1>2, <1>3, <1>4 DEF HopInv

\* The datagrams and pings.
LEMMA SendingKeepsHop == HopInv /\ (DnsRequest \/ PingTarget \/ Syslog) => HopInv'
  <1> SUFFICES ASSUME HopInv, DnsRequest \/ PingTarget \/ Syslog PROVE HopInv'
    OBVIOUS
  <1>1. CASE DnsRequest
    <2>1. sent' = <<dnsip, IF dnsip \in Lan THEN dnsip ELSE Gw>>
      BY <1>1, DnsToHop DEF DnsRequest
    <2>2. TypeOK'
      BY <1>1 DEF HopInv, ToNextHop, TypeOK, DnsRequest, addresses, gateway, dnsFlags, destFlags
    <2>3. ToNextHop'
      BY <1>1, <2>1, <2>2 DEF HopInv, ToNextHop, TypeOK, DnsRequest, addresses
    <2> QED
      BY <1>1, <2>3 DEF HopInv, GatewayKnown, DnsFirst, SynIsCalls, DnsRequest, addresses, gateway, dnsFlags, destFlags
  <1>2. CASE PingTarget
    <2>1. sent' = <<Phone, Phone>>
      BY <1>2 DEF PingTarget, forceDestMac, clientIcmpRequest, setMACandIPs
    <2>2. TypeOK'
      BY <1>2 DEF HopInv, ToNextHop, TypeOK, PingTarget, forceDestMac, addresses, gateway, dnsFlags
    <2>3. ToNextHop'
      BY <1>2, <2>1, <2>2 DEF HopInv, ToNextHop, PingTarget, addresses
    <2> QED
      BY <1>2, <2>3 DEF HopInv, GatewayKnown, DnsFirst, SynIsCalls, PingTarget, addresses, gateway, dnsFlags
  <1>3. CASE Syslog
    <2>1. sent' = <<allOnes, allOnes>>
      BY <1>3 DEF Syslog, udpPrepare, setMACandIPs
    <2>2. TypeOK'
      BY <1>3 DEF HopInv, ToNextHop, TypeOK, Syslog, addresses, gateway, dnsFlags, destFlags
    <2>3. ToNextHop'
      BY <1>3, <2>1, <2>2 DEF HopInv, ToNextHop, Syslog, addresses
    <2> QED
      BY <1>3, <2>3 DEF HopInv, GatewayKnown, DnsFirst, SynIsCalls, Syslog, addresses, gateway, dnsFlags, destFlags
  <1> QED  BY <1>1, <1>2, <1>3

\* Everything else sends nothing, but changes what the next frame rests on.
LEMMA QuietKeepsHop ==
  ASSUME HopInv,
         \/ LeaseAcked \/ LeaseLost \/ Reboot \/ DnsAnswer \/ Call \/ CallEnds
         \/ \E h \in Lan : SelectDest(h) \/ Lost(h)
         \/ UNCHANGED vars
  PROVE  HopInv'
  <1> USE DEF HopInv, ToNextHop, TypeOK, GatewayKnown, DnsFirst, SynIsCalls, addresses, gateway, dnsFlags, destFlags, Unknown
  <1>1. CASE LeaseAcked
    <2>1. delaycnt' \in 0..Cycle - 1
      BY <1>1 DEF LeaseAcked, setGwIp
    <2> QED  BY <1>1, <2>1 DEF LeaseAcked, setGwIp
  <1>2. CASE LeaseLost
    BY <1>2 DEF LeaseLost
  <1>3. CASE Reboot
    <2>1. delaycnt' \in 0..Cycle - 1
      BY <1>3 DEF Reboot
    <2> QED  BY <1>3, <2>1 DEF Reboot
  <1>4. CASE DnsAnswer
    BY <1>4 DEF DnsAnswer
  <1>5. CASE Call
    BY <1>5 DEF Call
  <1>6. CASE CallEnds
    BY <1>6 DEF CallEnds
  <1>7. CASE \E h \in Lan : SelectDest(h)
    <2> PICK h \in Lan : SelectDest(h)
      BY <1>7
    <2>1. TypeOK'
      BY DEF SelectDest
    <2>2. ToNextHop'
      BY <2>1 DEF SelectDest
    <2> QED  BY <2>2 DEF SelectDest
  <1>8. CASE \E h \in Lan : Lost(h)
    BY <1>8 DEF Lost
  <1>9. CASE UNCHANGED vars
    BY <1>9 DEF vars
  <1> QED  BY <1>1, <1>2, <1>3, <1>4, <1>5, <1>6, <1>7, <1>8, <1>9

\* Every SYN, datagram and ping goes to the MAC of its next hop, but the SYN
\* for a server on the LAN: one variable for three kinds of peers is enough.
THEOREM FramesToNextHop == Spec => []ToNextHop
  <1>1. HopInv /\ [Next]_vars => HopInv'
    BY EmptyPollKeepsHop, ReplyKeepsHop, SendingKeepsHop, QuietKeepsHop DEF Next
  <1>2. HopInv => ToNextHop
    BY DEF HopInv
  <1> QED  BY HopInit, <1>1, <1>2, PTL DEF Spec
=============================================================================
