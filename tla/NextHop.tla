------------------------------ MODULE NextHop ------------------------------
(***************************************************************************)
(* To which MAC a frame goes: the ARP part of tcpip.cpp with what uses it  *)
(* (dnsLookup, the API calls, the pings of ping_sweep.ino).  One variable, *)
(* destmacaddr, serves the DNS server, the server's address if it is local *)
(* and the pings in turn; gwmacaddr serves all that is not local.          *)
(*                                                                         *)
(* A host's MAC is written as the host.  ARP requests made to the board    *)
(* change nothing: they are answered in place, so that the code after it   *)
(* compares the board's own address.  The link is up.                      *)
(***************************************************************************)
EXTENDS Naturals

CONSTANTS
  Lan,     \* hosts of the LAN
  Gw,      \* gwip, one of them
  Phone,   \* target_mac and target_ip, one of them
  Web,     \* an address elsewhere
  NoIp,    \* 0.0.0.0, and a MAC never set
  allOnes, \* the broadcast address, as an IP address and as a MAC
  DnsIps,  \* what dnsip may be
  ApiIps,  \* what the name of the server may resolve to
  Cycle    \* of delaycnt: 65536

ASSUME NextHopAssumption ==
  /\ {Gw, Phone} \subseteq Lan /\ Web \notin Lan /\ NoIp \notin Lan \cup {Web}
  /\ allOnes \notin Lan \cup {Web, NoIp}
  /\ DnsIps \subseteq Lan \cup {Web} /\ ApiIps \subseteq Lan \cup {Web}
  /\ Cycle \in Nat \ {0, 1}

VARIABLES
  pc,        \* "dhcp", "dns", "answer" (dnsLookup's two waits), "ready", "loop", "call"
  bound,     \* myip is set
  dnsip, api_ip, hisip,
  waitgwmac, \* its flags
  delaycnt,
  gwmacaddr, destmacaddr,
  has_dns_mac, waiting_for_dns_mac, has_dest_mac, waiting_for_dest_mac,
  syn,       \* tcp_client_state = 1
  renewed,   \* the lease was renewed since the call began
  replies,   \* hosts whose ARP replies are on their way
  sent       \* history: the last SYN, datagram or ping, <<destination, MAC>>
dnsFlags == <<has_dns_mac, waiting_for_dns_mac>>
destFlags == <<has_dest_mac, waiting_for_dest_mac>>
gateway == <<waitgwmac, delaycnt, gwmacaddr>>
addresses == <<dnsip, api_ip>>
vars == <<pc, bound, addresses, hisip, gateway, destmacaddr, dnsFlags, destFlags,
          syn, renewed, replies, sent>>

is_lan(ip) == bound /\ ip \in Lan
MacFor(ip) == IF is_lan(ip) THEN destmacaddr ELSE gwmacaddr
\* The frames: an IP header with the destination and the MAC found for it;
\* multicasts and broadcasts have a MAC of their own.
setMACandIPs(mac, ip) == <<ip, mac>>
client_syn == setMACandIPs(MacFor(hisip), hisip)
udpPrepare(ip) == setMACandIPs(IF ip = allOnes THEN allOnes ELSE MacFor(ip), ip)
clientIcmpRequest(ip, mac) == setMACandIPs(mac, ip)
\* The broadcast ARP requests for the hosts given, and who may answer.
client_arp_whohas(ips) == replies' = replies \cup (ips \cap Lan)
\* A reply of the host asked for is taken, any other is not.
client_store_mac(ip, h) == h = ip
setGwIp == waitgwmac' = {"INITIAL_ARP"} /\ delaycnt' = 0
Unknown == <<NoIp, NoIp>>

Init ==
  /\ pc = "dhcp" /\ bound = FALSE /\ dnsip \in DnsIps /\ api_ip \in ApiIps /\ hisip = NoIp
  /\ waitgwmac = {} /\ delaycnt = 0 /\ gwmacaddr = NoIp /\ destmacaddr = NoIp
  /\ has_dns_mac = FALSE /\ waiting_for_dns_mac = FALSE
  /\ has_dest_mac = FALSE /\ waiting_for_dest_mac = FALSE
  /\ syn = FALSE /\ renewed = FALSE /\ replies = {} /\ sent = Unknown

Reboot ==
  /\ pc' = "dhcp" /\ bound' = FALSE /\ hisip' = NoIp
  /\ waitgwmac' = {} /\ delaycnt' = 0 /\ gwmacaddr' = NoIp /\ destmacaddr' = NoIp
  /\ has_dns_mac' = FALSE /\ waiting_for_dns_mac' = FALSE
  /\ has_dest_mac' = FALSE /\ waiting_for_dest_mac' = FALSE
  /\ syn' = FALSE /\ renewed' = FALSE /\ sent' = Unknown
  /\ UNCHANGED <<addresses, replies>>

----------------------------------------------------------------------------
(* packetLoop().                                                           *)

\* DhcpStateMachine: an acknowledgement, also of a renewal, calls setGwIp.
\* A lease is longer than a call.
\* A lease is not lost before dnsLookup is over: a renewal's time-out is
\* longer than the watchdog leaves it.
LeaseAcked ==
  /\ pc # "ready" /\ (pc = "call" => ~renewed)
  /\ renewed' = (pc = "call")
  /\ pc' = IF pc = "dhcp" THEN "dns" ELSE pc
  /\ bound' = TRUE /\ setGwIp
  /\ UNCHANGED <<addresses, hisip, gwmacaddr, destmacaddr, dnsFlags, destFlags, syn, replies, sent>>
LeaseLost ==
  /\ pc \in {"loop", "call"} /\ bound' = FALSE
  /\ UNCHANGED <<pc, addresses, hisip, gateway, destmacaddr, dnsFlags, destFlags, syn, renewed, replies, sent>>

\* Every Cycle empty polls, until a reply has come.
\* Mutant: once only.
AsksGw_Once == waitgwmac = {"INITIAL_ARP"} /\ delaycnt = 0
AsksGw == "INITIAL_ARP" \in waitgwmac /\ delaycnt = 0
\* Once only.
AsksDns == is_lan(dnsip) /\ ~has_dns_mac /\ ~waiting_for_dns_mac
AsksDest == is_lan(hisip) /\ ~has_dest_mac /\ ~waiting_for_dest_mac
\* Mutant: whether or not the gateway's MAC is known.
SendsSyn_Anyway == syn
SendsSyn == syn /\ "HAVE_GW_MAC" \in waitgwmac

\* No frame: the requests for the three MACs, and the pending SYN.
\* dnsLookup's second wait does not poll without a frame.
EmptyPoll ==
  /\ pc \in {"dns", "loop", "call"}
  /\ waitgwmac' = IF AsksGw THEN waitgwmac \cup {"ACCEPT_ARP_REPLY"} ELSE waitgwmac
  /\ client_arp_whohas({h \in {Gw} : AsksGw} \cup {h \in {dnsip} : AsksDns} \cup {h \in {hisip} : AsksDest})
  /\ delaycnt' = (delaycnt + 1) % Cycle
  /\ syn' = (syn /\ ~SendsSyn)
  /\ sent' = IF SendsSyn THEN client_syn ELSE sent
  /\ waiting_for_dns_mac' = (waiting_for_dns_mac \/ AsksDns)
  /\ waiting_for_dest_mac' = (waiting_for_dest_mac \/ AsksDest)
  /\ UNCHANGED <<pc, bound, addresses, hisip, gwmacaddr, destmacaddr, has_dns_mac, has_dest_mac, renewed>>

\* One reply may serve more than one of the three.
ArpReply(h) ==
  LET forDns == client_store_mac(dnsip, h) /\ ~has_dns_mac /\ waiting_for_dns_mac
      forDest == client_store_mac(hisip, h) /\ ~has_dest_mac /\ waiting_for_dest_mac
  IN /\ pc \notin {"dhcp", "ready"} /\ bound /\ h \in replies
     /\ IF "ACCEPT_ARP_REPLY" \in waitgwmac /\ client_store_mac(Gw, h)
        THEN waitgwmac' = {"HAVE_GW_MAC"} /\ gwmacaddr' = h
        ELSE UNCHANGED <<waitgwmac, gwmacaddr>>
     /\ destmacaddr' = IF forDns \/ forDest THEN h ELSE destmacaddr
     /\ has_dns_mac' = (has_dns_mac \/ forDns)
     /\ waiting_for_dns_mac' = (waiting_for_dns_mac /\ ~forDns)
     /\ has_dest_mac' = (has_dest_mac \/ forDest)
     /\ waiting_for_dest_mac' = (waiting_for_dest_mac /\ ~forDest)
     /\ \E r \in {replies, replies \ {h}} : replies' = r
     /\ UNCHANGED <<pc, bound, addresses, hisip, delaycnt, syn, renewed, sent>>

----------------------------------------------------------------------------
(* What uses it.                                                           *)

clientWaitingDns ==
  IF is_lan(dnsip) THEN ~has_dns_mac ELSE "HAVE_GW_MAC" \notin waitgwmac

\* dnsLookup(): one query ...
DnsRequest ==
  /\ pc = "dns" /\ ~clientWaitingDns
  /\ pc' = "answer" /\ hisip' = NoIp /\ sent' = udpPrepare(dnsip)
  /\ UNCHANGED <<bound, addresses, gateway, destmacaddr, dnsFlags, destFlags, syn, renewed, replies>>
\* ... and its answer.
DnsAnswer ==
  /\ pc = "answer" /\ sent[2] # NoIp
  /\ pc' = "ready" /\ hisip' = api_ip
  /\ UNCHANGED <<bound, addresses, gateway, destmacaddr, dnsFlags, destFlags, syn, renewed, replies, sent>>

\* An API call: hisip is set, and nothing known of its MAC forgotten.
Call ==
  /\ pc \in {"ready", "loop"} /\ bound
  /\ pc' = "call" /\ hisip' = api_ip /\ syn' = TRUE /\ renewed' = FALSE
  /\ UNCHANGED <<bound, addresses, gateway, destmacaddr, dnsFlags, destFlags, replies, sent>>
CallEnds ==
  /\ pc = "call" /\ ~syn
  /\ pc' = "loop"
  /\ UNCHANGED <<bound, addresses, hisip, gateway, destmacaddr, dnsFlags, destFlags, syn, renewed, replies, sent>>

\* selectAndArpDestAddr(), once for each address of the sweep.
SelectDest(ip) ==
  /\ pc = "loop" /\ is_lan(ip) /\ hisip # ip
  /\ hisip' = ip /\ has_dest_mac' = FALSE /\ waiting_for_dest_mac' = FALSE
  /\ UNCHANGED <<pc, bound, addresses, gateway, destmacaddr, dnsFlags, syn, renewed, replies, sent>>

forceDestMac(mac) ==
  destmacaddr' = mac /\ has_dest_mac' = TRUE /\ waiting_for_dest_mac' = FALSE
\* ping_target(): forceDestMac(), then the ping.
PingTarget ==
  /\ pc = "loop" /\ is_lan(Phone)
  /\ forceDestMac(Phone)
  /\ sent' = clientIcmpRequest(Phone, destmacaddr')
  /\ UNCHANGED <<pc, bound, addresses, hisip, gateway, dnsFlags, syn, renewed, replies>>

\* syslog(), from anywhere in setup(), loop() and the calls.
Syslog ==
  /\ pc \in {"ready", "loop", "call"} /\ sent' = udpPrepare(allOnes)
  /\ UNCHANGED <<pc, bound, addresses, hisip, gateway, destmacaddr, dnsFlags, destFlags, syn, renewed, replies>>

Lost(h) ==
  /\ h \in replies /\ replies' = replies \ {h}
  /\ UNCHANGED <<pc, bound, addresses, hisip, gateway, destmacaddr, dnsFlags, destFlags, syn, renewed, sent>>

Next ==
  \/ LeaseAcked \/ LeaseLost \/ EmptyPoll \/ Reboot
  \/ DnsRequest \/ DnsAnswer \/ Call \/ CallEnds \/ PingTarget \/ Syslog
  \/ \E h \in Lan : ArpReply(h) \/ SelectDest(h) \/ Lost(h)

\* The loops poll; a gateway that is asked again and again is heard.
Spec == Init /\ [][Next]_vars /\ WF_vars(EmptyPoll) /\ SF_vars(ArpReply(Gw))

----------------------------------------------------------------------------
\* Types; a MAC is not both known and waited for.
TypeOK ==
  /\ pc \in {"dhcp", "dns", "answer", "ready", "loop", "call"} /\ bound \in BOOLEAN
  /\ dnsip \in DnsIps /\ api_ip \in ApiIps /\ hisip \in Lan \cup {Web, NoIp}
  /\ waitgwmac \subseteq {"INITIAL_ARP", "HAVE_GW_MAC", "ACCEPT_ARP_REPLY"}
  /\ delaycnt \in 0..Cycle - 1 /\ {gwmacaddr, destmacaddr} \subseteq Lan \cup {NoIp}
  /\ {has_dns_mac, waiting_for_dns_mac, has_dest_mac, waiting_for_dest_mac, syn} \subseteq BOOLEAN
  /\ ~(has_dns_mac /\ waiting_for_dns_mac) /\ ~(has_dest_mac /\ waiting_for_dest_mac)
  /\ replies \subseteq Lan

\* Every SYN, datagram and ping goes to the MAC of its next hop, although the
\* MACs that are known change under the sweeps, the pings, lost and late
\* replies, and leases lost and renewed -- but the SYN for a server on the LAN,
\* which leaves before its MAC is asked for.
ToNextHop ==
  /\ TypeOK
  /\ sent # Unknown /\ ~(sent[1] = api_ip /\ api_ip \in Lan)
       => sent[2] = IF sent[1] \in Lan \cup {allOnes} THEN sent[1] ELSE Gw

\* A SYN that is pending is sent, or the lease is lost or the board restarts:
\* the gateway is asked for again and again (delaycnt).
SynLeaves == syn /\ bound ~> ~syn \/ ~bound
=============================================================================
