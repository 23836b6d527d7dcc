------------------------------ MODULE Servers ------------------------------
(***************************************************************************)
(* The two servers.  They have only the packet buffer in common, which the *)
(* one does not use between packets and in the other may hold any frame,   *)
(* so a behaviour has packets of one kind.  With them the arithmetic of    *)
(* the packets, whose functions are checked over their samples.            *)
(***************************************************************************)
EXTENDS TcpServer, UdpServer, Packets, Dns, Response

ServersInit == Init /\ UdpInit
TcpNext == listeners = <<>> /\ Next /\ UNCHANGED udpVars
UdpTurn == net = {} /\ seqnum = 0 /\ parts = 1 /\ UdpNext /\ UNCHANGED vars
ServersSpec == ServersInit /\ [][TcpNext \/ UdpTurn]_<<vars, udpVars>> /\ Fairness

\* The pure functions read no variable: it is enough to look at them in one
\* state.
Once == listeners = <<>> /\ net = {} /\ seqnum = 0 /\ parts = 1
\* Checksums verify, of packets and of replies to pings, and sequence numbers
\* are added modulo 2^32, but where EchoReplyVerifies and StepSeqAdds say.
NumbersAddUp == Once => ChecksumVerifies /\ EchoReplyVerifies /\ StepSeqAdds
\* find_response finds the body of a good answer, once a byte of it is there.
BodiesFound == Once => BodyFound
\* The first address in a DNS answer is the one taken.
DnsAddressFound == Once => DnsFindsAddress
=============================================================================
