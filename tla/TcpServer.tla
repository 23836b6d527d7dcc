----------------------------- MODULE TcpServer -----------------------------
(***************************************************************************)
(* The TCP server of tcpip.cpp: accept(), which packetLoop() ends in, and  *)
(* the httpServerReply calls a sketch answers a request with.  It keeps no *)
(* connection at all: every answer is made from the segment it answers, in *)
(* the same buffer, and nothing is ever sent again.                        *)
(*                                                                         *)
(* A peer is an ordinary TCP client.  The network may lose, delay, repeat  *)
(* and reorder segments: what was sent may arrive any number of times.     *)
(***************************************************************************)
EXTENDS Integers, FiniteSets

CONSTANTS
  Peers,           \* clients, each with a port
  ShortPeers,      \* those whose request is too short for accept()
  Request,         \* length of a request
  MaxParts,        \* a page is sent in up to so many parts ...
  PartLen,         \* ... of this length
  SeqnumMod,       \* of seqnum: 256
  MaxSyn           \* bound on the answers to one peer's SYNs

ASSUME TcpServerAssumption ==
  /\ ShortPeers \subseteq Peers /\ IsFiniteSet(Peers)
  /\ {Request, MaxParts, PartLen, SeqnumMod, MaxSyn} \subseteq Nat \ {0}
  /\ MaxParts * PartLen < 254

VARIABLES
  seqnum, \* the first number of the next SYN+ACK, over 256
  parts,  \* how the sketch sends its page
  net,    \* the segments that may arrive
  peer    \* the peers' sides of their connections
vars == <<seqnum, parts, net, peer>>

None == -1
Seg(p, to, flags, seq, ack, part) ==
  [p |-> p, to |-> to, flags |-> flags, seq |-> seq, ack |-> ack, part |-> part]
Send(segments) == net' = net \cup segments

----------------------------------------------------------------------------
(* The board.  A segment of its own is made of the one in the buffer.      *)

\* step_seq with cp_seq: what the peer acknowledged is the next number, and
\* the peer's number and what it sent are acknowledged.
\* Mutant: the preset value, as for a SYN+ACK.
make_tcphead_Preset(s, rel, flags) == Seg(s.p, "peer", flags, 0, s.seq + rel, None)
make_tcphead(s, rel, flags) == Seg(s.p, "peer", flags, s.ack, s.seq + rel, None)

make_tcp_synack_from_syn(s) == [make_tcphead(s, 1, {"SYN", "ACK"}) EXCEPT !.seq = 256 * seqnum]
StepSeqnum == seqnum' = (seqnum + 3) % SeqnumMod

\* Without data it is the FIN that is acknowledged.
\* Mutant: only data is.
make_tcp_ack_from_any_DataOnly(s, len) == make_tcphead(s, len, {"ACK"})
make_tcp_ack_from_any(s, len) == make_tcphead(s, IF len = 0 THEN 1 ELSE len, {"ACK"})

\* Part k of a page, from the acknowledgement left in the buffer; with a FIN
\* if it is the last.
\* Mutant: SEQ is not advanced.
make_tcp_ack_with_data_NoStep(ack, k) ==
  [ack EXCEPT !.part = k, !.flags = IF k = parts THEN {"ACK", "PSH", "FIN"} ELSE {"ACK"}]
make_tcp_ack_with_data(ack, k) ==
  [ack EXCEPT !.part = k, !.seq = @ + (k - 1) * PartLen,
              !.flags = IF k = parts THEN {"ACK", "PSH", "FIN"} ELSE {"ACK"}]

\* httpServerReply sends one part; after httpServerReplyAck,
\* httpServerReply_with_flags sends one after another.
httpServerReply(s) ==
  LET ack == make_tcp_ack_from_any(s, Request)
  IN {ack} \cup {make_tcp_ack_with_data(ack, k) : k \in 1 .. parts}

Arrives(s) == s \in net /\ s.to = "board"
get_tcp_data_len(s) == IF s.part = None THEN 0 ELSE Request
\* `pos <= plen - 8': fewer than eight bytes, padding included, are ignored.
LongEnough(s) == s.p \notin ShortPeers

AcceptSyn(s) ==
  /\ Arrives(s) /\ "SYN" \in s.flags
  /\ Cardinality({t \in net : t.to = "peer" /\ t.p = s.p /\ "SYN" \in t.flags}) < MaxSyn
  /\ Send({make_tcp_synack_from_syn(s)}) /\ StepSeqnum
  /\ UNCHANGED <<parts, peer>>
AcceptData(s) ==
  /\ Arrives(s) /\ "SYN" \notin s.flags /\ "ACK" \in s.flags
  /\ get_tcp_data_len(s) > 0 /\ LongEnough(s)
  /\ Send(httpServerReply(s))
  /\ UNCHANGED <<seqnum, parts, peer>>
AcceptFin(s) ==
  /\ Arrives(s) /\ "SYN" \notin s.flags /\ "ACK" \in s.flags
  /\ get_tcp_data_len(s) = 0 /\ "FIN" \in s.flags
  /\ Send({make_tcp_ack_from_any(s, 0)})
  /\ UNCHANGED <<seqnum, parts, peer>>
Accept(s) == AcceptSyn(s) \/ AcceptData(s) \/ AcceptFin(s)

----------------------------------------------------------------------------
(* The peers (external).  Their own numbers begin at 0.                    *)

\* first: the board's first number; got: which part was received at each
\* place of the stream; end: the place of the FIN.
Closed == [state |-> "closed", first |-> None, got |-> <<>>, end |-> None]
Whole(p) == peer[p].end # None /\ 1 .. peer[p].end \subseteq DOMAIN peer[p].got

PeerSyn(p) ==
  /\ peer[p].state = "closed"
  /\ peer' = [peer EXCEPT ![p].state = "synsent"]
  /\ Send({Seg(p, "board", {"SYN"}, 0, 0, None)})
  /\ UNCHANGED <<seqnum, parts>>

\* The first SYN+ACK counts; it is acknowledged, and the request sent.
PeerSynAck(s) ==
  /\ s \in net /\ s.to = "peer" /\ "SYN" \in s.flags
  /\ peer[s.p].state = "synsent" /\ s.ack = 1
  /\ peer' = [peer EXCEPT ![s.p].state = "open", ![s.p].first = s.seq]
  /\ Send({Seg(s.p, "board", {"ACK"}, 1, s.seq + 1, part) : part \in {None, 0}})
  /\ UNCHANGED <<seqnum, parts>>

\* Data is kept at the place its number says, if nothing is there yet.
PeerData(s) ==
  LET offset == s.seq - (peer[s.p].first + 1)
      k == offset \div PartLen + 1
  IN /\ s \in net /\ s.to = "peer" /\ s.part # None
     /\ peer[s.p].state = "open" /\ s.ack = 1 + Request
     /\ offset % PartLen = 0 /\ k \in 1 .. MaxParts /\ k \notin DOMAIN peer[s.p].got
     /\ peer' = [peer EXCEPT
          ![s.p].got = [j \in DOMAIN @ \cup {k} |-> IF j = k THEN s.part ELSE @[j]],
          ![s.p].end = IF "FIN" \in s.flags THEN k ELSE @]
     /\ UNCHANGED <<seqnum, parts, net>>

\* When all is there, the peer closes its side too.
PeerCloses(p) ==
  /\ peer[p].state = "open" /\ Whole(p)
  /\ peer' = [peer EXCEPT ![p].state = "closing"]
  /\ Send({Seg(p, "board", {"FIN", "ACK"}, 1 + Request, peer[p].first + 2 + peer[p].end * PartLen, None)})
  /\ UNCHANGED <<seqnum, parts>>
PeerClosed(s) ==
  /\ s \in net /\ s.to = "peer"
  /\ peer[s.p].state = "closing" /\ s.ack = 2 + Request
  /\ peer' = [peer EXCEPT ![s.p].state = "done"]
  /\ UNCHANGED <<seqnum, parts, net>>

PeerReceives(s) == PeerSynAck(s) \/ PeerData(s) \/ PeerClosed(s)

----------------------------------------------------------------------------
Init ==
  /\ seqnum \in 0 .. SeqnumMod - 1 /\ parts \in 1 .. MaxParts
  /\ net = {} /\ peer = [p \in Peers |-> Closed]

Next ==
  \/ \E p \in Peers : PeerSyn(p) \/ PeerCloses(p)
  \/ \E s \in net : Accept(s) \/ PeerReceives(s)

\* Both sides go on, and of everything sent one copy arrives.
Fairness ==
  /\ WF_vars(\E s \in net : Accept(s)) /\ WF_vars(\E s \in net : PeerReceives(s))
  /\ WF_vars(\E p \in Peers : PeerCloses(p))
Spec == Init /\ [][Next]_vars /\ Fairness

----------------------------------------------------------------------------
\* Types; seqnum is a byte.
TypeOK ==
  /\ seqnum \in 0 .. SeqnumMod - 1 /\ parts \in 1 .. MaxParts
  /\ \A s \in net : /\ s.p \in Peers /\ s.to \in {"board", "peer"}
                    /\ s.flags \subseteq {"SYN", "ACK", "PSH", "FIN"}
                    /\ s.part \in {None} \cup 0 .. MaxParts
  /\ \A p \in Peers : peer[p].state \in {"closed", "synsent", "open", "closing", "done"}

\* The peer reads the parts of the page in their order and the end after the
\* last, whichever copies of its SYN and of its request were answered, and in
\* whichever order the answers came.
PageInOrder ==
  /\ TypeOK
  /\ \A p \in Peers : /\ \A j \in DOMAIN peer[p].got : peer[p].got[j] = j
                      /\ peer[p].end \in {None, parts}

\* The board answers each copy of a SYN with another first number and
\* remembers none; still all it sends later to a peer is numbered from the one
\* the peer took, and acknowledges only what that peer has sent.
OneConnection ==
  \A s \in net : s.to = "peer" /\ "SYN" \notin s.flags =>
    /\ s.seq - (peer[s.p].first + 1) \in {k * PartLen : k \in 0 .. parts} \cup {parts * PartLen + 1}
    /\ \E t \in net : t.to = "board" /\ t.p = s.p
         /\ s.ack = t.seq + get_tcp_data_len(t) + (IF "FIN" \in t.flags THEN 1 ELSE 0)

\* A peer that asks gets the whole page and an orderly end, unless its request
\* is too short -- or something is lost: nobody sends an answer again.
PageArrives == \A p \in Peers \ ShortPeers : peer[p].state = "synsent" ~> peer[p].state = "done"
=============================================================================
