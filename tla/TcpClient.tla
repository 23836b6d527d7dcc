------------------------------ MODULE TcpClient ------------------------------
(***************************************************************************)
(* The TCP client of ethercard/tcpip.cpp, as browseUrl and the firmware's  *)
(* API calls use it: one connection at a time, no retransmission, and      *)
(* almost nothing of an incoming segment looked at.  The network may lose, *)
(* delay, reorder and repeat segments: one that was sent may be delivered  *)
(* at any later time, any number of times, or never, until a reboot, which *)
(* outlasts them.                                                          *)
(***************************************************************************)
EXTENDS Naturals, FiniteSets

CONSTANTS
  FdMod,     \* tcp_fd counts modulo 8
  MaxReq,    \* bound on the requests made; below FdMod, as no segment is
             \* assumed to outlive eight requests
  MaxSyn     \* bound on the SYNs sent

ASSUME BoundsAssumption ==
  FdMod \in Nat \ {0} /\ MaxReq \in 1..(FdMod - 1) /\ MaxSyn \in Nat

VARIABLES
  tcp_client_state,  \* 1 SYN to send, 2 SYN sent, 3 request sent,
                     \* 5 reset, 6 closed; 0 after a restart
  tcp_fd,            \* number of the latest request, modulo FdMod
  www_fd,            \* the one browseUrl has registered its callback for
  src_port,          \* tcpclient_src_port_l
  given,             \* the request whose answer the last call succeeded with
  slot,              \* the operation the caller waits for, "none", or "boot"
  req,               \* how many requests were made
  op,                \* op[r]: what request r asks for
  net,               \* the segments that may be delivered
  conn,              \* the server's side of each port
  syns,              \* how many SYNs were sent
  on,                \* the server has the house lit
  handled,           \* the server has handled the present request
  orphans            \* requests given up before they were handled

client == <<tcp_client_state, tcp_fd, www_fd, src_port>>
server == <<conn, on, handled, orphans>>
vars == <<tcp_client_state, tcp_fd, www_fd, src_port, given, slot, req, op, net, conn,
          syns, on, handled, orphans>>

Ops == {"on", "off"}
Ports == (0..(FdMod - 1)) \X (1..(MaxSyn + 1))   \* fd << 5 | tcpclient_src_port_l
Fd(port) == port[1]

\* Segments; r is the request a GET or an answer belongs to, 0 elsewhere.
Up == [to : {"server"}, kind : {"SYN", "GET", "RST"}, port : Ports, r : 0..MaxReq]
Down == [to : {"client"}, kind : {"SYNACK", "ACK", "OK", "BAD", "FIN", "RST"},
         port : Ports, r : 0..MaxReq]
Seg(to, kind, port, r) == [to |-> to, kind |-> kind, port |-> port, r |-> r]

Init ==
  /\ tcp_client_state = 0 /\ tcp_fd = 0 /\ www_fd = 0 /\ src_port = 1
  /\ given = 0 /\ slot = "none" /\ req = 0 /\ op = [r \in 1..MaxReq |-> "on"]
  /\ net = {} /\ conn = [port \in Ports |-> "closed"] /\ syns = 0
  /\ on \in BOOLEAN /\ handled = FALSE /\ orphans = {}

----------------------------------------------------------------------------
(* The caller.                                                             *)

\* browseUrl and clientTcpReq: whatever the client was doing is forgotten.
BrowseUrl(o) ==
  /\ slot = "none" /\ req < MaxReq
  /\ given' = 0 /\ slot' = o /\ req' = req + 1 /\ op' = [op EXCEPT ![req + 1] = o]
  /\ tcp_client_state' = 1
  /\ tcp_fd' = (tcp_fd + 1) % FdMod /\ www_fd' = tcp_fd'
  /\ handled' = FALSE
  /\ UNCHANGED <<src_port, net, conn, syns, on, orphans>>

\* The caller's wait ends: with an answer, or with nothing it can use.
Waits == UNCHANGED <<given, slot, handled, orphans>>
Succeed(r) == given' = r /\ slot' = "none" /\ handled' = FALSE /\ UNCHANGED orphans
GiveUp(next) ==
  /\ UNCHANGED given /\ slot' = next /\ handled' = FALSE
  /\ orphans' = IF slot \in Ops /\ ~handled THEN orphans \cup {req} ELSE orphans

\* HTTP_TIMEOUT: the board starts to reboot, and has rebooted.
Timeout ==
  /\ slot \in Ops
  /\ GiveUp("boot")
  /\ UNCHANGED <<client, req, op, net, conn, syns, on>>
Reboot ==
  /\ slot = "boot"
  /\ slot' = "none"
  /\ tcp_client_state' = 0 /\ tcp_fd' = 0 /\ www_fd' = 0 /\ src_port' = 1
  /\ net' = {}
  /\ conn' = [port \in Ports |-> IF conn[port] = "closed" THEN "closed" ELSE "old"]
  /\ UNCHANGED <<given, req, op, syns, on, handled, orphans>>

----------------------------------------------------------------------------
(* packetLoop                                                              *)

Polling == slot # "boot"

\* No frame: the pending SYN is sent, from a new port, the gateway's address
\* being known.
SendSyn ==
  /\ Polling /\ tcp_client_state = 1 /\ syns < MaxSyn
  /\ tcp_client_state' = 2
  /\ src_port' = src_port + 1 /\ syns' = syns + 1
  /\ net' = net \cup {Seg("server", "SYN", <<tcp_fd, src_port'>>, 0)}
  /\ UNCHANGED <<tcp_fd, www_fd, given, slot, req, op, server>>

Arrives(s) == Polling /\ s \in net /\ s.to = "client"
Send(kind, port, r) == net' = net \cup {Seg("server", kind, port, r)}

\* www_client_internal_result_cb: a segment of another connection makes the
\* browser callback fail (status 4, no data).
\* Mutant: the session number is not compared.
ResultCb_AnyFd(s, status) ==
  IF status = 0 /\ s.kind = "OK" THEN Succeed(s.r)
  ELSE IF status = 0 /\ slot # "none" THEN GiveUp("none")
  ELSE Waits
ResultCb(s, status) ==
  IF slot = "none" THEN Waits
  ELSE IF Fd(s.port) # www_fd THEN GiveUp("none")
  ELSE IF status = 0 /\ s.kind = "OK" THEN Succeed(s.r)
  ELSE IF status = 0 THEN GiveUp("none")
  ELSE Waits

ReceiveRst(s) ==
  /\ Arrives(s) /\ s.kind = "RST"
  /\ ResultCb(s, 3)
  /\ tcp_client_state' = 5
  /\ UNCHANGED <<tcp_fd, www_fd, src_port, req, op, net, conn, syns, on>>

\* Mutant: a SYN+ACK that comes again is answered with the request again.
ReceiveSynAck_Again(s) ==
  /\ Arrives(s) /\ s.kind = "SYNACK" /\ tcp_client_state \in {2, 3}
  /\ tcp_client_state' = 3
  /\ Send("GET", s.port, req)
  /\ UNCHANGED <<tcp_fd, www_fd, src_port, given, slot, req, op, syns, server>>

\* State 2: the first SYN+ACK of any connection counts.  The request goes to
\* the port it came from, and is empty if that is not the present session's.
ReceiveSynAck(s) ==
  /\ Arrives(s) /\ s.kind = "SYNACK" /\ tcp_client_state = 2
  /\ tcp_client_state' = 3
  /\ IF Fd(s.port) = www_fd THEN Send("GET", s.port, req) ELSE UNCHANGED net
  /\ UNCHANGED <<tcp_fd, www_fd, src_port, given, slot, req, op, syns, server>>

\* State 2, anything else: reset that connection and start again.
ReceiveUnexpected(s) ==
  /\ Arrives(s) /\ s.kind \notin {"RST", "SYNACK"} /\ tcp_client_state = 2
  /\ tcp_client_state' = 1
  /\ Send("RST", s.port, 0)
  /\ UNCHANGED <<tcp_fd, www_fd, src_port, given, slot, req, op, syns, server>>

\* State 3, data: the callback, then a FIN, which tells the server nothing it
\* does anything about.
ReceiveData(s) ==
  /\ Arrives(s) /\ s.kind \in {"OK", "BAD"} /\ tcp_client_state = 3
  /\ ResultCb(s, 0)
  /\ tcp_client_state' = 6
  /\ UNCHANGED <<tcp_fd, www_fd, src_port, req, op, net, conn, syns, on>>

\* Any other state but 5: a FIN closes, whichever connection it ends (in
\* state 3 it is left for later).
ReceiveFin(s) ==
  /\ Arrives(s) /\ s.kind = "FIN" /\ tcp_client_state \in {0, 1, 6}
  /\ tcp_client_state' = 6
  /\ UNCHANGED <<tcp_fd, www_fd, src_port, given, slot, req, op, net, syns, server>>

Receive(s) ==
  \/ ReceiveRst(s) \/ ReceiveSynAck(s) \/ ReceiveUnexpected(s)
  \/ ReceiveData(s) \/ ReceiveFin(s)

----------------------------------------------------------------------------
(* The server, an ordinary TCP peer that speaks HTTP/1.0.                  *)

Reply(kinds, port, r) == net' = net \cup {Seg("client", kind, port, r) : kind \in kinds}
Reaches(s) == s \in net /\ s.to = "server"

\* A new connection; or, on a port still known from before a reboot, a new
\* one or the acknowledgement of an old one; or the acknowledgement of one
\* that has ended.  A segment that comes late cannot use such a port again:
\* the server waits it out, or answers with numbers of its own.
ServerSyn(s) ==
  /\ Reaches(s) /\ s.kind = "SYN"
  /\ \/ conn[s.port] \in {"closed", "old"}
        /\ conn' = [conn EXCEPT ![s.port] = "open"] /\ Reply({"SYNACK"}, s.port, 0)
     \/ conn[s.port] \in {"old", "over"} /\ Reply({"ACK"}, s.port, 0) /\ UNCHANGED conn
  /\ UNCHANGED <<client, given, slot, req, op, syns, on, handled, orphans>>

\* The request is handled, or refused with an error; then the connection is
\* closed.
ServerGet(s) ==
  /\ Reaches(s) /\ s.kind = "GET" /\ conn[s.port] = "open"
  /\ conn' = [conn EXCEPT ![s.port] = "over"]
  /\ \/ /\ on' = (op[s.r] = "on")
        /\ handled' = (handled \/ (s.r = req /\ slot \in Ops))
        /\ orphans' = orphans \ {s.r}
        /\ \E kind \in {"OK", "BAD"} : Reply({kind, "FIN"}, s.port, s.r)
     \/ Reply({"BAD", "FIN"}, s.port, s.r) /\ UNCHANGED <<on, handled, orphans>>
  /\ UNCHANGED <<client, given, slot, req, op, syns>>

\* The server gives a connection up, refuses what comes after it, or is told
\* to.
ServerRst(port) ==
  /\ conn[port] \in {"open", "over"}
  /\ conn' = [conn EXCEPT ![port] = "over"]
  /\ \/ Reply({"RST"}, port, 0)
     \/ Seg("server", "RST", port, 0) \in net /\ UNCHANGED net
  /\ UNCHANGED <<client, given, slot, req, op, syns, on, handled, orphans>>

----------------------------------------------------------------------------
Next ==
  \/ \E o \in Ops : BrowseUrl(o)
  \/ Timeout \/ Reboot \/ SendSyn
  \/ \E s \in net : Receive(s) \/ ServerSyn(s) \/ ServerGet(s)
  \/ \E port \in Ports : ServerRst(port)

Spec == Init /\ [][Next]_vars

----------------------------------------------------------------------------
\* The values of the variables: the callback is registered for the latest
\* session (tcpip.cpp:609), and an orphan is a past request.
TypeOK ==
  /\ tcp_client_state \in {0, 1, 2, 3, 5, 6}
  /\ tcp_fd \in 0..(FdMod - 1) /\ www_fd = tcp_fd
  /\ src_port \in 1..(MaxSyn + 1) /\ syns \in 0..MaxSyn
  /\ given \in 0..MaxReq /\ slot \in Ops \cup {"none", "boot"} /\ req \in 0..MaxReq
  /\ op \in [1..MaxReq -> Ops]
  /\ net \subseteq Up \cup Down
  /\ conn \in [Ports -> {"closed", "open", "over", "old"}]
  /\ on \in BOOLEAN /\ handled \in BOOLEAN
  /\ orphans \subseteq 1..req /\ (slot \in Ops => req \notin orphans)

\* A call that succeeds was given the answer to its own request, never a
\* late or repeated answer to an earlier one (tcpip.cpp:588-596).
AnswerIsOwn == TypeOK /\ given \in {0, req}

\* A request is sent on one connection only, however often the SYN is.
OneGet ==
  \A s, u \in net : s.kind = "GET" /\ u.kind = "GET" /\ s.r = u.r => s.port = u.port

\* The TCP client gives the API calls what OneCall says and House assumes.
Call == INSTANCE OneCall WITH
          slot <- IF slot \in Ops THEN slot ELSE "none",
          late <- {op[r] : r \in orphans}
RefinesOneCall == Call!Spec
=============================================================================
