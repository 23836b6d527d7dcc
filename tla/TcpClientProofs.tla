-------------------------- MODULE TcpClientProofs ---------------------------
(***************************************************************************)
(* A client that looks at almost nothing of a segment, and still takes no  *)
(* answer but its own: for all numbers of sessions, requests and SYNs, as  *)
(* long as no segment outlives FdMod requests.                             *)
(***************************************************************************)
EXTENDS TcpClient, TLAPS

----------------------------------------------------------------------------
(* The inductive invariant.                                                *)

\* Since the last restart, the session number of a request's segments says
\* which request it was.
Sessions ==
  \E base \in 0 .. req :
    /\ tcp_fd = req - base
    /\ \A s \in net : s.kind \in {"GET", "OK"} => s.r \in base .. req /\ Fd(s.port) = s.r - base

\* What the caller waits for is the latest request.
Caller ==
  /\ given \in {0, req} /\ src_port <= syns + 1
  /\ slot \in Ops => req >= 1 /\ op[req] = slot
  /\ handled => slot \in Ops

\* As long as there is a SYN to send or to be answered, the caller waits, and
\* its request is not sent yet.
Handshake ==
  tcp_client_state \in {1, 2} /\ slot # "boot" =>
    /\ slot \in Ops /\ ~handled
    /\ \A s \in net : s.kind = "GET" => s.r # req

\* The server knows the connections that segments are about ...
Connections ==
  \A s \in net : s.kind \in {"SYNACK", "GET"} => conn[s.port] \in {"open", "over"}
\* ... and handles a request only while the caller waits for it and once, or
\* when it has been given up; and says so only then.
Handles ==
  /\ \A s \in net : s.kind = "GET" /\ conn[s.port] = "open" =>
       s.r \in orphans \/ (s.r = req /\ slot \in Ops /\ ~handled)
  /\ \A s \in net : s.kind = "OK" /\ s.r = req /\ slot \in Ops => handled

ClientInv == TypeOK /\ Sessions /\ Caller /\ Handshake /\ Connections /\ Handles /\ OneGet

----------------------------------------------------------------------------
LEMMA Bounds ==
  /\ FdMod \in Nat /\ FdMod >= 1 /\ MaxReq \in Nat /\ MaxReq >= 1 /\ MaxReq < FdMod /\ MaxSyn \in Nat
  /\ 0 \in 0 .. FdMod - 1
  BY BoundsAssumption

LEMMA SmallMod ==
  ASSUME NEW a \in Nat, NEW n \in Nat, a < n
  PROVE  a % n = a
  OBVIOUS

LEMMA ClientInit == Init => ClientInv
  <1> SUFFICES ASSUME Init  PROVE ClientInv
    OBVIOUS
  <1>1. TypeOK
    <2>1. op \in [1 .. MaxReq -> Ops] /\ conn \in [Ports -> {"closed", "open", "over", "old"}]
      BY DEF Init, Ops
    <2>2. /\ tcp_client_state = 0 /\ tcp_fd \in 0 .. FdMod - 1 /\ www_fd = tcp_fd
          /\ src_port \in 1 .. MaxSyn + 1 /\ syns \in 0 .. MaxSyn /\ given \in 0 .. MaxReq
          /\ req \in 0 .. MaxReq
      BY Bounds DEF Init
    <2>3. /\ slot = "none" /\ net = {} /\ orphans = {} /\ on \in BOOLEAN /\ handled = FALSE
          /\ slot \notin Ops
      BY DEF Init, Ops
    <2> QED  BY <2>1, <2>2, <2>3 DEF TypeOK
  <1>2. Sessions
    <2>1. 0 \in 0 .. req /\ tcp_fd = req - 0 /\ net = {}
      BY DEF Init
    <2> QED  BY <2>1 DEF Sessions
  <1>3. Caller /\ Handshake /\ Connections /\ Handles /\ OneGet
    BY Bounds DEF Init, Caller, Handshake, Connections, Handles, OneGet, Ops
  <1> QED  BY <1>1, <1>2, <1>3 DEF ClientInv

\* Segments are what they are made of.
LEMMA SegTyped ==
  ASSUME NEW port \in Ports, NEW r \in 0 .. MaxReq
  PROVE  /\ \A kind \in {"SYN", "GET", "RST"} :
              LET s == Seg("server", kind, port, r)
              IN s \in Up /\ s.kind = kind /\ s.port = port /\ s.r = r /\ s.to = "server"
         /\ \A kind \in {"SYNACK", "ACK", "OK", "BAD", "FIN", "RST"} :
              LET s == Seg("client", kind, port, r)
              IN s \in Down /\ s.kind = kind /\ s.port = port /\ s.r = r /\ s.to = "client"
  BY DEF Seg, Up, Down

\* A step that adds no request and no answer, opens no connection that has
\* one, and changes nothing the caller sees.
LEMMA QuietKeeps ==
  ASSUME ClientInv, TypeOK',
         UNCHANGED <<tcp_fd, req, op, given, slot, handled, orphans>>,
         src_port' <= syns' + 1,
         tcp_client_state' \in {1, 2} => tcp_client_state \in {1, 2},
         \A s \in net' : s \in net \/ s.kind \notin {"SYNACK", "GET", "OK"}
                                   \/ (s.kind = "SYNACK" /\ conn'[s.port] = "open"),
         \A s \in net : s.kind \in {"SYNACK", "GET"} =>
                          conn'[s.port] = conn[s.port] \/ conn'[s.port] = "over"
  PROVE  ClientInv'
  <1>0. /\ TypeOK /\ Sessions /\ Caller /\ Handshake /\ Connections /\ Handles /\ OneGet
    BY DEF ClientInv
  <1>1. Sessions'
    BY <1>0 DEF Sessions
  <1>2. Caller' /\ Handshake' /\ OneGet'
    BY <1>0 DEF Caller, Handshake, OneGet
  <1>3. Connections'
    BY <1>0 DEF Connections
  <1>4. Handles'
    BY <1>0 DEF Handles
  <1> QED  BY <1>1, <1>2, <1>3, <1>4 DEF ClientInv

\* The caller's wait ends; what it waited for is handled, or given up.
LEMMA EndKeeps ==
  ASSUME ClientInv, TypeOK', slot \in Ops, slot' \in {"none", "boot"},
         handled' = FALSE, orphans' = IF handled THEN orphans ELSE orphans \cup {req},
         given' \in {given, req}, tcp_client_state' \notin {1, 2} \/ slot' = "boot",
         UNCHANGED <<tcp_fd, src_port, req, op, net, conn, syns>>
  PROVE  ClientInv'
  <1>0. /\ TypeOK /\ Sessions /\ Caller /\ Handshake /\ Connections /\ Handles /\ OneGet
    BY DEF ClientInv
  <1>1. slot' \notin Ops
    BY DEF Ops
  <1>2. Sessions'
    BY <1>0 DEF Sessions
  <1>3. Caller'
    BY <1>0, <1>1 DEF Caller
  <1>4. Handshake' /\ Connections' /\ OneGet'
    BY <1>0 DEF Handshake, Connections, OneGet
  <1>5. Handles'
    BY <1>0, <1>1 DEF Handles
  <1> QED  BY <1>2, <1>3, <1>4, <1>5 DEF ClientInv

----------------------------------------------------------------------------
(* The caller.                                                             *)

LEMMA BrowseUrlKeeps ==
  ASSUME ClientInv, NEW o \in Ops, BrowseUrl(o)
  PROVE  ClientInv'
  <1> USE DEF BrowseUrl
  <1>0. /\ TypeOK /\ Sessions /\ Caller /\ Connections /\ Handles /\ OneGet
    BY DEF ClientInv
  <1>1. PICK base \in 0 .. req :
          /\ tcp_fd = req - base
          /\ \A s \in net : s.kind \in {"GET", "OK"} => s.r \in base .. req /\ Fd(s.port) = s.r - base
    BY <1>0 DEF Sessions
  <1>2. /\ req \in Nat /\ req < MaxReq /\ base \in Nat /\ base <= req /\ o \notin {"none", "boot"}
        /\ req' = req + 1 /\ orphans \subseteq 1 .. req /\ op \in [1 .. MaxReq -> Ops]
    BY <1>0, Bounds DEF TypeOK, Ops
  <1>3. tcp_fd' = req' - base /\ tcp_fd' \in 0 .. FdMod - 1
    <2>1. req + 1 - base \in Nat /\ req + 1 - base < FdMod /\ tcp_fd + 1 = req + 1 - base
      BY <1>1, <1>2, Bounds
    <2>2. (req + 1 - base) % FdMod = req + 1 - base
      BY <2>1, Bounds, SmallMod
    <2> QED  BY <1>2, <2>1, <2>2, Bounds
  <1>4. op' \in [1 .. MaxReq -> Ops] /\ op'[req'] = o
    BY <1>2, Bounds
  <1>5. TypeOK'
    <2>1. req' \in 0 .. MaxReq /\ given' \in 0 .. MaxReq /\ orphans' \subseteq 1 .. req' /\ req' \notin orphans'
      BY <1>2, Bounds
    <2> QED  BY <1>0, <1>3, <1>4, <2>1 DEF TypeOK
  <1>6. Sessions'
    <2>1. base \in 0 .. req'
      BY <1>2
    <2>2. \A s \in net' : s.kind \in {"GET", "OK"} => s.r \in base .. req' /\ Fd(s.port) = s.r - base
      BY <1>1, <1>2
    <2> QED  BY <1>3, <2>1, <2>2 DEF Sessions
  <1>7. \A s \in net : s.kind \in {"GET", "OK"} => s.r # req'
    BY <1>1, <1>2
  <1>8. Caller' /\ Handshake' /\ OneGet' /\ Connections'
    BY <1>0, <1>2, <1>4, <1>7 DEF Caller, Handshake, OneGet, Connections
  <1>9. Handles'
    BY <1>0, <1>7 DEF Handles, Ops
  <1> QED  BY <1>5, <1>6, <1>8, <1>9 DEF ClientInv

LEMMA TimeoutKeeps ==
  ASSUME ClientInv, Timeout
  PROVE  ClientInv'
  <1>0. TypeOK /\ Caller /\ slot \in Ops
    BY DEF ClientInv, Timeout
  <1>1. TypeOK'
    <2>1. /\ slot' = "boot" /\ slot' \notin Ops /\ handled' = FALSE /\ given' = given
          /\ orphans' \subseteq orphans \cup {req}
          /\ UNCHANGED <<client, req, op, net, conn, syns, on>>
      BY DEF Timeout, GiveUp, Ops
    <2>2. orphans' \subseteq 1 .. req'
      BY <1>0, <2>1 DEF TypeOK, Caller
    <2> QED  BY <1>0, <2>1, <2>2 DEF TypeOK, client
  <1> QED  BY <1>0, <1>1, EndKeeps DEF Timeout, GiveUp, client, TypeOK

LEMMA RebootKeeps ==
  ASSUME ClientInv, Reboot
  PROVE  ClientInv'
  <1> USE DEF Reboot
  <1>0. TypeOK /\ Caller
    BY DEF ClientInv
  <1>1. conn' \in [Ports -> {"closed", "open", "over", "old"}]
    BY <1>0 DEF TypeOK
  <1>2. TypeOK'
    BY <1>0, <1>1, Bounds DEF TypeOK, Ops
  <1>3. Sessions'
    <2>1. req \in 0 .. req' /\ tcp_fd' = req' - req /\ net' = {}
      BY <1>0 DEF TypeOK
    <2> QED  BY <2>1 DEF Sessions
  <1>4. Caller' /\ Handshake' /\ Connections' /\ Handles' /\ OneGet'
    BY <1>0, Bounds DEF TypeOK, Caller, Handshake, Connections, Handles, OneGet, Ops
  <1> QED  BY <1>2, <1>3, <1>4 DEF ClientInv

----------------------------------------------------------------------------
(* packetLoop.                                                             *)

LEMMA SendSynKeeps ==
  ASSUME ClientInv, SendSyn
  PROVE  ClientInv'
  <1> USE DEF SendSyn
  <1>0. TypeOK /\ Caller
    BY DEF ClientInv
  <1>1. src_port' \in 1 .. MaxSyn + 1 /\ src_port' <= syns' + 1 /\ syns' \in 0 .. MaxSyn
    BY <1>0, Bounds DEF TypeOK, Caller
  <1>2. <<tcp_fd, src_port'>> \in Ports /\ 0 \in 0 .. MaxReq
    BY <1>0, <1>1, Bounds DEF TypeOK, Ports
  <1>3. PICK s : s = Seg("server", "SYN", <<tcp_fd, src_port'>>, 0)
    OBVIOUS
  <1>4. s \in Up /\ s.kind = "SYN" /\ net' = net \cup {s}
    BY <1>2, <1>3, SegTyped
  <1>5. TypeOK'
    BY <1>0, <1>1, <1>4 DEF TypeOK, server
  <1> QED  BY <1>1, <1>4, <1>5, QuietKeeps DEF server

\* A result that the caller is told, or not: what it was given is its own.
LEMMA ResultIsOwn ==
  ASSUME ClientInv, NEW s \in net, Arrives(s), NEW status, ResultCb(s, status)
  PROVE  \/ UNCHANGED <<given, slot, handled, orphans>>
         \/ /\ slot \in Ops /\ slot' = "none" /\ handled' = FALSE /\ given' \in {given, req}
            /\ orphans' = IF handled THEN orphans ELSE orphans \cup {req}
  <1>0. TypeOK /\ Sessions /\ Handles /\ www_fd = tcp_fd
    BY DEF ClientInv, TypeOK
  <1>1. CASE Waits
    BY <1>1 DEF Waits
  <1>2. CASE slot # "none" /\ GiveUp("none")
    <2>1. slot \in Ops
      BY <1>0, <1>2 DEF Arrives, Polling, TypeOK
    <2> QED  BY <1>2, <2>1 DEF GiveUp
  <1>3. CASE slot # "none" /\ Fd(s.port) = www_fd /\ s.kind = "OK" /\ Succeed(s.r)
    <2>1. slot \in Ops
      BY <1>0, <1>3 DEF Arrives, Polling, TypeOK
    <2>2. PICK base \in 0 .. req :
            tcp_fd = req - base /\ s.r \in base .. req /\ Fd(s.port) = s.r - base
      BY <1>0, <1>3 DEF Sessions
    <2>3. s.r = req
      BY <1>0, <1>3, <2>2 DEF TypeOK
    <2>4. handled
      BY <1>0, <1>3, <2>1, <2>3 DEF Handles
    <2> QED  BY <1>3, <2>1, <2>3, <2>4 DEF Succeed
  <1> QED  BY <1>1, <1>2, <1>3 DEF ResultCb

LEMMA ResultKeeps ==
  ASSUME ClientInv, NEW s \in net, Arrives(s), NEW status, ResultCb(s, status),
         tcp_client_state' \in {5, 6},
         UNCHANGED <<tcp_fd, www_fd, src_port, req, op, net, conn, syns, on>>
  PROVE  ClientInv'
  <1>0. TypeOK /\ Caller
    BY DEF ClientInv
  <1>1. CASE UNCHANGED <<given, slot, handled, orphans>>
    <2>1. TypeOK' /\ src_port' <= syns' + 1
      BY <1>0, <1>1 DEF TypeOK, Caller
    <2> QED  BY <1>1, <2>1, QuietKeeps
  <1>2. CASE /\ slot \in Ops /\ slot' = "none" /\ handled' = FALSE /\ given' \in {given, req}
             /\ orphans' = IF handled THEN orphans ELSE orphans \cup {req}
    <2>1. orphans' \subseteq 1 .. req'
      BY <1>0, <1>2 DEF TypeOK, Caller
    <2>2. given' \in 0 .. MaxReq /\ slot' \notin Ops
      BY <1>0, <1>2 DEF TypeOK, Ops
    <2>3. TypeOK'
      BY <1>0, <1>2, <2>1, <2>2 DEF TypeOK
    <2>4. tcp_client_state' \notin {1, 2}
      OBVIOUS
    <2> QED  BY <1>2, <2>3, <2>4, EndKeeps
  <1> QED  BY <1>1, <1>2, ResultIsOwn

LEMMA ReceiveSynAckKeeps ==
  ASSUME ClientInv, NEW s \in net, ReceiveSynAck(s)
  PROVE  ClientInv'
  <1> USE DEF ReceiveSynAck
  <1>0. /\ TypeOK /\ Sessions /\ Caller /\ Handshake /\ Connections /\ Handles /\ OneGet
    BY DEF ClientInv
  <1>1. CASE Fd(s.port) # www_fd
    <2>1. TypeOK' /\ src_port' <= syns' + 1 /\ net' = net
      BY <1>0, <1>1 DEF TypeOK, Caller, server
    <2> QED  BY <1>1, <2>1, QuietKeeps DEF server
  <1>2. CASE Fd(s.port) = www_fd
    <2>1. PICK g : g = Seg("server", "GET", s.port, req)
      OBVIOUS
    <2>2. s.port \in Ports /\ req \in 0 .. MaxReq
      BY <1>0 DEF TypeOK, Up, Down
    <2>3. /\ g \in Up /\ g.kind = "GET" /\ g.port = s.port /\ g.r = req
          /\ net' = net \cup {g} /\ UNCHANGED <<tcp_fd, given, slot, req, op, server, src_port, syns>>
      BY <1>2, <2>1, <2>2, SegTyped DEF Send
    <2>4. slot \in Ops /\ ~handled /\ \A u \in net : u.kind = "GET" => u.r # req
      BY <1>0 DEF Handshake, Arrives, Polling
    <2>5. TypeOK'
      BY <1>0, <2>3 DEF TypeOK, server
    <2>6. Sessions'
      <3>1. PICK base \in 0 .. req :
              /\ tcp_fd = req - base
              /\ \A u \in net : u.kind \in {"GET", "OK"} => u.r \in base .. req /\ Fd(u.port) = u.r - base
        BY <1>0 DEF Sessions
      <3>2. g.r \in base .. req /\ Fd(g.port) = g.r - base
        BY <1>0, <1>2, <2>2, <2>3, <3>1 DEF TypeOK
      <3>3. \A u \in net' : u.kind \in {"GET", "OK"} => u.r \in base .. req' /\ Fd(u.port) = u.r - base
        BY <2>3, <3>1, <3>2
      <3> QED  BY <2>3, <3>1, <3>3 DEF Sessions
    <2>7. Caller' /\ Handshake' /\ OneGet' /\ Connections'
      BY <1>0, <2>3, <2>4 DEF Caller, Handshake, OneGet, Connections, server
    <2>8. Handles'
      BY <1>0, <2>3, <2>4 DEF Handles, server
    <2> QED  BY <2>5, <2>6, <2>7, <2>8 DEF ClientInv
  <1> QED  BY <1>1, <1>2

LEMMA ReceiveQuietKeeps ==
  ASSUME ClientInv, NEW s \in net, ReceiveUnexpected(s) \/ ReceiveFin(s)
  PROVE  ClientInv'
  <1>0. TypeOK /\ Caller /\ s.port \in Ports
    BY DEF ClientInv, TypeOK, Up, Down
  <1>1. CASE ReceiveUnexpected(s)
    <2>1. PICK g : g = Seg("server", "RST", s.port, 0)
      OBVIOUS
    <2>2. g \in Up /\ g.kind = "RST" /\ net' = net \cup {g}
      BY <1>0, <1>1, <2>1, SegTyped, Bounds DEF ReceiveUnexpected, Send
    <2>3. TypeOK' /\ src_port' <= syns' + 1
      BY <1>0, <1>1, <2>2 DEF ReceiveUnexpected, TypeOK, Caller, server
    <2> QED  BY <1>1, <2>2, <2>3, QuietKeeps DEF ReceiveUnexpected, server
  <1>2. CASE ReceiveFin(s)
    <2>1. TypeOK' /\ src_port' <= syns' + 1
      BY <1>0, <1>2 DEF ReceiveFin, TypeOK, Caller, server
    <2> QED  BY <1>2, <2>1, QuietKeeps DEF ReceiveFin, server
  <1> QED  BY <1>1, <1>2

----------------------------------------------------------------------------
(* The server.                                                             *)

\* What one answer consists of.
LEMMA ReplyTyped ==
  ASSUME TypeOK, NEW port \in Ports, NEW r \in 0 .. MaxReq,
         NEW kinds \in SUBSET {"SYNACK", "ACK", "OK", "BAD", "FIN", "RST"}, Reply(kinds, port, r)
  PROVE  /\ net' \subseteq Up \cup Down /\ net \subseteq net'
         /\ \A u \in net' : u \in net \/ (u.kind \in kinds /\ u.port = port /\ u.r = r)
  <1>1. net' = net \cup {Seg("client", kind, port, r) : kind \in kinds} /\ net \subseteq Up \cup Down
    BY DEF TypeOK, Reply
  <1>2. ASSUME NEW kind \in kinds
        PROVE  LET u == Seg("client", kind, port, r)
               IN u \in Down /\ u.kind = kind /\ u.port = port /\ u.r = r
    BY SegTyped
  <1>3. ASSUME NEW u \in net', u \notin net
        PROVE  u \in Down /\ u.kind \in kinds /\ u.port = port /\ u.r = r
    <2>1. PICK kind \in kinds : u = Seg("client", kind, port, r)
      BY <1>1, <1>3
    <2> QED  BY <1>2, <2>1
  <1> QED  BY <1>1, <1>3

LEMMA ServerSynKeeps ==
  ASSUME ClientInv, NEW s \in net, ServerSyn(s)
  PROVE  ClientInv'
  <1> USE DEF ServerSyn
  <1>0. TypeOK /\ Caller /\ Connections /\ s.port \in Ports /\ 0 \in 0 .. MaxReq
    BY Bounds DEF ClientInv, TypeOK, Up, Down
  <1>1. CASE /\ conn[s.port] \in {"closed", "old"} /\ conn' = [conn EXCEPT ![s.port] = "open"]
             /\ Reply({"SYNACK"}, s.port, 0)
    <2>1. /\ net' \subseteq Up \cup Down
          /\ \A u \in net' : u \in net \/ (u.kind = "SYNACK" /\ u.port = s.port)
      BY <1>0, <1>1, ReplyTyped
    <2>2. /\ conn'[s.port] = "open" /\ \A port \in Ports \ {s.port} : conn'[port] = conn[port]
          /\ conn' \in [Ports -> {"closed", "open", "over", "old"}]
      BY <1>0, <1>1 DEF TypeOK
    <2>3. \A u \in net : u.kind \in {"SYNACK", "GET"} => conn'[u.port] = conn[u.port]
      BY <1>0, <1>1, <2>2 DEF Connections, TypeOK, Up, Down
    <2>4. TypeOK' /\ src_port' <= syns' + 1
      BY <1>0, <2>1, <2>2 DEF TypeOK, Caller, client
    <2> QED  BY <2>1, <2>2, <2>3, <2>4, QuietKeeps DEF client
  <1>2. CASE Reply({"ACK"}, s.port, 0) /\ UNCHANGED conn
    <2>1. net' \subseteq Up \cup Down /\ \A u \in net' : u \in net \/ u.kind = "ACK"
      BY <1>0, <1>2, ReplyTyped
    <2>2. TypeOK' /\ src_port' <= syns' + 1
      BY <1>0, <1>2, <2>1 DEF TypeOK, Caller, client
    <2> QED  BY <1>2, <2>1, <2>2, QuietKeeps DEF client
  <1> QED  BY <1>1, <1>2

LEMMA ServerRstKeeps ==
  ASSUME ClientInv, NEW port \in Ports, ServerRst(port)
  PROVE  ClientInv'
  <1> USE DEF ServerRst
  <1>0. TypeOK /\ Caller /\ 0 \in 0 .. MaxReq
    BY Bounds DEF ClientInv
  <1>1. net' \subseteq Up \cup Down /\ \A u \in net' : u \in net \/ u.kind = "RST"
    <2>1. CASE Reply({"RST"}, port, 0)
      BY <1>0, <2>1, ReplyTyped
    <2>2. CASE UNCHANGED net
      BY <1>0, <2>2 DEF TypeOK
    <2> QED  BY <2>1, <2>2
  <1>2. /\ conn' \in [Ports -> {"closed", "open", "over", "old"}]
        /\ \A p \in Ports : conn'[p] = conn[p] \/ conn'[p] = "over"
    BY <1>0 DEF TypeOK
  <1>3. \A u \in net : u.port \in Ports
    BY <1>0 DEF TypeOK, Up, Down
  <1>4. TypeOK' /\ src_port' <= syns' + 1
    BY <1>0, <1>1, <1>2 DEF TypeOK, Caller, client
  <1> QED  BY <1>1, <1>2, <1>3, <1>4, QuietKeeps DEF client

\* A request reaches its connection while that is open: the connection is
\* over, and either nothing else happens, or what the caller waits for does,
\* or what it has given up.
LEMMA ServerGetCases ==
  ASSUME ClientInv, NEW s \in net, ServerGet(s)
  PROVE  /\ \A u \in net : u.kind = "GET" /\ u.r = s.r => conn'[u.port] = "over"
         /\ \A u \in net : conn'[u.port] = conn[u.port] \/ conn'[u.port] = "over"
         /\ conn' \in [Ports -> {"closed", "open", "over", "old"}]
         /\ s.port \in Ports /\ s.r \in 0 .. MaxReq /\ s.kind = "GET"
         /\ \/ UNCHANGED <<on, handled, orphans>> /\ Reply({"BAD", "FIN"}, s.port, s.r)
            \/ /\ on' = (op[s.r] = "on") /\ orphans' = orphans \ {s.r}
               /\ \E kind \in {"OK", "BAD"} : Reply({kind, "FIN"}, s.port, s.r)
               /\ \/ s.r \in orphans /\ (s.r # req \/ slot \notin Ops) /\ handled' = handled
                  \/ s.r = req /\ slot \in Ops /\ req \notin orphans /\ ~handled /\ handled' = TRUE
  <1> USE DEF ServerGet
  <1>0. TypeOK /\ Handles /\ OneGet
    BY DEF ClientInv
  <1>1. s.port \in Ports /\ s.r \in 0 .. MaxReq /\ \A u \in net : u.port \in Ports
    BY <1>0 DEF TypeOK, Up, Down
  <1>2. /\ conn' \in [Ports -> {"closed", "open", "over", "old"}] /\ conn'[s.port] = "over"
        /\ \A p \in Ports : conn'[p] = conn[p] \/ conn'[p] = "over"
    BY <1>0, <1>1 DEF TypeOK
  <1>3. \A u \in net : u.kind = "GET" /\ u.r = s.r => conn'[u.port] = "over"
    BY <1>0, <1>2 DEF OneGet
  <1>4. \/ s.r \in orphans /\ (s.r # req \/ slot \notin Ops)
        \/ s.r = req /\ slot \in Ops /\ req \notin orphans /\ ~handled
    BY <1>0 DEF Handles, TypeOK
  <1>5. handled \in BOOLEAN
    BY <1>0 DEF TypeOK
  <1> QED  BY <1>1, <1>2, <1>3, <1>4, <1>5

LEMMA ServerGetKeeps ==
  ASSUME ClientInv, NEW s \in net, ServerGet(s)
  PROVE  ClientInv'
  <1>0. /\ TypeOK /\ Sessions /\ Caller /\ Handshake /\ Connections /\ Handles /\ OneGet
    BY DEF ClientInv
  <1>1. /\ \A u \in net : u.kind = "GET" /\ u.r = s.r => conn'[u.port] = "over"
        /\ \A u \in net : conn'[u.port] = conn[u.port] \/ conn'[u.port] = "over"
        /\ conn' \in [Ports -> {"closed", "open", "over", "old"}]
        /\ s.port \in Ports /\ s.r \in 0 .. MaxReq /\ s.kind = "GET"
        /\ UNCHANGED <<tcp_client_state, tcp_fd, www_fd, src_port, given, slot, req, op, syns>>
    BY ServerGetCases DEF ServerGet, client
  <1>2. CASE UNCHANGED <<on, handled, orphans>> /\ Reply({"BAD", "FIN"}, s.port, s.r)
    <2>1. net' \subseteq Up \cup Down /\ \A u \in net' : u \in net \/ u.kind \in {"BAD", "FIN"}
      BY <1>0, <1>1, <1>2, ReplyTyped
    <2>2. TypeOK' /\ src_port' <= syns' + 1
      BY <1>0, <1>1, <1>2, <2>1 DEF TypeOK, Caller
    <2> QED  BY <1>1, <1>2, <2>1, <2>2, QuietKeeps
  <1>3. CASE /\ on' = (op[s.r] = "on") /\ orphans' = orphans \ {s.r}
             /\ \E kind \in {"OK", "BAD"} : Reply({kind, "FIN"}, s.port, s.r)
             /\ \/ s.r \in orphans /\ (s.r # req \/ slot \notin Ops) /\ handled' = handled
                \/ s.r = req /\ slot \in Ops /\ req \notin orphans /\ ~handled /\ handled' = TRUE
    <2>1. /\ net' \subseteq Up \cup Down /\ net \subseteq net'
          /\ \A u \in net' : u \in net \/ (u.kind \in {"OK", "BAD", "FIN"} /\ u.port = s.port /\ u.r = s.r)
      BY <1>0, <1>1, <1>3, ReplyTyped
    <2>2. on' \in BOOLEAN /\ handled' \in BOOLEAN
      BY <1>0, <1>3 DEF TypeOK
    <2>3. TypeOK'
      BY <1>0, <1>1, <1>3, <2>1, <2>2 DEF TypeOK
    <2>4. Sessions'
      <3>1. PICK base \in 0 .. req :
              /\ tcp_fd = req - base
              /\ \A u \in net : u.kind \in {"GET", "OK"} => u.r \in base .. req /\ Fd(u.port) = u.r - base
        BY <1>0 DEF Sessions
      <3>2. \A u \in net' : u.kind \in {"GET", "OK"} => u.r \in base .. req' /\ Fd(u.port) = u.r - base
        BY <1>1, <2>1, <3>1
      <3> QED  BY <1>1, <3>1, <3>2 DEF Sessions
    <2>5. Caller' /\ OneGet' /\ Connections'
      BY <1>0, <1>1, <1>3, <2>1 DEF Caller, OneGet, Connections
    <2>6. Handshake'
      BY <1>0, <1>1, <1>3, <2>1 DEF Handshake
    <2>7. Handles'
      BY <1>0, <1>1, <1>3, <2>1 DEF Handles
    <2> QED  BY <2>3, <2>4, <2>5, <2>6, <2>7 DEF ClientInv
  <1> QED  BY <1>2, <1>3, ServerGetCases

----------------------------------------------------------------------------
LEMMA ClientStep ==
  ASSUME ClientInv, [Next]_vars
  PROVE  ClientInv'
  <1>1. CASE (\E o \in Ops : BrowseUrl(o)) \/ Timeout \/ Reboot \/ SendSyn
    BY <1>1, BrowseUrlKeeps, TimeoutKeeps, RebootKeeps, SendSynKeeps
  <1>2. CASE \E s \in net : Receive(s)
    <2> PICK s \in net : Receive(s)
      BY <1>2
    <2>1. CASE ReceiveRst(s)
      BY <2>1, ResultKeeps DEF ReceiveRst
    <2>2. CASE ReceiveData(s)
      BY <2>2, ResultKeeps DEF ReceiveData
    <2> QED  BY <2>1, <2>2, ReceiveSynAckKeeps, ReceiveQuietKeeps DEF Receive
  <1>3. CASE \E s \in net : ServerSyn(s) \/ ServerGet(s)
    BY <1>3, ServerSynKeeps, ServerGetKeeps
  <1>4. CASE \E port \in Ports : ServerRst(port)
    BY <1>4, ServerRstKeeps
  <1>5. CASE UNCHANGED vars
    <2>1. TypeOK' /\ src_port' <= syns' + 1
      BY <1>5 DEF ClientInv, TypeOK, Caller, vars
    <2> QED  BY <1>5, <2>1, QuietKeeps DEF vars
  <1> QED  BY <1>1, <1>2, <1>3, <1>4, <1>5 DEF Next

\* The invariant of the request: in every state clientTcpReq(), the caller's
\* buffer and the server's replies agree about which call is under way.
THEOREM ClientInvariant == Spec => []ClientInv
  <1> QED  BY ClientInit, ClientStep, PTL DEF Spec

\* A call that succeeds was given the answer to its own request
\* (www_client_internal_result_cb compares nothing but the session number).
THEOREM AnswerOfOwnRequest == Spec => []AnswerIsOwn
  <1>1. ClientInv => AnswerIsOwn
    BY DEF ClientInv, Caller, AnswerIsOwn
  <1> QED  BY <1>1, ClientInvariant, PTL

\* No request is sent on two connections, however often its SYN is sent.
THEOREM RequestOnOneConnection == Spec => []OneGet
  <1>1. ClientInv => OneGet
    BY DEF ClientInv
  <1> QED  BY <1>1, ClientInvariant, PTL

----------------------------------------------------------------------------
(* Every step of the client, of the server and of the network is a step of *)
(* OneCall, or none.                                                       *)

Slot == IF slot \in Ops THEN slot ELSE "none"
Late == {op[r] : r \in orphans}

LEMMA MappedVars ==
  UNCHANGED <<slot, handled, on, op, orphans>> => UNCHANGED Call!vars
  BY DEF Call!vars

LEMMA BrowseUrlBegins ==
  ASSUME ClientInv, NEW o \in Ops, BrowseUrl(o)
  PROVE  Call!Begin(o)
  <1>0. req \in Nat /\ orphans \subseteq 1 .. req /\ op \in [1 .. MaxReq -> Ops] /\ handled = FALSE
    BY Bounds DEF ClientInv, TypeOK, Caller, BrowseUrl, Ops
  <1>1. \A r \in orphans : op'[r] = op[r]
    BY <1>0 DEF BrowseUrl
  <1>2. Late' = Late
    BY <1>1 DEF Late, BrowseUrl
  <1>3. Slot = "none" /\ Slot' = o /\ handled' = handled /\ on' = on
    BY <1>0 DEF Slot, BrowseUrl, Ops
  <1> QED  BY <1>2, <1>3 DEF Call!Begin, Slot, Late

\* The wait ends with what was handled, or with a request given up.
LEMMA EndIsGiveUp ==
  ASSUME ClientInv, slot \in Ops, slot' \in {"none", "boot"}, handled' = FALSE,
         orphans' = IF handled THEN orphans ELSE orphans \cup {req}, UNCHANGED <<op, on>>
  PROVE  Call!GiveUp
  <1>1. op[req] = slot /\ slot \in {"on", "off"} /\ slot # "none"
    BY DEF ClientInv, Caller, Ops
  <1>2. Slot = slot /\ Slot' = "none"
    BY DEF Slot, Ops
  <1>3. Late' = IF handled THEN Late ELSE Late \cup {slot}
    BY <1>1 DEF Late
  <1>4. {slot} \cap {"on", "off"} = {slot}
    BY <1>1
  <1> QED  BY <1>1, <1>2, <1>3, <1>4 DEF Call!GiveUp, Slot, Late

LEMMA ServerGetTakesEffect ==
  ASSUME ClientInv, NEW s \in net, ServerGet(s)
  PROVE  Call!Next \/ UNCHANGED Call!vars
  <1>0. UNCHANGED <<slot, op>>
    BY DEF ServerGet
  <1>1. CASE UNCHANGED <<on, handled, orphans>>
    BY <1>0, <1>1, MappedVars
  <1>2. CASE /\ on' = (op[s.r] = "on") /\ orphans' = orphans \ {s.r}
             /\ s.r \in orphans /\ handled' = handled
    <2>0. PICK o : o = op[s.r]
      OBVIOUS
    <2>1. o \in {"on", "off"} /\ o \in Late
      <3>1. s.r \in 1 .. MaxReq /\ op \in [1 .. MaxReq -> Ops]
        <4>1. s.r \in orphans /\ orphans \subseteq 1 .. req /\ req \in 0 .. MaxReq
              /\ op \in [1 .. MaxReq -> Ops]
          BY <1>2 DEF ClientInv, TypeOK
        <4>2. s.r \in 1 .. req
          BY <4>1
        <4> QED  BY <4>1, <4>2, Bounds
      <3> QED  BY <1>2, <2>0, <3>1 DEF Ops, Late
    <2>2. Late' = Late \/ Late' = Late \ {o}
      BY <1>0, <1>2, <2>0 DEF Late
    <2>3. on' = (IF o = "on" THEN TRUE ELSE IF o = "off" THEN FALSE ELSE on)
      BY <1>2, <2>0, <2>1
    <2>4. Call!Late(o)
      BY <1>0, <1>2, <2>1, <2>2, <2>3 DEF Call!Late, Call!Effect, Late
    <2> QED  BY <2>1, <2>4 DEF Call!Next
  <1>3. CASE /\ on' = (op[s.r] = "on") /\ orphans' = orphans \ {s.r}
             /\ s.r = req /\ slot \in Ops /\ req \notin orphans /\ ~handled /\ handled' = TRUE
    <2>1. op[req] = slot /\ slot \in {"on", "off"}
      BY <1>3 DEF ClientInv, Caller, Ops
    <2>2. orphans' = orphans /\ Slot = slot /\ slot # "none"
      BY <1>3, <2>1 DEF Slot
    <2>3. on' = (IF slot = "on" THEN TRUE ELSE IF slot = "off" THEN FALSE ELSE on)
      BY <1>3, <2>1
    <2>4. Call!Handle
      BY <1>0, <1>3, <2>2, <2>3 DEF Call!Handle, Call!Effect, Slot
    <2> QED  BY <2>4 DEF Call!Next
  <1> QED  BY <1>1, <1>2, <1>3, ServerGetCases

LEMMA ClientImplements ==
  ASSUME ClientInv, [Next]_vars
  PROVE  [Call!Next]_(Call!vars)
  <1>1. CASE \E o \in Ops : BrowseUrl(o)
    BY <1>1, BrowseUrlBegins DEF Call!Next, Ops
  <1>2. CASE Timeout
    <2>1. Call!GiveUp
      BY <1>2, EndIsGiveUp DEF Timeout, GiveUp
    <2> QED  BY <2>1 DEF Call!Next
  <1>3. CASE Reboot
    <2>1. slot = "boot" /\ slot' = "none" /\ Slot = "none" /\ Slot' = "none"
      BY <1>3 DEF Reboot, Slot, Ops
    <2> QED  BY <1>3, <2>1 DEF Reboot, Call!vars, Slot
  <1>4. CASE SendSyn
    BY <1>4, MappedVars DEF SendSyn, server
  <1>5. CASE \E s \in net : Receive(s)
    <2> PICK s \in net : Receive(s)
      BY <1>5
    <2>1. CASE ReceiveRst(s) \/ ReceiveData(s)
      <3>1. Arrives(s) /\ (\E status \in {0, 3} : ResultCb(s, status)) /\ UNCHANGED <<op, on>>
        BY <2>1 DEF ReceiveRst, ReceiveData
      <3>2. \/ UNCHANGED <<given, slot, handled, orphans>>
            \/ /\ slot \in Ops /\ slot' = "none" /\ handled' = FALSE
               /\ orphans' = IF handled THEN orphans ELSE orphans \cup {req}
        BY <3>1, ResultIsOwn
      <3>3. UNCHANGED Call!vars \/ Call!GiveUp
        BY <3>1, <3>2, MappedVars, EndIsGiveUp
      <3> QED  BY <3>3 DEF Call!Next
    <2>2. CASE ReceiveSynAck(s) \/ ReceiveUnexpected(s) \/ ReceiveFin(s)
      BY <2>2, MappedVars DEF ReceiveSynAck, ReceiveUnexpected, ReceiveFin, server
    <2> QED  BY <2>1, <2>2 DEF Receive
  <1>6. CASE \E s \in net : ServerSyn(s)
    BY <1>6, MappedVars DEF ServerSyn
  <1>7. CASE \E s \in net : ServerGet(s)
    BY <1>7, ServerGetTakesEffect
  <1>8. CASE \E port \in Ports : ServerRst(port)
    BY <1>8, MappedVars DEF ServerRst
  <1>9. CASE UNCHANGED vars
    BY <1>9, MappedVars DEF vars
  <1> QED  BY <1>1, <1>2, <1>3, <1>4, <1>5, <1>6, <1>7, <1>8, <1>9 DEF Next

\* The TCP client implements OneCall, for any number of sessions, requests and
\* repetitions: what is asked of the server takes effect at most once, before
\* it succeeds, or late if it was given up.
THEOREM ClientRefinement == Spec => RefinesOneCall
  <1>1. Init => Call!Init
    BY DEF Init, Call!Init, Ops
  <1> QED  BY <1>1, ClientImplements, ClientInvariant, PTL DEF Spec, Call!Spec, RefinesOneCall
=============================================================================
