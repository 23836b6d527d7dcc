----------------------------- MODULE UdpServer -----------------------------
(***************************************************************************)
(* The UDP listeners of udpserver.cpp.  Their callbacks are given pointers *)
(* into the packet buffer, and the loop over the listeners compares with   *)
(* what the buffer holds -- which is another frame once a callback has     *)
(* answered or logged.  Pausing and resuming compare with the buffer too,  *)
(* and not with the port they are given.                                   *)
(***************************************************************************)
EXTENDS Naturals, Sequences

CONSTANTS
  Ports,        \* ports the sketch listens on
  Foreign,      \* another port, not one of them
  MaxListeners  \* UDPSERVER_MAXLISTENERS

ASSUME UdpAssumption == Foreign \notin Ports /\ MaxListeners \in Nat

VARIABLES
  listeners,   \* in the order of their registration
  gPB,         \* the datagram in the buffer: its ports, and if it is our own
  i,           \* the listener the loop is at; 0 outside it
  turn,        \* "loop", or its callback runs: it is "called", has "answered"
  origin,      \* history: the datagram as received
  ownServed,   \* history: for this datagram, a callback was given a frame that
               \* the board had made
  repeated     \* history: for this datagram, a callback answered once more
udpVars == <<listeners, gPB, i, turn, origin, ownServed, repeated>>

Datagram(sport, dport, own) == [sport |-> sport, dport |-> dport, own |-> own]
Listener(port) == [port |-> port, listening |-> TRUE]
NotLooping == i = 0

UdpInit ==
  /\ listeners = <<>> /\ gPB = Datagram(Foreign, Foreign, FALSE) /\ i = 0
  /\ turn = "loop" /\ origin = gPB /\ ownServed = FALSE /\ repeated = FALSE

\* With all places taken nothing happens, and nothing says so.
ListenOn(port) ==
  IF Len(listeners) < MaxListeners THEN Append(listeners, Listener(port)) ELSE listeners

\* udpServerPauseListenOnPort, udpServerResumeListenOnPort: they never read
\* the port they are given.
SetListening(on) ==
  [k \in DOMAIN listeners |->
     [listeners[k] EXCEPT !.listening = IF listeners[k].port = gPB.dport THEN on ELSE @]]

\* Between packets it is the sketch that calls these, and in a callback the
\* callback.
UdpServerListenOnPort(port) ==
  /\ listeners' = ListenOn(port)
  /\ UNCHANGED <<gPB, i, turn, origin, ownServed, repeated>>
UdpServerPauseOrResume(on) ==
  /\ listeners' = SetListening(on)
  /\ UNCHANGED <<gPB, i, turn, origin, ownServed, repeated>>

UdpArrives(sport, dport) ==
  /\ NotLooping /\ listeners # <<>>
  /\ gPB' = Datagram(sport, dport, FALSE) /\ origin' = gPB' /\ i' = 1
  /\ ownServed' = FALSE /\ repeated' = FALSE /\ UNCHANGED <<listeners, turn>>

----------------------------------------------------------------------------
(* udpServerHasProcessedPacket(), a step for each listener.                *)

Matches == gPB.dport = listeners[i].port /\ listeners[i].listening
\* numListeners is read each time: a callback may have added to it.
Advance == i' = IF i < Len(listeners') THEN i + 1 ELSE 0

\* The answer goes to where the datagram came from, from the port named.
\* Mutant: the ports of the datagram are left as they are.
makeUdpReply_SamePorts(port) == [gPB EXCEPT !.own = TRUE]
makeUdpReply(port) == Datagram(port, gPB.sport, TRUE)

SkipsListener ==
  /\ ~NotLooping /\ turn = "loop" /\ ~Matches
  /\ UNCHANGED <<listeners, gPB, turn, origin, ownServed, repeated>> /\ Advance

CallsListener ==
  /\ ~NotLooping /\ turn = "loop" /\ Matches
  /\ turn' = "called" /\ ownServed' = (ownServed \/ gPB.own)
  /\ UNCHANGED <<listeners, gPB, i, origin, repeated>>

\* A callback, any of these and as often as it likes: it answers, sends
\* elsewhere (syslog), pauses or resumes a port, listens on one more.
CallbackAnswers ==
  /\ turn # "loop" /\ gPB' = makeUdpReply(listeners[i].port)
  /\ turn' = "answered" /\ repeated' = (repeated \/ turn = "answered")
  /\ UNCHANGED <<listeners, i, origin, ownServed>>
CallbackSends ==
  /\ turn # "loop" /\ gPB' = Datagram(Foreign, Foreign, TRUE)
  /\ UNCHANGED <<listeners, i, turn, origin, ownServed, repeated>>
CallbackReturns ==
  /\ turn # "loop" /\ turn' = "loop"
  /\ UNCHANGED <<listeners, gPB, origin, ownServed, repeated>> /\ Advance

UdpNext ==
  \/ \E sport, dport \in Ports \cup {Foreign} : UdpArrives(sport, dport)
  \/ SkipsListener \/ CallsListener \/ CallbackAnswers \/ CallbackSends \/ CallbackReturns
  \/ /\ NotLooping \/ turn # "loop"
     /\ \/ \E port \in Ports : UdpServerListenOnPort(port)
        \/ \E on \in BOOLEAN : UdpServerPauseOrResume(on)

UdpSpec == UdpInit /\ [][UdpNext]_udpVars

----------------------------------------------------------------------------
\* Types; the listeners never outgrow their array.
UdpTypeOK ==
  /\ listeners \in Seq([port : Ports, listening : BOOLEAN])
  /\ Len(listeners) <= MaxListeners /\ i \in 0 .. Len(listeners)
  /\ {gPB, origin} \subseteq [sport : Ports \cup {Foreign}, dport : Ports \cup {Foreign}, own : BOOLEAN]
  /\ turn \in {"loop", "called", "answered"} /\ (turn # "loop" => ~NotLooping)
  /\ {ownServed, repeated} \subseteq BOOLEAN

\* A callback is given a frame the board made itself, in place of the one it
\* received, only if that came from a port the board listens on, too, or after
\* a callback that answered twice: the second answer goes to the board.
OwnNotServed ==
  /\ UdpTypeOK
  /\ ownServed => repeated \/ \E k \in DOMAIN listeners : listeners[k].port = origin.sport
=============================================================================
