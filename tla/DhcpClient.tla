----------------------------- MODULE DhcpClient -----------------------------
(***************************************************************************)
(* The DHCP client of EtherCard (dhcp.cpp), polled by dhcpSetup() and then *)
(* by every packetLoop(), against a server and a network that loses,       *)
(* duplicates and reorders messages, each dead after MaxDelay.             *)
(*                                                                         *)
(* Time passes in ticks.  The client is polled all the time, except in     *)
(* reboot_after_delay: no tick passes while its timer is due.  The chip    *)
(* receives broadcasts from the start (enc28j60.cpp:386).                  *)
(***************************************************************************)
EXTENDS Integers

CONSTANTS
  Ips,         \* addresses the server gives away
  NoIp,        \* 0.0.0.0
  TIMEOUT,     \* DHCP_REQUEST_TIMEOUT
  WDTO,        \* the watchdog's period: less than TIMEOUT
  DELAY,       \* the three delays of reboot_after_delay
  RenewalTime, \* what a server says in option 58, if it does
  Grant,       \* for how long the server grants an address: its option 51
  MaxDelay     \* how long a message lives

\* A server that names a renewal time leaves enough of the grant after it for
\* the renewal to be asked for and given up.
ASSUME DhcpAssumption ==
  /\ NoIp \notin Ips /\ Ips # {}
  /\ {TIMEOUT, WDTO, DELAY, RenewalTime, Grant, MaxDelay} \subseteq Nat \ {0}
  /\ WDTO <= TIMEOUT /\ MaxDelay <= TIMEOUT
  /\ MaxDelay + RenewalTime + TIMEOUT + 1 + DELAY < Grant

VARIABLES
  dhcpState, \* INIT, SELECTING, REQUESTING, BOUND, RENEWING
  myip,
  currentXid,\* 0 before the first DISCOVER since the restart
  waited,    \* millis() - stateTimer, up to TIMEOUT + 1
  leaseTime, \* from the last offer
  leaseAge,  \* millis() - leaseStart, up to leaseTime
  mode,      \* dhcpSetup is "setup"; "run" after it; "delay": not polled
  clock,     \* ticks in "setup" or "delay"
  net,       \* messages that may still arrive, any number of times
  reserved,  \* the address the server keeps for this board
  granted    \* for how many ticks it still is granted; below 0, for how long
             \* the board has used it without
client == <<dhcpState, myip, currentXid, waited, leaseTime, leaseAge, mode, clock>>
server == <<reserved, granted>>
vars == <<dhcpState, myip, currentXid, waited, leaseTime, leaseAge, mode, clock, net, reserved, granted>>

\* Up to which that is counted: longer than HeldIsGranted allows.
Longest == MaxDelay + TIMEOUT + DELAY + 2

\* currentXid = millis() repeats after a restart, and not within the life of
\* a message otherwise: two values are enough.
Xids == {1, 2}
States == {"INIT", "SELECTING", "REQUESTING", "BOUND", "RENEWING"}
Message == [type : {"DISCOVER", "OFFER", "REQUEST", "ACK"}, xid : Xids,
            ip : Ips \cup {NoIp}, age : 0..MaxDelay]

Polled == mode # "delay"
Send(type, xid, ip) == net' = net \cup {[type |-> type, xid |-> xid, ip |-> ip, age |-> 0]}
Received(type) == {m \in net : m.type = type /\ m.xid = currentXid}
TimedOut == waited > TIMEOUT
\* The client counts an address as its own.
Held == dhcpState \in {"BOUND", "RENEWING"}

Init ==
  /\ dhcpState = "INIT" /\ myip = NoIp /\ currentXid = 0
  /\ waited = 0 /\ leaseTime = 0 /\ leaseAge = 0 /\ mode = "setup" /\ clock = 0
  /\ net = {} /\ reserved \in Ips /\ granted = 0

----------------------------------------------------------------------------
(* DhcpStateMachine.                                                       *)

Discover ==
  /\ Polled /\ dhcpState = "INIT"
  /\ currentXid' \in Xids \ {currentXid}
  /\ myip' = NoIp
  /\ Send("DISCOVER", currentXid', NoIp)
  /\ dhcpState' = "SELECTING" /\ waited' = 0
  /\ UNCHANGED <<leaseTime, leaseAge, mode, clock, server>>

\* The address is the board's own from here on, before it is acknowledged.
\* Options 51 and 58 are stored in one place, and the last of them counts: the
\* whole lease wherever 58, which is not asked for, is missing or comes first.
Offer ==
  /\ Polled /\ dhcpState = "SELECTING"
  /\ \E m \in Received("OFFER") : myip' = m.ip /\ Send("REQUEST", currentXid, m.ip)
  /\ leaseTime' \in {RenewalTime, Grant}
  /\ dhcpState' = "REQUESTING" /\ waited' = 0
  /\ UNCHANGED <<currentXid, leaseAge, mode, clock, server>>

\* Neither the address nor the sender of an acknowledgement is looked at; a
\* NAK is not looked for.
Ack ==
  /\ Polled /\ dhcpState \in {"REQUESTING", "RENEWING"}
  /\ Received("ACK") # {}
  /\ dhcpState' = "BOUND" /\ leaseAge' = 0 /\ waited' = 0
  /\ UNCHANGED <<myip, currentXid, leaseTime, mode, clock, net, server>>

Renew ==
  /\ Polled /\ dhcpState = "BOUND" /\ leaseAge >= leaseTime
  /\ Send("REQUEST", currentXid, myip)
  /\ dhcpState' = "RENEWING" /\ waited' = 0
  /\ UNCHANGED <<myip, currentXid, leaseTime, leaseAge, mode, clock, server>>

\* Mutant: a renewal is asked for again and again.
GiveUp_RenewsAgain ==
  /\ Polled /\ TimedOut
  /\ dhcpState \in {"SELECTING", "REQUESTING", "RENEWING"}
  /\ dhcpState' = (IF dhcpState = "RENEWING" THEN "BOUND" ELSE "INIT") /\ waited' = 0
  /\ UNCHANGED <<myip, currentXid, leaseTime, leaseAge, mode, clock, net, server>>
\* Mutant: an offer is waited for without end.
GiveUp_NotSelecting ==
  /\ Polled /\ TimedOut
  /\ dhcpState \in {"REQUESTING", "RENEWING"}
  /\ dhcpState' = "INIT" /\ waited' = 0
  /\ UNCHANGED <<myip, currentXid, leaseTime, leaseAge, mode, clock, net, server>>
\* The address is kept until the next poll.
GiveUp ==
  /\ Polled /\ TimedOut
  /\ dhcpState \in {"SELECTING", "REQUESTING", "RENEWING"}
  /\ dhcpState' = "INIT" /\ waited' = 0
  /\ UNCHANGED <<myip, currentXid, leaseTime, leaseAge, mode, clock, net, server>>

----------------------------------------------------------------------------
(* Setup, restarts and time.                                               *)

SetupReturns ==
  /\ mode = "setup" /\ dhcpState = "BOUND"
  /\ mode' = "run" /\ clock' = 0
  /\ UNCHANGED <<dhcpState, myip, currentXid, waited, leaseTime, leaseAge, net, server>>

StartDelay ==
  /\ mode = "run"
  /\ mode' = "delay" /\ clock' = 0
  /\ UNCHANGED <<dhcpState, myip, currentXid, waited, leaseTime, leaseAge, net, server>>

Boot ==
  /\ dhcpState' = "INIT" /\ myip' = NoIp /\ currentXid' = 0
  /\ waited' = 0 /\ leaseTime' = 0 /\ leaseAge' = 0 /\ mode' = "setup" /\ clock' = 0
  /\ UNCHANGED <<net, server>>

\* reboot(), or the watchdog's interrupt, at any time ...
Restart == mode = "run" /\ Boot
\* ... and the watchdog's during dhcpSetup, long before its sixty seconds.
Bite == mode = "setup" /\ clock = WDTO /\ dhcpState # "BOUND" /\ Boot
DelayEnds == mode = "delay" /\ clock = DELAY /\ Boot

\* What the next poll, or the watchdog, does at once.  Without a link,
\* dhcpSetup does not poll at all.
Due ==
  \/ mode = "run" /\ dhcpState = "INIT"
  \/ mode = "run" /\ dhcpState = "BOUND" /\ leaseAge >= leaseTime
  \/ mode = "run" /\ TimedOut
  \/ mode = "setup" /\ (clock = WDTO \/ dhcpState = "BOUND")
  \/ mode = "delay" /\ clock = DELAY

Tick ==
  /\ ~Due
  /\ waited' = IF dhcpState \in {"INIT", "BOUND"} \/ TimedOut THEN waited ELSE waited + 1
  /\ leaseAge' = IF Held /\ leaseAge < leaseTime
                 THEN leaseAge + 1 ELSE leaseAge
  /\ clock' = IF mode = "run" THEN 0 ELSE clock + 1
  /\ net' = {[m EXCEPT !.age = m.age + 1] : m \in {n \in net : n.age < MaxDelay}}
  /\ granted' = IF granted > 0 \/ (Held /\ granted > -Longest) THEN granted - 1
                ELSE IF Held THEN granted ELSE 0
  /\ UNCHANGED <<dhcpState, myip, currentXid, leaseTime, mode, reserved>>

----------------------------------------------------------------------------
(* The server (external): it keeps an address for a board while it is      *)
(* granted and while messages about it may be on their way, and answers    *)
(* requests for it.                                                        *)

ServerOffer ==
  /\ \E m \in net : m.type = "DISCOVER" /\ Send("OFFER", m.xid, reserved)
  /\ UNCHANGED <<client, server>>

ServerAck ==
  /\ \E m \in net : m.type = "REQUEST" /\ m.ip = reserved /\ Send("ACK", m.xid, m.ip)
  /\ granted' = Grant
  /\ UNCHANGED <<client, reserved>>

ServerReassigns ==
  /\ granted <= 0 /\ net = {}
  /\ reserved' \in Ips \ {reserved}
  /\ UNCHANGED <<client, net, granted>>

Next ==
  \/ Discover \/ Offer \/ Ack \/ Renew \/ GiveUp
  \/ SetupReturns \/ StartDelay \/ Restart \/ Bite \/ DelayEnds \/ Tick
  \/ ServerOffer \/ ServerAck \/ ServerReassigns

\* The server answers what the client now waits for, not an earlier message.
AnswersDiscover ==
  /\ dhcpState = "SELECTING" /\ Received("OFFER") = {}
  /\ ServerOffer /\ Received("OFFER")' # {}
AnswersRequest ==
  /\ dhcpState \in {"REQUESTING", "RENEWING"} /\ Received("ACK") = {}
  /\ ServerAck /\ Received("ACK")' # {}

\* The loops poll; what is asked again and again is at some time answered,
\* and the answer received.
Fairness ==
  /\ WF_vars(Discover) /\ WF_vars(Renew) /\ WF_vars(GiveUp) /\ WF_vars(SetupReturns)
  /\ WF_vars(Bite) /\ WF_vars(DelayEnds) /\ WF_vars(Tick)
  /\ SF_vars(AnswersDiscover) /\ SF_vars(AnswersRequest)
  /\ SF_vars(Offer) /\ SF_vars(Ack)

Spec == Init /\ [][Next]_vars /\ Fairness

----------------------------------------------------------------------------
\* Types; the board has no address exactly while it looks for an offer.
TypeOK ==
  /\ dhcpState \in States /\ myip \in Ips \cup {NoIp} /\ currentXid \in {0} \cup Xids
  /\ waited \in 0..TIMEOUT + 1 /\ leaseTime \in {0, RenewalTime, Grant}
  /\ leaseAge \in 0..Grant
  /\ mode \in {"setup", "run", "delay"} /\ clock \in 0..WDTO + DELAY
  /\ net \subseteq Message /\ reserved \in Ips /\ granted \in -Longest..Grant
  /\ dhcpState = "SELECTING" => myip = NoIp
  /\ dhcpState \in {"REQUESTING", "BOUND", "RENEWING"} => myip \in Ips

\* How long after its grant an address is used at the most: until a late
\* acknowledgement's lease is over, then until the renewal is given up, or the
\* reboot that cuts this short has begun and ended.
Overdue ==
  CASE mode # "delay" /\ dhcpState = "BOUND" -> MaxDelay
    [] mode # "delay" /\ dhcpState # "BOUND" -> MaxDelay + TIMEOUT + 1
    [] mode = "delay" -> MaxDelay + TIMEOUT + 1 + DELAY

\* An address the client counts as its own is the one the server grants to it,
\* to the end of the grant, and is not used for longer than Overdue after that;
\* and not at all without a grant, if the offer's last word was option 58.  This
\* through lost and repeated messages, identifiers that repeat after a restart
\* (currentXid = millis()), acknowledgements whose address is not looked at, and
\* renewals that are never answered, or come after the end of the grant.
HeldIsGranted ==
  /\ TypeOK
  /\ Held => /\ granted > 0 => myip = reserved
             /\ granted + Overdue >= 0
             /\ leaseTime = RenewalTime => granted > 0

\* Whatever is lost, the board has a lease again and again: every state of the
\* machine that waits is left (DhcpStateMachine), or the watchdog ends it.
LeaseRegained == []<>(dhcpState = "BOUND")
=============================================================================
