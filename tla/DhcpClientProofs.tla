-------------------------- MODULE DhcpClientProofs --------------------------
(***************************************************************************)
(* An address in use is an address granted, or was until a bounded time    *)
(* ago: for every set of addresses and all times that DhcpAssumption       *)
(* relates to one another.                                                 *)
(***************************************************************************)
EXTENDS DhcpClient, TLAPS

HasAddress == dhcpState \in {"REQUESTING", "BOUND", "RENEWING"}
OfReserved == {"OFFER", "ACK"}

----------------------------------------------------------------------------
(* The inductive invariant.                                                *)

\* What the server sent is about the address reserved now, and the server has
\* counted every grant down from no earlier than the acknowledgement of it.
MessagesHold ==
  \A m \in net : /\ m.type \in OfReserved => m.ip = reserved
                 /\ m.type = "ACK" => granted + m.age >= Grant

\* Identifiers are drawn before anything is waited for; the clock counts the
\* phases of a start and of a reboot; a lease begins in dhcpSetup's last poll.
ClocksHold ==
  /\ dhcpState # "INIT" => currentXid \in Xids
  /\ HasAddress => leaseTime \in {RenewalTime, Grant}
  /\ Held => leaseAge <= leaseTime
  /\ mode = "setup" => clock <= WDTO /\ dhcpState # "RENEWING"
  /\ mode = "setup" /\ dhcpState = "BOUND" => leaseAge = 0
  /\ mode = "run" => clock = 0
  /\ mode = "delay" => clock <= DELAY

\* What was asked for is what is reserved, or nobody will ever answer.
RequestHolds ==
  HasAddress /\ myip # reserved => \A m \in net : m.type = "REQUEST" /\ m.ip # reserved

\* How much of the grant is used up at most, and of the time after it.  Only then
\* does the server keep another address for the board.
Used ==
  IF mode = "delay" THEN leaseTime + TIMEOUT + 1 + clock
  ELSE IF dhcpState = "BOUND" THEN leaseAge ELSE leaseTime + waited
LeaseHolds == Held => /\ granted + MaxDelay + Used >= Grant
                      /\ myip # reserved => granted <= 0

DhcpInv == TypeOK /\ MessagesHold /\ ClocksHold /\ RequestHolds /\ LeaseHolds

----------------------------------------------------------------------------
LEMMA Times ==
  /\ TIMEOUT \in Nat /\ TIMEOUT >= 1 /\ WDTO \in Nat /\ WDTO >= 1 /\ DELAY \in Nat /\ DELAY >= 1
  /\ RenewalTime \in Nat /\ RenewalTime >= 1 /\ Grant \in Nat /\ Grant >= 1
  /\ MaxDelay \in Nat /\ MaxDelay >= 1
  /\ MaxDelay + RenewalTime + TIMEOUT + 1 + DELAY < Grant
  /\ Longest \in Nat /\ Longest = MaxDelay + TIMEOUT + DELAY + 2
  BY DhcpAssumption DEF Longest

LEMMA InvImpliesHeldIsGranted == DhcpInv => HeldIsGranted
  <1> SUFFICES ASSUME DhcpInv, Held
               PROVE  /\ granted > 0 => myip = reserved
                      /\ granted + Overdue >= 0
                      /\ leaseTime = RenewalTime => granted > 0
    BY DEF DhcpInv, HeldIsGranted
  <1>1. /\ granted \in Int /\ clock \in Nat /\ leaseAge \in Nat /\ waited \in 0 .. TIMEOUT + 1
        /\ leaseAge <= leaseTime /\ leaseTime \in {RenewalTime, Grant}
        /\ granted + MaxDelay + Used >= Grant
        /\ mode = "delay" => clock <= DELAY
    BY Times DEF DhcpInv, TypeOK, LeaseHolds, ClocksHold, Held, HasAddress
  <1>2. Used \in Nat /\ Used <= leaseTime + Overdue - MaxDelay /\ Overdue \in Nat
        /\ Overdue <= MaxDelay + TIMEOUT + 1 + DELAY
    BY <1>1, Times DEF Used, Overdue
  <1>3. granted > 0 => myip = reserved
    BY <1>1 DEF DhcpInv, LeaseHolds
  <1> QED  BY <1>1, <1>2, <1>3, Times

LEMMA DhcpInit == Init => DhcpInv
  BY Times DEF Init, DhcpInv, TypeOK, States, Message, MessagesHold, ClocksHold, RequestHolds, LeaseHolds, Held, HasAddress

\* A message of the client's or the server's is added.
LEMMA SendTyped ==
  ASSUME TypeOK, NEW type \in {"DISCOVER", "OFFER", "REQUEST", "ACK"}, NEW xid \in Xids,
         NEW ip \in Ips \cup {NoIp}, Send(type, xid, ip)
  PROVE  /\ net' \subseteq Message /\ net' # {}
         /\ \A m \in net' : m \in net \/ (m.type = type /\ m.ip = ip /\ m.age = 0)
  <1> DEFINE new == [type |-> type, xid |-> xid, ip |-> ip, age |-> 0]
  <1>1. new \in Message
    BY Times DEF Message
  <1>2. new.type = type /\ new.ip = ip /\ new.age = 0
    OBVIOUS
  <1>3. net' = net \cup {new} /\ net \subseteq Message
    BY DEF Send, TypeOK
  <1> QED  BY <1>1, <1>2, <1>3

\* Messages grow older, and the oldest are gone.
LEMMA TickAges ==
  ASSUME TypeOK, Tick
  PROVE  /\ net' \subseteq Message
         /\ \A m \in net' : \E n \in net : m.type = n.type /\ m.ip = n.ip /\ m.age = n.age + 1
         /\ net = {} => net' = {}
  <1>1. net' = {[m EXCEPT !.age = m.age + 1] : m \in {n \in net : n.age < MaxDelay}} /\ net \subseteq Message
    BY DEF Tick, TypeOK
  <1>2. ASSUME NEW n \in net, n.age < MaxDelay
        PROVE  [n EXCEPT !.age = n.age + 1] \in Message
    BY <1>1, <1>2, Times DEF Message
  <1>3. ASSUME NEW n \in net
        PROVE  LET m == [n EXCEPT !.age = n.age + 1]
               IN m.type = n.type /\ m.ip = n.ip /\ m.age = n.age + 1
    BY <1>1 DEF Message
  <1> QED  BY <1>1, <1>2, <1>3

----------------------------------------------------------------------------
LEMMA DhcpStep ==
  ASSUME DhcpInv, [Next]_vars
  PROVE  DhcpInv'
  <1> USE DEF Held, HasAddress
  <1>0. TypeOK /\ MessagesHold /\ ClocksHold /\ RequestHolds /\ LeaseHolds
    BY DEF DhcpInv
  <1>t. /\ waited \in 0 .. TIMEOUT + 1 /\ leaseAge \in 0 .. Grant /\ clock \in Nat
        /\ leaseTime \in {0, RenewalTime, Grant} /\ leaseTime \in Nat
        /\ granted \in -Longest .. Grant /\ granted \in Int /\ dhcpState \in States /\ net \subseteq Message
        /\ mode \in {"setup", "run", "delay"}
    BY <1>0, Times DEF TypeOK
  <1>1. CASE Discover
    <2> USE <1>1 DEF Discover
    <2>1. /\ net' \subseteq Message /\ net' # {}
          /\ \A m \in net' : m \in net \/ (m.type = "DISCOVER" /\ m.ip = NoIp /\ m.age = 0)
      BY <1>0, SendTyped DEF Xids
    <2>2. TypeOK'
      BY <1>0, <2>1, Times DEF TypeOK, States, server
    <2>3. MessagesHold'
      BY <1>0, <2>1 DEF MessagesHold, OfReserved, server
    <2>4. ClocksHold' /\ RequestHolds' /\ LeaseHolds'
      BY <1>0 DEF ClocksHold, RequestHolds, LeaseHolds, Xids, server
    <2> QED  BY <2>2, <2>3, <2>4 DEF DhcpInv
  <1>2. CASE Offer
    <2> USE <1>2 DEF Offer
    <2>1. PICK m \in Received("OFFER") : myip' = m.ip /\ Send("REQUEST", currentXid, m.ip)
      OBVIOUS
    <2>2. m.ip = reserved /\ reserved \in Ips /\ currentXid \in Xids
      BY <1>0, <2>1 DEF Received, MessagesHold, OfReserved, TypeOK, ClocksHold
    <2>3. /\ net' \subseteq Message /\ net' # {}
          /\ \A n \in net' : n \in net \/ (n.type = "REQUEST" /\ n.ip = reserved /\ n.age = 0)
      BY <1>0, <2>1, <2>2, SendTyped
    <2>4. TypeOK'
      BY <1>0, <2>1, <2>2, <2>3, Times DEF TypeOK, States, server
    <2>5. MessagesHold'
      BY <1>0, <2>3 DEF MessagesHold, OfReserved, server
    <2>6. ClocksHold' /\ RequestHolds' /\ LeaseHolds'
      BY <1>0, <2>1, <2>2 DEF ClocksHold, RequestHolds, LeaseHolds, server
    <2> QED  BY <2>4, <2>5, <2>6 DEF DhcpInv
  <1>3. CASE Ack
    <2> USE <1>3 DEF Ack
    <2>1. PICK m \in net : m.type = "ACK" /\ m \in Message
      BY <1>t DEF Received
    <2>2. granted + MaxDelay >= Grant /\ net # {}
      BY <1>0, <1>t, <2>1, Times DEF MessagesHold, Message
    <2>3. myip = reserved
      BY <1>0, <2>1 DEF RequestHolds
    <2>4. TypeOK'
      BY <1>0, Times DEF TypeOK, States, server
    <2>5. MessagesHold'
      BY <1>0 DEF MessagesHold, server
    <2>6. ClocksHold' /\ RequestHolds'
      BY <1>0, <1>t DEF ClocksHold, RequestHolds, server
    <2>7. LeaseHolds'
      BY <1>0, <1>t, <2>2, <2>3, Times DEF LeaseHolds, ClocksHold, Used, Polled, server
    <2> QED  BY <2>4, <2>5, <2>6, <2>7 DEF DhcpInv
  <1>4. CASE Renew
    <2> USE <1>4 DEF Renew
    <2>1. myip \in Ips /\ currentXid \in Xids /\ mode = "run" /\ leaseAge = leaseTime
      BY <1>0, <1>t, Times DEF TypeOK, ClocksHold, Polled
    <2>2. /\ net' \subseteq Message /\ net' # {}
          /\ \A n \in net' : n \in net \/ (n.type = "REQUEST" /\ n.ip = myip /\ n.age = 0)
      BY <1>0, <2>1, SendTyped
    <2>3. TypeOK'
      BY <1>0, <2>1, <2>2, Times DEF TypeOK, States, server
    <2>4. MessagesHold'
      BY <1>0, <2>2 DEF MessagesHold, OfReserved, server
    <2>5. ClocksHold' /\ RequestHolds'
      BY <1>0, <2>1, <2>2 DEF ClocksHold, RequestHolds, server
    <2>6. LeaseHolds'
      BY <1>0, <1>t, <2>1, Times DEF LeaseHolds, Used, server
    <2> QED  BY <2>3, <2>4, <2>5, <2>6 DEF DhcpInv
  <1>5. CASE GiveUp
    <2> USE <1>5 DEF GiveUp
    <2>1. TypeOK'
      BY <1>0, Times DEF TypeOK, States, server
    <2>2. MessagesHold' /\ ClocksHold' /\ RequestHolds' /\ LeaseHolds'
      BY <1>0 DEF MessagesHold, ClocksHold, RequestHolds, LeaseHolds, server
    <2> QED  BY <2>1, <2>2 DEF DhcpInv
  <1>6. CASE SetupReturns
    <2> USE <1>6 DEF SetupReturns
    <2>1. TypeOK'
      BY <1>0, Times DEF TypeOK, States, server
    <2>2. MessagesHold' /\ ClocksHold' /\ RequestHolds'
      BY <1>0 DEF MessagesHold, ClocksHold, RequestHolds, server
    <2>3. LeaseHolds'
      BY <1>0, <1>t, Times DEF LeaseHolds, Used, server
    <2> QED  BY <2>1, <2>2, <2>3 DEF DhcpInv
  <1>7. CASE StartDelay
    <2> USE <1>7 DEF StartDelay
    <2>1. TypeOK'
      BY <1>0, Times DEF TypeOK, States, server
    <2>2. MessagesHold' /\ ClocksHold' /\ RequestHolds'
      BY <1>0, Times DEF MessagesHold, ClocksHold, RequestHolds, server
    <2>3. LeaseHolds'
      BY <1>0, <1>t, Times DEF LeaseHolds, ClocksHold, Used, server
    <2> QED  BY <2>1, <2>2, <2>3 DEF DhcpInv
  <1>8. CASE Boot
    <2> USE <1>8 DEF Boot
    <2>1. TypeOK'
      BY <1>0, Times DEF TypeOK, States, server
    <2>2. MessagesHold' /\ ClocksHold' /\ RequestHolds' /\ LeaseHolds'
      BY <1>0, Times DEF MessagesHold, ClocksHold, RequestHolds, LeaseHolds, server
    <2> QED  BY <2>1, <2>2 DEF DhcpInv
  <1>9. CASE Tick
    <2> USE <1>9 DEF Tick
    <2>1. /\ net' \subseteq Message
          /\ \A m \in net' : \E n \in net : m.type = n.type /\ m.ip = n.ip /\ m.age = n.age + 1
          /\ net = {} => net' = {}
      BY <1>0, TickAges
    <2>2. /\ granted' \in -Longest .. Grant /\ granted' + 1 >= granted
          /\ granted <= 0 => granted' <= 0
      BY <1>t, Times
    <2>3. /\ waited' \in 0 .. TIMEOUT + 1 /\ clock' \in Nat /\ clock' <= clock + 1
          /\ leaseAge' \in 0 .. Grant /\ (leaseAge <= leaseTime => leaseAge' <= leaseTime)
      BY <1>t, Times DEF TimedOut
    <2>4. ClocksHold'
      BY <1>0, <1>t, Times DEF ClocksHold, Due
    <2>5. TypeOK'
      BY <1>0, <1>t, <2>1, <2>2, <2>3, <2>4, Times DEF TypeOK, ClocksHold
    <2>6. MessagesHold'
      BY <1>0, <1>t, <2>1, <2>2, Times DEF MessagesHold, Message
    <2>7. RequestHolds'
      BY <1>0, <2>1 DEF RequestHolds
    <2>8. LeaseHolds'
      BY <1>0, <1>t, <2>2, Times DEF LeaseHolds, Used, Due, TimedOut, ClocksHold
    <2> QED  BY <2>4, <2>5, <2>6, <2>7, <2>8 DEF DhcpInv
  <1>10. CASE ServerOffer
    <2> USE <1>10 DEF ServerOffer
    <2>1. PICK m \in net : m.type = "DISCOVER" /\ Send("OFFER", m.xid, reserved)
      OBVIOUS
    <2>2. m.xid \in Xids /\ reserved \in Ips
      BY <1>0, <1>t DEF Message, TypeOK
    <2>3. /\ net' \subseteq Message /\ net' # {}
          /\ \A n \in net' : n \in net \/ (n.type = "OFFER" /\ n.ip = reserved /\ n.age = 0)
      BY <1>0, <2>1, <2>2, SendTyped
    <2>4. TypeOK'
      BY <1>0, <2>3 DEF TypeOK, client, server
    <2>5. MessagesHold'
      BY <1>0, <2>3 DEF MessagesHold, OfReserved, client, server
    <2>6. ClocksHold' /\ RequestHolds' /\ LeaseHolds'
      BY <1>0, <2>1 DEF ClocksHold, RequestHolds, LeaseHolds, Used, client, server
    <2> QED  BY <2>4, <2>5, <2>6 DEF DhcpInv
  <1>11. CASE ServerAck
    <2> USE <1>11 DEF ServerAck
    <2>1. PICK m \in net : m.type = "REQUEST" /\ m.ip = reserved /\ Send("ACK", m.xid, m.ip)
      OBVIOUS
    <2>2. m.xid \in Xids /\ reserved \in Ips
      BY <1>0, <1>t DEF Message, TypeOK
    <2>3. /\ net' \subseteq Message /\ net' # {}
          /\ \A n \in net' : n \in net \/ (n.type = "ACK" /\ n.ip = reserved /\ n.age = 0)
      BY <1>0, <2>1, <2>2, SendTyped
    <2>4. TypeOK'
      BY <1>0, <2>3, Times DEF TypeOK, client
    <2>5. MessagesHold'
      BY <1>0, <1>t, <2>3, Times DEF MessagesHold, OfReserved, client, Message
    <2>6. ClocksHold' /\ RequestHolds'
      BY <1>0, <2>1 DEF ClocksHold, RequestHolds, client
    <2>7. LeaseHolds'
      <3>1. Held => myip = reserved
        BY <1>0, <2>1 DEF RequestHolds
      <3>2. Used' = Used /\ Used \in Nat
        BY <1>0, <1>t, Times DEF Used, TypeOK, client
      <3> QED  BY <1>t, <3>1, <3>2, Times DEF LeaseHolds, client
    <2> QED  BY <2>4, <2>5, <2>6, <2>7 DEF DhcpInv
  <1>12. CASE ServerReassigns
    <2> USE <1>12 DEF ServerReassigns
    <2>1. granted <= 0 /\ net = {}
      OBVIOUS
    <2>2. TypeOK'
      BY <1>0 DEF TypeOK, client
    <2>3. MessagesHold' /\ ClocksHold' /\ RequestHolds' /\ LeaseHolds'
      BY <1>0, <2>1 DEF MessagesHold, ClocksHold, RequestHolds, LeaseHolds, Used, client
    <2> QED  BY <2>2, <2>3 DEF DhcpInv
  <1>13. CASE UNCHANGED vars
    BY <1>0, <1>13 DEF vars, DhcpInv, TypeOK, MessagesHold, ClocksHold, RequestHolds, LeaseHolds, Used
  <1> QED
    BY <1>1, <1>2, <1>3, <1>4, <1>5, <1>6, <1>7, <1>8, <1>9, <1>10, <1>11, <1>12, <1>13
       DEF Next, Restart, Bite, DelayEnds

\* An address that the board counts as its own is granted to it, or has been
\* until at most Overdue ago; and to the end if the offer's last word was a
\* renewal time: for all the times and addresses there may be (process_dhcp_offer
\* stores options 51 and 58 in one place, and DhcpStateMachine looks neither at
\* the address nor at the sender of an ACK).
THEOREM HeldAddressIsGranted == Spec => []HeldIsGranted
  <1>1. Init => DhcpInv
    BY DhcpInit
  <1>2. DhcpInv /\ [Next]_vars => DhcpInv'
    BY DhcpStep
  <1>3. DhcpInv => HeldIsGranted
    BY InvImpliesHeldIsGranted
  <1> QED  BY <1>1, <1>2, <1>3, PTL DEF Spec
=============================================================================
