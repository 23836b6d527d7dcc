------------------------------- MODULE House -------------------------------
(***************************************************************************)
(* One ether_house: the Arduino firmware of client_firmware/*.ino, with    *)
(* the server it calls, the phone it listens for and the LAN around it.    *)
(*                                                                         *)
(* The firmware is one thread, but it is re-entrant.  Every packetLoop()   *)
(* may call packet_sniffer_callback, which calls api_set_on, which runs    *)
(* packetLoop() itself for up to ten seconds: a second, nested, stack of   *)
(* the same code over the same globals.  loc and phase say where the       *)
(* outermost code is; nested says where the sniffer's own API call is.     *)
(* An action is the code from one packetLoop() to the next.                *)
(***************************************************************************)
EXTENDS Naturals, FiniteSets

CONSTANTS
  Houses,     \* the houses shown, one LED each (8 in the firmware)
  MyId,       \* MY_ID, the house this firmware belongs to
  MyIp,       \* the address leased to the board
  SubnetIps,  \* the addresses of the LAN (myip & netmask)
  PhoneIps,   \* source addresses found in frames of the phone
  OtherIps,   \* source addresses found in frames of everyone else
  AllOnes,    \* 255.255.255.255, "target_ip is not known"
  AllZeros,   \* 0.0.0.0, "no lease"; also the source of a DHCP discover
  Mixed,      \* four bytes of a frame that are no address: never local
  Blank,      \* an EEPROM image whose CRC does not match
  MaxFaults   \* bound on timeouts, resets, bad answers and lost leases

ASSUME MyIdAssumption == MyId \in Houses
ASSUME AddressAssumption ==
  /\ MyIp \in SubnetIps
  /\ AllOnes \notin SubnetIps
  /\ AllZeros \notin SubnetIps
  /\ Mixed \notin SubnetIps
ASSUME FaultsAssumption == MaxFaults \in Nat

VARIABLES
  loc,            \* the statement of setup() or loop() being executed
  phase,          \* "run", or the packet loop of the API call made at loc:
                  \* "wait" is while (locked), "drain" is wait_for_tcp
  nested,         \* the same for an api_set_on made by the sniffer callback
  ptr,            \* kind of frame the sniffer's src_ip points into
  sniffer_nested, \* static bool of packet_sniffer_callback
  locked,         \* the global lock of the API calls
  slot,           \* the API call whose browser callback is still to come
  call,           \* the HTTP exchange: "idle", "sent" or "answered"
  reply,          \* the state the answer to /state carries
  listening,      \* snifferListenForMac has been called (numSniffers = 1)
  absent,         \* millis() > absense_timer + ABSENSE_TIMEOUT
  state,          \* the houses whose bit is set
  leds,           \* the LEDs that are lit
  target_ip,      \* where the phone is believed to be
  eeprom,         \* what is saved, or Blank when its CRC does not match
  myip,           \* MyIp, or AllZeros without a lease
  server,         \* the server's own set of lit houses
  late,           \* "on"/"off" requests the board gave up on, still on the way
  phone,          \* "home" or "away"
  faults          \* how many faults happened

stack == <<loc, phase, nested, ptr, sniffer_nested>>
api   == <<locked, slot, call, reply>>
lamps == <<state, leds>>
saved == <<target_ip, eeprom>>
world == <<server, late, phone, faults>>
vars  == <<loc, phase, nested, ptr, sniffer_nested, locked, slot, call, reply,
           listening, absent, state, leds, target_ip, eeprom, myip,
           server, late, phone, faults>>

Ops == {"mac", "state", "on", "off"}
SetupLocs == {"boot", "config", "mac", "firstState"}
LoopLocs == {"top", "absence", "lastSweep", "recheck", "off", "sweepCheck",
             "sweep", "syncCheck", "state", "rebootCheck"}
OpAt == [mac |-> "mac", firstState |-> "state", off |-> "off", state |-> "state"]
CallLocs == DOMAIN OpAt
After == [mac |-> "firstState", firstState |-> "top", off |-> "sweepCheck",
          state |-> "rebootCheck"]
Frames == {"IP", "ARP"}
Saved == [state : SUBSET Houses, target_ip : SubnetIps \cup {AllOnes}]
ASSUME BlankAssumption == Blank \notin Saved

Init ==
  /\ loc = "boot" /\ phase = "run" /\ nested = "none" /\ ptr = "IP"
  /\ sniffer_nested = FALSE
  /\ locked = FALSE /\ slot = "none" /\ call = "idle" /\ reply = {}
  /\ listening = FALSE /\ absent = FALSE
  /\ state = {} /\ leds = {} /\ target_ip = AllOnes /\ eeprom = Blank
  /\ myip = AllZeros
  /\ server \in SUBSET Houses
  /\ late = {} /\ phone \in {"home", "away"} /\ faults = 0

----------------------------------------------------------------------------
(* Helpers of the firmware.                                                *)

\* Mutant: the netmask comparison is forgotten.
is_ip_local_NoNetmask(ip) == ip \notin {AllOnes, AllZeros} /\ myip # AllZeros

\* is_ip_local: not a special address, and on the board's own network.
is_ip_local(ip) ==
  ip \notin {AllOnes, AllZeros} /\ myip \in SubnetIps /\ ip \in SubnetIps

\* The thread stands in a packetLoop() that hands frames to the sniffer.
InMainLoop ==
  /\ nested = "none"
  /\ \/ loc \in {"top", "lastSweep", "sweep"} /\ phase = "run"
     \/ phase = "wait" /\ locked
     \/ phase = "drain"
InPacketLoop == InMainLoop \/ nested = "drain" \/ (nested = "wait" /\ locked)

\* A request of an abandoned call may still be on its way to the server.
Orphan == IF call = "sent" THEN {slot} \cap {"on", "off"} ELSE {}

\* Mutant: locked = true is forgotten.
Send_NoLock(op) ==
  /\ locked' = locked /\ slot' = op /\ call' = "sent" /\ reply' = reply

\* browseUrl, then the lock: from here the caller polls packetLoop().
Send(op) ==
  /\ locked' = TRUE /\ slot' = op /\ call' = "sent" /\ reply' = reply

\* saveStateToEeprom: one record with the state and target_ip of this moment.
SaveStateToEeprom == eeprom' = [state |-> state', target_ip |-> target_ip']

\* jmp 0: every global is initialised again; EEPROM and the output pins stay.
RestartWith(image) ==
  /\ loc' = "boot" /\ phase' = "run" /\ nested' = "none" /\ ptr' = "IP"
  /\ sniffer_nested' = FALSE
  /\ locked' = FALSE /\ slot' = "none" /\ call' = "idle" /\ reply' = {}
  /\ listening' = FALSE /\ absent' = FALSE
  /\ state' = {} /\ target_ip' = AllOnes /\ myip' = AllZeros
  /\ late' = late \cup Orphan
  /\ eeprom' = image
  /\ UNCHANGED <<leds, server, phone>>
Restart == RestartWith(eeprom)

Fault == faults < MaxFaults /\ faults' = faults + 1

At(l) == loc = l /\ nested = "none"

Goto(l) ==
  /\ loc' = l /\ phase' = "run"
  /\ UNCHANGED <<nested, ptr, sniffer_nested>>

----------------------------------------------------------------------------
(* setup()                                                                 *)

ReadStateFromEeprom ==
  /\ At("boot")
  /\ Goto("config")
  /\ IF eeprom = Blank
       THEN state' = {} /\ target_ip' = AllOnes
       ELSE state' = eeprom.state /\ target_ip' = eeprom.target_ip
  /\ leds' = state'
  /\ UNCHANGED <<api, listening, absent, eeprom, myip, world>>

\* ether.begin, dhcpSetup and dnsLookup succeed.
Configured ==
  /\ At("config")
  /\ Goto("mac")
  /\ myip' = MyIp
  /\ UNCHANGED <<api, listening, absent, lamps, saved, world>>

ConfigFails == At("config") /\ Fault /\ Restart

----------------------------------------------------------------------------
(* The API calls of the main thread: get_target_mac, get_remote_state and  *)
(* api_set_off (reached through turn_my_house_off).                        *)

AtCall == nested = "none" /\ loc \in CallLocs /\ phase = "run"

\* What is done when the call made at loc has returned.
Return ==
  /\ Goto(After[loc])
  /\ absent' = IF loc = "firstState" THEN FALSE ELSE absent
  /\ IF loc = "off"
       THEN /\ target_ip' = AllOnes /\ state' = state
            /\ SaveStateToEeprom
       ELSE UNCHANGED <<state, target_ip, eeprom>>

\* "aborted: locked by something else", or validate_dhcp and the request.
MainCall ==
  /\ AtCall
  /\ IF locked
       THEN Return /\ UNCHANGED <<api, listening, leds, myip, world>>
       ELSE /\ is_ip_local(myip)
            /\ Send(OpAt[loc])
            /\ phase' = "wait"
            /\ UNCHANGED <<loc, nested, ptr, sniffer_nested, listening, absent,
                           lamps, saved, myip, world>>

MainCallNoLease ==
  AtCall /\ ~locked /\ ~is_ip_local(myip) /\ Restart /\ UNCHANGED faults

\* while (locked) ends; wait_for_tcp begins.
StopWaiting ==
  /\ ~locked
  /\ \/ nested = "wait" /\ nested' = "drain" /\ UNCHANGED phase
     \/ nested = "none" /\ phase = "wait" /\ phase' = "drain" /\ UNCHANGED nested
  /\ UNCHANGED <<loc, ptr, sniffer_nested, api, listening, absent, lamps,
                 saved, myip, world>>

DrainEnds ==
  /\ nested = "none" /\ phase = "drain"
  /\ Return
  /\ UNCHANGED <<api, listening, leds, myip, world>>

\* HTTP_TIMEOUT: the board restarts, even if the answer just came.
Timeout ==
  /\ nested = "wait" \/ (nested = "none" /\ phase = "wait")
  /\ Fault /\ Restart

----------------------------------------------------------------------------
(* The browser callbacks, run from packetLoop() of the innermost call.     *)

Waiting == locked /\ (nested = "wait" \/ (nested = "none" /\ phase = "wait"))

CallbackDone ==
  /\ locked' = FALSE /\ slot' = "none" /\ call' = "idle" /\ reply' = {}

MacsParseCallback ==
  /\ Waiting /\ slot = "mac" /\ call = "answered"
  /\ CallbackDone
  /\ listening' = TRUE
  /\ UNCHANGED <<stack, absent, lamps, saved, myip, world>>

\* Mutant: the new state is not saved.
StateParseCallback_NoSave ==
  /\ Waiting /\ slot = "state" /\ call = "answered"
  /\ CallbackDone
  /\ state' = reply /\ leds' = reply
  /\ UNCHANGED <<stack, saved, listening, absent, myip, world>>

StateParseCallback ==
  /\ Waiting /\ slot = "state" /\ call = "answered"
  /\ CallbackDone
  /\ state' = reply /\ leds' = reply
  /\ target_ip' = target_ip /\ SaveStateToEeprom
  /\ UNCHANGED <<stack, listening, absent, myip, world>>

ApiSetCallback ==
  /\ Waiting /\ slot \in {"on", "off"} /\ call = "answered"
  /\ CallbackDone
  /\ UNCHANGED <<stack, listening, absent, lamps, saved, myip, world>>

\* find_response returns -1: not a 200, no header end, or the answer of an
\* older connection (status 4, length 0), which may come before the server
\* has even seen this request.
BadResponse ==
  /\ Waiting /\ Fault
  /\ CallbackDone
  /\ late' = late \cup Orphan
  /\ UNCHANGED <<stack, listening, absent, lamps, saved, myip, server, phone>>

----------------------------------------------------------------------------
(* packet_sniffer_callback                                                 *)

\* The tail of the callback: store the address found under src_ip if local.
StoreTarget(ip) ==
  IF is_ip_local(ip) /\ ip # target_ip
    THEN target_ip' = ip /\ SaveStateToEeprom
    ELSE UNCHANGED saved

\* A frame from target_mac while the house is on, or off and the lock taken
\* (api_set_on aborts): the callback returns without another packetLoop().
Sniff(src) ==
  /\ InMainLoop /\ listening /\ phone = "home" /\ ~sniffer_nested
  /\ MyId \in state \/ locked
  /\ absent' = FALSE
  /\ state' = state \cup {MyId}
  /\ leds' = IF MyId \in state THEN leds ELSE state'
  /\ StoreTarget(src)
  /\ UNCHANGED <<stack, api, listening, myip, world>>

\* Mutant: api_set_on does not look at the lock.
SniffTurnsOn_IgnoreLock(kind) ==
  /\ InMainLoop /\ listening /\ phone = "home" /\ ~sniffer_nested
  /\ MyId \notin state /\ is_ip_local(myip)
  /\ sniffer_nested' = TRUE
  /\ absent' = FALSE
  /\ state' = state \cup {MyId} /\ leds' = state'
  /\ Send("on")
  /\ nested' = "wait" /\ ptr' = kind
  /\ UNCHANGED <<loc, phase, listening, saved, myip, world>>

\* The house was off: api_set_on is sent, and the callback stays on the
\* stack with src_ip pointing into the shared packet buffer.
SniffTurnsOn(kind) ==
  /\ InMainLoop /\ listening /\ phone = "home" /\ ~sniffer_nested
  /\ MyId \notin state /\ ~locked
  /\ is_ip_local(myip)
  /\ sniffer_nested' = TRUE
  /\ absent' = FALSE
  /\ state' = state \cup {MyId} /\ leds' = state'
  /\ Send("on")
  /\ nested' = "wait" /\ ptr' = kind
  /\ UNCHANGED <<loc, phase, listening, saved, myip, world>>

\* The same without a lease: validate_dhcp reboots.
SniffNoLease ==
  /\ InMainLoop /\ listening /\ phone = "home" /\ ~sniffer_nested
  /\ MyId \notin state /\ ~locked /\ ~is_ip_local(myip)
  /\ Restart /\ UNCHANGED faults

\* What src_ip reads after the nested packet loops: the bytes, at the offset
\* of a kind frame, of whatever frame was received or built last.
BufferFrames == Frames \X ({MyIp} \cup PhoneIps \cup OtherIps)
Under(kind, frame) == IF frame[1] = kind THEN frame[2] ELSE Mixed

NestedDrainEnds(frame) ==
  /\ nested = "drain"
  /\ nested' = "none" /\ ptr' = "IP"
  /\ sniffer_nested' = FALSE
  /\ state' = state
  /\ StoreTarget(Under(ptr, frame))
  /\ UNCHANGED <<loc, phase, api, listening, absent, leds, myip, world>>

----------------------------------------------------------------------------
(* loop()                                                                  *)

Step(from, to) ==
  /\ At(from)
  /\ Goto(to)
  /\ UNCHANGED <<api, listening, absent, lamps, saved, myip, world>>

Top == Step("top", "absence")

AbsenceCheck ==
  Step("absence", IF MyId \in state /\ absent THEN "lastSweep" ELSE "sweepCheck")

LastSweepEnds == Step("lastSweep", "recheck")

\* Mutant: the timer is not looked at again after the last sweep.
Recheck_NoSecondLook ==
  /\ At("recheck")
  /\ IF MyId \in state
       THEN Goto("off") /\ state' = state \ {MyId} /\ leds' = state'
       ELSE Goto("sweepCheck") /\ UNCHANGED lamps
  /\ UNCHANGED <<api, listening, absent, saved, myip, world>>

\* Mutant: the house is turned off without telling the server.
Recheck_Quietly ==
  /\ At("recheck")
  /\ Goto("sweepCheck")
  /\ IF MyId \in state /\ absent
       THEN state' = state \ {MyId} /\ leds' = state'
       ELSE UNCHANGED lamps
  /\ UNCHANGED <<api, listening, absent, saved, myip, world>>

\* turn_my_house_off clears the bit before it calls api_set_off.
Recheck ==
  /\ At("recheck")
  /\ IF MyId \in state /\ absent
       THEN Goto("off") /\ state' = state \ {MyId} /\ leds' = state'
       ELSE Goto("sweepCheck") /\ UNCHANGED lamps
  /\ UNCHANGED <<api, listening, absent, saved, myip, world>>

\* The sweep, sync and reboot timers: due or not due, whenever they are read.
SweepCheck == \E next \in {"sweep", "syncCheck"} : Step("sweepCheck", next)
SweepEnds == Step("sweep", "syncCheck")
SyncDue == Step("syncCheck", "state")
SyncNotDue == Step("syncCheck", "rebootCheck")
RebootNotDue == Step("rebootCheck", "top")
\* Mutant: no daily reboot.
RebootDue_Never == FALSE /\ Restart /\ UNCHANGED faults
RebootDue == At("rebootCheck") /\ Restart /\ UNCHANGED faults

----------------------------------------------------------------------------
(* Time, the network, the server and the phone.                            *)

\* Fifteen minutes since the last sniffed frame: longer than any callback,
\* whose frame has just reset the timer, can stay on the stack.
AbsenceElapses ==
  /\ loc \in LoopLocs /\ nested = "none" /\ ~absent
  /\ absent' = TRUE
  /\ UNCHANGED <<stack, api, listening, lamps, saved, myip, world>>

\* DhcpStateMachine, called by every packetLoop(), gives up a renewal: INIT
\* zeroes myip; a later ACK sets it again.
LeaseLost ==
  /\ InPacketLoop /\ myip = MyIp /\ Fault
  /\ myip' = AllZeros
  /\ UNCHANGED <<stack, api, listening, absent, lamps, saved, server, late, phone>>

LeaseBack ==
  /\ InPacketLoop /\ myip = AllZeros
  /\ myip' = MyIp
  /\ UNCHANGED <<stack, api, listening, absent, lamps, saved, world>>

\* The watchdog fires or the power is cut, anywhere.
Reset == Fault /\ Restart

\* saveStateToEeprom is about to be called, or is under way.
MidSave ==
  \/ nested = "none" /\ loc = "off" /\ phase = "drain"
  \/ Waiting /\ slot = "state" /\ call = "answered"
  \/ nested = "drain"
  \/ InMainLoop /\ listening /\ phone = "home"

\* The power is cut between two bytes of a save: the CRC will not match
\* (module Eeprom shows that it never does by accident).
TornSave == MidSave /\ Fault /\ RestartWith(Blank)

Apply(op, on) == CASE op = "on"  -> on \cup {MyId}
                   [] op = "off" -> on \ {MyId}
                   [] OTHER      -> on

ServerHandles ==
  /\ call = "sent"
  /\ call' = "answered"
  /\ server' = Apply(slot, server)
  /\ reply' = IF slot = "state" THEN server ELSE {}
  /\ UNCHANGED <<stack, locked, slot, listening, absent, lamps, saved, myip,
                 late, phone, faults>>

LateArrives(op) ==
  /\ op \in late
  /\ late' = late \ {op}
  /\ server' \in {server, Apply(op, server)}   \* lost, or handled after all
  /\ UNCHANGED <<stack, api, listening, absent, lamps, saved, myip, phone, faults>>

\* Another house reports its own change to the server.
OtherToggles(h) ==
  /\ server' = IF h \in server THEN server \ {h} ELSE server \cup {h}
  /\ UNCHANGED <<stack, api, listening, absent, lamps, saved, myip, late, phone,
                 faults>>

PhoneMoves ==
  /\ phone' = IF phone = "home" THEN "away" ELSE "home"
  /\ UNCHANGED <<stack, api, listening, absent, lamps, saved, myip, server, late,
                 faults>>

----------------------------------------------------------------------------
Device ==
  \/ ReadStateFromEeprom \/ Configured
  \/ MainCall \/ MainCallNoLease \/ StopWaiting \/ DrainEnds
  \/ MacsParseCallback \/ StateParseCallback \/ ApiSetCallback
  \/ \E frame \in BufferFrames : NestedDrainEnds(frame)
  \/ Top \/ AbsenceCheck \/ LastSweepEnds \/ Recheck
  \/ SweepCheck \/ SweepEnds \/ SyncDue \/ SyncNotDue \/ RebootNotDue

Hear ==
  \/ \E src \in PhoneIps : Sniff(src)
  \/ \E kind \in Frames : SniffTurnsOn(kind)
  \/ SniffNoLease

Trouble ==
  ConfigFails \/ Timeout \/ BadResponse \/ LeaseLost \/ Reset \/ TornSave

Environment ==
  \/ AbsenceElapses \/ LeaseBack \/ ServerHandles \/ PhoneMoves
  \/ \E op \in {"on", "off"} : LateArrives(op)
  \/ \E h \in Houses \ {MyId} : OtherToggles(h)

Next == Device \/ Hear \/ RebootDue \/ Trouble \/ Environment

Spec == Init /\ [][Next]_vars

\* The board keeps executing and the server keeps answering (weak fairness);
\* the timers keep firing while the loop keeps reading them, and a phone at
\* home keeps sending frames that reach the loop (strong fairness: each is
\* disabled and enabled again as the loop goes round).  The absence timer
\* elapses while the loop has rounds to go, not each day in the very round
\* that ends in the daily reboot.
Fairness ==
  /\ WF_vars(Device) /\ WF_vars(ServerHandles)
  /\ SF_vars(SyncDue) /\ SF_vars(RebootDue)
  /\ SF_vars(loc = "top" /\ AbsenceElapses) /\ SF_vars(loc = "top" /\ Hear)

FairSpec == Spec /\ Fairness
----------------------------------------------------------------------------
(* Properties.                                                             *)

\* The values each variable can take.  target_ip and its saved copy are
\* always "unknown" or an address of the LAN, although the bytes read by the
\* sniffer callback may be anything (is_ip_local, ping_sweep.ino:52).
TypeOK ==
  /\ loc \in SetupLocs \cup LoopLocs
  /\ phase \in {"run", "wait", "drain"}
  /\ nested \in {"none", "wait", "drain"}
  /\ ptr \in Frames
  /\ sniffer_nested \in BOOLEAN /\ locked \in BOOLEAN
  /\ slot \in Ops \cup {"none"} /\ call \in {"idle", "sent", "answered"}
  /\ reply \in SUBSET Houses
  /\ listening \in BOOLEAN /\ absent \in BOOLEAN
  /\ state \in SUBSET Houses /\ leds \in SUBSET Houses
  /\ target_ip \in SubnetIps \cup {AllOnes}
  /\ eeprom \in Saved \cup {Blank}
  /\ myip \in {MyIp, AllZeros}
  /\ server \in SUBSET Houses
  /\ late \in SUBSET {"on", "off"}
  /\ phone \in {"home", "away"}
  /\ faults \in 0..MaxFaults

\* The lock does its work although the code that takes it is re-entrant
\* (api_client.ino:1-116): it is held exactly while one call is outstanding,
\* by the innermost packet loop and no other; the main thread, which starts
\* its calls with nothing nested, never meets it held, so none of its calls
\* is ever skipped; and sniffer_nested marks a callback on the stack exactly.
LockDiscipline ==
  /\ locked <=> slot # "none"
  /\ locked <=> call # "idle"
  /\ locked => \/ nested = "wait" /\ slot = "on"
               \/ nested = "none" /\ phase = "wait" /\ slot = OpAt[loc]
  /\ nested # "none" => phase # "wait"
  /\ phase # "run" => loc \in CallLocs
  /\ AtCall => ~locked
  /\ sniffer_nested <=> nested # "none"

\* turn_my_house_off has cleared the bit and /off is not answered yet.
OffUnderWay == loc = "off" /\ phase \in {"run", "wait"}

\* As long as nothing fails, the board never shows its own house dark while
\* the server has it lit, at any point of loop() but during /off itself: the
\* bit is set before the server is told (lights.ino:24-29), /off is waited
\* for, and what /state brings is not older than the bit it overwrites.
NeverDarkButReported ==
  faults = 0 /\ loc \in LoopLocs /\ ~OffUnderWay
    => (MyId \in server => MyId \in state)

\* The house is reported off only when nothing was heard of the phone for
\* fifteen minutes at the moment the request is made, whatever was heard
\* during the last sweep (client_firmware.ino:134-142).
OffOnlyAfterSilence ==
  [][slot # "off" /\ slot' = "off" => absent /\ MyId \notin state]_vars

\* Once the phone has left for good, and whatever happened before, the house
\* goes dark for good, on its own board and on the server.
AwayIsDark ==
  <>[](phone = "away") => <>[](MyId \notin server /\ MyId \notin leds)

\* While the phone stays home the server is told again and again: a lost
\* report, an /off that crossed the phone's return, or a board that never
\* learnt target_mac are all made good by /state and the daily reboot.
HomeIsLit ==
  <>[](phone = "home") => []<>(MyId \in server /\ MyId \in leds)

\* Another house that stays lit on the server ends up lit on this board and
\* stays so, through every reboot: the saved state is shown until /state
\* answers (client_firmware.ino:70, api_client.ino:70-71).
OthersShown ==
  \A h \in Houses \ {MyId} : <>[](h \in server) => <>[](h \in leds)

\* lights.ino:26: "If we are toggling our house, then we need to let the
\* server know that our state changed."  Between API calls, and with no
\* fault, the server has the house lit whenever the board does.
ServerKnowsOfToggle ==
  faults = 0 /\ loc = "top" /\ nested = "none"
    => (MyId \in state => MyId \in server)

\* sniffer.ino:16: "Only copy the ip as a target if it is local.  Everything
\* else is bogus."  A stored target is an address the phone has used.
TargetIpIsPhones == target_ip \in PhoneIps \cup {AllOnes}

\* Every API call is one exchange with the server: see OneCall.
Call == INSTANCE OneCall WITH
          handled <- call = "answered", on <- MyId \in server
RefinesOneCall == Call!Spec
=============================================================================
