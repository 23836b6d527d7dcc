------------------------------ MODULE Watchdog ------------------------------
(***************************************************************************)
(* The eight-second watchdog against everything the firmware waits for.    *)
(*                                                                         *)
(* The control skeleton of House with time, in whole seconds: each place   *)
(* where the board polls packetLoop() lasts until what it waits for comes  *)
(* or its time-out; wd counts the seconds since the last wdt_reset().      *)
(* Network, server and phone are free: anything may come at any time or    *)
(* never.                                                                  *)
(***************************************************************************)
EXTENDS Naturals

CONSTANTS
  Periods,       \* of the watchdog: WDTO_8S, and one that is longer than every wait
  HTTP_TIMEOUT,  \* of a wait for an answer, and the length of wait_for_tcp
  SWEEP,         \* longest ping_sweep: 253 addresses, 5 + 2 ms each, rounded up
  DHCP_SETUP,    \* what dhcpSetup allows itself
  DNS_LOOKUP,    \* what dnsLookup allows itself for each of its two waits
  DELAY          \* each of the three delays of reboot_after_delay

ASSUME TimesAssumption ==
  /\ Periods \cup {HTTP_TIMEOUT, SWEEP, DHCP_SETUP, DNS_LOOKUP, DELAY} \subseteq Nat \ {0}
  /\ \A p \in Periods : HTTP_TIMEOUT < p /\ DELAY < p

VARIABLES
  WDTO,   \* the period that enable_watchdog() sets, the same at every start
  loc,    \* where setup() or loop() is; "delay" is reboot_after_delay
  phase,  \* "run", "wait" or "drain", as in House
  lit,    \* bitRead(state, MY_ID)
  nested, \* the sniffer's api_set_on: "none", "wait" or "drain"
  t,      \* seconds spent in the present phase of loc
  nt,     \* seconds spent in the present phase of the nested call
  wd,     \* seconds since wdt_reset()
  pass    \* seconds since loop() was last entered, or setup() started
vars == <<WDTO, loc, phase, lit, nested, t, nt, wd, pass>>

Calls == {"mac", "firstState", "off", "state"}
After == [mac |-> "firstState", firstState |-> "top", off |-> "sweep", state |-> "top"]
Locs == Calls \cup {"dhcp", "dns", "top", "lastSweep", "sweep", "delay"}

Init ==
  /\ WDTO \in Periods
  /\ loc = "dhcp" /\ phase = "run" /\ lit \in BOOLEAN /\ nested = "none"
  /\ t = 0 /\ nt = 0 /\ wd = 0 /\ pass = 0

----------------------------------------------------------------------------
(* Moving on.                                                              *)

\* The main thread enters l; calls start waiting at once.  turn_my_house_off
\* has cleared the bit before /off; a restart loads what was saved.
Enter(l) ==
  /\ loc' = l /\ phase' = IF l \in Calls THEN "wait" ELSE "run"
  /\ nested' = "none" /\ t' = 0 /\ nt' = 0
  /\ lit' \in CASE l = "off" -> {FALSE} [] l = "dhcp" -> BOOLEAN [] OTHER -> {lit}
  /\ pass' = IF l \in {"top", "dhcp"} THEN 0 ELSE pass

\* setup() resets the watchdog between its steps.
\* Mutant: it does not.
SetupStep_NoReset ==
  \/ loc = "dhcp" /\ wd < WDTO /\ Enter("dns") /\ wd' = wd
  \/ loc = "dns" /\ wd < WDTO /\ Enter("mac") /\ wd' = wd
SetupStep ==
  \/ loc = "dhcp" /\ wd < WDTO /\ Enter("dns") /\ wd' = 0
  \/ loc = "dns" /\ wd < WDTO /\ Enter("mac") /\ wd' = 0
SetupFails ==
  \/ loc = "dhcp" /\ t = DHCP_SETUP /\ Enter("dhcp") /\ wd' = 0
  \/ loc = "dns" /\ t \in DNS_LOOKUP .. 2 * DNS_LOOKUP /\ Enter("delay") /\ wd' = 0

Running == nested = "none" /\ wd < WDTO

\* loop(): one packetLoop() between two resets, then what is due.
LoopBody ==
  /\ Running /\ loc = "top"
  /\ \E l \in {"sweep", "state", "top"} \cup (IF lit THEN {"lastSweep"} ELSE {}) : Enter(l)
  /\ wd' = 0

LastSweepEnds ==
  /\ Running /\ loc = "lastSweep"
  /\ \E l \in {"off", "sweep", "state", "top"} : Enter(l)
  /\ wd' = 0

SweepEnds ==
  /\ Running /\ loc = "sweep"
  /\ \E l \in {"state", "top"} : Enter(l)
  /\ wd' = IF loc' = "top" THEN 0 ELSE wd

\* The callback comes: state_parse_callback overwrites the bit; wait_for_tcp
\* resets the watchdog as it starts ...
\* Mutant: it does not.
Answered_NoReset ==
  /\ Running /\ phase = "wait"
  /\ phase' = "drain" /\ t' = 0
  /\ lit' \in IF loc \in {"firstState", "state"} THEN BOOLEAN ELSE {lit}
  /\ UNCHANGED <<loc, nested, nt, wd, pass>>
Answered ==
  /\ Running /\ phase = "wait"
  /\ phase' = "drain" /\ t' = 0 /\ wd' = 0
  /\ lit' \in IF loc \in {"firstState", "state"} THEN BOOLEAN ELSE {lit}
  /\ UNCHANGED <<loc, nested, nt, pass>>

\* ... and as it ends.  With nothing else due after /off, loop() is left.
DrainEnds ==
  /\ Running /\ phase = "drain" /\ t >= HTTP_TIMEOUT
  /\ \E l \in {After[loc]} \cup (IF loc = "off" THEN {"state", "top"} ELSE {}) : Enter(l)
  /\ wd' = 0

\* HTTP_TIMEOUT: reboot_after_delay resets the watchdog first.
Timeout ==
  /\ wd < WDTO
  /\ \/ nested = "wait" /\ nt = HTTP_TIMEOUT
     \/ nested = "none" /\ phase = "wait" /\ t = HTTP_TIMEOUT
  /\ Enter("delay") /\ wd' = 0

----------------------------------------------------------------------------
(* The sniffer's api_set_on: in any packetLoop() but one that holds the    *)
(* lock or runs inside the sniffer already.                                *)

\* Mutant: sniffer_nested is not looked at.
SniffTurnsOn_Again ==
  /\ wd < WDTO /\ nested # "wait" /\ (lit => nested = "drain")
  /\ loc \in {"top", "lastSweep", "sweep"} \/ phase = "drain"
  /\ nested' = "wait" /\ nt' = 0 /\ lit' = TRUE
  /\ UNCHANGED <<loc, phase, t, wd, pass>>
SniffTurnsOn ==
  /\ Running /\ ~lit
  /\ loc \in {"top", "lastSweep", "sweep"} \/ phase = "drain"
  /\ nested' = "wait" /\ nt' = 0 /\ lit' = TRUE
  /\ UNCHANGED <<loc, phase, t, wd, pass>>

NestedAnswered ==
  /\ nested = "wait" /\ wd < WDTO
  /\ nested' = "drain" /\ nt' = 0 /\ wd' = 0
  /\ UNCHANGED <<loc, phase, lit, t, pass>>

NestedDrainEnds ==
  /\ nested = "drain" /\ nt = HTTP_TIMEOUT
  /\ nested' = "none" /\ nt' = 0 /\ wd' = 0
  /\ UNCHANGED <<loc, phase, lit, t, pass>>

----------------------------------------------------------------------------
(* Reboots and time.                                                       *)

\* Each delay but the last ends in a wdt_reset().
DelayStep ==
  /\ loc = "delay" /\ wd < WDTO
  /\ \/ t \in {DELAY, 2 * DELAY} /\ t' = t + 1 /\ wd' = 1 /\ pass' = pass + 1
        /\ UNCHANGED <<loc, phase, lit, nested, nt>>
     \/ t = 3 * DELAY /\ Enter("dhcp") /\ wd' = 0

\* Where a second may pass: in a wait that is not over.
CanPass ==
  \/ nested # "none" /\ nt < HTTP_TIMEOUT
  \/ /\ nested = "none"
     /\ \/ phase # "run" /\ t < HTTP_TIMEOUT
        \/ loc \in {"lastSweep", "sweep"} /\ t < SWEEP
        \/ loc = "dhcp" /\ t < DHCP_SETUP
        \/ loc = "dns" /\ t < 2 * DNS_LOOKUP
        \/ loc = "delay" /\ t \notin {DELAY, 2 * DELAY, 3 * DELAY}

\* wait_for_tcp's clock runs on during a nested call; a sweep's does not.
Second ==
  /\ wd < WDTO /\ CanPass
  /\ wd' = wd + 1 /\ pass' = pass + 1
  /\ nt' = IF nested = "none" THEN 0 ELSE nt + 1
  /\ t' = IF nested = "none" \/ (phase = "drain" /\ t < HTTP_TIMEOUT) THEN t + 1 ELSE t
  /\ UNCHANGED <<loc, phase, lit, nested>>

\* ISR(WDT_vect): jmp 0.
Bite == wd = WDTO /\ Enter("dhcp") /\ wd' = 0

Step ==
  \/ SetupStep \/ SetupFails \/ LoopBody \/ LastSweepEnds \/ SweepEnds
  \/ Answered \/ DrainEnds \/ Timeout
  \/ SniffTurnsOn \/ NestedAnswered \/ NestedDrainEnds
  \/ DelayStep \/ Second \/ Bite

Next == Step /\ UNCHANGED WDTO

Spec == Init /\ [][Next]_vars

----------------------------------------------------------------------------
Bites == wd = WDTO
Longest(times) == CHOOSE t1 \in times : \A t2 \in times : t2 <= t1

\* Types; the counter never runs past the period, since the watchdog fires
\* wherever the board is.
TypeOK ==
  /\ WDTO \in Periods
  /\ loc \in Locs /\ phase \in {"run", "wait", "drain"} /\ lit \in BOOLEAN
  /\ nested \in {"none", "wait", "drain"}
  /\ t \in Nat /\ nt \in 0..HTTP_TIMEOUT /\ wd \in 0..WDTO /\ pass \in Nat

\* The watchdog is not hit by any single wait of loop(), by two calls in a
\* row, by a call after a sweep or by the delayed reboot: only while the
\* network is configured, and by an api_set_on that the sniffer makes inside
\* the wait_for_tcp of another call (api_client.ino:161-169).
BitesOnlyNested ==
  /\ TypeOK
  /\ Bites => loc \in {"dhcp", "dns"} \/ (phase = "drain" /\ nested = "wait")

\* Whatever the network does, loop() is left, for the next or for
\* reboot_after_delay and its 21 seconds, within 90 seconds: far less than the
\* fifteen minutes of the absence timer (House's AbsenceElapses relies on it).
PassIsShort == loc \in {"top", "lastSweep", "sweep", "off", "state"} => pass < 90

\* With a period longer than every single wait of the code the watchdog would
\* never fire: wherever waits follow one another, a wdt_reset() lies between
\* them, except where calls nest.
NeverBites ==
  WDTO > Longest({HTTP_TIMEOUT + HTTP_TIMEOUT, HTTP_TIMEOUT + SWEEP,
                  DHCP_SETUP, DNS_LOOKUP + DNS_LOOKUP, DELAY}) => ~Bites
=============================================================================
