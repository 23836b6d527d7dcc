--------------------------- MODULE FirmwareProofs ---------------------------
(***************************************************************************)
(* Which of the firmware's waits the watchdog can hit, for every length of *)
(* the waits and every period; and what a start finds in the EEPROM, for   *)
(* every CRC that tells a torn save from a whole one.                      *)
(***************************************************************************)
EXTENDS Watchdog, Eeprom, TLAPS

\* Every sweep is followed by a call without a wdt_reset() between (loop()):
\* what both may take, and the limit of everything else but dhcpSetup,
\* dnsLookup and nested calls.
SweepIsShort == \A p \in Periods : SWEEP + HTTP_TIMEOUT < p

----------------------------------------------------------------------------
(* The inductive invariant.                                                *)

\* No phase is longer than what the code waits for; only calls have phases.
PhasesHold ==
  /\ phase = "run" <=> loc \notin Calls
  /\ loc \in Calls => t <= HTTP_TIMEOUT
  /\ loc = "top" => t = 0
  /\ loc \in {"lastSweep", "sweep"} => t <= SWEEP
  /\ loc = "dhcp" => t <= DHCP_SETUP
  /\ loc = "dns" => t <= 2 * DNS_LOOKUP
  /\ loc = "delay" => t <= 3 * DELAY
  /\ nested # "none" => loc \in {"top", "lastSweep", "sweep"} \/ phase = "drain"

\* How long ago the watchdog was reset at most: with each phase, but for a
\* call that follows a sweep and for what a nested call adds.
ResetHolds ==
  /\ nested = "none" =>
       /\ phase = "wait" => wd <= SWEEP + t
       /\ phase = "drain" \/ loc \in {"top", "lastSweep", "sweep", "dhcp", "dns"} => wd <= t
       /\ loc = "delay" => wd <= IF t <= DELAY THEN t
                                 ELSE IF t <= 2 * DELAY THEN t - DELAY ELSE t - 2 * DELAY
  /\ nested = "wait" => wd <= nt + (IF phase = "drain" THEN HTTP_TIMEOUT ELSE SWEEP)
  /\ nested = "drain" => wd <= nt

WatchdogInv == TypeOK /\ PhasesHold /\ ResetHolds

----------------------------------------------------------------------------
LEMMA Times ==
  /\ HTTP_TIMEOUT \in Nat /\ HTTP_TIMEOUT >= 1 /\ SWEEP \in Nat /\ SWEEP >= 1
  /\ DHCP_SETUP \in Nat /\ DHCP_SETUP >= 1 /\ DNS_LOOKUP \in Nat /\ DNS_LOOKUP >= 1
  /\ DELAY \in Nat /\ DELAY >= 1
  /\ \A p \in Periods : p \in Nat /\ p >= 1 /\ HTTP_TIMEOUT < p /\ DELAY < p
  BY TimesAssumption

LEMMA Typed ==
  ASSUME TypeOK
  PROVE  /\ WDTO \in Nat /\ WDTO >= 1 /\ HTTP_TIMEOUT < WDTO /\ DELAY < WDTO
         /\ t \in Nat /\ nt \in 0 .. HTTP_TIMEOUT /\ wd \in 0 .. WDTO /\ pass \in Nat
  BY Times DEF TypeOK

LEMMA WatchdogInit == Init => WatchdogInv
  BY Times DEF Init, WatchdogInv, TypeOK, PhasesHold, ResetHolds, Locs, Calls

\* Whatever is entered, with the watchdog reset or, for a call, after a sweep.
LEMMA EnterKeeps ==
  ASSUME TypeOK, NEW l \in Locs, Enter(l), WDTO' = WDTO,
         wd' = 0 \/ (wd' = wd /\ wd <= SWEEP /\ l \in Calls)
  PROVE  WatchdogInv'
  <1> USE DEF Enter
  <1>1. /\ loc' = l /\ nested' = "none" /\ t' = 0 /\ nt' = 0
        /\ phase' = IF l \in Calls THEN "wait" ELSE "run"
    OBVIOUS
  <1>2. lit' \in BOOLEAN /\ pass' \in Nat
    BY Typed DEF TypeOK
  <1>3. wd' \in 0 .. WDTO
    BY Typed
  <1>4. TypeOK'
    BY <1>1, <1>2, <1>3, Times DEF TypeOK
  <1>5. PhasesHold'
    BY <1>1, Times DEF PhasesHold, Calls
  <1>6. ResetHolds'
    BY <1>1, Typed, Times DEF ResetHolds, Calls
  <1> QED  BY <1>4, <1>5, <1>6 DEF WatchdogInv

LEMMA WatchdogStep ==
  ASSUME WatchdogInv, [Next]_vars
  PROVE  WatchdogInv'
  <1>0. TypeOK /\ PhasesHold /\ ResetHolds
    BY DEF WatchdogInv
  <1>t. /\ WDTO \in Nat /\ WDTO >= 1 /\ HTTP_TIMEOUT < WDTO /\ DELAY < WDTO
        /\ t \in Nat /\ nt \in 0 .. HTTP_TIMEOUT /\ wd \in 0 .. WDTO /\ pass \in Nat
    BY <1>0, Typed
  <1>e. ASSUME Next, NEW l \in Locs, Enter(l), wd' = 0  PROVE WatchdogInv'
    BY <1>0, <1>e, EnterKeeps DEF Next
  <1>1. CASE Next /\ (SetupStep \/ SetupFails \/ Timeout \/ Bite)
    <2>1. \E l \in {"dns", "mac", "dhcp", "delay"} : Enter(l) /\ wd' = 0
      BY <1>1 DEF SetupStep, SetupFails, Timeout, Bite
    <2> QED  BY <1>1, <1>e, <2>1 DEF Locs, Calls
  <1>2. CASE Next /\ (LoopBody \/ LastSweepEnds)
    <2>1. \E l \in {"top", "lastSweep", "sweep", "off", "state"} : Enter(l) /\ wd' = 0
      BY <1>2 DEF LoopBody, LastSweepEnds
    <2> QED  BY <1>2, <1>e, <2>1 DEF Locs, Calls
  <1>3. CASE Next /\ SweepEnds
    <2>1. PICK l \in {"state", "top"} : Enter(l)
      BY <1>3 DEF SweepEnds
    <2>2. loc' = l /\ wd' = IF l = "top" THEN 0 ELSE wd
      BY <1>3, <2>1 DEF SweepEnds, Enter
    <2>3. wd <= SWEEP
      BY <1>0, <1>3, <1>t, Times DEF SweepEnds, Running, PhasesHold, ResetHolds
    <2>4. l \in Locs /\ (wd' = 0 \/ l \in Calls)
      BY <2>2 DEF Locs, Calls
    <2> QED  BY <1>0, <1>3, <2>1, <2>2, <2>3, <2>4, EnterKeeps DEF Next
  <1>4. CASE Next /\ Answered
    <2> USE <1>4 DEF Answered, Next
    <2>1. TypeOK' /\ PhasesHold'
      BY <1>0, Times DEF TypeOK, PhasesHold, Running, Calls
    <2>2. ResetHolds'
      BY <1>0, Times DEF ResetHolds, PhasesHold, Running, Calls
    <2> QED  BY <2>1, <2>2 DEF WatchdogInv
  <1>5. CASE Next /\ DrainEnds
    <2>1. loc \in Calls
      BY <1>0, <1>5 DEF DrainEnds, PhasesHold
    <2>2. \E l \in {"firstState", "top", "sweep", "state"} : Enter(l) /\ wd' = 0
      BY <1>5, <2>1 DEF DrainEnds, After, Calls
    <2> QED  BY <1>5, <1>e, <2>2 DEF Locs, Calls
  <1>6. CASE Next /\ SniffTurnsOn
    <2> USE <1>6 DEF SniffTurnsOn, Next
    <2>1. TypeOK'
      BY <1>0, Times DEF TypeOK
    <2>2. PhasesHold'
      BY <1>0 DEF PhasesHold
    <2>3. ResetHolds'
      BY <1>0, <1>t, Times DEF ResetHolds, PhasesHold, Running, Calls
    <2> QED  BY <2>1, <2>2, <2>3 DEF WatchdogInv
  <1>7. CASE Next /\ (NestedAnswered \/ NestedDrainEnds)
    <2> USE <1>7 DEF NestedAnswered, NestedDrainEnds, Next
    <2>1. TypeOK'
      BY <1>0, Times DEF TypeOK
    <2>2. PhasesHold'
      BY <1>0 DEF PhasesHold
    <2>3. ResetHolds'
      BY <1>0, <1>t, Times DEF ResetHolds, PhasesHold, Calls
    <2> QED  BY <2>1, <2>2, <2>3 DEF WatchdogInv
  <1>8. CASE Next /\ DelayStep
    <2>1. CASE Enter("dhcp") /\ wd' = 0
      BY <1>8, <1>e, <2>1 DEF Locs
    <2>2. CASE /\ loc = "delay" /\ t \in {DELAY, 2 * DELAY} /\ t' = t + 1 /\ wd' = 1
               /\ pass' = pass + 1 /\ UNCHANGED <<loc, phase, lit, nested, nt, WDTO>>
      <3>1. TypeOK'
        BY <1>0, <1>t, <2>2 DEF TypeOK
      <3>2. PhasesHold'
        BY <1>0, <1>t, <2>2, Times DEF PhasesHold, Calls
      <3>3. ResetHolds'
        BY <1>0, <1>t, <2>2, Times DEF ResetHolds, PhasesHold, Calls
      <3> QED  BY <3>1, <3>2, <3>3 DEF WatchdogInv
    <2> QED  BY <1>8, <2>1, <2>2 DEF DelayStep, Next
  <1>9. CASE Next /\ Second
    <2> USE <1>9 DEF Second, Next
    <2>1. nested \in {"none", "wait", "drain"} /\ phase \in {"run", "wait", "drain"} /\ loc \in Locs
      BY <1>0 DEF TypeOK
    <2>2. /\ nested # "none" => nt < HTTP_TIMEOUT
          /\ nested = "none" /\ phase # "run" => t < HTTP_TIMEOUT
          /\ nested = "none" /\ phase = "run" =>
               \/ loc \in {"lastSweep", "sweep"} /\ t < SWEEP
               \/ loc = "dhcp" /\ t < DHCP_SETUP
               \/ loc = "dns" /\ t < 2 * DNS_LOOKUP
               \/ loc = "delay" /\ t \notin {DELAY, 2 * DELAY, 3 * DELAY}
      BY <1>0, <2>1 DEF CanPass, PhasesHold, Calls
    <2>3. TypeOK'
      BY <1>0, <1>t, <2>1, <2>2, Times DEF TypeOK
    <2>4. PhasesHold'
      BY <1>0, <1>t, <2>1, <2>2, Times DEF PhasesHold, Calls
    <2>5. ResetHolds'
      BY <1>0, <1>t, <2>1, <2>2, Times DEF ResetHolds, PhasesHold, Calls
    <2> QED  BY <2>3, <2>4, <2>5 DEF WatchdogInv
  <1>10. CASE UNCHANGED vars
    BY <1>0, <1>10 DEF vars, WatchdogInv, TypeOK, PhasesHold, ResetHolds
  <1> QED  BY <1>1, <1>2, <1>3, <1>4, <1>5, <1>6, <1>7, <1>8, <1>9, <1>10 DEF Next, Step

----------------------------------------------------------------------------
\* Where the watchdog may be about to fire, and how long after a reset.
LEMMA Limits ==
  ASSUME WatchdogInv
  PROVE  \/ nested = "none" /\ loc = "dhcp" /\ wd <= DHCP_SETUP
         \/ nested = "none" /\ loc = "dns" /\ wd <= 2 * DNS_LOOKUP
         \/ nested = "none" /\ loc = "delay" /\ wd <= DELAY
         \/ nested = "wait" /\ phase = "drain" /\ wd <= 2 * HTTP_TIMEOUT
         \/ wd <= SWEEP + HTTP_TIMEOUT
  <1>0. TypeOK /\ PhasesHold /\ ResetHolds
    BY DEF WatchdogInv
  <1>1. nested \in {"none", "wait", "drain"} /\ phase \in {"run", "wait", "drain"} /\ loc \in Locs
    BY <1>0 DEF TypeOK
  <1>2. CASE nested = "none"
    BY <1>0, <1>1, <1>2, Typed, Times DEF PhasesHold, ResetHolds, Locs, Calls
  <1>3. CASE nested # "none"
    BY <1>0, <1>1, <1>3, Typed, Times DEF PhasesHold, ResetHolds
  <1> QED  BY <1>2, <1>3

LEMMA InvImpliesBitesOnlyNested == SweepIsShort /\ WatchdogInv => BitesOnlyNested
  <1> SUFFICES ASSUME SweepIsShort, WatchdogInv  PROVE BitesOnlyNested
    OBVIOUS
  <1>1. TypeOK /\ WDTO \in Periods
    BY DEF WatchdogInv, TypeOK
  <1>2. SWEEP + HTTP_TIMEOUT < WDTO
    BY <1>1 DEF SweepIsShort
  <1> QED  BY <1>1, <1>2, Limits, Typed, Times DEF BitesOnlyNested, Bites

\* The longest of some times is none of them less.
LEMMA LongestIsBound ==
  ASSUME NEW a \in Nat, NEW b \in Nat, NEW c \in Nat, NEW d \in Nat, NEW e \in Nat,
         NEW m, m = Longest({a, b, c, d, e})
  PROVE  m \in Nat /\ a <= m /\ b <= m /\ c <= m /\ d <= m /\ e <= m
  <1> DEFINE S == {a, b, c, d, e}
  <1>1. \E t1 \in S : \A t2 \in S : t2 <= t1
    OBVIOUS
  <1>2. Longest(S) \in S /\ \A t2 \in S : t2 <= Longest(S)
    BY <1>1 DEF Longest
  <1> QED  BY <1>2

LEMMA InvImpliesNeverBites == WatchdogInv => NeverBites
  <1> SUFFICES ASSUME WatchdogInv  PROVE NeverBites
    OBVIOUS
  <1> DEFINE m == Longest({HTTP_TIMEOUT + HTTP_TIMEOUT, HTTP_TIMEOUT + SWEEP,
                           DHCP_SETUP, DNS_LOOKUP + DNS_LOOKUP, DELAY})
  <1>1. /\ m \in Nat /\ HTTP_TIMEOUT + HTTP_TIMEOUT <= m /\ HTTP_TIMEOUT + SWEEP <= m
        /\ DHCP_SETUP <= m /\ DNS_LOOKUP + DNS_LOOKUP <= m /\ DELAY <= m
    <2>1. /\ HTTP_TIMEOUT + HTTP_TIMEOUT \in Nat /\ HTTP_TIMEOUT + SWEEP \in Nat
          /\ DHCP_SETUP \in Nat /\ DNS_LOOKUP + DNS_LOOKUP \in Nat /\ DELAY \in Nat
      BY Times
    <2> QED  BY <2>1, LongestIsBound
  <1>2. wd <= m
    <2> HIDE DEF m
    <2> QED  BY <1>1, Limits, Times, Typed DEF WatchdogInv
  <1>3. WDTO > m => ~(wd = WDTO)
    <2> HIDE DEF m
    <2> QED  BY <1>1, <1>2, Typed DEF WatchdogInv
  <1> QED  BY <1>3 DEF NeverBites, Bites

\* In loop() and in the delayed reboot the watchdog fires nowhere but in an
\* api_set_on of the sniffer's inside another call's wait_for_tcp, as long as a
\* sweep and a wait for an answer fit into its period (api_client.ino:161-169).
THEOREM WatchdogBitesOnlyNested ==
  ASSUME SweepIsShort
  PROVE  Spec => []BitesOnlyNested
  <1>1. Init => WatchdogInv
    BY WatchdogInit
  <1>2. WatchdogInv /\ [Next]_vars => WatchdogInv'
    BY WatchdogStep
  <1>3. WatchdogInv => BitesOnlyNested
    BY InvImpliesBitesOnlyNested
  <1> QED  BY <1>1, <1>2, <1>3, PTL DEF Spec

\* No wait is long only because several follow one another without a
\* wdt_reset() (reset_watchdog, wait_for_tcp, reboot_after_delay): a period
\* longer than each of them, nested ones taken together, is never over.
THEOREM LongPeriodNeverBites == Spec => []NeverBites
  <1>1. Init => WatchdogInv
    BY WatchdogInit
  <1>2. WatchdogInv /\ [Next]_vars => WatchdogInv'
    BY WatchdogStep
  <1>3. WatchdogInv => NeverBites
    BY InvImpliesNeverBites
  <1> QED  BY <1>1, <1>2, <1>3, PTL DEF Spec

----------------------------------------------------------------------------
(* How long a pass of loop() may last.                                     *)

InLoop == {"top", "lastSweep", "sweep", "off", "state"}

\* What the phases of this pass before the present one may have taken ...
Before ==
  CASE loc \in {"top", "lastSweep"} -> 0
    [] loc = "off" /\ phase = "wait" -> SWEEP
    [] loc = "off" /\ phase # "wait" -> SWEEP + HTTP_TIMEOUT
    [] loc = "sweep" -> SWEEP + 2 * HTTP_TIMEOUT
    [] loc = "state" /\ phase = "wait" -> 2 * SWEEP + 2 * HTTP_TIMEOUT
    [] OTHER -> 2 * SWEEP + 3 * HTTP_TIMEOUT

\* ... and the sniffer's api_set_ons in them: two waits for each time that the
\* bit was set, and it is only cleared before /off and by an answer to /state.
InNested ==
  (CASE loc \in {"top", "lastSweep"} -> 0
     [] loc = "state" /\ phase # "wait" -> 4 * HTTP_TIMEOUT
     [] OTHER -> 2 * HTTP_TIMEOUT)
  + (IF lit THEN 2 * HTTP_TIMEOUT ELSE 0)

\* What a nested call under way has left of its two waits.
StillNested ==
  CASE nested = "none" -> 0
    [] nested = "wait" -> 2 * HTTP_TIMEOUT - nt
    [] OTHER -> HTTP_TIMEOUT - nt

PassHolds ==
  /\ loc = "lastSweep" => lit
  /\ loc = "off" /\ phase = "wait" => ~lit
  /\ nested # "none" => lit
  /\ loc \in InLoop => pass + StillNested <= Before + t + InNested

PassInv == WatchdogInv /\ PassHolds

\* What is known of the present phase, in the words of PassHolds.
LEMMA PhaseLimits ==
  ASSUME WatchdogInv
  PROVE  /\ loc \in Calls => t <= HTTP_TIMEOUT /\ phase \in {"wait", "drain"}
         /\ loc = "top" => t = 0
         /\ loc \in {"lastSweep", "sweep"} => t <= SWEEP
         /\ loc \notin Calls => phase = "run"
         /\ nested \in {"none", "wait", "drain"} /\ lit \in BOOLEAN /\ loc \in Locs
         /\ nt \in 0 .. HTTP_TIMEOUT /\ t \in Nat /\ pass \in Nat
  BY Typed DEF WatchdogInv, TypeOK, PhasesHold

\* Arithmetic that the steps need.
LEMMA LessLeft ==
  ASSUME NEW p \in Nat, NEW a \in Nat, NEW a1 \in Nat, NEW b \in Nat, NEW c \in Nat,
         NEW u \in Nat, p + a <= b + u + c, a1 <= a
  PROVE  p + a1 <= b + u + c
  OBVIOUS

LEMMA SecondAdds ==
  ASSUME NEW p \in Nat, NEW a \in Nat, NEW a1 \in Nat, NEW b \in Nat, NEW c \in Nat,
         NEW u \in Nat, NEW u1 \in Nat, p + a <= b + u + c, u1 + a >= u + a1 + 1
  PROVE  p + 1 + a1 <= b + u1 + c
  OBVIOUS

LEMMA PassInit == Init => PassInv
  BY WatchdogInit DEF Init, PassInv, PassHolds, InLoop

\* A pass goes on in l, or ends.
LEMMA EnterKeepsPass ==
  ASSUME PassInv, NEW l \in Locs, Enter(l), nested = "none",
         \/ l \notin InLoop \/ l = "top"
         \/ l = "lastSweep" /\ loc = "top" /\ lit
         \/ l = "off" /\ loc = "lastSweep"
         \/ l = "sweep" /\ loc \in {"top", "lastSweep", "off"}
         \/ l = "state" /\ loc \in {"top", "lastSweep", "sweep", "off"}
  PROVE  PassHolds'
  <1> USE Times, PhaseLimits DEF PassInv, Enter
  <1>1. /\ nested' = "none" /\ t' = 0 /\ loc' = l
        /\ phase' = IF l \in Calls THEN "wait" ELSE "run"
        /\ lit' = FALSE \/ l # "off"
        /\ l \in InLoop /\ l # "off" => lit' = lit
    BY DEF InLoop
  <1>2. CASE l \notin InLoop
    BY <1>1, <1>2 DEF PassHolds, InLoop
  <1>3. CASE l = "top"
    BY <1>1, <1>3 DEF PassHolds, InLoop, Before, InNested, StillNested, Calls
  <1>4. CASE l = "lastSweep" /\ loc = "top" /\ lit
    BY <1>1, <1>4 DEF PassHolds, InLoop, Before, InNested, StillNested, Calls
  <1>5. CASE l = "off" /\ loc = "lastSweep"
    <2>1. lit /\ pass <= SWEEP + 2 * HTTP_TIMEOUT
      BY <1>5 DEF PassHolds, InLoop, Before, InNested, StillNested
    <2>2. pass' = pass /\ lit' = FALSE /\ phase' = "wait"
      BY <1>1, <1>5 DEF Calls
    <2> QED  BY <1>1, <1>5, <2>1, <2>2 DEF PassHolds, InLoop, Before, InNested, StillNested
  <1>6. CASE l = "sweep" /\ loc \in {"top", "lastSweep", "off"}
    <2>1. pass <= SWEEP + 4 * HTTP_TIMEOUT + (IF lit THEN 2 * HTTP_TIMEOUT ELSE 0)
      BY <1>6 DEF PassHolds, InLoop, Before, InNested, StillNested, Calls
    <2>2. pass' = pass /\ lit' = lit
      BY <1>1, <1>6 DEF InLoop
    <2> QED  BY <1>1, <1>6, <2>1, <2>2 DEF PassHolds, InLoop, Before, InNested, StillNested, Calls
  <1>7. CASE l = "state" /\ loc \in {"top", "lastSweep", "sweep", "off"}
    <2>1. pass <= 2 * SWEEP + 4 * HTTP_TIMEOUT + (IF lit THEN 2 * HTTP_TIMEOUT ELSE 0)
      BY <1>7 DEF PassHolds, InLoop, Before, InNested, StillNested, Calls
    <2>2. pass' = pass /\ lit' = lit /\ phase' = "wait"
      BY <1>1, <1>7 DEF InLoop, Calls
    <2> QED  BY <1>1, <1>7, <2>1, <2>2 DEF PassHolds, InLoop, Before, InNested, StillNested, Calls
  <1> QED  BY <1>2, <1>3, <1>4, <1>5, <1>6, <1>7

LEMMA PassStep ==
  ASSUME PassInv, [Next]_vars
  PROVE  PassInv'
  <1>0. WatchdogInv /\ PassHolds
    BY DEF PassInv
  <1>w. WatchdogInv'
    BY <1>0, WatchdogStep
  <1> SUFFICES PassHolds'
    BY <1>w DEF PassInv
  <1>l. /\ loc \in Calls => t <= HTTP_TIMEOUT /\ phase \in {"wait", "drain"}
        /\ loc = "top" => t = 0
        /\ loc \in {"lastSweep", "sweep"} => t <= SWEEP
        /\ loc \notin Calls => phase = "run"
        /\ nested \in {"none", "wait", "drain"} /\ lit \in BOOLEAN /\ loc \in Locs
        /\ nt \in 0 .. HTTP_TIMEOUT /\ t \in Nat /\ pass \in Nat
    BY <1>0, PhaseLimits
  <1>1. CASE SetupStep \/ SetupFails \/ Timeout \/ Bite
    <2>1. \E l \in {"dns", "mac", "dhcp", "delay"} : Enter(l)
      BY <1>1 DEF SetupStep, SetupFails, Timeout, Bite
    <2>2. PassHolds'
      BY <2>1 DEF Enter, PassHolds, InLoop
    <2> QED  BY <2>2
  <1>2. CASE LoopBody
    <2>1. PICK l \in {"sweep", "state", "top", "lastSweep"} : Enter(l) /\ (l = "lastSweep" => lit)
      BY <1>2 DEF LoopBody
    <2>2. nested = "none" /\ loc = "top" /\ l \in Locs
      BY <1>2 DEF LoopBody, Running, Locs, Calls
    <2>3. PassHolds'
      BY <2>1, <2>2, EnterKeepsPass
    <2> QED  BY <2>3
  <1>3. CASE LastSweepEnds
    <2>1. PICK l \in {"off", "sweep", "state", "top"} : Enter(l)
      BY <1>3 DEF LastSweepEnds
    <2>2. nested = "none" /\ loc = "lastSweep" /\ l \in Locs
      BY <1>3 DEF LastSweepEnds, Running, Locs, Calls
    <2>3. PassHolds'
      BY <2>1, <2>2, EnterKeepsPass
    <2> QED  BY <2>3
  <1>4. CASE SweepEnds
    <2>1. PICK l \in {"state", "top"} : Enter(l)
      BY <1>4 DEF SweepEnds
    <2>2. nested = "none" /\ loc = "sweep" /\ l \in Locs
      BY <1>4 DEF SweepEnds, Running, Locs, Calls
    <2>3. PassHolds'
      BY <2>1, <2>2, EnterKeepsPass
    <2> QED  BY <2>3
  <1>5. CASE Answered
    <2>1. /\ phase = "wait" /\ phase' = "drain" /\ t' = 0 /\ nested = "none" /\ loc' = loc
          /\ UNCHANGED <<nested, nt, pass>> /\ loc \in Calls
          /\ loc # "state" /\ loc \in InLoop => lit' = lit
      BY <1>5, <1>l DEF Answered, Running, InLoop
    <2>2. CASE loc \notin InLoop
      BY <2>1, <2>2 DEF PassHolds, InLoop
    <2>3. CASE loc = "off"
      BY <1>0, <1>l, <2>1, <2>3, Times DEF PassHolds, InLoop, Before, InNested, StillNested
    <2>4. CASE loc = "state"
      <3>1. pass <= 2 * SWEEP + 3 * HTTP_TIMEOUT + 4 * HTTP_TIMEOUT
        BY <1>0, <1>l, <2>1, <2>4, Times DEF PassHolds, InLoop, Before, InNested, StillNested
      <3>2. PassHolds'
        BY <1>l, <2>1, <2>4, <3>1, Times DEF PassHolds, InLoop, Before, InNested, StillNested
      <3> QED  BY <3>2
    <2> QED  BY <2>1, <2>2, <2>3, <2>4 DEF InLoop, Calls
  <1>6. CASE DrainEnds
    <2>1. PICK l \in {After[loc]} \cup (IF loc = "off" THEN {"state", "top"} ELSE {}) : Enter(l)
      BY <1>6 DEF DrainEnds
    <2>2. nested = "none" /\ phase = "drain" /\ loc \in Calls
      BY <1>6, <1>l DEF DrainEnds, Running
    <2>3. \/ l \in {"firstState", "top"}
          \/ loc = "off" /\ l \in {"sweep", "state"}
      BY <2>1, <2>2 DEF After, Calls
    <2>4. l \in Locs /\ "firstState" \notin InLoop
      BY <2>3 DEF Locs, Calls, InLoop
    <2>5. PassHolds'
      BY <2>1, <2>2, <2>3, <2>4, EnterKeepsPass
    <2> QED  BY <2>5
  <1>7. CASE SniffTurnsOn
    <2>1. /\ nested = "none" /\ nested' = "wait" /\ nt' = 0 /\ lit = FALSE /\ lit' = TRUE
          /\ UNCHANGED <<loc, phase, t, pass>>
          /\ loc = "off" => phase = "drain"
      BY <1>7, <1>l DEF SniffTurnsOn, Running, Calls
    <2>2. StillNested = 0 /\ StillNested' = 2 * HTTP_TIMEOUT
      BY <2>1, Times DEF StillNested
    <2>3. Before' = Before
      BY <2>1 DEF Before
    <2>4. InNested' = InNested + 2 * HTTP_TIMEOUT
      BY <2>1, Times DEF InNested
    <2>5. Before \in Nat /\ InNested \in Nat
      BY Times DEF Before, InNested
    <2>6. loc \in InLoop => pass <= Before + t + InNested
      BY <1>0, <1>l, <2>2, <2>5 DEF PassHolds
    <2>7. loc \in InLoop => pass + 2 * HTTP_TIMEOUT <= Before + t + (InNested + 2 * HTTP_TIMEOUT)
      BY <1>l, <2>5, <2>6, Times
    <2>8. PassHolds'
      BY <1>l, <2>1, <2>2, <2>3, <2>4, <2>5, <2>7, Times DEF PassHolds
    <2> QED  BY <2>8
  <1>8. CASE NestedAnswered \/ NestedDrainEnds
    <2>1. UNCHANGED <<loc, phase, lit, t, pass>>
      BY <1>8 DEF NestedAnswered, NestedDrainEnds
    <2>2. /\ StillNested' <= StillNested /\ StillNested \in Nat /\ StillNested' \in Nat
          /\ nested # "none"
      BY <1>8, <1>l, Times DEF NestedAnswered, NestedDrainEnds, StillNested
    <2>3. Before' = Before /\ InNested' = InNested /\ Before \in Nat /\ InNested \in Nat
      BY <2>1, Times DEF Before, InNested
    <2>4. loc \in InLoop => pass + StillNested <= Before + t + InNested
      BY <1>0 DEF PassHolds
    <2>5. loc \in InLoop => pass + StillNested' <= Before + t + InNested
      BY <1>l, <2>2, <2>3, <2>4, LessLeft
    <2> QED  BY <1>0, <2>1, <2>2, <2>3, <2>5 DEF PassHolds
  <1>9. CASE DelayStep
    <2>1. loc' \in {"delay", "dhcp"} /\ (nested' # "none" => lit')
      BY <1>0, <1>9 DEF DelayStep, Enter, PassHolds
    <2> QED  BY <2>1 DEF PassHolds, InLoop
  <1>10. CASE Second
    <2>1. UNCHANGED <<loc, phase, lit, nested>> /\ pass' = pass + 1
      BY <1>10 DEF Second
    <2>2. Before' = Before /\ InNested' = InNested /\ Before \in Nat /\ InNested \in Nat
      BY <2>1, Times DEF Before, InNested
    <2>3. t' + StillNested >= t + StillNested' + 1 /\ StillNested \in Nat /\ t' \in Nat
      <3>1. CASE nested = "none"
        BY <1>10, <1>l, <2>1, <3>1, Times DEF Second, StillNested
      <3>2. CASE nested # "none"
        BY <1>10, <1>l, <2>1, <3>2, Times DEF Second, StillNested, CanPass
      <3> QED  BY <3>1, <3>2
    <2>4. StillNested' \in Nat
      BY <1>10, <1>l, <2>1, Times DEF Second, StillNested, CanPass
    <2>5. loc \in InLoop => pass + 1 + StillNested' <= Before + t' + InNested
      <3>1. loc \in InLoop => pass + StillNested <= Before + t + InNested
        BY <1>0 DEF PassHolds
      <3>2. t \in Nat /\ pass \in Nat
        BY <1>l
      <3> QED  BY <2>2, <2>3, <2>4, <3>1, <3>2, SecondAdds
    <2>6. PassHolds'
      BY <1>0, <2>1, <2>2, <2>5 DEF PassHolds
    <2> QED  BY <2>6
  <1>11. CASE UNCHANGED vars
    BY <1>0, <1>11 DEF vars, PassHolds, Before, InNested, StillNested
  <1> QED  BY <1>1, <1>2, <1>3, <1>4, <1>5, <1>6, <1>7, <1>8, <1>9, <1>10, <1>11 DEF Next, Step

\* What the longest pass is made of: two sweeps, /off and /state, and three
\* api_set_ons of the sniffer's.
LEMMA PassLimit == PassInv /\ loc \in InLoop => pass <= 2 * SWEEP + 10 * HTTP_TIMEOUT
  <1> SUFFICES ASSUME PassInv, loc \in InLoop  PROVE pass <= 2 * SWEEP + 10 * HTTP_TIMEOUT
    OBVIOUS
  <1>1. StillNested \in Nat
    BY PhaseLimits, Times DEF PassInv, StillNested
  <1>2. Before + t + InNested <= 2 * SWEEP + 10 * HTTP_TIMEOUT /\ Before \in Nat /\ InNested \in Nat
    BY PhaseLimits, Times DEF PassInv, InLoop, Before, InNested, Calls
  <1> QED  BY <1>1, <1>2, PhaseLimits, Times DEF PassInv, PassHolds

\* Whatever the network, the phone and the server do and never do, loop() is
\* left within 90 seconds, for every length of the waits with which two sweeps
\* and ten waits take less: the two calls a pass can make and the three that
\* the sniffer can nest in it (loop(), api_client.ino:161-169).
THEOREM PassesAreShort ==
  ASSUME 2 * SWEEP + 10 * HTTP_TIMEOUT < 90
  PROVE  Spec => []PassIsShort
  <1>1. Init => PassInv
    BY PassInit
  <1>2. PassInv /\ [Next]_vars => PassInv'
    BY PassStep
  <1>3. PassInv => PassIsShort
    BY PassLimit, Times, PhaseLimits DEF PassIsShort, PassInv, InLoop
  <1> QED  BY <1>1, <1>2, <1>3, PTL DEF Spec

----------------------------------------------------------------------------
(* THE SAVED STATE.  The inductive invariant: between saves the image is    *)
(* read as what was kept, and one that passes the CRC, or that no save was  *)
(* cut short in, is intact; in a save the bytes before the next are the new *)
(* ones and, unless a save was cut short before, the rest is intact.        *)

SavedHolds ==
  pc # "write" =>
    /\ torn = 0 \/ crc_calc(image) = 0 => image \in Intact
    /\ Load(image) \in mayLoad
    /\ pc = "run" => mayLoad = {kept} /\ Load(image) = kept

SavingHolds ==
  pc = "write" =>
    /\ new = Image(ram) /\ mayLoad = {kept, ram, Default}
    /\ \A j \in 1..(next - 1) : image[j] = new[j]
    /\ torn = 0 => \E bytes \in Intact :
                     Load(bytes) = kept /\ image = Over(bytes, ram, next - 1)

EepromInv == EepromTypeOK /\ SavedHolds /\ SavingHolds

LEMMA DataTyped ==
  \A d \in Data : d.state \in 0..255 /\ d.ip \in [1..4 -> 0..255] /\ d = [state |-> d.state, ip |-> d.ip]
  <1>1. \A s \in States : s \in 0..255
    BY DataAssumption
  <1>2. \A ip \in Ips : ip \in [1..4 -> 0..255]
    BY DataAssumption
  <1>3. \A d \in Data : d.state \in States /\ d.ip \in Ips /\ d = [state |-> d.state, ip |-> d.ip]
    BY DEF Data
  <1> QED
    BY <1>1, <1>2, <1>3

LEMMA ResetTyped == Default \in Data /\ 0 \in 0..MaxTorn /\ 1 \in 1..(SIZE + 1)
  BY DataAssumption DEF Data, SIZE

LEMMA ImageTyped ==
  ASSUME NEW d \in Data
  PROVE  Image(d) \in Memory /\ DataOf(Image(d)) = d
  <1> DEFINE bytes == Bytes(d)
             crc == crc_calc(bytes)
  <1>1. crc \in Nat /\ crc \div 256 \in 0..255
    BY CrcAssumption
  <1>2. d.state \in 0..255 /\ d.ip \in [1..4 -> 0..255] /\ d = [state |-> d.state, ip |-> d.ip]
    BY DataTyped
  <1>3. /\ bytes \in [1..5 -> 0..255] /\ bytes[1] = d.state
        /\ \A k \in 1..4 : bytes[k + 1] = d.ip[k]
    BY <1>2 DEF Bytes
  <1>4. Image(d) = [k \in 1..7 |-> IF k <= 5 THEN bytes[k]
                                   ELSE IF k = 6 THEN crc % 256 ELSE crc \div 256]
    BY DEF Image, crc_write, SIZE
  <1> HIDE DEF crc, bytes
  <1>5. crc % 256 \in 0..255 /\ crc \div 256 \in 0..255
    BY <1>1
  <1>6. Image(d) \in [1..7 -> 0..255]
    BY <1>3, <1>4, <1>5
  <1>7. Image(d)[1] = d.state /\ \A k \in 1..4 : Image(d)[k + 1] = d.ip[k]
    BY <1>3, <1>4
  <1>8. [k \in 1..4 |-> Image(d)[k + 1]] = d.ip
    BY <1>2, <1>7
  <1> QED
    BY <1>2, <1>6, <1>7, <1>8 DEF DataOf, Memory, SIZE

LEMMA ImageLoads == \A d \in Data : Load(Image(d)) = d /\ Image(d) \in Intact
  BY CrcAssumption, ImageTyped DEF Load, Intact

LEMMA BlankTyped == Blank \in Memory /\ Blank \in Intact /\ Load(Blank) = Default
  BY BlankAssumption DEF Blank, Intact, Memory, SIZE

----------------------------------------------------------------------------
LEMMA EepromStarts == EepromInit => EepromInv
  <1>1. EepromInit => EepromTypeOK
    BY ResetTyped, BlankTyped DEF EepromInit, EepromTypeOK
  <1>2. EepromInit => SavedHolds /\ SavingHolds
    BY BlankTyped DEF EepromInit, SavedHolds, SavingHolds
  <1> QED
    BY <1>1, <1>2 DEF EepromInv

LEMMA ReadKeeps == EepromInv /\ ReadStateFromEeprom => EepromInv'
  <1> SUFFICES ASSUME EepromInv, ReadStateFromEeprom
               PROVE  EepromInv'
    OBVIOUS
  <1>1. Load(image) \in Data
    BY DEF EepromInv, EepromTypeOK, SavedHolds, ReadStateFromEeprom
  <1>2. EepromTypeOK'
    BY <1>1, ResetTyped, BlankTyped DEF EepromInv, EepromTypeOK, ReadStateFromEeprom
  <1>3. SavedHolds'
    BY DEF EepromInv, SavedHolds, ReadStateFromEeprom, Load
  <1> QED
    BY <1>2, <1>3 DEF EepromInv, SavingHolds, ReadStateFromEeprom

LEMMA SaveKeeps == ASSUME EepromInv, NEW d \in Data, SaveStateToEeprom(d) PROVE EepromInv'
  <1>1. EepromTypeOK'
    BY ResetTyped, ImageTyped DEF EepromInv, EepromTypeOK, SaveStateToEeprom
  <1>2. image = Over(image, d, 0)
    BY DEF Over, EepromInv, EepromTypeOK, Memory, SIZE
  <1>3. torn = 0 => image \in Intact /\ Load(image) = kept
    BY DEF EepromInv, SavedHolds, SaveStateToEeprom
  <1>4. SavingHolds'
    <2>1. image' = image /\ torn' = torn /\ kept' = kept /\ ram' = d /\ next' = 1
          /\ new' = Image(d) /\ mayLoad' = {kept, d, Default}
      BY DEF SaveStateToEeprom
    <2>2. \A j \in 1..(next' - 1) : FALSE
      BY <2>1
    <2>3. torn = 0 => \E bytes \in Intact : Load(bytes) = kept /\ image = Over(bytes, d, 1 - 1)
      BY <1>2, <1>3
    <2> QED
      BY <2>1, <2>2, <2>3 DEF SavingHolds
  <1> QED
    BY <1>1, <1>4 DEF EepromInv, SavedHolds, SaveStateToEeprom

LEMMA WriteKeeps == EepromInv /\ WriteByte => EepromInv'
  <1> SUFFICES ASSUME EepromInv, WriteByte
               PROVE  EepromInv'
    OBVIOUS
  <1>1. next \in 1..7 /\ image \in [1..7 -> 0..255] /\ new \in [1..7 -> 0..255]
    <2>1. next \in 1..7
      BY DEF WriteByte, EepromInv, EepromTypeOK, SIZE
    <2>2. image \in [1..7 -> 0..255] /\ new \in [1..7 -> 0..255]
      BY DEF EepromInv, EepromTypeOK, Memory, SIZE
    <2> QED
      BY <2>1, <2>2
  <1>2. image' \in [1..7 -> 0..255] /\ next' = next + 1
        /\ \A j \in 1..7 : image'[j] = IF j = next THEN new[j] ELSE image[j]
    BY <1>1 DEF WriteByte, SIZE
  <1>3. EepromTypeOK'
    <2>1. image' \in Memory /\ next' \in 1..(SIZE + 1)
      BY <1>1, <1>2 DEF Memory, SIZE
    <2> QED
      BY <2>1 DEF EepromInv, EepromTypeOK, WriteByte
  <1>4. ASSUME NEW bytes, image = Over(bytes, ram, next - 1), new = Image(ram)
        PROVE  image' = Over(bytes, ram, next)
    <2>1. \A j \in 1..7 : image[j] = IF j <= next - 1 THEN new[j] ELSE bytes[j]
      BY <1>4 DEF Over, SIZE
    <2>2. \A j \in 1..7 : image'[j] = IF j <= next THEN new[j] ELSE bytes[j]
      BY <1>1, <1>2, <2>1
    <2>3. image' = [j \in 1..7 |-> IF j <= next THEN new[j] ELSE bytes[j]]
      BY <1>2, <2>2
    <2> QED
      BY <1>4, <2>3 DEF Over, SIZE
  <1>5. SavingHolds'
    <2>1. new = Image(ram) /\ mayLoad = {kept, ram, Default}
          /\ \A j \in 1..(next - 1) : image[j] = new[j]
      BY DEF EepromInv, SavingHolds, WriteByte
    <2>2. \A j \in 1..(next' - 1) : image'[j] = new[j]
      <3> SUFFICES ASSUME NEW j \in 1..next
                   PROVE  image'[j] = new[j]
        BY <1>1, <1>2
      <3>1. j \in 1..7 /\ (j = next \/ j \in 1..(next - 1))
        BY <1>1
      <3> QED
        BY <1>2, <2>1, <3>1
    <2>3. torn = 0 => \E bytes \in Intact : Load(bytes) = kept /\ image' = Over(bytes, ram, next' - 1)
      <3>1. SUFFICES ASSUME torn = 0
                     PROVE  \E bytes \in Intact : Load(bytes) = kept /\ image' = Over(bytes, ram, next)
        BY <1>1, <1>2
      <3>2. PICK bytes \in Intact : Load(bytes) = kept /\ image = Over(bytes, ram, next - 1)
        BY <3>1 DEF EepromInv, SavingHolds, WriteByte
      <3> QED
        BY <3>2, <1>4, <2>1
    <2> QED
      BY <2>1, <2>2, <2>3 DEF SavingHolds, WriteByte
  <1> QED
    BY <1>3, <1>5 DEF EepromInv, SavedHolds, WriteByte

LEMMA EndKeeps == EepromInv /\ SaveEnds => EepromInv'
  <1> SUFFICES ASSUME EepromInv, SaveEnds
               PROVE  EepromInv'
    OBVIOUS
  <1>1. image = Image(ram) /\ ram \in Data
    <2>1. next = 8 /\ image \in [1..7 -> 0..255] /\ ram \in Data
      BY DEF SaveEnds, EepromInv, EepromTypeOK, Memory, SIZE
    <2>2. \A j \in 1..7 : image[j] = Image(ram)[j]
      BY <2>1 DEF EepromInv, SavingHolds, SaveEnds
    <2> QED
      BY <2>1, <2>2, ImageTyped DEF Memory, SIZE
  <1>2. Load(image) = ram /\ image \in Intact
    BY <1>1, ImageLoads
  <1>3. EepromTypeOK'
    BY <1>1, ResetTyped, BlankTyped DEF EepromInv, EepromTypeOK, SaveEnds
  <1>4. SavedHolds'
    BY <1>2 DEF SavedHolds, SaveEnds, Load
  <1> QED
    BY <1>3, <1>4 DEF EepromInv, SavingHolds, SaveEnds

LEMMA PowerKeeps == EepromInv /\ PowerLoss => EepromInv'
  <1> SUFFICES ASSUME EepromInv, PowerLoss
               PROVE  EepromInv'
    OBVIOUS
  <1>1. EepromTypeOK'
    <2>1. torn' \in 0..MaxTorn
      BY DataAssumption DEF EepromInv, EepromTypeOK, PowerLoss
    <2> QED
      BY <2>1, ResetTyped, BlankTyped DEF EepromInv, EepromTypeOK, PowerLoss
  <1>2. CASE pc = "run"
    <2>1. SavedHolds'
      BY <1>2 DEF EepromInv, SavedHolds, PowerLoss, Load
    <2> QED
      BY <1>1, <2>1 DEF EepromInv, SavingHolds, PowerLoss
  <1>3. CASE pc = "write"
    <2>1. torn = 0 /\ torn' = 1
      BY <1>3, DataAssumption DEF EepromInv, EepromTypeOK, PowerLoss
    <2>2. PICK bytes \in Intact : Load(bytes) = kept /\ image = Over(bytes, ram, next - 1)
      BY <1>3, <2>1 DEF EepromInv, SavingHolds
    <2>3. next - 1 \in 0..SIZE /\ ram \in Data
      BY DEF EepromInv, EepromTypeOK, SIZE
    <2>9. mayLoad = {kept, ram, Default}
      BY <1>3 DEF EepromInv, SavingHolds
    <2>4. crc_calc(image) = 0 => image \in Intact /\ DataOf(image) \in mayLoad
      BY <2>2, <2>3, <2>9, TearAssumption
    <2>5. Load(image) \in mayLoad
      BY <2>9, <2>4 DEF Load
    <2>6. SavedHolds'
      BY <2>1, <2>4, <2>5 DEF SavedHolds, PowerLoss, Load
    <2> QED
      BY <1>1, <2>6 DEF EepromInv, SavingHolds, PowerLoss
  <1> QED
    BY <1>2, <1>3 DEF PowerLoss

LEMMA EepromSteps == EepromInv /\ [EepromNext]_eepromVars => EepromInv'
  <1> SUFFICES ASSUME EepromInv, [EepromNext]_eepromVars
               PROVE  EepromInv'
    OBVIOUS
  <1>1. CASE UNCHANGED eepromVars
    BY <1>1 DEF eepromVars, EepromInv, EepromTypeOK, SavedHolds, SavingHolds, Load
  <1> QED
    BY <1>1, ReadKeeps, SaveKeeps, WriteKeeps, EndKeeps, PowerKeeps DEF EepromNext

THEOREM EepromKeeps == EepromSpec => []EepromInv
  BY EepromStarts, EepromSteps, PTL DEF EepromSpec

\* The EEPROM holds bytes and the program only data it could have saved.
THEOREM SavedTypes == EepromSpec => []EepromTypeOK
  <1>1. EepromInv => EepromTypeOK
    BY DEF EepromInv
  <1> QED
    BY <1>1, EepromKeeps, PTL

\* For every CRC that passes what crc_write made and of what a tear leaves only
\* what is all of one save, a start never finds the state of one save with the
\* target of another, and finds what was saved when the save was completed.
THEOREM NoTearIsLoaded == EepromSpec => NoTornLoad
  <1>1. EepromInv /\ [EepromNext]_eepromVars => [pc = "off" /\ pc' = "run" => ram' \in mayLoad]_eepromVars
    <2> SUFFICES ASSUME EepromInv, EepromNext, pc = "off", pc' = "run"
                 PROVE  ram' \in mayLoad
      OBVIOUS
    <2>1. ReadStateFromEeprom
      BY DEF EepromNext, SaveStateToEeprom, WriteByte, SaveEnds, PowerLoss
    <2> QED
      BY <2>1 DEF ReadStateFromEeprom, EepromInv, SavedHolds
  <1> QED
    BY <1>1, EepromKeeps, PTL DEF EepromSpec, NoTornLoad
=============================================================================
