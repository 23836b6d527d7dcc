---------------------------- MODULE HouseProofs ----------------------------
(***************************************************************************)
(* What House promises for every set of houses and addresses and every     *)
(* number of faults.  Each proof has one step per action.                  *)
(***************************************************************************)
EXTENDS House, TLAPS

USE MyIdAssumption, AddressAssumption, FaultsAssumption, BlankAssumption

----------------------------------------------------------------------------
(* Lemmas on the helpers.                                                  *)

\* The tables of API calls: who calls what, and where the caller goes on.
LEMMA CallTables ==
  /\ CallLocs = {"mac", "firstState", "off", "state"}
  /\ \A l \in CallLocs : OpAt[l] \in Ops \ {"on"} /\ After[l] \in SetupLocs \cup LoopLocs
  /\ OpAt["mac"] = "mac" /\ OpAt["firstState"] = "state"
  /\ OpAt["off"] = "off" /\ OpAt["state"] = "state"
  /\ After["mac"] = "firstState" /\ After["firstState"] = "top"
  /\ After["off"] = "sweepCheck" /\ After["state"] = "rebootCheck"
  BY DEF CallLocs, OpAt, After, Ops, SetupLocs, LoopLocs

\* Saving keeps the EEPROM well formed when what is saved is.
LEMMA SaveTyped ==
  ASSUME state' \in SUBSET Houses, target_ip' \in SubnetIps \cup {AllOnes},
         SaveStateToEeprom
  PROVE  eeprom' \in Saved
  BY DEF SaveStateToEeprom, Saved

\* Whatever bytes the sniffer callback reads, what it stores is an address
\* of the LAN.
LEMMA StoreTargetTyped ==
  ASSUME NEW ip, TypeOK, state' \in SUBSET Houses, StoreTarget(ip)
  PROVE  target_ip' \in SubnetIps \cup {AllOnes} /\ eeprom' \in Saved \cup {Blank}
  <1>1. CASE is_ip_local(ip) /\ ip # target_ip
    <2>1. ip \in SubnetIps
      BY <1>1 DEF is_ip_local
    <2> QED  BY <1>1, <2>1, SaveTyped DEF StoreTarget
  <1>2. CASE ~(is_ip_local(ip) /\ ip # target_ip)
    BY <1>2 DEF StoreTarget, saved, TypeOK
  <1> QED  BY <1>1, <1>2

\* Only an unanswered /on or /off can be orphaned.
LEMMA OrphanTyped == Orphan \subseteq {"on", "off"} /\ (call # "sent" => Orphan = {})
  BY DEF Orphan

\* A restart leads back to "boot" with every volatile variable reset.
LEMMA RestartTyped ==
  ASSUME NEW image \in {eeprom, Blank}, TypeOK, RestartWith(image),
         faults' \in 0..MaxFaults
  PROVE  TypeOK' /\ LockDiscipline'
  BY CallTables DEF TypeOK, LockDiscipline, RestartWith, Orphan, SetupLocs, LoopLocs,
     Frames, AtCall, Ops

LEMMA FaultTyped ==
  ASSUME TypeOK, Fault
  PROVE  faults' \in 0..MaxFaults /\ faults' # 0
  BY DEF TypeOK, Fault

----------------------------------------------------------------------------
(* Type correctness and the lock.                                          *)

LEMMA TypedLockStep ==
  TypeOK /\ LockDiscipline /\ [Next]_vars => TypeOK' /\ LockDiscipline'
  <1> SUFFICES ASSUME TypeOK, LockDiscipline, [Next]_vars
               PROVE  TypeOK' /\ LockDiscipline'
    OBVIOUS
  <1> USE CallTables DEF TypeOK, LockDiscipline, stack, api, lamps, saved, world,
          AtCall, Ops, SetupLocs, LoopLocs, Frames
  <1>1. CASE ReadStateFromEeprom
    BY <1>1 DEF ReadStateFromEeprom, At, Goto, Saved
  <1>2. CASE Configured
    BY <1>2 DEF Configured, At, Goto
  <1>3. CASE MainCall
    <2>1. CASE locked
      BY <1>3, <2>1 DEF MainCall
    <2>2. CASE ~locked
      BY <1>3, <2>2 DEF MainCall, Send
    <2> QED  BY <2>1, <2>2
  <1>4. CASE MainCallNoLease
    BY <1>4, RestartTyped DEF Restart, MainCallNoLease
  <1>5. CASE StopWaiting
    BY <1>5 DEF StopWaiting
  <1>6. CASE DrainEnds
    <2>1. loc \in CallLocs /\ ~locked /\ Return
      BY <1>6 DEF DrainEnds
    <2>2. target_ip' \in SubnetIps \cup {AllOnes} /\ state' \in SUBSET Houses
      BY <2>1 DEF Return
    <2>3. eeprom' \in Saved \cup {Blank}
      BY <2>1, <2>2, SaveTyped DEF Return
    <2>4. TypeOK'
      BY <1>6, <2>1, <2>2, <2>3 DEF DrainEnds, Return, Goto
    <2>5. LockDiscipline'
      BY <1>6, <2>1 DEF DrainEnds, Return, Goto
    <2> QED  BY <2>4, <2>5
  <1>7. CASE MacsParseCallback
    BY <1>7 DEF MacsParseCallback, Waiting, CallbackDone
  <1>8. CASE StateParseCallback
    <2>1. eeprom' \in Saved
      BY <1>8, SaveTyped DEF StateParseCallback
    <2> QED  BY <1>8, <2>1 DEF StateParseCallback, Waiting, CallbackDone
  <1>9. CASE ApiSetCallback
    <2>1. TypeOK'
      <3>1. listening' \in BOOLEAN /\ absent' \in BOOLEAN /\ sniffer_nested' \in BOOLEAN
        BY <1>9 DEF ApiSetCallback
      <3>2. locked' \in BOOLEAN /\ slot' \in Ops \cup {"none"}
            /\ call' \in {"idle", "sent", "answered"} /\ reply' \in SUBSET Houses
        BY <1>9 DEF CallbackDone, ApiSetCallback
      <3>3. UNCHANGED <<stack, lamps, saved, myip, world>>
        BY <1>9 DEF ApiSetCallback
      <3> QED  BY <3>1, <3>2, <3>3
    <2>2. LockDiscipline'
      BY <1>9 DEF ApiSetCallback, Waiting, CallbackDone
    <2> QED  BY <2>1, <2>2
  <1>10. CASE \E frame \in BufferFrames : NestedDrainEnds(frame)
    <2> PICK frame \in BufferFrames : NestedDrainEnds(frame)
      BY <1>10
    <2>1. target_ip' \in SubnetIps \cup {AllOnes} /\ eeprom' \in Saved \cup {Blank}
      BY StoreTargetTyped DEF NestedDrainEnds
    <2> QED  BY <2>1 DEF NestedDrainEnds
  <1>11. CASE Top
    BY <1>11 DEF Top, Step, At, Goto
  <1>12. CASE AbsenceCheck
    BY <1>12 DEF AbsenceCheck, Step, At, Goto
  <1>13. CASE LastSweepEnds
    BY <1>13 DEF LastSweepEnds, Step, At, Goto
  <1>14. CASE Recheck
    BY <1>14 DEF Recheck, At, Goto
  <1>15. CASE SweepCheck
    BY <1>15 DEF SweepCheck, Step, At, Goto
  <1>16. CASE SweepEnds
    BY <1>16 DEF SweepEnds, Step, At, Goto
  <1>17. CASE SyncDue
    BY <1>17 DEF SyncDue, Step, At, Goto
  <1>18. CASE SyncNotDue
    BY <1>18 DEF SyncNotDue, Step, At, Goto
  <1>19. CASE RebootNotDue
    BY <1>19 DEF RebootNotDue, Step, At, Goto
  <1>20. CASE \E src \in PhoneIps : Sniff(src)
    <2> PICK src \in PhoneIps : Sniff(src)
      BY <1>20
    <2>1. target_ip' \in SubnetIps \cup {AllOnes} /\ eeprom' \in Saved \cup {Blank}
      BY StoreTargetTyped DEF Sniff
    <2> QED  BY <2>1 DEF Sniff
  <1>21. CASE \E kind \in Frames : SniffTurnsOn(kind)
    BY <1>21 DEF SniffTurnsOn, Send, InMainLoop
  <1>22. CASE SniffNoLease
    BY <1>22, RestartTyped DEF Restart, SniffNoLease
  <1>23. CASE RebootDue
    BY <1>23, RestartTyped DEF Restart, RebootDue
  <1>24. CASE ConfigFails
    BY <1>24, RestartTyped, FaultTyped DEF Restart, ConfigFails
  <1>25. CASE Timeout
    BY <1>25, RestartTyped, FaultTyped DEF Restart, Timeout
  <1>26. CASE Reset
    BY <1>26, RestartTyped, FaultTyped DEF Restart, Reset
  <1>27. CASE BadResponse
    <2>1. TypeOK'
      <3>1. late' \in SUBSET {"on", "off"} /\ faults' \in 0..MaxFaults
        BY <1>27, FaultTyped, OrphanTyped DEF BadResponse
      <3>2. locked' \in BOOLEAN /\ slot' \in Ops \cup {"none"}
            /\ call' \in {"idle", "sent", "answered"} /\ reply' \in SUBSET Houses
        BY <1>27 DEF CallbackDone, BadResponse
      <3>3. UNCHANGED <<stack, listening, absent, lamps, saved, myip, server, phone>>
        BY <1>27 DEF BadResponse
      <3> QED  BY <3>1, <3>2, <3>3
    <2>2. LockDiscipline'
      BY <1>27 DEF BadResponse, Waiting, CallbackDone
    <2> QED  BY <2>1, <2>2
  <1>torn. CASE TornSave
    BY <1>torn, RestartTyped, FaultTyped DEF TornSave
  <1>28. CASE LeaseLost
    BY <1>28, FaultTyped DEF LeaseLost
  <1>29. CASE AbsenceElapses
    BY <1>29 DEF AbsenceElapses
  <1>30. CASE LeaseBack
    BY <1>30 DEF LeaseBack
  <1>31. CASE PhoneMoves
    BY <1>31 DEF PhoneMoves
  <1>32. CASE ServerHandles
    BY <1>32 DEF ServerHandles, Apply
  <1>33. CASE \E op \in {"on", "off"} : LateArrives(op)
    BY <1>33 DEF LateArrives, Apply
  <1>34. CASE \E h \in Houses \ {MyId} : OtherToggles(h)
    BY <1>34 DEF OtherToggles
  <1>35. CASE UNCHANGED vars
    BY <1>35 DEF vars
  <1> QED  BY <1>torn, <1>1, <1>2, <1>3, <1>4, <1>5, <1>6, <1>7, <1>8, <1>9, <1>10,
           <1>11, <1>12, <1>13, <1>14, <1>15, <1>16, <1>17, <1>18, <1>19,
           <1>20, <1>21, <1>22, <1>23, <1>24, <1>25, <1>26, <1>27, <1>28,
           <1>29, <1>30, <1>31, <1>32, <1>33, <1>34, <1>35 DEF Next, Device,
           Hear, Trouble, Environment

\* Every reachable state is well typed, and the lock of the re-entrant API
\* calls is always held by exactly the innermost call under way
\* (api_client.ino:1-116, sniffer.ino:5-29).
THEOREM TypedAndLocked == Spec => [](TypeOK /\ LockDiscipline)
  <1>1. Init => TypeOK /\ LockDiscipline
    <2> SUFFICES ASSUME Init PROVE TypeOK /\ LockDiscipline
      OBVIOUS
    <2>1. TypeOK
      <3>1. faults \in 0..MaxFaults /\ late \in SUBSET {"on", "off"}
        BY DEF Init
      <3> QED  BY <3>1 DEF Init, TypeOK, SetupLocs, LoopLocs, Frames, Ops
    <2>2. LockDiscipline
      BY CallTables DEF Init, LockDiscipline, AtCall
    <2> QED  BY <2>1, <2>2
  <1> QED  BY <1>1, TypedLockStep, PTL DEF Spec
THEOREM TypeCorrect == Spec => []TypeOK
  BY TypedAndLocked, PTL

\* The lock discipline on its own.
THEOREM LockIsDisciplined == Spec => []LockDiscipline
  BY TypedAndLocked, PTL

----------------------------------------------------------------------------
(* The board and the server.                                               *)

\* Between clearing its bit and sending /off the board hears nothing.
OffReady == loc = "off" /\ phase = "run" => absent /\ MyId \notin state

\* While the sniffer reports the house on, the bit stays set.
NestedOn == nested # "none" => MyId \in state

\* From the first answer to /state on, the board has seen the server's set.
Synced ==
  \/ loc \in LoopLocs
  \/ loc = "firstState" /\ phase # "run" /\ ~(phase = "wait" /\ locked)

\* Without a fault nothing is orphaned; a synced board is dark only if the
\* server's house is; an /off that was handled has left the house off; and an
\* answer to /state on its way is not older than the server for this house,
\* because only the board itself turns it on.
InSync ==
  faults = 0 =>
    /\ late = {}
    /\ Synced /\ ~OffUnderWay /\ MyId \in server => MyId \in state
    /\ loc = "off" /\ phase = "wait" /\ call # "sent" => MyId \notin server
    /\ slot = "state" /\ call = "answered" /\ MyId \in server => MyId \in reply

ServerInv == OffReady /\ NestedOn /\ InSync
\* After a restart the board is not synced; nothing new is orphaned unless a
\* fault cut a call short.
LEMMA RestartServerInv ==
  ASSUME NEW image, InSync, RestartWith(image),
         faults' # 0 \/ (faults' = faults /\ call # "sent")
  PROVE  ServerInv'
  BY OrphanTyped DEF ServerInv, OffReady, NestedOn, InSync, Synced, OffUnderWay,
     RestartWith, LoopLocs

LEMMA ServerInvStep ==
  TypeOK /\ LockDiscipline /\ ServerInv /\ [Next]_vars => ServerInv'
  <1> SUFFICES ASSUME TypeOK, LockDiscipline, ServerInv, [Next]_vars
               PROVE  ServerInv'
    OBVIOUS
  <1>a. InSync /\ (~locked => call # "sent")
    BY DEF ServerInv, LockDiscipline
  <1> USE CallTables DEF ServerInv, OffReady, NestedOn, InSync, Synced, OffUnderWay,
          LockDiscipline, stack, api, lamps, saved, world, AtCall, SetupLocs, LoopLocs
  <1>1. CASE ReadStateFromEeprom
    BY <1>1 DEF ReadStateFromEeprom, At, Goto
  <1>2. CASE Configured
    BY <1>2 DEF Configured, At, Goto
  <1>3. CASE MainCall
    BY <1>3 DEF MainCall, Send
  <1>4. CASE MainCallNoLease
    BY <1>4, <1>a, RestartServerInv DEF Restart, MainCallNoLease
  <1>5. CASE StopWaiting
    BY <1>5 DEF StopWaiting
  <1>6. CASE DrainEnds
    BY <1>6 DEF DrainEnds, Return, Goto
  <1>7. CASE MacsParseCallback
    BY <1>7 DEF MacsParseCallback, Waiting, CallbackDone
  <1>8. CASE StateParseCallback
    BY <1>8 DEF StateParseCallback, Waiting, CallbackDone
  <1>9. CASE ApiSetCallback
    BY <1>9 DEF ApiSetCallback, Waiting, CallbackDone
  <1>10. CASE \E frame \in BufferFrames : NestedDrainEnds(frame)
    BY <1>10 DEF NestedDrainEnds
  <1>11. CASE Top
    BY <1>11 DEF Top, Step, At, Goto
  <1>12. CASE AbsenceCheck
    BY <1>12 DEF AbsenceCheck, Step, At, Goto
  <1>13. CASE LastSweepEnds
    BY <1>13 DEF LastSweepEnds, Step, At, Goto
  <1>14. CASE Recheck
    BY <1>14 DEF Recheck, At, Goto
  <1>15. CASE SweepCheck
    BY <1>15 DEF SweepCheck, Step, At, Goto
  <1>16. CASE SweepEnds
    BY <1>16 DEF SweepEnds, Step, At, Goto
  <1>17. CASE SyncDue
    BY <1>17 DEF SyncDue, Step, At, Goto
  <1>18. CASE SyncNotDue
    BY <1>18 DEF SyncNotDue, Step, At, Goto
  <1>19. CASE RebootNotDue
    BY <1>19 DEF RebootNotDue, Step, At, Goto
  <1>20. CASE \E src \in PhoneIps : Sniff(src)
    BY <1>20 DEF Sniff, InMainLoop
  <1>21. CASE \E kind \in Frames : SniffTurnsOn(kind)
    BY <1>21 DEF SniffTurnsOn, Send, InMainLoop
  <1>22. CASE SniffNoLease
    BY <1>22, <1>a, RestartServerInv DEF Restart, SniffNoLease
  <1>23. CASE RebootDue
    <2>1. call # "sent"
      BY <1>23 DEF RebootDue, At
    <2> QED  BY <1>23, <1>a, <2>1, RestartServerInv DEF Restart, RebootDue
  <1>24. CASE ConfigFails
    BY <1>24, <1>a, FaultTyped, RestartServerInv DEF Restart, ConfigFails
  <1>25. CASE Timeout
    BY <1>25, <1>a, FaultTyped, RestartServerInv DEF Restart, Timeout
  <1>26. CASE Reset
    BY <1>26, <1>a, FaultTyped, RestartServerInv DEF Restart, Reset
  <1>27. CASE BadResponse
    BY <1>27, FaultTyped DEF BadResponse, Waiting, CallbackDone
  <1>torn. CASE TornSave
    BY <1>torn, <1>a, FaultTyped, RestartServerInv DEF TornSave
  <1>28. CASE LeaseLost
    BY <1>28, FaultTyped DEF LeaseLost
  <1>29. CASE AbsenceElapses
    BY <1>29 DEF AbsenceElapses
  <1>30. CASE LeaseBack
    BY <1>30 DEF LeaseBack
  <1>31. CASE PhoneMoves
    BY <1>31 DEF PhoneMoves
  <1>32. CASE ServerHandles
    BY <1>32 DEF ServerHandles, Apply
  <1>33. CASE \E op \in {"on", "off"} : LateArrives(op)
    BY <1>33 DEF LateArrives, Apply
  <1>34. CASE \E h \in Houses \ {MyId} : OtherToggles(h)
    BY <1>34 DEF OtherToggles
  <1>35. CASE UNCHANGED vars
    BY <1>35 DEF vars
  <1> QED  BY <1>torn, <1>1, <1>2, <1>3, <1>4, <1>5, <1>6, <1>7, <1>8, <1>9, <1>10,
           <1>11, <1>12, <1>13, <1>14, <1>15, <1>16, <1>17, <1>18, <1>19,
           <1>20, <1>21, <1>22, <1>23, <1>24, <1>25, <1>26, <1>27, <1>28,
           <1>29, <1>30, <1>31, <1>32, <1>33, <1>34, <1>35 DEF Next, Device,
           Hear, Trouble, Environment

THEOREM ServerInvariant == Spec => []ServerInv
  <1>1. Init => ServerInv
    BY DEF Init, ServerInv, OffReady, NestedOn, InSync, Synced, OffUnderWay, LoopLocs
  <1> QED  BY <1>1, ServerInvStep, TypedAndLocked, PTL DEF Spec

\* As long as nothing fails, a house the server has lit is lit on its board,
\* wherever in loop() the board is (lights.ino:24-30, api_client.ino:60-74).
THEOREM NeverDark == Spec => []NeverDarkButReported
  <1>1. ServerInv => NeverDarkButReported
    BY DEF ServerInv, InSync, Synced, NeverDarkButReported
  <1> QED  BY <1>1, ServerInvariant, PTL

\* /off is sent only after fifteen silent minutes
\* (client_firmware.ino:134-142).
THEOREM OffAfterSilence == Spec => OffOnlyAfterSilence
  <1>1. TypeOK /\ LockDiscipline /\ ServerInv /\ [Next]_vars
          => (slot # "off" /\ slot' = "off" => absent /\ MyId \notin state)
    <2> SUFFICES ASSUME TypeOK, LockDiscipline, ServerInv, [Next]_vars,
                        slot # "off", slot' = "off"
                 PROVE  absent /\ MyId \notin state
      OBVIOUS
    <2>1. MainCall
      BY DEF Next, Device, Hear, Trouble, Environment, vars, stack, api, lamps, saved,
         world, Restart, RestartWith, Send, Goto, Step, CallbackDone, ReadStateFromEeprom,
         Configured, MainCallNoLease, StopWaiting, DrainEnds, MacsParseCallback,
         StateParseCallback, ApiSetCallback, NestedDrainEnds, Top, AbsenceCheck,
         LastSweepEnds, Recheck, SweepCheck, SweepEnds, SyncDue, SyncNotDue,
         RebootNotDue, RebootDue, Sniff, SniffTurnsOn, SniffNoLease, ConfigFails,
         Timeout, BadResponse, LeaseLost, Reset, TornSave, AbsenceElapses, LeaseBack,
         ServerHandles, PhoneMoves, LateArrives, OtherToggles
    <2>2. loc = "off" /\ phase = "run"
      BY <2>1, CallTables DEF MainCall, AtCall, Send, api
    <2> QED  BY <2>2 DEF ServerInv, OffReady
  <1> QED  BY <1>1, TypedAndLocked, ServerInvariant, PTL DEF Spec, OffOnlyAfterSilence
----------------------------------------------------------------------------
(* Every API call is one exchange with the server.                         *)

\* Steps that leave the exchange, the server and the orphans alone.
LEMMA Stutters ==
  ASSUME slot' = slot, call' = call, server' = server, late' = late
  PROVE  UNCHANGED Call!vars
  BY DEF Call!vars

\* A request is sent only when nothing is under way.
LEMMA SendBegins ==
  ASSUME NEW op \in Ops, LockDiscipline, ~locked, Send(op), server' = server, late' = late
  PROVE  Call!Next
  <1>1. slot = "none" /\ slot' = op /\ ~(call = "answered") /\ ~(call' = "answered")
    BY DEF LockDiscipline, Send
  <1>2. Call!Begin(op)
    BY <1>1 DEF Call!Begin
  <1> QED  BY <1>2 DEF Call!Next, Ops

\* A browser callback with an answer ends an exchange the server has handled.
LEMMA CallbackSucceeds ==
  ASSUME call = "answered", CallbackDone, server' = server, late' = late
  PROVE  Call!Next
  BY DEF CallbackDone, Call!Next, Call!Succeed

\* A restart, or a bad answer, gives the exchange under way up, if there is one.
LEMMA Abandons ==
  ASSUME LockDiscipline, slot' = "none", call' = "idle", server' = server,
         late' = late \cup Orphan
  PROVE  Call!Next \/ UNCHANGED Call!vars
  <1>1. CASE slot = "none"
    BY <1>1 DEF LockDiscipline, Orphan, Call!vars
  <1>2. CASE slot # "none"
    <2>1. call = "sent" \/ call = "answered" \/ (call # "sent" /\ call # "answered")
      OBVIOUS
    <2>2. late' = IF call = "answered" THEN late ELSE late \cup ({slot} \cap {"on", "off"})
      BY <1>2 DEF LockDiscipline, Orphan
    <2>3. Call!GiveUp
      BY <1>2, <2>2 DEF Call!GiveUp
    <2> QED  BY <2>3 DEF Call!Next
  <1> QED  BY <1>1, <1>2

\* The server does to its set what OneCall says of this house.
LEMMA ApplyEffect ==
  ASSUME NEW op \in Ops, server' = Apply(op, server)
  PROVE  (MyId \in server') = Call!Effect(op)
  <1>1. CASE op = "on"
    BY <1>1 DEF Apply, Call!Effect
  <1>2. CASE op = "off"
    <2>1. server' = server \ {MyId}
      BY <1>2 DEF Apply
    <2>2. (MyId \in server') = FALSE
      BY <2>1
    <2>3. Call!Effect(op) = FALSE
      BY <1>2 DEF Call!Effect
    <2> QED  BY <2>2, <2>3
  <1>3. CASE op \notin {"on", "off"}
    <2>1. server' = server
      BY <1>3 DEF Apply
    <2> QED  BY <1>3, <2>1 DEF Call!Effect
  <1> QED  BY <1>1, <1>2, <1>3

LEMMA CallStep ==
  TypeOK /\ LockDiscipline /\ [Next]_vars => [Call!Next]_(Call!vars)
  <1> SUFFICES ASSUME TypeOK, LockDiscipline, [Next]_vars
               PROVE  Call!Next \/ UNCHANGED Call!vars
    OBVIOUS
  <1> USE DEF stack, api, lamps, saved, world
  <1>1. CASE ReadStateFromEeprom
    BY <1>1, Stutters DEF ReadStateFromEeprom
  <1>2. CASE Configured
    BY <1>2, Stutters DEF Configured
  <1>3. CASE MainCall
    <2>1. ~locked /\ loc \in CallLocs
      BY <1>3 DEF MainCall, AtCall, LockDiscipline
    <2>2. OpAt[loc] \in Ops
      BY <2>1, CallTables
    <2> QED  BY <1>3, <2>1, <2>2, SendBegins DEF MainCall
  <1>4. CASE MainCallNoLease
    BY <1>4, Abandons DEF Restart, RestartWith, MainCallNoLease
  <1>5. CASE StopWaiting
    BY <1>5, Stutters DEF StopWaiting
  <1>6. CASE DrainEnds
    BY <1>6, Stutters DEF DrainEnds
  <1>7. CASE MacsParseCallback
    BY <1>7, CallbackSucceeds DEF MacsParseCallback
  <1>8. CASE StateParseCallback
    BY <1>8, CallbackSucceeds DEF StateParseCallback
  <1>9. CASE ApiSetCallback
    BY <1>9, CallbackSucceeds DEF ApiSetCallback
  <1>10. CASE \E frame \in BufferFrames : NestedDrainEnds(frame)
    BY <1>10, Stutters DEF NestedDrainEnds
  <1>11. CASE Top
    BY <1>11, Stutters DEF Top, Step
  <1>12. CASE AbsenceCheck
    BY <1>12, Stutters DEF AbsenceCheck, Step
  <1>13. CASE LastSweepEnds
    BY <1>13, Stutters DEF LastSweepEnds, Step
  <1>14. CASE Recheck
    BY <1>14, Stutters DEF Recheck
  <1>15. CASE SweepCheck
    BY <1>15, Stutters DEF SweepCheck, Step
  <1>16. CASE SweepEnds
    BY <1>16, Stutters DEF SweepEnds, Step
  <1>17. CASE SyncDue
    BY <1>17, Stutters DEF SyncDue, Step
  <1>18. CASE SyncNotDue
    BY <1>18, Stutters DEF SyncNotDue, Step
  <1>19. CASE RebootNotDue
    BY <1>19, Stutters DEF RebootNotDue, Step
  <1>20. CASE \E src \in PhoneIps : Sniff(src)
    BY <1>20, Stutters DEF Sniff
  <1>21. CASE \E kind \in Frames : SniffTurnsOn(kind)
    BY <1>21, SendBegins DEF SniffTurnsOn, Ops
  <1>22. CASE SniffNoLease
    BY <1>22, Abandons DEF Restart, RestartWith, SniffNoLease
  <1>23. CASE RebootDue
    BY <1>23, Abandons DEF Restart, RestartWith, RebootDue
  <1>24. CASE ConfigFails
    BY <1>24, Abandons DEF Restart, RestartWith, ConfigFails
  <1>25. CASE Timeout
    BY <1>25, Abandons DEF Restart, RestartWith, Timeout
  <1>26. CASE Reset
    BY <1>26, Abandons DEF Restart, RestartWith, Reset
  <1>27. CASE BadResponse
    BY <1>27, Abandons DEF BadResponse, CallbackDone
  <1>torn. CASE TornSave
    BY <1>torn, Abandons DEF RestartWith, TornSave
  <1>28. CASE LeaseLost
    BY <1>28, Stutters DEF LeaseLost
  <1>29. CASE AbsenceElapses
    BY <1>29, Stutters DEF AbsenceElapses
  <1>30. CASE LeaseBack
    BY <1>30, Stutters DEF LeaseBack
  <1>31. CASE PhoneMoves
    BY <1>31, Stutters DEF PhoneMoves
  <1>32. CASE ServerHandles
    <2>1. slot # "none" /\ ~(call = "answered") /\ call' = "answered"
      BY <1>32 DEF ServerHandles, LockDiscipline
    <2>2. (MyId \in server') = Call!Effect(slot)
      BY <1>32, <2>1, ApplyEffect DEF ServerHandles, TypeOK
    <2>3. Call!Handle
      BY <1>32, <2>1, <2>2 DEF ServerHandles, Call!Handle
    <2> QED  BY <2>3 DEF Call!Next
  <1>33. CASE \E op \in {"on", "off"} : LateArrives(op)
    <2> PICK op \in {"on", "off"} : LateArrives(op)
      BY <1>33
    <2>1. \/ (MyId \in server') = (MyId \in server)
          \/ (MyId \in server') = Call!Effect(op)
      BY ApplyEffect DEF LateArrives, Ops
    <2>2. Call!Late(op)
      BY <2>1 DEF LateArrives, Call!Late
    <2> QED  BY <2>2 DEF Call!Next
  <1>34. CASE \E h \in Houses \ {MyId} : OtherToggles(h)
    BY <1>34 DEF OtherToggles, Call!vars
  <1>35. CASE UNCHANGED vars
    BY <1>35, Stutters DEF vars
  <1> QED  BY <1>torn, <1>1, <1>2, <1>3, <1>4, <1>5, <1>6, <1>7, <1>8, <1>9, <1>10,
           <1>11, <1>12, <1>13, <1>14, <1>15, <1>16, <1>17, <1>18, <1>19,
           <1>20, <1>21, <1>22, <1>23, <1>24, <1>25, <1>26, <1>27, <1>28,
           <1>29, <1>30, <1>31, <1>32, <1>33, <1>34, <1>35 DEF Next, Device,
           Hear, Trouble, Environment

\* The re-entrant firmware implements OneCall: its API calls never overlap,
\* and each takes effect at most once, before it succeeds.
THEOREM Refinement == Spec => RefinesOneCall
  <1>1. Init => Call!Init
    BY DEF Init, Call!Init
  <1> QED  BY <1>1, CallStep, TypedAndLocked, PTL DEF Spec, Call!Spec, RefinesOneCall
=============================================================================
