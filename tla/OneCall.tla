------------------------------ MODULE OneCall ------------------------------
(***************************************************************************)
(* What the API calls of the firmware promise together, with the           *)
(* re-entrant stack, the lock and the callbacks forgotten: at most one     *)
(* exchange is under way at a time; it takes effect on the server at most  *)
(* once, before it succeeds; and only an exchange given up before it took  *)
(* effect can still take effect later, once, or not at all.                *)
(***************************************************************************)
VARIABLES
  slot,     \* the exchange under way, or "none"
  handled,  \* the server has handled it
  on,       \* the server has this house lit
  late      \* exchanges given up whose effect may still come

vars == <<slot, handled, on, late>>

Effect(op) == IF op = "on" THEN TRUE ELSE IF op = "off" THEN FALSE ELSE on

Init ==
  /\ slot = "none" /\ handled = FALSE
  /\ on \in BOOLEAN
  /\ late = {}

Begin(op) ==
  /\ slot = "none"
  /\ slot' = op
  /\ UNCHANGED <<handled, on, late>>

Handle ==
  /\ slot # "none" /\ ~handled
  /\ handled' = TRUE
  /\ on' = Effect(slot)
  /\ UNCHANGED <<slot, late>>

Succeed ==
  /\ handled
  /\ slot' = "none" /\ handled' = FALSE
  /\ UNCHANGED <<on, late>>

\* A time-out, a restart or a bad answer.
GiveUp ==
  /\ slot # "none"
  /\ slot' = "none" /\ handled' = FALSE
  /\ late' = IF handled THEN late ELSE late \cup ({slot} \cap {"on", "off"})
  /\ UNCHANGED on

\* One of the exchanges given up takes effect, or never will.
Late(op) ==
  /\ op \in late
  /\ late' \in {late, late \ {op}}
  /\ on' \in {on, Effect(op)}
  /\ UNCHANGED <<slot, handled>>

Next ==
  \/ \E op \in {"mac", "state", "on", "off"} : Begin(op)
  \/ Handle \/ Succeed \/ GiveUp
  \/ \E op \in {"on", "off"} : Late(op)

Spec == Init /\ [][Next]_vars
=============================================================================
