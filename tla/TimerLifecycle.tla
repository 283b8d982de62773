---------------------------- MODULE TimerLifecycle ----------------------------
(***************************************************************************)
(* What a timer promises, without the table, the scheduler task and its    *)
(* rounds: each timer goes its own way, whatever the others do.  It is     *)
(* asked for, may be cancelled, is taken up when its instant has come,     *)
(* rings once at most each time it is taken up, and is over when that is   *)
(* recorded.  Being taken up may come to nothing at any moment.            *)
(***************************************************************************)
EXTENDS Naturals

CONSTANT Timer

VARIABLES
  clock,
  wanted,   \* the instant a timer is for
  outcome,  \* "none", "pending", or how it ended
  hold,     \* "free", or taken up: "held", and "rung" when it has rung
  rings,    \* how often a timer rang
  lost      \* how many of these rings nobody has a record of

vars == <<clock, wanted, outcome, hold, rings, lost>>

Over == {"cancelled", "fired", "failed"}

Typed ==
  /\ clock \in Nat
  /\ wanted \in [Timer -> Nat]
  /\ outcome \in [Timer -> {"none", "pending"} \cup Over]
  /\ hold \in [Timer -> {"free", "held", "rung"}]
  /\ rings \in [Timer -> Nat]
  /\ lost \in [Timer -> Nat]

Init ==
  /\ Typed
  /\ \A t \in Timer :
       outcome[t] = "none" /\ hold[t] = "free" /\ rings[t] = 0 /\ lost[t] = 0

Stand(t) == UNCHANGED <<wanted[t], outcome[t], hold[t], rings[t], lost[t]>>

Ask(t) ==
  /\ outcome[t] = "none"
  /\ outcome'[t] = "pending"
  /\ UNCHANGED <<hold[t], rings[t], lost[t]>>

Cancel(t) ==
  /\ outcome[t] = "pending"
  /\ outcome'[t] = "cancelled"
  /\ UNCHANGED <<wanted[t], hold[t], rings[t], lost[t]>>

\* A timer that is cancelled now will ring all the same.
TakeUp(t) ==
  /\ outcome[t] = "pending" /\ wanted[t] <= clock
  /\ hold[t] = "free"
  /\ hold'[t] = "held"
  /\ UNCHANGED <<wanted[t], outcome[t], rings[t], lost[t]>>

Ring(t) ==
  /\ hold[t] = "held"
  /\ hold'[t] = "rung"
  /\ rings'[t] = rings[t] + 1
  /\ UNCHANGED <<wanted[t], outcome[t], lost[t]>>

\* What has rung may be on record as failed; what has not is never as fired.
Record(t) ==
  /\ hold[t] # "free"
  /\ hold'[t] = "free"
  /\ outcome'[t] \in IF hold[t] = "rung" THEN {"fired", "failed"} ELSE {"failed"}
  /\ UNCHANGED <<wanted[t], rings[t], lost[t]>>

Lose(t) ==
  /\ hold[t] # "free"
  /\ hold'[t] = "free"
  /\ lost'[t] = lost[t] + (IF hold[t] = "rung" THEN 1 ELSE 0)
  /\ UNCHANGED <<wanted[t], outcome[t], rings[t]>>

Move(t) == Ask(t) \/ Cancel(t) \/ TakeUp(t) \/ Ring(t) \/ Record(t) \/ Lose(t)

\* Timers move one at a time or together, but each by itself.
Next ==
  /\ Typed' /\ clock <= clock'
  /\ \A t \in Timer : Stand(t) \/ Move(t)

Spec == Init /\ [][Next]_vars

-----------------------------------------------------------------------------
(* What follows.                                                           *)

\* A timer rings for each time it was taken up and nobody could record it, and
\* once more; not before its instant, and fired is what has rung.
RingsOnce ==
  \A t \in Timer :
    /\ rings[t] <= lost[t] + 1
    /\ rings[t] > 0 => wanted[t] <= clock
    /\ outcome[t] = "fired" => rings[t] = lost[t] + 1

\* A timer that is over and not taken up is left alone for ever.
OverIsOver ==
  [][\A t \in Timer : outcome[t] \in Over /\ hold[t] = "free" => Stand(t)]_vars
===============================================================================
