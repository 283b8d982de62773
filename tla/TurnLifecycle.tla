---------------------------- MODULE TurnLifecycle ----------------------------
(***************************************************************************)
(* What a conversation turn promises, without store, events or sessions:   *)
(* a question is accepted, tools run one after another and never twice, an *)
(* answer is stored before the turn is reported done, and a turn that is   *)
(* over does nothing any more.                                             *)
(***************************************************************************)
EXTENDS Naturals

CONSTANTS
  Turn,       \* the turns
  MaxPasses,  \* model passes of a turn
  MaxCalls    \* bound: tool calls of one pass

VARIABLES
  phase,      \* new, asked, acting (a tool is running), answered, done, or gone
  ran         \* the tool calls a turn has run, as <<pass, index>>

vars == <<phase, ran>>

Slot == (1 .. MaxPasses) \X (1 .. MaxCalls)

\* Tool call a belongs before tool call b.
Before(a, b) == a[1] < b[1] \/ (a[1] = b[1] /\ a[2] < b[2])

Init ==
  /\ phase = [t \in Turn |-> "new"]
  /\ ran = [t \in Turn |-> {}]

Ask(t) ==
  /\ phase[t] = "new"
  /\ phase' = [phase EXCEPT ![t] = "asked"]
  /\ UNCHANGED ran

RunTool(t, slot) ==
  /\ phase[t] = "asked"
  /\ \A earlier \in ran[t] : Before(earlier, slot)
  /\ ran' = [ran EXCEPT ![t] = @ \cup {slot}]
  /\ phase' = [phase EXCEPT ![t] = "acting"]

ToolDone(t) ==
  /\ phase[t] = "acting"
  /\ phase' = [phase EXCEPT ![t] = "asked"]
  /\ UNCHANGED ran

Answer(t) ==
  /\ phase[t] = "asked"
  /\ phase' = [phase EXCEPT ![t] = "answered"]
  /\ UNCHANGED ran

Report(t) ==
  /\ phase[t] = "answered"
  /\ phase' = [phase EXCEPT ![t] = "done"]
  /\ UNCHANGED ran

\* Some turns are given up: one that fails, or all that a crash interrupts.
GiveUp(turns) ==
  /\ \A t \in turns : phase[t] \notin {"done", "gone"}
  /\ phase' = [t \in Turn |-> IF t \in turns THEN "gone" ELSE phase[t]]
  /\ UNCHANGED ran

Next ==
  \/ \E t \in Turn : Ask(t) \/ ToolDone(t) \/ Answer(t) \/ Report(t)
  \/ \E t \in Turn, slot \in Slot : RunTool(t, slot)
  \/ \E turns \in SUBSET Turn : GiveUp(turns)

Spec == Init /\ [][Next]_vars
=============================================================================
