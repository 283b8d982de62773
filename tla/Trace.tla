-------------------------------- MODULE Trace --------------------------------
(***************************************************************************)
(* The trace of a turn.  Every model call and every tool run of every turn *)
(* goes into one ring of records, the exact text of a call into a shorter  *)
(* one; when a turn the server runs has ended well, what the ring holds of *)
(* its session since it began becomes rows of session_traces, and each row *)
(* names the detail it goes with.                                          *)
(*                                                                         *)
(* Turns overlap, in one session and in several.  The clock is the number  *)
(* of the next record: nothing else is ever compared with it.              *)
(***************************************************************************)
EXTENDS Naturals, Sequences, SequencesExt

CONSTANTS
  TracedTurn, \* turns
  ChatOf,     \* the session of each
  Stored,     \* those the server runs on a chat that is not ephemeral
  MaxSteps,   \* bound: steps of a turn
  Ring,       \* RING
  DetailRing, \* DETAIL_RING
  MaxLives    \* bound: lives of the process

ASSUME TraceAssumption ==
  /\ IsFiniteSet(TracedTurn) /\ DOMAIN ChatOf = TracedTurn /\ Stored \subseteq TracedTurn
  /\ MaxSteps \in Nat /\ {Ring, DetailRing, MaxLives} \subseteq Nat \ {0}

VARIABLES
  traces,  \* _traces: id and kind, and whose step it is, oldest first
  details, \* _details: id, and whose step it is, oldest first
  nextId,  \* _next_id
  since,   \* wall_t0 of each turn
  going,   \* whether each turn is yet to come, running or over
  taken,   \* the steps it has taken
  saved,   \* session_traces: for each turn the steps of its trace, which are in
           \* the order of their ids
  overlap, \* history: pairs of turns that ran at the same time
  whole,   \* history: the turns stored while the ring held all since they began
  life     \* history: how often the process has started

traceVars == <<traces, details, nextId, since, going, taken, saved, overlap, whole, life>>

MaxId  == Cardinality(TracedTurn) * MaxSteps
Record == [id : 0 .. MaxId, kind : {"llm", "tool"},
           turn : TracedTurn, step : 1 .. MaxSteps, life : 1 .. MaxLives]

TraceTypeOK ==
  /\ traces \in Seq(Record) /\ Len(traces) <= Ring
  /\ details \in Seq(Record) /\ Len(details) <= DetailRing
  /\ nextId \in 0 .. MaxId
  /\ since \in [TracedTurn -> 0 .. MaxId]
  /\ going \in [TracedTurn -> {"idle", "running", "over"}]
  /\ taken \in [TracedTurn -> 0 .. MaxSteps]
  /\ saved \in [TracedTurn -> SUBSET Record]
  /\ overlap \subseteq TracedTurn \X TracedTurn
  /\ whole \subseteq TracedTurn /\ life \in 1 .. MaxLives

TraceInit ==
  /\ traces = <<>> /\ details = <<>> /\ nextId = 0 /\ life = 1
  /\ since = [t \in TracedTurn |-> 0] /\ taken = [t \in TracedTurn |-> 0]
  /\ going = [t \in TracedTurn |-> "idle"]
  /\ saved = [t \in TracedTurn |-> {}] /\ overlap = {} /\ whole = {}

Running == {t \in TracedTurn : going[t] = "running"}

-----------------------------------------------------------------------------

\* chat and chat_stream take the time before anything else.
BeginTraced(t) ==
  /\ going[t] = "idle"
  /\ going' = [going EXCEPT ![t] = "running"]
  /\ since' = [since EXCEPT ![t] = nextId]
  /\ overlap' = overlap \cup ({t} \X Running) \cup (Running \X {t})
  /\ UNCHANGED <<traces, details, nextId, taken, saved, whole, life>>

\* A ring of n: the last n.
Kept(n, s) == IF Len(s) > n THEN Tail(s) ELSE s

Step(t, kind) == [id |-> nextId, kind |-> kind, turn |-> t,
                  step |-> taken[t] + 1, life |-> life]

\* One more step in the ring of records, under an id of its own.
Recorded(t, kind) ==
  /\ going[t] = "running" /\ taken[t] < MaxSteps
  /\ traces' = Kept(Ring, Append(traces, Step(t, kind)))
  /\ nextId' = nextId + 1
  /\ taken' = [taken EXCEPT ![t] = @ + 1]

\* record: a call of the model, with its text.
RecordLlm(t) ==
  /\ Recorded(t, "llm")
  /\ details' = Kept(DetailRing, Append(details, Step(t, "llm")))
  /\ UNCHANGED <<since, going, saved, overlap, whole, life>>

\* record_tool: a tool, which some call before it asked for.
RecordTool(t) ==
  /\ taken[t] > 0
  /\ Recorded(t, "tool")
  /\ UNCHANGED <<details, since, going, saved, overlap, whole, life>>

\* Mutant of ForSession: the window alone, as before the engine knew the session.
ForWindow(t) == {r \in ToSet(traces) : r.id >= since[t]}

\* for_session.
ForSession(t) ==
  {r \in ToSet(traces) : ChatOf[r.turn] = ChatOf[t] /\ r.id >= since[t]}

\* persist_turn_trace and persist_trace, once the turn has its answer.
Persist(t) ==
  /\ t \in Stored /\ going[t] = "running" /\ taken[t] > 0
  /\ going' = [going EXCEPT ![t] = "over"]
  /\ saved' = [saved EXCEPT ![t] = ForSession(t)]
  /\ whole' = IF nextId - since[t] <= Ring THEN whole \cup {t} ELSE whole
  /\ UNCHANGED <<traces, details, nextId, since, taken, overlap, life>>

\* A turn of the facade or of an ephemeral chat, one that fails or is cancelled,
\* or whose rows the locked database turns away, leaves only what is in the rings.
EndUntraced(t) ==
  /\ going[t] = "running"
  /\ going' = [going EXCEPT ![t] = "over"]
  /\ UNCHANGED <<traces, details, nextId, since, taken, saved, overlap, whole, life>>

\* The rings die with the process; the rows do not.
TraceRestart ==
  /\ life < MaxLives
  /\ life' = life + 1
  /\ traces' = <<>> /\ details' = <<>> /\ nextId' = 0
  /\ going' = [t \in TracedTurn |-> IF going[t] = "running" THEN "over" ELSE going[t]]
  /\ UNCHANGED <<since, taken, saved, overlap, whole>>

TraceNext ==
  \/ TraceRestart
  \/ \E t \in TracedTurn :
       \/ BeginTraced(t) \/ RecordLlm(t) \/ RecordTool(t)
       \/ Persist(t) \/ EndUntraced(t)

TraceSpec == TraceInit /\ [][TraceNext]_traceVars

-----------------------------------------------------------------------------
(* Safety.                                                                 *)

Whose(r) == <<r.turn, r.step>>

\* The detail the panel fetches for a row (trace_detail).
DetailOf(r) == {d \in ToSet(details) : d.id = r.id}

\* The steps of the turn itself.
Own(t, steps) == {r \in steps : r.turn = t}

\* A stored trace has the turn's own steps, in the order they were taken and
\* with only its first ones left out if the ring was full; and besides them only
\* steps of turns that shared the session at the time (for_session,
\* persist_trace).
StepsAreTheTurns ==
  \A t \in TracedTurn :
    /\ t \in whole =>
         \A s \in 1 .. taken[t] : \E r \in Own(t, saved[t]) : r.step = s
    /\ \A r \in Own(t, saved[t]) :
         /\ r.step <= taken[t]
         /\ \A s \in r.step .. taken[t] : \E q \in Own(t, saved[t]) : q.step = s
         /\ \A q \in Own(t, saved[t]) : q.id < r.id <=> q.step < r.step
    /\ \A r \in saved[t] :
         r.turn # t => <<r.turn, t>> \in overlap /\ ChatOf[r.turn] = ChatOf[t]

\* While the process lives, the detail a stored step leads to is that step's
\* own call or nothing at all (trace_detail, session_traces.detail_id).  It is
\* not so for a row of an earlier life: the ids begin again with each.
DetailsAreTheSteps ==
  \A t \in TracedTurn : \A r \in saved[t] : \A d \in DetailOf(r) :
    r.life = life => Whose(d) = Whose(r)

\* What the panel shows of a turn is what that turn did.
TraceIsTheTurns == StepsAreTheTurns /\ DetailsAreTheSteps
=============================================================================
