----------------------------- MODULE TurnEngine -----------------------------
(***************************************************************************)
(* One process of Solilos chat running conversation turns.                 *)
(*                                                                         *)
(* A turn enters through POST /api/chat/stream (a streamed turn, which can *)
(* be cancelled), through POST /api/chat, a nightly job or a compaction    *)
(* prompt (drained, not cancellable), or through the voice facade, which   *)
(* first makes sure the resident's household session exists.  All of them  *)
(* run EngineClient._loop against the message store of solilos.db.         *)
(*                                                                         *)
(* The program is single-threaded asyncio: an action here is what runs     *)
(* between two suspension points (an await that can really suspend, or the *)
(* yield of an event to the consumer of the generator).                    *)
(***************************************************************************)
EXTENDS Naturals, Sequences

CONSTANTS
  Turn,        \* the requests that ask for a turn
  Session,     \* session ids
  Household,   \* the ids that household_session_id derives from a resident
  Streamed,    \* the turns that run under server.chat_stream
  Voice,       \* the turns that may run under the facade's respond_session
  Drained,     \* the turns that may run under server.chat, a night job or a
               \* compaction prompt: nobody reads their events
  Tooled,      \* the turns whose profile has at least one tool
  MaxPasses,   \* _MAX_PASSES
  MaxCalls,    \* bound: the tool calls one model answer may contain
  None         \* no session, no turn

ASSUME ConstantsAssumption ==
  /\ Household \subseteq Session
  /\ Streamed \subseteq Turn
  /\ Voice \cup Drained \subseteq Turn \ Streamed
  /\ Tooled \subseteq Turn
  /\ MaxPasses \in Nat \ {0}
  /\ MaxCalls \in Nat \ {0}
  /\ None \notin Turn \cup Session

VARIABLES
  live,        \* the ids that have a row in engine_sessions
  used,        \* the ids create_session has handed out (uuid4: never twice)
  log,         \* engine_messages: the rows of a session by ascending seq
  cancels,     \* the server's `cancels` dict: session -> streamed turn or None
  cancelled,   \* the turns whose cancel event is set
  pc,          \* where the coroutine of a turn is suspended, or how it ended
  sid,         \* the session of a turn
  pass,        \* model passes the turn has finished
  said,        \* the last model answer: plain text, a claim, or tool calls
  calls,       \* tool calls in that answer
  at,          \* which of them is being handled
  dispatched,  \* tool_dispatched
  corrected,   \* corrected
  polled,      \* the consumer has polled the cancel event for the last event
  ran,         \* history: the <<pass, index>> of every tool handler started
  late,        \* history: handlers started after the cancel event was set
  wiped        \* history: turns whose rows a delete_session has removed

store      == <<live, used, log, wiped>>
registry   == <<cancels, cancelled>>
loop       == <<pass, said, calls, at, dispatched, corrected>>
tools      == <<ran, late>>
vars       == <<store, registry, pc, sid, loop, polled, tools>>

-----------------------------------------------------------------------------
(* Types.                                                                  *)

Waiting    == {"arrived", "open"}                   \* no row written yet
Yielding   == {"stepped", "started", "returned", "completed"}
Running    == {"prompt", "model", "tool"} \cup Yielding
InFlight   == Waiting \cup Running
Ended      == {"done", "failed", "cancelled", "dropped", "lost"}
Answers    == {"answer", "claim", "apology"}        \* final assistant rows

Row ==
  [turn : Turn,
   role : {"user", "call", "tool"} \cup Answers,
   pass : 0 .. MaxPasses,
   n    : 0 .. MaxCalls]     \* calls announced, or the index of a result

Slot == (1 .. MaxPasses) \X (1 .. MaxCalls)

TypeOK ==
  /\ live \subseteq Session
  /\ used \subseteq Session
  /\ log \in [Session -> Seq(Row)]
  /\ cancels \in [Session -> Streamed \cup {None}]
  /\ cancelled \subseteq Streamed
  /\ pc \in [Turn -> {"new"} \cup InFlight \cup Ended]
  /\ sid \in [Turn -> Session \cup {None}]
  /\ pass \in [Turn -> 0 .. MaxPasses]
  /\ said \in [Turn -> {"text", "claim", "calls"}]
  /\ calls \in [Turn -> 0 .. MaxCalls]
  /\ at \in [Turn -> 0 .. MaxCalls]
  /\ dispatched \in [Turn -> BOOLEAN]
  /\ corrected \in [Turn -> BOOLEAN]
  /\ polled \in [Turn -> BOOLEAN]
  /\ ran \in [Turn -> SUBSET Slot]
  /\ late \in [Turn -> Nat]
  /\ wiped \subseteq Turn

Init ==
  /\ live = {}
  /\ used = {}
  /\ log = [s \in Session |-> <<>>]
  /\ cancels = [s \in Session |-> None]
  /\ cancelled = {}
  /\ pc = [t \in Turn |-> "new"]
  /\ sid = [t \in Turn |-> None]
  /\ pass = [t \in Turn |-> 0]
  /\ said = [t \in Turn |-> "text"]
  /\ calls = [t \in Turn |-> 0]
  /\ at = [t \in Turn |-> 0]
  /\ dispatched = [t \in Turn |-> FALSE]
  /\ corrected = [t \in Turn |-> FALSE]
  /\ polled = [t \in Turn |-> FALSE]
  /\ ran = [t \in Turn |-> {}]
  /\ late = [t \in Turn |-> 0]
  /\ wiped = {}

-----------------------------------------------------------------------------
(* The store.                                                              *)

UserRow(t)   == [turn |-> t, role |-> "user", pass |-> 0, n |-> 0]
CallRow(t)   == [turn |-> t, role |-> "call", pass |-> pass[t], n |-> calls[t]]
ToolRow(t)   == [turn |-> t, role |-> "tool", pass |-> pass[t], n |-> at[t]]
FinalRow(t, role) == [turn |-> t, role |-> role, pass |-> pass[t], n |-> 0]

\* append_message: MAX(seq) + 1, whether or not the session has a row.
AppendRow(t, row) == log' = [log EXCEPT ![sid[t]] = Append(@, row)]

-----------------------------------------------------------------------------
(* A turn arrives.                                                         *)

\* A client names a session it holds; the server awaits maybe_compact.
Arrive(t, s) ==
  /\ pc[t] = "new" /\ t \in Streamed \cup Drained
  /\ s \in used \cup Household
  /\ pc' = [pc EXCEPT ![t] = "arrived"]
  /\ sid' = [sid EXCEPT ![t] = s]
  /\ UNCHANGED <<store, registry, loop, polled, tools>>

\* create_session: a uuid nobody has.
CreateSession(s) ==
  /\ s \in Session \ (used \cup Household)
  /\ live' = live \cup {s}
  /\ used' = used \cup {s}

\* maybe_compact returns the id of a continuation (its extract and summary
\* turns are drained turns of the old session).
Compacted(t, s) ==
  /\ pc[t] = "arrived"
  /\ CreateSession(s)
  /\ sid' = [sid EXCEPT ![t] = s]
  /\ UNCHANGED <<log, wiped, registry, pc, loop, polled, tools>>

\* No session named: create_turn_session, then straight to the registration.
ArriveNew(t, s) ==
  /\ pc[t] = "new" /\ t \in Streamed
  /\ CreateSession(s)
  /\ sid' = [sid EXCEPT ![t] = s]
  /\ cancels' = [cancels EXCEPT ![s] = t]
  /\ pc' = [pc EXCEPT ![t] = "open"]
  /\ UNCHANGED <<log, wiped, cancelled, loop, polled, tools>>

\* cancels[session_id] = cancel, then the session event is sent.
Register(t) ==
  /\ pc[t] = "arrived" /\ t \in Streamed
  /\ cancels' = [cancels EXCEPT ![sid[t]] = t]
  /\ pc' = [pc EXCEPT ![t] = "open"]
  /\ UNCHANGED <<store, cancelled, sid, loop, polled, tools>>

\* A spoken turn ensures its household session, a drained turn without one
\* creates it; both write their question before anything suspends.
StartAtOnce(t, s) ==
  /\ pc[t] = "new"
  /\ \/ t \in Voice /\ s \in Household /\ live' = live \cup {s} /\ UNCHANGED used
     \/ t \in Drained /\ CreateSession(s)
  /\ sid' = [sid EXCEPT ![t] = s]
  /\ log' = [log EXCEPT ![s] = Append(@, UserRow(t))]
  /\ pc' = [pc EXCEPT ![t] = "prompt"]
  /\ UNCHANGED <<wiped, registry, loop, polled, tools>>

-----------------------------------------------------------------------------
(* How a turn ends.                                                        *)

\* Mutant of Leave: the entry is left behind.
LeaveEntry(t, how) == pc' = [pc EXCEPT ![t] = how] /\ UNCHANGED cancels

\* The `finally` of the streaming handler pops whatever the dict holds.
Leave(t, how) ==
  /\ pc' = [pc EXCEPT ![t] = how]
  /\ cancels' = IF t \in Streamed THEN [cancels EXCEPT ![sid[t]] = None]
                                  ELSE cancels

Ready(t) == pc[t] = IF t \in Streamed THEN "open" ELSE "arrived"

\* chat_stream: the session has no row.
Reject(t) ==
  /\ Ready(t)
  /\ sid[t] \notin live
  /\ Leave(t, "failed")
  /\ UNCHANGED <<store, cancelled, sid, loop, polled, tools>>

\* Ollama answers an HTTP error: OllamaError, EngineError, an error event.
ModelFails(t) ==
  /\ pc[t] = "model"
  /\ Leave(t, "failed")
  /\ UNCHANGED <<store, cancelled, sid, loop, polled, tools>>

\* The event just received, or a text delta, finds the cancel event set.
Stop(t) ==
  /\ t \in cancelled
  /\ \/ pc[t] = "model"
     \/ pc[t] \in Yielding /\ ~polled[t]
  /\ Leave(t, "cancelled")
  /\ UNCHANGED <<store, cancelled, sid, loop, polled, tools>>

\* The browser hangs up, or anything but an EngineError is raised.
Abort(t) ==
  /\ pc[t] \in InFlight
  /\ Leave(t, "dropped")
  /\ UNCHANGED <<store, cancelled, sid, loop, polled, tools>>

\* run.completed was forwarded: the generator returns, the handler finishes.
Finish(t) ==
  /\ pc[t] = "completed" /\ polled[t]
  /\ Leave(t, "done")
  /\ UNCHANGED <<store, cancelled, sid, loop, polled, tools>>

-----------------------------------------------------------------------------
(* EngineClient: one turn.                                                 *)

\* Yield an event; only a streamed turn has a consumer that polls for cancel.
Yield(t, where) ==
  /\ pc' = [pc EXCEPT ![t] = where]
  /\ polled' = [polled EXCEPT ![t] = t \notin Streamed]

\* Mutant of Forward: the event is forwarded without a look at the cancel event.
ForwardUnpolled(t) ==
  /\ pc[t] \in Yielding /\ ~polled[t]
  /\ polled' = [polled EXCEPT ![t] = TRUE]
  /\ UNCHANGED <<store, registry, pc, sid, loop, tools>>

\* The consumer polls the event, finds it clear and forwards the event.
Forward(t) ==
  /\ pc[t] \in Yielding /\ ~polled[t]
  /\ t \notin cancelled
  /\ polled' = [polled EXCEPT ![t] = TRUE]
  /\ UNCHANGED <<store, registry, pc, sid, loop, tools>>

Resumes(t, where) == pc[t] = where /\ polled[t]

\* chat_stream and _run_turn up to the await of the system prompt.
Begin(t) ==
  /\ Ready(t)
  /\ sid[t] \in live
  /\ AppendRow(t, UserRow(t))
  /\ pc' = [pc EXCEPT ![t] = "prompt"]
  /\ UNCHANGED <<live, used, wiped, registry, sid, loop, polled, tools>>

\* The prompt is assembled: read the history, prepare the tools, ask Ollama.
AskModel(t) ==
  /\ pc[t] = "prompt"
  /\ pc' = [pc EXCEPT ![t] = "model"]
  /\ UNCHANGED <<store, registry, sid, loop, polled, tools>>

\* One pass is over: trace, usage, the llm.step event.
ModelAnswers(t, kind, n) ==
  /\ pc[t] = "model"
  /\ kind = "calls" <=> n > 0
  /\ kind = "calls" => t \in Tooled
  /\ pass' = [pass EXCEPT ![t] = @ + 1]
  /\ said' = [said EXCEPT ![t] = kind]
  /\ calls' = [calls EXCEPT ![t] = n]
  /\ at' = [at EXCEPT ![t] = 0]
  /\ Yield(t, "stepped")
  /\ UNCHANGED <<store, registry, sid, dispatched, corrected, tools>>

\* The fabrication guard (#356).
Fabricated(t) ==
  said[t] = "claim" /\ t \in Tooled /\ ~dispatched[t] /\ ~corrected[t]

\* Mutant of BudgetLeft: off by one.
BudgetLeftOver(t) == pass[t] <= MaxPasses

BudgetLeft(t) == pass[t] < MaxPasses

\* Mutant of Correct: every claim is corrected, outside the pass budget.
CorrectAgain(t) ==
  /\ Resumes(t, "stepped")
  /\ Fabricated(t)
  /\ pass' = [pass EXCEPT ![t] = 0]
  /\ pc' = [pc EXCEPT ![t] = "model"]
  /\ UNCHANGED <<store, registry, sid, said, calls, at, dispatched, corrected,
                 polled, tools>>

\* Re-prompt once, in memory only; on the last pass the for-else apologises.
Correct(t) ==
  /\ Resumes(t, "stepped")
  /\ Fabricated(t)
  /\ corrected' = [corrected EXCEPT ![t] = TRUE]
  /\ \/ /\ BudgetLeft(t)
        /\ pc' = [pc EXCEPT ![t] = "model"]
        /\ UNCHANGED <<log, polled>>
     \/ /\ ~BudgetLeft(t)
        /\ AppendRow(t, FinalRow(t, "apology"))
        /\ Yield(t, "completed")
  /\ UNCHANGED <<live, used, wiped, registry, sid, pass, said, calls, at,
                 dispatched, tools>>

\* The answer without tool calls is final: store it, then yield run.completed.
Answer(t) ==
  /\ Resumes(t, "stepped")
  /\ said[t] # "calls" /\ ~Fabricated(t)
  /\ AppendRow(t, FinalRow(t, IF said[t] = "claim" THEN "claim" ELSE "answer"))
  /\ Yield(t, "completed")
  /\ UNCHANGED <<live, used, wiped, registry, sid, loop, tools>>

\* A tool pass: store the calls, then announce the first one.
CallTools(t) ==
  /\ Resumes(t, "stepped")
  /\ said[t] = "calls"
  /\ AppendRow(t, CallRow(t))
  /\ at' = [at EXCEPT ![t] = 1]
  /\ dispatched' = [dispatched EXCEPT ![t] = TRUE]
  /\ Yield(t, "started")
  /\ UNCHANGED <<live, used, wiped, registry, sid, pass, said, calls,
                 corrected, tools>>

\* toolbox.dispatch is awaited: the handler takes effect.
Dispatch(t) ==
  /\ Resumes(t, "started")
  /\ pc' = [pc EXCEPT ![t] = "tool"]
  /\ ran' = [ran EXCEPT ![t] = @ \cup {<<pass[t], at[t]>>}]
  /\ late' = IF t \in cancelled THEN [late EXCEPT ![t] = @ + 1] ELSE late
  /\ UNCHANGED <<store, registry, sid, loop, polled>>

\* The handler's output, or its exception turned into output, comes back.
ToolReturns(t) ==
  /\ pc[t] = "tool"
  /\ Yield(t, "returned")
  /\ UNCHANGED <<store, registry, sid, loop, tools>>

\* Mutant of StoreResult: the same call is announced again.
StoreResultAgain(t) ==
  /\ Resumes(t, "returned")
  /\ AppendRow(t, ToolRow(t))
  /\ Yield(t, "started")
  /\ UNCHANGED <<live, used, wiped, registry, sid, loop, tools>>

\* Mutant of StoreResult: only the last output of a pass is stored.
StoreResultLast(t) ==
  /\ Resumes(t, "returned")
  /\ at[t] < calls[t]
  /\ at' = [at EXCEPT ![t] = @ + 1]
  /\ Yield(t, "started")
  /\ UNCHANGED <<store, registry, sid, pass, said, calls, dispatched, corrected, tools>>

\* Store the result, then the next call, the next pass, or the apology.
StoreResult(t) ==
  /\ Resumes(t, "returned")
  /\ \/ /\ at[t] < calls[t]
        /\ AppendRow(t, ToolRow(t))
        /\ at' = [at EXCEPT ![t] = @ + 1]
        /\ Yield(t, "started")
     \/ /\ at[t] = calls[t] /\ BudgetLeft(t)
        /\ AppendRow(t, ToolRow(t))
        /\ pc' = [pc EXCEPT ![t] = "model"]
        /\ UNCHANGED <<at, polled>>
     \/ /\ at[t] = calls[t] /\ ~BudgetLeft(t)
        /\ log' = [log EXCEPT ![sid[t]] =
                     Append(Append(@, ToolRow(t)), FinalRow(t, "apology"))]
        /\ Yield(t, "completed")
        /\ UNCHANGED at
  /\ UNCHANGED <<live, used, wiped, registry, sid, pass, said, calls,
                 dispatched, corrected, tools>>

-----------------------------------------------------------------------------
(* What happens around the turns.                                          *)

\* POST /api/chat/cancel with a session that has an entry.
CancelSession(s) ==
  /\ cancels[s] # None
  /\ cancelled' = cancelled \cup {cancels[s]}
  /\ UNCHANGED <<store, cancels, pc, sid, loop, polled, tools>>

\* Mutant of DeleteSession: the messages stay in the table.
DeleteSessionRow(s) ==
  /\ s \in live
  /\ live' = live \ {s}
  /\ wiped' = wiped \cup
       {t \in Turn : sid[t] = s /\ pc[t] \notin {"arrived", "open"}}
  /\ UNCHANGED <<used, log, registry, pc, sid, loop, polled, tools>>

\* DELETE /api/sessions/{id}: the messages, then the session row, in one
\* transaction; running turns are not told.
DeleteSession(s) ==
  /\ s \in live
  /\ live' = live \ {s}
  /\ log' = [log EXCEPT ![s] = <<>>]
  /\ wiped' = wiped \cup
       {t \in Turn : sid[t] = s /\ pc[t] \notin {"arrived", "open"}}
  /\ UNCHANGED <<used, registry, pc, sid, loop, polled, tools>>

\* The process dies and comes back: solilos.db survives, memory does not.
Restart ==
  /\ pc' = [t \in Turn |-> IF pc[t] \in InFlight THEN "lost" ELSE pc[t]]
  /\ cancels' = [s \in Session |-> None]
  /\ UNCHANGED <<store, cancelled, sid, loop, polled, tools>>

-----------------------------------------------------------------------------
(* The specification.                                                      *)

TurnStep(t) ==
  \/ Register(t)
  \/ Reject(t) \/ ModelFails(t) \/ Stop(t) \/ Finish(t)
  \/ Forward(t) \/ Begin(t) \/ AskModel(t)
  \/ \E kind \in {"text", "claim", "calls"}, n \in 0 .. MaxCalls :
       ModelAnswers(t, kind, n)
  \/ Correct(t) \/ Answer(t) \/ CallTools(t)
  \/ Dispatch(t) \/ ToolReturns(t) \/ StoreResult(t)

Next ==
  \/ \E t \in Turn :
       \/ \E s \in Session :
            Arrive(t, s) \/ ArriveNew(t, s) \/ StartAtOnce(t, s) \/ Compacted(t, s)
       \/ TurnStep(t)
       \/ Abort(t)
  \/ \E s \in Session : CancelSession(s) \/ DeleteSession(s)
  \/ Restart

Spec == Init /\ [][Next]_vars

(* The event loop resumes every coroutine that can run, and every await of *)
(* a turn ends: OllamaChat, the tool handlers' HTTP clients and SQLite all *)
(* carry timeouts.  Nobody has to ask for a turn, cancel or delete.        *)
Fairness == \A t \in Turn : WF_vars(TurnStep(t) \/ Abort(t))

FairSpec == Spec /\ Fairness
-----------------------------------------------------------------------------
(* Safety.                                                                 *)

\* An entry of the `cancels` dict is a turn that is still running on that
\* session: a cancel request never hits a finished turn, and a session whose
\* turns are over answers "cancelled: false" (server.py, cancel_chat).
NoStaleCancel ==
  \A s \in Session :
    cancels[s] # None =>
      /\ sid[cancels[s]] = s
      /\ pc[cancels[s]] \in InFlight \ {"arrived"}

\* No tool acts on the house before the model's call for it is on disk, so a
\* crash never leaves an action nobody asked for (client.py, _loop).
CalledBeforeRun ==
  \A t \in Turn \ wiped : \A slot \in ran[t] :
    \E i \in DOMAIN log[sid[t]] :
      LET row == log[sid[t]][i] IN
      row.turn = t /\ row.role = "call" /\ row.pass = slot[1] /\ row.n >= slot[2]

\* Row a of a turn belongs before row b of the same turn: the question, then
\* per pass the calls and their results in order, and the answer last.
RowBefore(a, b) ==
  /\ a.role \notin Answers
  /\ \/ a.pass < b.pass
     \/ a.pass = b.pass /\ a.role = "call" /\ b.role # "call"
     \/ a.pass = b.pass /\ a.role = "tool" /\ b.role = "tool" /\ a.n < b.n
     \/ a.pass = b.pass /\ a.role = "tool" /\ b.role \in Answers

\* Whatever else is written to the session meanwhile, the rows of one turn
\* are in protocol order, none is stored twice and none follows the answer.
TranscriptInOrder ==
  \A s \in Session : \A j \in DOMAIN log[s] : \A i \in 1 .. (j - 1) :
    log[s][i].turn = log[s][j].turn => RowBefore(log[s][i], log[s][j])

Stored(t, slot) ==
  \E i \in DOMAIN log[sid[t]] :
    LET row == log[sid[t]][i] IN
    row.turn = t /\ row.role = "tool" /\ <<row.pass, row.n>> = slot

\* However a turn ends, at most one tool has acted without its output being in
\* the history the next turn reads; a stored output is of a tool that ran.
AtMostOneResultLost ==
  /\ \A t \in Turn \ wiped : \A a, b \in ran[t] :
       ~Stored(t, a) /\ ~Stored(t, b) => a = b
  /\ \A s \in Session : \A i \in DOMAIN log[s] :
       log[s][i].role = "tool" =>
         <<log[s][i].pass, log[s][i].n>> \in ran[log[s][i].turn]

\* When run.completed goes out, the answer is on disk and so is the output of
\* every tool call on disk: what the browser shows is what a reload shows.
CompleteOnceReported ==
  \A t \in Turn \ wiped :
    pc[t] \in {"completed", "done"} =>
      /\ \E i \in DOMAIN log[sid[t]] :
           log[sid[t]][i].turn = t /\ log[sid[t]][i].role \in Answers
      /\ \A i \in DOMAIN log[sid[t]] :
           LET row == log[sid[t]][i] IN
           row.turn = t /\ row.role = "call" =>
             \A k \in 1 .. row.n : Stored(t, <<row.pass, k>>)

\* The transcript accounts for what the tools of a turn have done: before, by
\* the call; after, by the output, of which a turn that breaks off loses one at
\* most; and at the end by everything the browser has been shown.
ToolsOnRecord == CalledBeforeRun /\ AtMostOneResultLost /\ CompleteOnceReported

\* A deleted question never comes back: what a deleted session still collects
\* (and a household session recreated by the next spoken turn then shows) are
\* calls, outputs and answers of turns that were running at the deletion.
DeletedQuestionsStayDeleted ==
  /\ \A s \in Session : \A i \in DOMAIN log[s] :
       log[s][i].turn \in wiped => log[s][i].role # "user"
  /\ \A s \in Session \ live : \A i \in DOMAIN log[s] :
       log[s][i].turn \in wiped

\* After a cancel request was accepted for a turn, at most one more tool
\* handler starts: the one whose tool.started was already being forwarded.
CancelStopsTools == \A t \in Turn : late[t] <= 1

\* What the `cancels` comment and cancel_chat say: the stream in flight on a
\* session can be cancelled.  (Refuted with two streams on one session.)
StreamsStayCancellable ==
  \A t \in Streamed : pc[t] \in InFlight \ {"arrived"} => cancels[sid[t]] # None

-----------------------------------------------------------------------------
(* Liveness.                                                               *)

\* A turn that arrived comes to an end: corrections and tool passes share one
\* budget, and no await is left waiting for another turn.
EveryTurnEnds == \A t \in Turn : pc[t] \in InFlight ~> pc[t] \in Ended

\* A cancel accepted before the answer was stored wins: that turn is never
\* reported as done.
CancelWins ==
  \A t \in Streamed :
    t \in cancelled /\ pc[t] \in InFlight \ {"completed"}
      ~> pc[t] \in Ended \ {"done"}

-----------------------------------------------------------------------------
(* The engine implements the promise of a turn.                            *)

PhaseOf(t) ==
  IF pc[t] \in {"new"} \cup Waiting THEN "new"
  ELSE IF pc[t] = "tool" THEN "acting"
  ELSE IF pc[t] = "completed" THEN "answered"
  ELSE IF pc[t] \in Running THEN "asked"
  ELSE IF pc[t] = "done" THEN "done"
  ELSE "gone"

Lifecycle == INSTANCE TurnLifecycle WITH
  phase <- [t \in Turn |-> PhaseOf(t)], ran <- ran

\* Every step of the engine is a step of the turn's lifecycle or leaves it.
ImplementsLifecycle == Lifecycle!Spec
=============================================================================
