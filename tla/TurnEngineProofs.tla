-------------------------- MODULE TurnEngineProofs --------------------------
(***************************************************************************)
(* Proofs about TurnEngine, for any turns, sessions and budgets: type      *)
(* correctness, the `cancels` dict, what a cancel and a deletion guarantee *)
(* and that the engine implements TurnLifecycle.                           *)
(***************************************************************************)
EXTENDS TurnEngine, TLAPS

InTool   == {"started", "tool", "returned"}
Unasked  == {"new"} \cup Waiting

\* Where a turn stands in its loop: what TypeOK needs to be inductive.
LoopInv ==
  \A t \in Turn :
    /\ pc[t] = "new" <=> sid[t] = None
    /\ pc[t] \in Unasked \cup {"prompt"} => pass[t] = 0 /\ ran[t] = {}
    /\ pc[t] = "model" => pass[t] < MaxPasses
    /\ pc[t] \in {"stepped"} \cup InTool => pass[t] >= 1
    /\ pc[t] = "stepped" => (said[t] = "calls" <=> calls[t] > 0)
    /\ pc[t] \in InTool => said[t] = "calls" /\ 1 <= at[t] /\ at[t] <= calls[t]

\* A handler that starts late is the last one: its turn can only be stopped.
LateInv ==
  \A t \in Turn :
    /\ t \notin cancelled \/ pc[t] = "new" => late[t] = 0
    /\ late[t] <= 1
    /\ late[t] = 1 /\ pc[t] \in InFlight =>
         pc[t] = "tool" \/ (pc[t] = "returned" /\ ~polled[t])

\* A row is in the session of its turn, and the turn has asked its question.
RowsInv ==
  \A s \in Session : \A i \in DOMAIN log[s] :
    LET t == log[s][i].turn IN sid[t] = s /\ pc[t] \notin Unasked

\* A turn whose session is gone, or has been gone, is one of the wiped.
WipedInv ==
  \A t \in Turn :
    /\ t \in wiped => pc[t] \notin Unasked
    /\ pc[t] \in Running /\ t \notin wiped => sid[t] \in live

DeletionInv == RowsInv /\ WipedInv /\ DeletedQuestionsStayDeleted

\* The tools of a turn run in the order of their slots.
OrderInv ==
  \A t \in Turn : \A slot \in ran[t] :
    /\ slot \in Slot
    /\ slot[1] <= pass[t]
    /\ pc[t] = "stepped" => slot[1] < pass[t]
    /\ pc[t] = "started" /\ slot[1] = pass[t] => slot[2] < at[t]
    /\ pc[t] \in {"tool", "returned"} /\ slot[1] = pass[t] => slot[2] <= at[t]
-----------------------------------------------------------------------------
(* Type correctness.                                                       *)

EngineInv == TypeOK /\ LoopInv

LEMMA EngineInit == Init => EngineInv
<1> SUFFICES ASSUME Init PROVE EngineInv
  OBVIOUS
<1>1. log \in [Session -> Seq(Row)]
  BY DEF Init
<1>2. dispatched \in [Turn -> BOOLEAN] /\ corrected \in [Turn -> BOOLEAN] /\ polled \in [Turn -> BOOLEAN]
  BY DEF Init
<1>3. TypeOK
  BY <1>1, <1>2, ConstantsAssumption DEF Init, TypeOK
<1>4. LoopInv
  BY ConstantsAssumption DEF Init, LoopInv, Unasked, Waiting, InTool
<1> QED
  BY <1>3, <1>4 DEF EngineInv

LEMMA AppendRowType ==
  ASSUME TypeOK, NEW t \in Turn, NEW r \in Row, AppendRow(t, r)
  PROVE  log' \in [Session -> Seq(Row)]
<1>1. \A s \in Session : log[s] \in Seq(Row) /\ Append(log[s], r) \in Seq(Row)
  BY DEF TypeOK
<1> QED
  BY <1>1 DEF TypeOK, AppendRow

LEMMA RowTypes ==
  ASSUME TypeOK, NEW t \in Turn
  PROVE  /\ UserRow(t) \in Row /\ CallRow(t) \in Row /\ ToolRow(t) \in Row
         /\ \A role \in Answers : FinalRow(t, role) \in Row
BY ConstantsAssumption DEF TypeOK, UserRow, CallRow, ToolRow, FinalRow, Row, Answers

LEMMA LeaveType ==
  ASSUME TypeOK, NEW t \in Turn, NEW how \in Ended, Leave(t, how)
  PROVE  /\ pc' \in [Turn -> {"new"} \cup InFlight \cup Ended]
         /\ cancels' \in [Session -> Streamed \cup {None}]
BY DEF TypeOK, Leave

LEMMA YieldType ==
  ASSUME TypeOK, NEW t \in Turn, NEW where \in Yielding, Yield(t, where)
  PROVE  /\ pc' \in [Turn -> {"new"} \cup InFlight \cup Ended]
         /\ polled' \in [Turn -> BOOLEAN]
<1>1. pc' \in [Turn -> {"new"} \cup InFlight \cup Ended]
  BY DEF TypeOK, Yield, InFlight, Running
<1>2. polled' \in [Turn -> BOOLEAN]
  BY DEF TypeOK, Yield
<1> QED
  BY <1>1, <1>2

\* The actions by which a turn ends.
LEMMA EndingStep ==
  ASSUME EngineInv, NEW t \in Turn,
         Reject(t) \/ ModelFails(t) \/ Stop(t) \/ Abort(t) \/ Finish(t)
  PROVE  EngineInv'
<1>1. PICK how \in Ended : Leave(t, how)
  BY DEF Reject, ModelFails, Stop, Abort, Finish, Ended
<1>2. pc[t] # "new" /\ UNCHANGED <<store, cancelled, sid, loop, polled, tools>>
  BY ConstantsAssumption DEF Reject, ModelFails, Stop, Abort, Finish, Ready, Yielding, InFlight,
         Waiting, Running
<1>3. TypeOK'
  BY <1>1, <1>2, LeaveType DEF EngineInv, TypeOK, store, loop, tools
<1>4. LoopInv'
  BY <1>1, <1>2 DEF EngineInv, TypeOK, LoopInv, Leave, Ended, Unasked, Waiting,
     InTool, store, loop, tools
<1> QED
  BY <1>3, <1>4 DEF EngineInv

\* The actions by which a turn arrives.
LEMMA ArrivalStep ==
  ASSUME EngineInv, NEW t \in Turn, NEW s \in Session,
         Arrive(t, s) \/ ArriveNew(t, s) \/ StartAtOnce(t, s) \/ Compacted(t, s)
  PROVE  EngineInv'
<1> USE ConstantsAssumption DEF EngineInv
<1>1. CASE Arrive(t, s)
  <2>1. TypeOK'
    BY <1>1 DEF Arrive, TypeOK, InFlight, Waiting, store, registry, loop, tools
  <2>2. LoopInv'
    BY <1>1 DEF Arrive, TypeOK, LoopInv, Unasked, Waiting, InTool, loop, tools
  <2> QED
    BY <2>1, <2>2
<1>2. CASE ArriveNew(t, s)
  <2>1. cancels' \in [Session -> Streamed \cup {None}]
    BY <1>2 DEF ArriveNew, TypeOK
  <2>2. pc' \in [Turn -> {"new"} \cup InFlight \cup Ended]
    <3>1. PICK where \in Waiting : pc' = [pc EXCEPT ![t] = where]
      BY <1>2 DEF ArriveNew, Waiting
    <3> QED
      BY <3>1 DEF TypeOK, InFlight
  <2>3. TypeOK'
    BY <1>2, <2>1, <2>2 DEF ArriveNew, CreateSession, TypeOK, loop, tools
  <2>4. LoopInv'
    BY <1>2 DEF ArriveNew, CreateSession, TypeOK, LoopInv, Unasked, Waiting, InTool, loop, tools
  <2> QED
    BY <2>3, <2>4
<1>3. CASE StartAtOnce(t, s)
  <2>1. log' \in [Session -> Seq(Row)]
    BY <1>3, RowTypes DEF StartAtOnce, TypeOK
  <2>2. TypeOK'
    BY <1>3, <2>1 DEF StartAtOnce, CreateSession, TypeOK, InFlight, Running, registry, loop, tools
  <2>3. LoopInv'
    BY <1>3 DEF StartAtOnce, TypeOK, LoopInv, Unasked, Waiting, InTool, loop, tools
  <2> QED
    BY <2>2, <2>3
<1>4. CASE Compacted(t, s)
  <2>1. TypeOK'
    BY <1>4 DEF Compacted, CreateSession, TypeOK, registry, loop, tools
  <2>2. LoopInv'
    BY <1>4 DEF Compacted, CreateSession, TypeOK, LoopInv, Unasked, Waiting, InTool,
       loop, tools
  <2> QED
    BY <2>1, <2>2
<1> QED
  BY <1>1, <1>2, <1>3, <1>4

LEMMA EngineStep == EngineInv /\ [Next]_vars => EngineInv'
<1> SUFFICES ASSUME EngineInv, [Next]_vars PROVE EngineInv'
  OBVIOUS
<1> USE ConstantsAssumption DEF EngineInv
<1>1. ASSUME NEW t \in Turn, Register(t) PROVE EngineInv'
  <2>1. TypeOK'
    BY <1>1 DEF Register, TypeOK, InFlight, Waiting, store, loop, tools
  <2>2. LoopInv'
    BY <1>1 DEF Register, TypeOK, LoopInv, Unasked, Waiting, InTool, loop, tools
  <2> QED
    BY <2>1, <2>2
<1>2. ASSUME NEW t \in Turn, Forward(t) PROVE EngineInv'
  <2>1. polled' \in [Turn -> BOOLEAN]
    BY <1>2 DEF Forward, TypeOK
  <2>2. TypeOK'
    BY <1>2, <2>1 DEF Forward, TypeOK, store, registry, loop, tools
  <2>3. LoopInv'
    BY <1>2 DEF Forward, LoopInv, loop, tools
  <2> QED
    BY <2>2, <2>3
<1>3. ASSUME NEW t \in Turn, Begin(t) PROVE EngineInv'
  <2>1. log' \in [Session -> Seq(Row)]
    BY <1>3, RowTypes, AppendRowType DEF Begin
  <2>2. TypeOK'
    BY <1>3, <2>1 DEF Begin, TypeOK, InFlight, Running, registry, loop, tools
  <2>3. LoopInv'
    BY <1>3 DEF Begin, Ready, TypeOK, LoopInv, Unasked, Waiting, InTool, loop, tools
  <2> QED
    BY <2>2, <2>3
<1>4. ASSUME NEW t \in Turn, AskModel(t) PROVE EngineInv'
  <2>1. TypeOK'
    BY <1>4 DEF AskModel, TypeOK, InFlight, Running, store, registry, loop, tools
  <2>2. LoopInv'
    BY <1>4 DEF AskModel, TypeOK, LoopInv, Unasked, Waiting, InTool, loop, tools
  <2> QED
    BY <2>1, <2>2
<1>5. ASSUME NEW t \in Turn, NEW kind \in {"text", "claim", "calls"},
             NEW n \in 0 .. MaxCalls, ModelAnswers(t, kind, n)
      PROVE  EngineInv'
  <2>1. pass[t] < MaxPasses /\ pass[t] \in 0 .. MaxPasses
    BY <1>5 DEF ModelAnswers, LoopInv, TypeOK
  <2>2. pass' \in [Turn -> 0 .. MaxPasses] /\ said' \in [Turn -> {"text", "claim", "calls"}]
    BY <1>5, <2>1 DEF ModelAnswers, TypeOK
  <2>3. calls' \in [Turn -> 0 .. MaxCalls] /\ at' \in [Turn -> 0 .. MaxCalls]
    BY <1>5 DEF ModelAnswers, TypeOK
  <2>4. polled' \in [Turn -> BOOLEAN] /\ pc' \in [Turn -> {"new"} \cup InFlight \cup Ended]
    BY <1>5, YieldType DEF ModelAnswers, TypeOK, Yielding
  <2>5. TypeOK'
    BY <1>5, <2>2, <2>3, <2>4 DEF ModelAnswers, TypeOK, store, registry, tools
  <2>6. LoopInv'
    BY <1>5, <2>1 DEF ModelAnswers, Yield, TypeOK, LoopInv, Unasked, Waiting, InTool, tools
  <2> QED
    BY <2>5, <2>6
<1>6. ASSUME NEW t \in Turn, Correct(t) PROVE EngineInv'
  <2>1. log' \in [Session -> Seq(Row)]
    BY <1>6, RowTypes, AppendRowType DEF Correct, Answers, TypeOK
  <2>2. corrected' \in [Turn -> BOOLEAN] /\ polled' \in [Turn -> BOOLEAN]
    BY <1>6, YieldType DEF Correct, TypeOK, Yielding
  <2>3. pc' \in [Turn -> {"new"} \cup InFlight \cup Ended]
    BY <1>6, YieldType DEF Correct, TypeOK, Yielding, InFlight, Running
  <2>4. TypeOK'
    BY <1>6, <2>1, <2>2, <2>3 DEF Correct, TypeOK, registry, tools
  <2>5. LoopInv'
    BY <1>6 DEF Correct, Resumes, BudgetLeft, Yield, TypeOK, LoopInv, Unasked,
       Waiting, InTool, tools
  <2> QED
    BY <2>4, <2>5
<1>7. ASSUME NEW t \in Turn, Answer(t) PROVE EngineInv'
  <2>1. log' \in [Session -> Seq(Row)]
    BY <1>7, RowTypes, AppendRowType DEF Answer, Answers
  <2>2. TypeOK'
    BY <1>7, <2>1, YieldType DEF Answer, TypeOK, Yielding, registry, loop, tools
  <2>3. LoopInv'
    BY <1>7 DEF Answer, Resumes, Yield, TypeOK, LoopInv, Unasked, Waiting, InTool,
       loop, tools
  <2> QED
    BY <2>2, <2>3
<1>8. ASSUME NEW t \in Turn, CallTools(t) PROVE EngineInv'
  <2>1. log' \in [Session -> Seq(Row)]
    BY <1>8, RowTypes, AppendRowType DEF CallTools
  <2>2. dispatched' \in [Turn -> BOOLEAN]
    BY <1>8 DEF CallTools, TypeOK
  <2>3. polled' \in [Turn -> BOOLEAN] /\ pc' \in [Turn -> {"new"} \cup InFlight \cup Ended]
    BY <1>8, YieldType DEF CallTools, TypeOK, Yielding
  <2>4. at' \in [Turn -> 0 .. MaxCalls]
    BY <1>8 DEF CallTools, TypeOK
  <2>5. TypeOK'
    BY <1>8, <2>1, <2>2, <2>3, <2>4 DEF CallTools, TypeOK, registry, tools
  <2>6. LoopInv'
    BY <1>8 DEF CallTools, Resumes, Yield, TypeOK, LoopInv, Unasked, Waiting,
       InTool, tools
  <2> QED
    BY <2>5, <2>6
<1>9. ASSUME NEW t \in Turn, Dispatch(t) PROVE EngineInv'
  <2>1. <<pass[t], at[t]>> \in Slot
    BY <1>9 DEF Dispatch, Resumes, LoopInv, InTool, TypeOK, Slot
  <2>2. ran' \in [Turn -> SUBSET Slot]
    BY <1>9, <2>1 DEF Dispatch, TypeOK
  <2>3. late' \in [Turn -> Nat] /\ pc' \in [Turn -> {"new"} \cup InFlight \cup Ended]
    BY <1>9 DEF Dispatch, TypeOK, InFlight, Running
  <2>4. TypeOK'
    BY <1>9, <2>2, <2>3 DEF Dispatch, TypeOK, store, registry, loop
  <2>5. LoopInv'
    BY <1>9 DEF Dispatch, Resumes, TypeOK, LoopInv, Unasked, Waiting, InTool, loop
  <2> QED
    BY <2>4, <2>5
<1>10. ASSUME NEW t \in Turn, ToolReturns(t) PROVE EngineInv'
  <2>1. TypeOK'
    BY <1>10, YieldType DEF ToolReturns, TypeOK, Yielding, store, registry, loop, tools
  <2>2. LoopInv'
    BY <1>10 DEF ToolReturns, Yield, TypeOK, LoopInv, Unasked, Waiting, InTool,
       loop, tools
  <2> QED
    BY <2>1, <2>2
<1>11. ASSUME NEW t \in Turn, StoreResult(t) PROVE EngineInv'
  <2>1. log' \in [Session -> Seq(Row)]
    <3>1. ToolRow(t) \in Row /\ FinalRow(t, "apology") \in Row
      BY RowTypes DEF Answers
    <3>2. \A s \in Session :
            /\ Append(log[s], ToolRow(t)) \in Seq(Row)
            /\ Append(Append(log[s], ToolRow(t)), FinalRow(t, "apology")) \in Seq(Row)
      BY <3>1 DEF TypeOK
    <3>3. CASE AppendRow(t, ToolRow(t))
      BY <3>1, <3>3, AppendRowType
    <3>4. CASE log' = [log EXCEPT ![sid[t]] =
                         Append(Append(@, ToolRow(t)), FinalRow(t, "apology"))]
      BY <3>2, <3>4 DEF TypeOK
    <3> QED
      BY <1>11, <3>3, <3>4 DEF StoreResult
  <2>2. polled' \in [Turn -> BOOLEAN]
    BY <1>11, YieldType DEF StoreResult, TypeOK, Yielding
  <2>3. pc' \in [Turn -> {"new"} \cup InFlight \cup Ended]
    BY <1>11, YieldType DEF StoreResult, TypeOK, Yielding, InFlight, Running
  <2>4. at' \in [Turn -> 0 .. MaxCalls]
    <3>1. at[t] < calls[t] => at[t] + 1 \in 0 .. MaxCalls
      BY DEF TypeOK
    <3>2. at' = at \/ (at[t] < calls[t] /\ at' = [at EXCEPT ![t] = @ + 1])
      BY <1>11 DEF StoreResult
    <3>3. at \in [Turn -> 0 .. MaxCalls]
      BY DEF TypeOK
    <3> HIDE DEF EngineInv
    <3> QED
      BY <3>1, <3>2, <3>3
  <2>5. TypeOK'
    BY <1>11, <2>1, <2>2, <2>3, <2>4 DEF StoreResult, TypeOK, registry, tools
  <2>6. UNCHANGED <<sid, pass, said, calls, ran>> /\ pc[t] = "returned"
    BY <1>11 DEF StoreResult, Resumes, tools
  <2>7. \A u \in Turn \ {t} : pc'[u] = pc[u] /\ at'[u] = at[u]
    BY <1>11 DEF StoreResult, Yield, TypeOK
  <2>8. \/ pc'[t] = "started" /\ at'[t] = at[t] + 1 /\ at[t] < calls[t]
        \/ pc'[t] = "model" /\ pass[t] < MaxPasses
        \/ pc'[t] = "completed"
    BY <1>11 DEF StoreResult, BudgetLeft, Yield, TypeOK
  <2>9. at[t] \in Nat /\ calls[t] \in Nat
    BY DEF TypeOK
  <2>10. LoopInv'
    BY <2>6, <2>7, <2>8, <2>9 DEF LoopInv, Unasked, Waiting, InTool
  <2> QED
    BY <2>5, <2>10
<1>12. ASSUME NEW s \in Session, CancelSession(s) PROVE EngineInv'
  <2>1. TypeOK'
    BY <1>12 DEF CancelSession, TypeOK, store, loop, tools
  <2>2. LoopInv'
    BY <1>12 DEF CancelSession, LoopInv, loop, tools
  <2> QED
    BY <2>1, <2>2
<1>13. ASSUME NEW s \in Session, DeleteSession(s) PROVE EngineInv'
  <2>1. log' \in [Session -> Seq(Row)]
    BY <1>13 DEF DeleteSession, TypeOK
  <2>2. TypeOK'
    BY <1>13, <2>1 DEF DeleteSession, TypeOK, registry, loop, tools
  <2>3. LoopInv'
    BY <1>13 DEF DeleteSession, LoopInv, loop, tools
  <2> QED
    BY <2>2, <2>3
<1>14. CASE Restart
  <2>1. TypeOK'
    BY <1>14 DEF Restart, TypeOK, Ended, store, loop, tools
  <2>2. \A t \in Turn : pc'[t] = pc[t] \/ (pc'[t] = "lost" /\ pc[t] # "new")
    BY <1>14 DEF Restart, InFlight, Waiting, Running, Yielding
  <2>3. LoopInv'
    BY <1>14, <2>2 DEF Restart, LoopInv, Unasked, Waiting, InTool, loop, tools
  <2> QED
    BY <2>1, <2>3
<1>15. CASE UNCHANGED vars
  <2>1. TypeOK'
    BY <1>15 DEF vars, store, registry, loop, tools, TypeOK
  <2>2. LoopInv'
    BY <1>15 DEF vars, loop, tools, LoopInv
  <2> QED
    BY <2>1, <2>2
<1> QED
  BY <1>1, <1>2, <1>3, <1>4, <1>5, <1>6, <1>7, <1>8, <1>9, <1>10, <1>11, <1>12,
     <1>13, <1>14, <1>15, EndingStep, ArrivalStep
  DEF Next, TurnStep

LEMMA EngineCorrect == Spec => []EngineInv
BY EngineInit, EngineStep, PTL DEF Spec

\* Every variable keeps its type; in particular no turn exceeds its pass
\* budget and no tool handler starts outside the calls of an answer (_loop).
THEOREM TypeCorrect == Spec => []TypeOK
<1>1. EngineInv => TypeOK
  BY DEF EngineInv
<1> QED
  BY <1>1, EngineCorrect, PTL

-----------------------------------------------------------------------------
(* What a step may do to a turn.                                           *)

\* A step of a turn that has arrived moves that turn alone, into its loop or
\* to its end; only Register leaves it waiting, only the end pops its entry.
LEMMA TurnStepMoves ==
  ASSUME EngineInv, NEW t \in Turn, TurnStep(t) \/ Abort(t)
  PROVE  /\ pc[t] \in InFlight /\ UNCHANGED <<sid, live, wiped>>
         /\ \/ UNCHANGED <<pc, cancels>>
            \/ Register(t)
            \/ /\ pc[t] \in Running \/ Begin(t)
               /\ \E where \in Running : pc' = [pc EXCEPT ![t] = where]
               /\ UNCHANGED cancels
            \/ \E how \in Ended : Leave(t, how)
<1> USE DEF InFlight, Waiting, Running, Yielding
<1>1. CASE Register(t)
  BY <1>1 DEF Register, store
<1>2. CASE Reject(t) \/ ModelFails(t) \/ Stop(t) \/ Abort(t) \/ Finish(t)
  BY <1>2 DEF Reject, ModelFails, Stop, Abort, Finish, Ready, Ended, store
<1>3. CASE Forward(t)
  BY <1>3 DEF Forward, registry, store
<1>4. CASE Begin(t)
  BY <1>4 DEF Begin, Ready, registry
<1>5. CASE AskModel(t) \/ Dispatch(t) \/ ToolReturns(t)
  BY <1>5 DEF AskModel, Dispatch, ToolReturns, Resumes, Yield, registry, store
<1>6. ASSUME NEW kind \in {"text", "claim", "calls"}, NEW n \in 0 .. MaxCalls,
             ModelAnswers(t, kind, n)
      PROVE  /\ pc[t] = "model" /\ UNCHANGED <<sid, cancels, live, wiped>>
             /\ pc' = [pc EXCEPT ![t] = "stepped"]
  BY <1>6 DEF ModelAnswers, Yield, registry, store
<1>7. CASE Correct(t)
  BY <1>7 DEF Correct, Resumes, Yield, registry, store
<1>8. CASE Answer(t) \/ CallTools(t)
  BY <1>8 DEF Answer, CallTools, Resumes, Yield, registry, store
<1>9. CASE StoreResult(t)
  BY <1>9 DEF StoreResult, Resumes, Yield, registry, store
<1> QED
  BY <1>1, <1>2, <1>3, <1>4, <1>5, <1>6, <1>7, <1>8, <1>9 DEF TurnStep

\* A turn that has asked keeps its session and never goes back to asking.
LEMMA TurnMoves ==
  ASSUME EngineInv, [Next]_vars, NEW u \in Turn
  PROVE  pc[u] \notin Unasked => pc'[u] \notin Unasked /\ sid'[u] = sid[u]
<1> USE DEF EngineInv, TypeOK
<1>1. ASSUME NEW t \in Turn, TurnStep(t) \/ Abort(t)
      PROVE  pc[u] \notin Unasked => pc'[u] \notin Unasked /\ sid'[u] = sid[u]
  <2>1. CASE Register(t)
    BY <2>1 DEF Register, Unasked, Waiting
  <2>2. CASE UNCHANGED <<pc, sid>>
    BY <2>2
  <2>3. ASSUME NEW where \in Running \cup Ended, pc' = [pc EXCEPT ![t] = where],
               UNCHANGED sid
        PROVE  pc[u] \notin Unasked => pc'[u] \notin Unasked /\ sid'[u] = sid[u]
    <3>1. where \notin Unasked /\ where # "new"
      BY DEF Unasked, Waiting, Running, Yielding, Ended
    <3> QED
      BY <2>3, <3>1
  <2> QED
    BY <1>1, <2>1, <2>2, <2>3, TurnStepMoves DEF Leave
<1>2. ASSUME NEW t \in Turn, NEW s \in Session,
             Arrive(t, s) \/ ArriveNew(t, s) \/ StartAtOnce(t, s) \/ Compacted(t, s)
      PROVE  u = t \/ (pc'[u] = pc[u] /\ sid'[u] = sid[u])
  BY <1>2 DEF Arrive, ArriveNew, StartAtOnce, Compacted, CreateSession
<1>3. ASSUME NEW t \in Turn, NEW s \in Session,
             Arrive(t, s) \/ ArriveNew(t, s) \/ StartAtOnce(t, s) \/ Compacted(t, s)
      PROVE  pc[t] \in {"new", "arrived"}
  BY <1>3 DEF Arrive, ArriveNew, StartAtOnce, Compacted, CreateSession
<1>4. ASSUME NEW s \in Session, CancelSession(s) \/ DeleteSession(s)
      PROVE  UNCHANGED <<pc, sid>>
  BY <1>4 DEF CancelSession, DeleteSession
<1>5. CASE Restart
  BY <1>5 DEF Restart, Unasked, Waiting, InFlight
<1>6. CASE UNCHANGED vars
  BY <1>6 DEF vars
<1> QED
  BY <1>1, <1>2, <1>3, <1>4, <1>5, <1>6 DEF Next, Unasked, Waiting

-----------------------------------------------------------------------------
(* The `cancels` dict.                                                     *)

Cancellable == InFlight \ {"arrived"}

\* An entry of the `cancels` dict is a turn still running on that session
\* (chat_stream registers it and its `finally` pops the session's entry).
THEOREM EntriesAreLive == Spec => []NoStaleCancel
<1>1. Init => NoStaleCancel
  BY DEF Init, NoStaleCancel
<1>2. EngineInv /\ NoStaleCancel /\ [Next]_vars => NoStaleCancel'
  <2> SUFFICES ASSUME EngineInv, NoStaleCancel, [Next]_vars, NEW s \in Session,
                      cancels'[s] # None
               PROVE  sid'[cancels'[s]] = s /\ pc'[cancels'[s]] \in Cancellable
    BY DEF NoStaleCancel, Cancellable
  <2> DEFINE u == cancels[s]
  <2> USE ConstantsAssumption DEF EngineInv, TypeOK
  <2>0. u # None => u \in Streamed /\ sid[u] = s /\ pc[u] \in Cancellable
    BY DEF NoStaleCancel, Cancellable
  <2>1. CASE UNCHANGED <<pc, sid, cancels>>
    BY <2>0, <2>1
  <2>2. ASSUME NEW t \in Turn, Register(t)
        PROVE  sid'[cancels'[s]] = s /\ pc'[cancels'[s]] \in Cancellable
    BY <2>0, <2>2 DEF Register, Cancellable, InFlight, Waiting
  <2>3. ASSUME NEW t \in Turn, NEW where \in Running,
               pc' = [pc EXCEPT ![t] = where], UNCHANGED <<sid, cancels>>
        PROVE  sid'[cancels'[s]] = s /\ pc'[cancels'[s]] \in Cancellable
    <3>1. where \in Cancellable
      BY DEF Cancellable, InFlight, Running, Yielding
    <3> QED
      BY <2>0, <2>3, <3>1
  <2>4. ASSUME NEW t \in Turn, NEW how \in Ended, Leave(t, how), UNCHANGED sid
        PROVE  sid'[cancels'[s]] = s /\ pc'[cancels'[s]] \in Cancellable
    BY <2>0, <2>4 DEF Leave
  <2>5. ASSUME NEW t \in Turn, TurnStep(t) \/ Abort(t)
        PROVE  sid'[cancels'[s]] = s /\ pc'[cancels'[s]] \in Cancellable
    BY <2>1, <2>2, <2>3, <2>4, <2>5, TurnStepMoves
  <2>6. ASSUME NEW t \in Turn, NEW r \in Session,
               Arrive(t, r) \/ ArriveNew(t, r) \/ StartAtOnce(t, r) \/ Compacted(t, r)
        PROVE  sid'[cancels'[s]] = s /\ pc'[cancels'[s]] \in Cancellable
    <3>1. /\ pc[t] \in {"new", "arrived"} /\ "new" \notin Cancellable
          /\ "arrived" \notin Cancellable /\ "open" \in Cancellable
      BY <2>6 DEF Arrive, ArriveNew, StartAtOnce, Compacted, CreateSession, Cancellable, InFlight, Waiting,
                  Running, Yielding
    <3>2. \A v \in Turn \ {t} : pc'[v] = pc[v] /\ sid'[v] = sid[v]
      BY <2>6 DEF Arrive, ArriveNew, StartAtOnce, Compacted, CreateSession
    <3>3. CASE cancels'[s] = cancels[s]
      <4>1. u \in Turn \ {t} /\ sid[u] = s /\ pc[u] \in Cancellable
        BY <2>0, <3>1, <3>3
      <4> HIDE DEF Cancellable
      <4> QED
        BY <3>2, <3>3, <4>1
    <3>4. CASE cancels'[s] # cancels[s]
      <4>1. ArriveNew(t, s) /\ cancels'[s] = t /\ pc'[t] = "open"
        BY <2>6, <3>4 DEF Arrive, ArriveNew, StartAtOnce, Compacted, CreateSession, registry
      <4> QED
        BY <3>1, <4>1 DEF ArriveNew
    <3> QED
      BY <3>3, <3>4
  <2>7. ASSUME NEW r \in Session, CancelSession(r) \/ DeleteSession(r)
        PROVE  UNCHANGED <<pc, sid, cancels>>
    BY <2>7 DEF CancelSession, DeleteSession, registry
  <2>8. CASE Restart
    BY <2>8 DEF Restart
  <2>9. CASE UNCHANGED vars
    BY <2>1, <2>9 DEF vars, registry
  <2> QED
    BY <2>1, <2>5, <2>6, <2>7, <2>8, <2>9 DEF Next
<1> QED
  BY <1>1, <1>2, EngineCorrect, PTL DEF Spec

-----------------------------------------------------------------------------
(* What a cancel guarantees.                                               *)

\* Except while a handler runs or its tool.result waits, nothing started late.
LEMMA NotLate ==
  ASSUME EngineInv, LateInv, NEW t \in Turn,
         pc[t] = "new" \/ pc[t] \in InFlight,
         pc[t] # "tool", pc[t] = "returned" => polled[t]
  PROVE  late[t] = 0
<1>1. late[t] \in Nat /\ late[t] <= 1
  BY DEF EngineInv, TypeOK, LateInv
<1> QED
  BY <1>1 DEF LateInv

LEMMA LateStep == EngineInv /\ LateInv /\ [Next]_vars => LateInv'
<1> SUFFICES ASSUME EngineInv, LateInv, [Next]_vars, NEW u \in Turn
             PROVE  /\ u \notin cancelled' \/ pc'[u] = "new" => late'[u] = 0
                    /\ late'[u] <= 1
                    /\ late'[u] = 1 /\ pc'[u] \in InFlight =>
                         pc'[u] = "tool" \/ (pc'[u] = "returned" /\ ~polled'[u])
  BY DEF LateInv
<1> DEFINE Goal == /\ u \notin cancelled' \/ pc'[u] = "new" => late'[u] = 0
                   /\ late'[u] <= 1
                   /\ late'[u] = 1 /\ pc'[u] \in InFlight =>
                        pc'[u] = "tool" \/ (pc'[u] = "returned" /\ ~polled'[u])
<1> USE ConstantsAssumption DEF EngineInv, TypeOK
<1>0. /\ u \notin cancelled \/ pc[u] = "new" => late[u] = 0
      /\ late[u] <= 1
      /\ late[u] = 1 /\ pc[u] \in InFlight =>
           pc[u] = "tool" \/ (pc[u] = "returned" /\ ~polled[u])
  BY DEF LateInv
<1>1. ASSUME NEW t \in Turn, Dispatch(t) PROVE Goal
  BY <1>0, <1>1 DEF Dispatch, Resumes, store, registry, loop, InFlight, Running, Yielding
<1>2. ASSUME NEW t \in Turn, ToolReturns(t) PROVE Goal
  <2>1. UNCHANGED <<cancelled, late>> /\ pc' = [pc EXCEPT ![t] = "returned"]
    BY <1>2 DEF ToolReturns, Yield, registry, tools
  <2>2. u # t => polled'[u] = polled[u]
    BY <1>2 DEF ToolReturns, Yield
  <2>3. t \in cancelled => ~polled'[t]
    BY <1>2 DEF ToolReturns, Yield
  <2> QED
    BY <1>0, <2>1, <2>2, <2>3
<1>3. ASSUME NEW t \in Turn, Forward(t) PROVE Goal
  BY <1>0, <1>3 DEF Forward, store, registry, loop, tools
<1>4. ASSUME NEW t \in Turn,
             StoreResult(t) \/ Correct(t) \/ Answer(t) \/ CallTools(t)
      PROVE  Goal
  <2>1. late[t] = 0
    <3>1. polled[t] /\ pc[t] \in {"stepped", "returned"}
      BY <1>4 DEF StoreResult, Correct, Answer, CallTools, Resumes
    <3> QED
      BY <3>1, NotLate DEF InFlight, Running, Yielding
  <2>2. UNCHANGED <<cancelled, late>> /\ pc'[t] # "new"
    BY <1>4 DEF StoreResult, Correct, Answer, CallTools, Yield, registry, tools
  <2>3. u # t => pc'[u] = pc[u] /\ polled'[u] = polled[u]
    BY <1>4 DEF StoreResult, Correct, Answer, CallTools, Yield
  <2> QED
    BY <1>0, <2>1, <2>2, <2>3
<1>5. ASSUME NEW t \in Turn, NEW kind \in {"text", "claim", "calls"},
             NEW n \in 0 .. MaxCalls, ModelAnswers(t, kind, n)
      PROVE  Goal
  <2>1. late[t] = 0
    BY <1>5, NotLate DEF ModelAnswers, InFlight, Running
  <2> QED
    BY <1>0, <1>5, <2>1 DEF ModelAnswers, Yield, registry, tools
<1>6. ASSUME NEW t \in Turn, Register(t) \/ Begin(t) \/ AskModel(t) PROVE Goal
  <2>1. late[t] = 0
    <3>1. pc[t] \in Waiting \cup {"prompt"}
      BY <1>6 DEF Register, Begin, AskModel, Ready, Waiting
    <3> QED
      BY <3>1, NotLate DEF InFlight, Waiting, Running
  <2>2. UNCHANGED <<cancelled, late, polled>> /\ pc'[t] # "new"
    BY <1>6 DEF Register, Begin, AskModel, registry, tools
  <2>3. u # t => pc'[u] = pc[u]
    BY <1>6 DEF Register, Begin, AskModel
  <2> QED
    BY <1>0, <2>1, <2>2, <2>3
<1>7. ASSUME NEW t \in Turn,
             Reject(t) \/ ModelFails(t) \/ Stop(t) \/ Abort(t) \/ Finish(t)
      PROVE  Goal
  <2>1. PICK how \in Ended : Leave(t, how)
    BY <1>7 DEF Reject, ModelFails, Stop, Abort, Finish, Ended
  <2>2. UNCHANGED <<cancelled, late, polled>>
    BY <1>7 DEF Reject, ModelFails, Stop, Abort, Finish, tools
  <2>3. how \notin InFlight /\ how # "new"
    BY DEF Ended, InFlight, Waiting, Running, Yielding
  <2> QED
    BY <1>0, <2>1, <2>2, <2>3 DEF Leave
<1>8. ASSUME NEW t \in Turn, NEW s \in Session,
             Arrive(t, s) \/ ArriveNew(t, s) \/ StartAtOnce(t, s) \/ Compacted(t, s)
      PROVE  Goal
  <2>1. late[t] = 0
    <3>1. pc[t] \in {"new", "arrived"}
      BY <1>8 DEF Arrive, ArriveNew, StartAtOnce, Compacted
    <3> QED
      BY <3>1, NotLate DEF InFlight, Waiting
  <2>2. UNCHANGED <<cancelled, late, polled>> /\ pc'[t] # "new"
    BY <1>8 DEF Arrive, ArriveNew, StartAtOnce, Compacted, CreateSession, registry, tools
  <2>3. u # t => pc'[u] = pc[u]
    BY <1>8 DEF Arrive, ArriveNew, StartAtOnce, Compacted, CreateSession
  <2> QED
    BY <1>0, <2>1, <2>2, <2>3
<1>9. ASSUME NEW s \in Session, CancelSession(s) \/ DeleteSession(s) PROVE Goal
  BY <1>0, <1>9 DEF CancelSession, DeleteSession, registry, tools
<1>10. CASE Restart
  BY <1>0, <1>10 DEF Restart, InFlight, Waiting, Running, Yielding, tools
<1>11. CASE UNCHANGED vars
  BY <1>0, <1>11 DEF vars, registry, tools
<1> QED
  BY <1>1, <1>2, <1>3, <1>4, <1>5, <1>6, <1>7, <1>8, <1>9, <1>10, <1>11
  DEF Next, TurnStep

\* Once the cancel event is set, at most one more tool handler starts: the one
\* whose tool.started event was already on its way (chat_stream, _loop).
THEOREM CancelBounds == Spec => []CancelStopsTools
<1>1. Init => LateInv
  <2> SUFFICES ASSUME Init, NEW t \in Turn
               PROVE  late[t] = 0 /\ late[t] <= 1 /\ late[t] # 1
    BY DEF LateInv
  <2>1. late[t] = 0
    BY DEF Init
  <2> QED
    BY <2>1
<1>2. LateInv => CancelStopsTools
  BY DEF LateInv, CancelStopsTools
<1> QED
  BY <1>1, <1>2, LateStep, EngineCorrect, PTL DEF Spec

-----------------------------------------------------------------------------
(* What a deletion guarantees.                                             *)

\* The store changes one turn at a time, and only a deletion takes away.
LEMMA StoreMoves ==
  ASSUME EngineInv, [Next]_vars
  PROVE  \/ UNCHANGED wiped /\ live \subseteq live'
         \/ \E s \in Session : DeleteSession(s)
<1>1. ASSUME NEW t \in Turn, NEW s \in Session,
             Arrive(t, s) \/ ArriveNew(t, s) \/ StartAtOnce(t, s) \/ Compacted(t, s)
      PROVE  UNCHANGED wiped /\ live \subseteq live'
  BY <1>1 DEF Arrive, ArriveNew, StartAtOnce, Compacted, CreateSession, store
<1>2. ASSUME NEW s \in Session, CancelSession(s) PROVE UNCHANGED <<live, wiped>>
  BY <1>2 DEF CancelSession, store
<1>3. Restart \/ UNCHANGED vars => UNCHANGED <<live, wiped>>
  BY DEF Restart, vars, store
<1> QED
  BY <1>1, <1>2, <1>3, TurnStepMoves DEF Next

LEMMA AppendedRow ==
  ASSUME NEW q \in Seq(Row), NEW r \in Row, NEW i \in DOMAIN Append(q, r)
  PROVE  (i \in DOMAIN q /\ Append(q, r)[i] = q[i]) \/ Append(q, r)[i] = r
OBVIOUS

\* What append_message may find at place i of a session after a step: an old
\* row, a row of a turn that runs, or the question of a turn that starts.
OldRow(s, i) == i \in DOMAIN log[s] /\ log'[s][i] = log[s][i]

RunningRow(s, i) ==
  LET r == log'[s][i] IN
  r.turn \in Turn /\ pc[r.turn] \in Running /\ sid[r.turn] = s /\ r.role # "user"

QuestionRow(s, i) ==
  LET t == log'[s][i].turn IN
  t \in Turn /\ pc[t] \in Unasked /\ pc'[t] = "prompt" /\ sid'[t] = s /\ s \in live'

LEMMA RowsOfStep ==
  ASSUME EngineInv, [Next]_vars, NEW s \in Session, NEW i \in DOMAIN log'[s]
  PROVE  OldRow(s, i) \/ RunningRow(s, i) \/ QuestionRow(s, i)
<1> USE DEF EngineInv
<1>a. \A r \in Session : log[r] \in Seq(Row)
  BY DEF TypeOK
<1>1. CASE UNCHANGED log
  BY <1>1 DEF OldRow
<1>2. ASSUME NEW t \in Turn, NEW r \in Row, AppendRow(t, r), sid[t] \in Session,
             pc[t] \in Running, r.turn = t, r.role # "user"
      PROVE  OldRow(s, i) \/ RunningRow(s, i)
  <2>1. CASE s = sid[t]
    <3>1. log'[s] = Append(log[s], r)
      BY <1>2, <2>1 DEF AppendRow, TypeOK
    <3> QED
      BY <1>a, <1>2, <2>1, <3>1, AppendedRow DEF OldRow, RunningRow
  <2>2. CASE s # sid[t]
    BY <1>2, <2>2 DEF AppendRow, TypeOK, OldRow
  <2> QED
    BY <2>1, <2>2
<1>3. ASSUME NEW t \in Turn, Begin(t) PROVE OldRow(s, i) \/ QuestionRow(s, i)
  <2>1. sid[t] \in Session /\ sid'[t] = sid[t] /\ sid[t] \in live'
    BY <1>3 DEF Begin, TypeOK
  <2>2. pc[t] \in Unasked /\ pc'[t] = "prompt"
    BY <1>3 DEF Begin, Ready, Unasked, Waiting, TypeOK
  <2>3. UserRow(t) \in Row /\ UserRow(t).turn = t
    BY RowTypes DEF UserRow
  <2>4. CASE s = sid[t]
    <3>1. log'[s] = Append(log[s], UserRow(t))
      BY <1>3, <2>4 DEF Begin, AppendRow, TypeOK
    <3> QED
      BY <1>a, <2>1, <2>2, <2>3, <2>4, <3>1, AppendedRow DEF OldRow, QuestionRow
  <2>5. CASE s # sid[t]
    BY <1>3, <2>5 DEF Begin, AppendRow, TypeOK, OldRow
  <2> QED
    BY <2>4, <2>5
<1>4. ASSUME NEW t \in Turn, NEW h \in Session, StartAtOnce(t, h)
      PROVE  OldRow(s, i) \/ QuestionRow(s, i)
  <2>1. sid'[t] = h /\ h \in live' /\ pc[t] \in Unasked /\ pc'[t] = "prompt"
    BY <1>4 DEF StartAtOnce, CreateSession, Unasked, TypeOK
  <2>2. UserRow(t) \in Row /\ UserRow(t).turn = t
    BY RowTypes DEF UserRow
  <2>3. CASE s = h
    <3>1. log'[s] = Append(log[s], UserRow(t))
      BY <1>4, <2>3 DEF StartAtOnce, TypeOK
    <3> QED
      BY <1>a, <2>1, <2>2, <2>3, <3>1, AppendedRow DEF OldRow, QuestionRow
  <2>4. CASE s # h
    BY <1>4, <2>4 DEF StartAtOnce, TypeOK, OldRow
  <2> QED
    BY <2>3, <2>4
<1>5. ASSUME NEW t \in Turn, Correct(t) \/ Answer(t) \/ CallTools(t)
      PROVE  OldRow(s, i) \/ RunningRow(s, i)
  <2>1. pc[t] \in Running /\ sid[t] \in Session
    BY <1>5, ConstantsAssumption DEF Correct, Answer, CallTools, Resumes, Running,
       Yielding, LoopInv, TypeOK
  <2>2. CASE UNCHANGED log
    BY <2>2 DEF OldRow
  <2>3. ASSUME NEW role \in Answers, AppendRow(t, FinalRow(t, role))
        PROVE  OldRow(s, i) \/ RunningRow(s, i)
    BY <1>2, <2>1, <2>3, RowTypes DEF FinalRow, Answers
  <2>4. CASE AppendRow(t, CallRow(t))
    BY <1>2, <2>1, <2>4, RowTypes DEF CallRow
  <2> QED
    BY <1>5, <2>2, <2>3, <2>4 DEF Correct, Answer, CallTools, Answers
<1>6. ASSUME NEW t \in Turn, StoreResult(t) PROVE OldRow(s, i) \/ RunningRow(s, i)
  <2>1. pc[t] \in Running /\ sid[t] \in Session
    BY <1>6, ConstantsAssumption DEF StoreResult, Resumes, Running, Yielding,
       LoopInv, TypeOK
  <2> DEFINE a == ToolRow(t)
             b == FinalRow(t, "apology")
  <2>2. a \in Row /\ a.turn = t /\ a.role # "user"
    BY RowTypes DEF ToolRow
  <2>3. b \in Row /\ b.turn = t /\ b.role # "user"
    BY RowTypes DEF FinalRow, Answers
  <2> HIDE DEF a, b
  <2>4. CASE AppendRow(t, a)
    BY <1>2, <2>1, <2>2, <2>4
  <2>5. CASE log' = [log EXCEPT ![sid[t]] = Append(Append(@, a), b)]
    <3>1. CASE s = sid[t]
      <4>1. log'[s] = Append(Append(log[s], a), b) /\ Append(log[s], a) \in Seq(Row)
        BY <1>a, <2>1, <2>2, <2>5, <3>1 DEF TypeOK
      <4>2. (i \in DOMAIN Append(log[s], a) /\ log'[s][i] = Append(log[s], a)[i])
              \/ log'[s][i] = b
        BY <2>3, <4>1, AppendedRow
      <4>3. i \in DOMAIN Append(log[s], a) =>
              (i \in DOMAIN log[s] /\ Append(log[s], a)[i] = log[s][i])
              \/ Append(log[s], a)[i] = a
        BY <1>a, <2>2, AppendedRow
      <4> QED
        BY <2>1, <2>2, <2>3, <3>1, <4>2, <4>3 DEF OldRow, RunningRow
    <3>2. CASE s # sid[t]
      BY <2>5, <3>2 DEF TypeOK, OldRow
    <3> QED
      BY <3>1, <3>2
  <2> QED
    BY <1>6, <2>4, <2>5 DEF StoreResult, a, b
<1>7. ASSUME NEW r \in Session, DeleteSession(r) PROVE OldRow(s, i)
  BY <1>7 DEF DeleteSession, TypeOK, OldRow
<1>8. ASSUME NEW t \in Turn,
             \/ Register(t) \/ Reject(t) \/ ModelFails(t) \/ Stop(t) \/ Abort(t)
             \/ Finish(t) \/ Forward(t) \/ AskModel(t) \/ Dispatch(t) \/ ToolReturns(t)
      PROVE  UNCHANGED log
  BY <1>8 DEF Register, Reject, ModelFails, Stop, Abort, Finish, Forward, AskModel,
     Dispatch, ToolReturns, store
<1>9. ASSUME NEW t \in Turn, NEW r \in Session,
             Arrive(t, r) \/ ArriveNew(t, r) \/ Compacted(t, r)
      PROVE  UNCHANGED log
  BY <1>9 DEF Arrive, ArriveNew, Compacted, store
<1>10. ASSUME NEW t \in Turn, NEW kind \in {"text", "claim", "calls"},
              NEW n \in 0 .. MaxCalls, ModelAnswers(t, kind, n)
       PROVE  UNCHANGED log
  BY <1>10 DEF ModelAnswers, store
<1>11. ASSUME NEW r \in Session, CancelSession(r) PROVE UNCHANGED log
  BY <1>11 DEF CancelSession, store
<1>12. Restart \/ UNCHANGED vars => UNCHANGED log
  BY DEF Restart, vars, store
<1> QED
  BY <1>1, <1>3, <1>4, <1>5, <1>6, <1>7, <1>8, <1>9, <1>10, <1>11, <1>12
  DEF Next, TurnStep

LEMMA DeletionStep == EngineInv /\ DeletionInv /\ [Next]_vars => DeletionInv'
<1> SUFFICES ASSUME EngineInv, DeletionInv, [Next]_vars PROVE DeletionInv'
  OBVIOUS
<1> USE DEF EngineInv
<1>a. Running \cap Unasked = {} /\ "new" \in Unasked /\ "prompt" \notin Unasked
  BY DEF Running, Yielding, Unasked, Waiting
<1>1. RowsInv'
  <2> SUFFICES ASSUME NEW s \in Session, NEW i \in DOMAIN log'[s]
               PROVE  sid'[log'[s][i].turn] = s /\ pc'[log'[s][i].turn] \notin Unasked
    BY DEF RowsInv
  <2>1. CASE OldRow(s, i)
    <3>1. log[s][i] \in Row
      BY <2>1 DEF OldRow, TypeOK
    <3> QED
      BY <1>a, <2>1, <3>1, TurnMoves DEF OldRow, DeletionInv, RowsInv, Row
  <2>2. CASE RunningRow(s, i)
    BY <1>a, <2>2, TurnMoves DEF RunningRow
  <2>3. CASE QuestionRow(s, i)
    BY <1>a, <2>3 DEF QuestionRow
  <2> QED
    BY <2>1, <2>2, <2>3, RowsOfStep
<1>2. \A t \in wiped' : pc'[t] \notin Unasked
  <2> SUFFICES ASSUME NEW t \in wiped' PROVE pc'[t] \notin Unasked
    OBVIOUS
  <2>0. t \in Turn
    BY EngineStep DEF TypeOK
  <2>1. CASE t \in wiped
    BY <2>0, <2>1, TurnMoves DEF DeletionInv, WipedInv
  <2>2. CASE t \notin wiped
    <3>1. PICK s \in Session : DeleteSession(s)
      BY <2>2, StoreMoves
    <3>2. sid[t] = s /\ pc[t] \notin {"arrived", "open"} /\ pc'[t] = pc[t]
      BY <2>0, <2>2, <3>1 DEF DeleteSession
    <3>3. pc[t] # "new"
      BY <2>0, <3>2, ConstantsAssumption DEF LoopInv
    <3> QED
      BY <3>2, <3>3 DEF Unasked, Waiting
  <2> QED
    BY <2>1, <2>2
<1>3. ASSUME NEW t \in Turn, pc'[t] \in Running, t \notin wiped'
      PROVE  sid'[t] \in live'
  <2>1. CASE pc[t] \in Running
    <3>1. sid'[t] = sid[t]
      BY <1>a, <2>1, TurnMoves
    <3>2. CASE UNCHANGED wiped /\ live \subseteq live'
      BY <1>3, <2>1, <3>1, <3>2 DEF DeletionInv, WipedInv
    <3>3. ASSUME NEW s \in Session, DeleteSession(s) PROVE sid'[t] \in live'
      <4>1. t \notin wiped /\ (sid[t] # s \/ pc[t] \in {"arrived", "open"})
        BY <1>3, <3>3 DEF DeleteSession
      <4>2. pc[t] \notin {"arrived", "open"}
        BY <1>a, <2>1 DEF Unasked, Waiting
      <4> QED
        BY <2>1, <3>1, <3>3, <4>1, <4>2 DEF DeleteSession, DeletionInv, WipedInv
    <3> QED
      BY <3>2, <3>3, StoreMoves
  <2>2. CASE pc[t] \notin Running
    <3>1. ASSUME NEW u \in Turn, TurnStep(u) \/ Abort(u) PROVE sid'[t] \in live'
      <4>1. ~Register(u)
        BY <1>3, <2>2 DEF Register, TypeOK, Running, Yielding
      <4>2. ~(\E how \in Ended : Leave(u, how))
        BY <1>3, <2>2 DEF Leave, TypeOK, Ended, Running, Yielding
      <4>3. Begin(u) /\ u = t
        BY <1>3, <2>2, <3>1, <4>1, <4>2, TurnStepMoves DEF TypeOK
      <4> QED
        BY <4>3 DEF Begin
    <3>2. ASSUME NEW u \in Turn, NEW s \in Session,
                 Arrive(u, s) \/ ArriveNew(u, s) \/ StartAtOnce(u, s) \/ Compacted(u, s)
          PROVE  sid'[t] \in live'
      <4>1. ~Arrive(u, s) /\ ~ArriveNew(u, s) /\ ~Compacted(u, s)
        BY <1>3, <2>2 DEF Arrive, ArriveNew, Compacted, TypeOK, Running, Yielding
      <4>2. u = t
        BY <1>3, <2>2, <3>2, <4>1 DEF StartAtOnce, TypeOK
      <4> QED
        BY <3>2, <4>1, <4>2 DEF StartAtOnce, CreateSession, TypeOK
    <3>3. ASSUME NEW s \in Session, CancelSession(s) \/ DeleteSession(s) PROVE FALSE
      BY <1>3, <2>2, <3>3 DEF CancelSession, DeleteSession
    <3>4. ~Restart
      BY <1>3, <2>2 DEF Restart, TypeOK, Running, Yielding
    <3>5. ~(UNCHANGED vars)
      BY <1>3, <2>2 DEF vars
    <3> QED
      BY <3>1, <3>2, <3>3, <3>4, <3>5 DEF Next
  <2> QED
    BY <2>1, <2>2
<1>4. ASSUME NEW s \in Session, NEW i \in DOMAIN log'[s]
      PROVE  /\ log'[s][i].turn \in wiped' => log'[s][i].role # "user"
             /\ s \notin live' => log'[s][i].turn \in wiped'
  <2>1. CASE OldRow(s, i)
    <3>1. /\ log[s][i] \in Row /\ log'[s][i] = log[s][i]
          /\ sid[log[s][i].turn] = s
          /\ log[s][i].turn \in wiped => log[s][i].role # "user"
          /\ s \notin live => log[s][i].turn \in wiped
      BY <2>1 DEF OldRow, TypeOK, DeletionInv, RowsInv, DeletedQuestionsStayDeleted
    <3>2. CASE UNCHANGED wiped /\ live \subseteq live'
      BY <3>1, <3>2
    <3>3. ASSUME NEW r \in Session, DeleteSession(r)
          PROVE  /\ log'[s][i].turn \in wiped' => log'[s][i].role # "user"
                 /\ s \notin live' => log'[s][i].turn \in wiped'
      <4>1. s # r
        BY <1>4, <3>3 DEF DeleteSession, TypeOK
      <4> QED
        BY <3>1, <3>3, <4>1 DEF DeleteSession
    <3> QED
      BY <3>2, <3>3, StoreMoves
  <2>2. CASE ~OldRow(s, i)
    <3>1. RunningRow(s, i) \/ QuestionRow(s, i)
      BY <1>4, <2>2, RowsOfStep
    <3>2. UNCHANGED wiped /\ live \subseteq live'
      <4>1. ASSUME NEW r \in Session, DeleteSession(r) PROVE FALSE
        BY <1>4, <2>2, <4>1 DEF DeleteSession, TypeOK, OldRow
      <4> QED
        BY <4>1, StoreMoves
    <3>3. CASE RunningRow(s, i)
      BY <3>2, <3>3 DEF RunningRow, DeletionInv, WipedInv
    <3>4. CASE QuestionRow(s, i)
      BY <3>2, <3>4 DEF QuestionRow, DeletionInv, WipedInv
    <3> QED
      BY <3>1, <3>3, <3>4
  <2> QED
    BY <2>1, <2>2
<1> QED
  BY <1>1, <1>2, <1>3, <1>4 DEF DeletionInv, WipedInv, DeletedQuestionsStayDeleted

LEMMA DeletionCorrect == Spec => []DeletionInv
<1>1. Init => DeletionInv
  BY DEF Init, DeletionInv, RowsInv, WipedInv, DeletedQuestionsStayDeleted,
     Running, Yielding
<1> QED
  BY <1>1, DeletionStep, EngineCorrect, PTL DEF Spec

\* A deleted question never comes back, and a deleted session collects nothing
\* but the rows of turns that were running when it went (delete_session,
\* append_message, ensure_household_session).
THEOREM DeletionHolds == Spec => []DeletedQuestionsStayDeleted
<1>1. DeletionInv => DeletedQuestionsStayDeleted
  BY DEF DeletionInv
<1> QED
  BY <1>1, DeletionCorrect, PTL

-----------------------------------------------------------------------------
(* The engine implements the lifecycle of a turn.                          *)

LEMMA OrderStep == EngineInv /\ OrderInv /\ [Next]_vars => OrderInv'
<1> SUFFICES ASSUME EngineInv, OrderInv, [Next]_vars, NEW u \in Turn, NEW slot \in ran'[u]
             PROVE  /\ slot \in Slot
                    /\ slot[1] <= pass'[u]
                    /\ pc'[u] = "stepped" => slot[1] < pass'[u]
                    /\ pc'[u] = "started" /\ slot[1] = pass'[u] => slot[2] < at'[u]
                    /\ pc'[u] \in {"tool", "returned"} /\ slot[1] = pass'[u] => slot[2] <= at'[u]
  BY DEF OrderInv
<1> DEFINE Goal == /\ slot \in Slot
                   /\ slot[1] <= pass'[u]
                   /\ pc'[u] = "stepped" => slot[1] < pass'[u]
                   /\ pc'[u] = "started" /\ slot[1] = pass'[u] => slot[2] < at'[u]
                   /\ pc'[u] \in {"tool", "returned"} /\ slot[1] = pass'[u] => slot[2] <= at'[u]
<1> USE ConstantsAssumption DEF EngineInv, TypeOK
<1>0. slot \in ran[u] =>
        /\ slot \in Slot /\ slot[1] \in Nat /\ slot[2] \in Nat
        /\ slot[1] <= pass[u]
        /\ pc[u] = "stepped" => slot[1] < pass[u]
        /\ pc[u] = "started" /\ slot[1] = pass[u] => slot[2] < at[u]
        /\ pc[u] \in {"tool", "returned"} /\ slot[1] = pass[u] => slot[2] <= at[u]
  BY DEF OrderInv, Slot
<1>n. pass[u] \in Nat /\ at[u] \in Nat
  OBVIOUS
<1>1. ASSUME NEW t \in Turn, Dispatch(t) PROVE Goal
  <2>1. <<pass[t], at[t]>> \in Slot
    BY <1>1 DEF Dispatch, Resumes, LoopInv, InTool, Slot
  <2>2. UNCHANGED <<pass, at>> /\ pc' = [pc EXCEPT ![t] = "tool"] /\ pc[t] = "started"
    BY <1>1 DEF Dispatch, Resumes, loop
  <2>3. slot \in ran[u] \/ (u = t /\ slot = <<pass[t], at[t]>>)
    BY <1>1 DEF Dispatch
  <2>4. CASE slot \in ran[u]
    BY <1>0, <1>n, <2>2, <2>4
  <2>5. CASE u = t /\ slot = <<pass[t], at[t]>>
    BY <1>n, <2>1, <2>2, <2>5
  <2> QED
    BY <2>3, <2>4, <2>5
<1>2. ASSUME NEW t \in Turn, NEW kind \in {"text", "claim", "calls"},
             NEW n \in 0 .. MaxCalls, ModelAnswers(t, kind, n)
      PROVE  Goal
  <2>1. UNCHANGED ran /\ pc' = [pc EXCEPT ![t] = "stepped"]
    BY <1>2 DEF ModelAnswers, Yield, tools
  <2>2. u = t => pass'[u] = pass[u] + 1 /\ pc'[u] = "stepped"
    BY <1>2 DEF ModelAnswers, Yield
  <2>3. u # t => pass'[u] = pass[u] /\ at'[u] = at[u] /\ pc'[u] = pc[u]
    BY <1>2 DEF ModelAnswers, Yield
  <2> HIDE DEF EngineInv, TypeOK
  <2>4. CASE u = t
    BY <1>0, <1>n, <2>1, <2>2, <2>4
  <2>5. CASE u # t
    BY <1>0, <1>n, <2>1, <2>3, <2>5
  <2> QED
    BY <2>4, <2>5
<1>3. ASSUME NEW t \in Turn, CallTools(t) PROVE Goal
  <2>1. UNCHANGED <<ran, pass>> /\ pc[t] = "stepped" /\ pc'[t] = "started"
    BY <1>3 DEF CallTools, Resumes, Yield, tools
  <2>2. u # t => at'[u] = at[u] /\ pc'[u] = pc[u]
    BY <1>3 DEF CallTools, Yield
  <2> HIDE DEF EngineInv, TypeOK
  <2>3. CASE u = t
    BY <1>0, <1>n, <2>1, <2>3
  <2>4. CASE u # t
    BY <1>0, <1>n, <2>1, <2>2, <2>4
  <2> QED
    BY <2>3, <2>4
<1>4. ASSUME NEW t \in Turn, StoreResult(t) PROVE Goal
  <2>1. UNCHANGED <<ran, pass>> /\ pc[t] = "returned"
    BY <1>4 DEF StoreResult, Resumes, tools
  <2>2. u # t => at'[u] = at[u] /\ pc'[u] = pc[u]
    BY <1>4 DEF StoreResult, Yield
  <2>3. \/ pc'[t] = "started" /\ at'[t] = at[t] + 1
        \/ pc'[t] \in {"model", "completed"}
    BY <1>4 DEF StoreResult, Yield
  <2> HIDE DEF EngineInv, TypeOK
  <2>n. UNCHANGED pass /\ slot \in ran[u] /\ slot[2] \in Nat /\ at[u] \in Nat /\ pass[u] \in Nat
    BY <1>0, <1>n, <2>1
  <2>4. CASE u = t
    BY <1>0, <2>n, <2>1, <2>3, <2>4
  <2>5. CASE u # t
    BY <1>0, <1>n, <2>1, <2>2, <2>5
  <2> QED
    BY <2>4, <2>5
<1>5. ASSUME NEW t \in Turn, Correct(t) \/ Answer(t) PROVE Goal
  <2>1. UNCHANGED <<ran, pass, at>> /\ pc'[t] \in {"model", "completed"}
    BY <1>5 DEF Correct, Answer, Yield, loop, tools
  <2>2. u # t => pc'[u] = pc[u]
    BY <1>5 DEF Correct, Answer, Yield
  <2> QED
    BY <1>0, <1>n, <2>1, <2>2
<1>6. ASSUME NEW t \in Turn, ToolReturns(t) PROVE Goal
  <2>1. /\ UNCHANGED <<ran, pass, at>> /\ pc[t] = "tool"
        /\ pc' = [pc EXCEPT ![t] = "returned"]
    BY <1>6 DEF ToolReturns, Yield, loop, tools
  <2> QED
    BY <1>0, <1>n, <2>1
<1>7. ASSUME UNCHANGED <<ran, pass, at>>,
             \/ pc'[u] = pc[u]
             \/ pc'[u] \notin {"stepped", "started", "tool", "returned"}
      PROVE  Goal
  BY <1>0, <1>7
<1>8. ASSUME NEW t \in Turn, Register(t) \/ Begin(t) \/ AskModel(t) \/ Forward(t)
      PROVE  Goal
  <2>1. UNCHANGED <<ran, pass, at>>
    BY <1>8 DEF Register, Begin, AskModel, Forward, loop, tools
  <2>2. pc'[u] = pc[u] \/ pc'[u] \in {"open", "prompt", "model"}
    BY <1>8 DEF Register, Begin, AskModel, Forward
  <2> QED
    BY <1>7, <2>1, <2>2
<1>9. ASSUME NEW t \in Turn,
             Reject(t) \/ ModelFails(t) \/ Stop(t) \/ Abort(t) \/ Finish(t)
      PROVE  Goal
  <2>1. UNCHANGED <<ran, pass, at>>
    BY <1>9 DEF Reject, ModelFails, Stop, Abort, Finish, loop, tools
  <2>2. pc'[u] = pc[u] \/ pc'[u] \in Ended
    BY <1>9 DEF Reject, ModelFails, Stop, Abort, Finish, Leave, Ended
  <2> QED
    BY <1>7, <2>1, <2>2 DEF Ended
<1>10. ASSUME NEW t \in Turn, NEW s \in Session,
              Arrive(t, s) \/ ArriveNew(t, s) \/ StartAtOnce(t, s) \/ Compacted(t, s)
       PROVE  Goal
  <2>1. UNCHANGED <<ran, pass, at>>
    BY <1>10 DEF Arrive, ArriveNew, StartAtOnce, Compacted, CreateSession, loop, tools
  <2>2. pc'[u] = pc[u] \/ pc'[u] \in {"arrived", "open", "prompt"}
    BY <1>10 DEF Arrive, ArriveNew, StartAtOnce, Compacted, CreateSession
  <2> QED
    BY <1>7, <2>1, <2>2
<1>11. ASSUME NEW s \in Session, CancelSession(s) \/ DeleteSession(s) PROVE Goal
  BY <1>7, <1>11 DEF CancelSession, DeleteSession, loop, tools
<1>12. CASE Restart
  BY <1>7, <1>12 DEF Restart, loop, tools
<1>13. CASE UNCHANGED vars
  BY <1>7, <1>13 DEF vars, loop, tools
<1> QED
  BY <1>1, <1>2, <1>3, <1>4, <1>5, <1>6, <1>8, <1>9, <1>10, <1>11, <1>12, <1>13
  DEF Next, TurnStep

Phase == [t \in Turn |-> PhaseOf(t)]

LEMMA PhaseStep ==
  ASSUME EngineInv, OrderInv, [Next]_vars
  PROVE  [Lifecycle!Next]_(Lifecycle!vars)
<1> USE ConstantsAssumption DEF EngineInv, TypeOK
<1> DEFINE Stutter == UNCHANGED <<Phase, ran>>
           Promise == Lifecycle!Next \/ Stutter
<1> SUFFICES Promise
  BY DEF Phase, Lifecycle!vars
<1>p. \A t \in Turn : Phase[t] = PhaseOf(t) /\ Phase'[t] = PhaseOf(t)'
  BY DEF Phase
<1>1. UNCHANGED <<pc, ran>> => Stutter
  BY DEF Phase, PhaseOf
\* One turn moves: what its phases before and after say is what it promises.
<1>2. ASSUME NEW t \in Turn, NEW where, pc' = [pc EXCEPT ![t] = where], UNCHANGED ran
      PROVE  /\ PhaseOf(t)' = PhaseOf(t) => Stutter
             /\ PhaseOf(t) = "new" /\ PhaseOf(t)' = "asked" => Lifecycle!Ask(t)
             /\ PhaseOf(t) = "asked" /\ PhaseOf(t)' = "answered" => Lifecycle!Answer(t)
             /\ PhaseOf(t) = "acting" /\ PhaseOf(t)' = "asked" => Lifecycle!ToolDone(t)
             /\ PhaseOf(t) = "answered" /\ PhaseOf(t)' = "done" => Lifecycle!Report(t)
             /\ PhaseOf(t) \notin {"done", "gone"} /\ PhaseOf(t)' = "gone" =>
                  Lifecycle!GiveUp({t})
  <2>1. Phase' = [Phase EXCEPT ![t] = PhaseOf(t)']
    BY <1>2 DEF Phase, PhaseOf
  <2>2. PhaseOf(t)' = PhaseOf(t) => Stutter
    <3>1. Phase = [u \in Turn |-> Phase[u]]
      BY DEF Phase
    <3> QED
      BY <1>2, <1>p, <2>1, <3>1
  <2> QED
    BY <1>2, <1>p, <2>1, <2>2
    DEF Phase, Lifecycle!Ask, Lifecycle!Answer, Lifecycle!ToolDone, Lifecycle!Report,
        Lifecycle!GiveUp
<1>3. ASSUME NEW t \in Turn PROVE
        /\ Lifecycle!Ask(t) \/ Lifecycle!Answer(t) \/ Lifecycle!ToolDone(t) => Promise
        /\ Lifecycle!Report(t) => Promise
        /\ Lifecycle!GiveUp({t}) => Promise
  BY DEF Lifecycle!Next
<1>w. ASSUME NEW t \in Turn, NEW where, pc' = [pc EXCEPT ![t] = where]
      PROVE  pc'[t] = where
  BY <1>w
<1>4. ASSUME NEW t \in Turn, Dispatch(t) PROVE Promise
  <2> DEFINE slot == <<pass[t], at[t]>>
  <2>1. slot \in Lifecycle!Slot /\ slot \in Slot
    BY <1>4 DEF Dispatch, Resumes, LoopInv, InTool, Lifecycle!Slot, Slot
  <2>2. Phase[t] = "asked" /\ Phase' = [Phase EXCEPT ![t] = "acting"]
    <3>1. pc[t] = "started" /\ pc' = [pc EXCEPT ![t] = "tool"]
      BY <1>4 DEF Dispatch, Resumes
    <3>2. PhaseOf(t) = "asked" /\ PhaseOf(t)' = "acting"
      BY <3>1 DEF PhaseOf, Waiting, Running, Yielding
    <3>3. \A u \in Turn \ {t} : PhaseOf(u)' = PhaseOf(u)
      BY <3>1 DEF PhaseOf
    <3> QED
      BY <3>2, <3>3 DEF Phase
  <2>3. \A earlier \in ran[t] : Lifecycle!Before(earlier, slot)
    <3> SUFFICES ASSUME NEW earlier \in ran[t] PROVE Lifecycle!Before(earlier, slot)
      OBVIOUS
    <3>1. /\ earlier \in Slot /\ earlier[1] <= pass[t]
          /\ earlier[1] = pass[t] => earlier[2] < at[t]
      BY <1>4 DEF OrderInv, Dispatch, Resumes
    <3> QED
      BY <2>1, <3>1 DEF Lifecycle!Before, Slot
  <2>4. ran' = [ran EXCEPT ![t] = @ \cup {slot}]
    BY <1>4 DEF Dispatch
  <2>5. Lifecycle!RunTool(t, slot)
    BY <2>2, <2>3, <2>4 DEF Lifecycle!RunTool, Phase
  <2> QED
    BY <2>1, <2>5 DEF Lifecycle!Next
<1>5. ASSUME NEW t \in Turn, Begin(t) PROVE Promise
  <2>1. /\ pc[t] \in Waiting /\ pc' = [pc EXCEPT ![t] = "prompt"] /\ UNCHANGED ran
    BY <1>5 DEF Begin, Ready, Waiting, tools
  <2>2. PhaseOf(t) = "new" /\ PhaseOf(t)' = "asked"
    BY <2>1 DEF PhaseOf, Waiting, Running, Yielding
  <2> QED
    BY <1>2, <1>3, <2>1, <2>2
<1>6. ASSUME NEW t \in Turn, NEW s \in Session, StartAtOnce(t, s) PROVE Promise
  <2>1. /\ pc[t] = "new" /\ pc' = [pc EXCEPT ![t] = "prompt"] /\ UNCHANGED ran
    BY <1>6 DEF StartAtOnce, tools
  <2>2. PhaseOf(t) = "new" /\ PhaseOf(t)' = "asked"
    BY <2>1 DEF PhaseOf, Waiting, Running, Yielding
  <2> QED
    BY <1>2, <1>3, <2>1, <2>2
<1>7. ASSUME NEW t \in Turn, NEW s \in Session, Arrive(t, s) \/ ArriveNew(t, s)
      PROVE  Promise
  <2>1. PICK where \in Waiting : pc[t] = "new" /\ pc' = [pc EXCEPT ![t] = where] /\ UNCHANGED ran
    BY <1>7 DEF Arrive, ArriveNew, Waiting, tools
  <2>2. PhaseOf(t) = "new" /\ PhaseOf(t)' = "new"
    BY <2>1 DEF PhaseOf, Waiting
  <2> QED
    BY <1>2, <2>1, <2>2
<1>c. ASSUME NEW t \in Turn, NEW s \in Session, Compacted(t, s) PROVE Promise
  BY <1>1, <1>c DEF Compacted, tools
<1>8. ASSUME NEW t \in Turn, Register(t) PROVE Promise
  <2>1. pc[t] = "arrived" /\ pc' = [pc EXCEPT ![t] = "open"] /\ UNCHANGED ran
    BY <1>8 DEF Register, tools
  <2>2. PhaseOf(t) = "new" /\ PhaseOf(t)' = "new"
    BY <2>1 DEF PhaseOf, Waiting
  <2> QED
    BY <1>2, <2>1, <2>2
\* Inside the loop: a step stays "asked" or stores the answer.
<1>9. ASSUME NEW t \in Turn, NEW where \in Running \ {"tool"},
             pc[t] \in Running \ {"tool", "completed"},
             pc' = [pc EXCEPT ![t] = where], UNCHANGED ran
      PROVE  Promise
  <2>1. PhaseOf(t) = "asked"
    BY <1>9 DEF PhaseOf, Waiting, Running, Yielding
  <2>2. PhaseOf(t)' \in {"asked", "answered"}
    BY <1>9 DEF PhaseOf, Waiting, Running, Yielding
  <2> QED
    BY <1>2, <1>3, <1>9, <2>1, <2>2
<1>10. ASSUME NEW t \in Turn, AskModel(t) PROVE Promise
  BY <1>9, <1>10 DEF AskModel, Running, Yielding, tools
<1>r. ASSUME NEW t \in Turn, ToolReturns(t) PROVE Promise
  <2>1. pc[t] = "tool" /\ pc' = [pc EXCEPT ![t] = "returned"] /\ UNCHANGED ran
    BY <1>r DEF ToolReturns, Yield, tools
  <2>2. PhaseOf(t) = "acting" /\ PhaseOf(t)' = "asked"
    BY <2>1 DEF PhaseOf, Waiting, Running, Yielding
  <2> QED
    BY <1>2, <1>3, <2>1, <2>2
<1>11. ASSUME NEW t \in Turn, NEW kind \in {"text", "claim", "calls"},
              NEW n \in 0 .. MaxCalls, ModelAnswers(t, kind, n)
       PROVE  Promise
  BY <1>9, <1>11 DEF ModelAnswers, Yield, Running, Yielding, tools
<1>12. ASSUME NEW t \in Turn, Correct(t) PROVE Promise
  <2>1. PICK where \in {"model", "completed"} : pc' = [pc EXCEPT ![t] = where]
    BY <1>12 DEF Correct, Yield
  <2> QED
    BY <1>9, <1>12, <2>1 DEF Correct, Resumes, Running, Yielding, tools
<1>13. ASSUME NEW t \in Turn, Answer(t) \/ CallTools(t) PROVE Promise
  <2>1. PICK where \in {"started", "completed"} : pc' = [pc EXCEPT ![t] = where]
    BY <1>13 DEF Answer, CallTools, Yield
  <2>2. pc[t] = "stepped" /\ UNCHANGED ran
    BY <1>13 DEF Answer, CallTools, Resumes, tools
  <2> QED
    BY <1>9, <2>1, <2>2 DEF Running, Yielding
<1>14. ASSUME NEW t \in Turn, StoreResult(t) PROVE Promise
  <2>1. PICK where \in {"started", "model", "completed"} : pc' = [pc EXCEPT ![t] = where]
    BY <1>14 DEF StoreResult, Yield
  <2> QED
    BY <1>9, <1>14, <2>1 DEF StoreResult, Resumes, Running, Yielding, tools
<1>15. ASSUME NEW t \in Turn, Finish(t) PROVE Promise
  <2>1. pc[t] = "completed" /\ pc' = [pc EXCEPT ![t] = "done"] /\ UNCHANGED ran
    BY <1>15 DEF Finish, Leave, tools
  <2>2. PhaseOf(t) = "answered" /\ PhaseOf(t)' = "done"
    BY <2>1 DEF PhaseOf, Waiting, Running, Yielding
  <2> QED
    BY <1>2, <1>3, <2>1, <2>2
<1>16. ASSUME NEW t \in Turn, Reject(t) \/ ModelFails(t) \/ Stop(t) \/ Abort(t)
       PROVE  Promise
  <2>1. PICK how \in Ended \ {"done"} : pc' = [pc EXCEPT ![t] = how] /\ UNCHANGED ran
    BY <1>16 DEF Reject, ModelFails, Stop, Abort, Leave, Ended, tools
  <2>2. pc[t] \in InFlight
    BY <1>16 DEF Reject, ModelFails, Stop, Abort, Ready, InFlight, Waiting, Running, Yielding
  <2>3. PhaseOf(t) \notin {"done", "gone"} /\ PhaseOf(t)' = "gone"
    BY <2>1, <2>2 DEF PhaseOf, InFlight, Waiting, Running, Yielding, Ended
  <2> QED
    BY <1>2, <1>3, <2>1, <2>3
<1>17. CASE Restart
  <2> DEFINE hit == {t \in Turn : pc[t] \in InFlight}
  <2>1. \A t \in hit : Phase[t] \notin {"done", "gone"}
    BY <1>p DEF PhaseOf, InFlight, Waiting, Running, Yielding
  <2>2. \A t \in Turn : Phase'[t] = IF t \in hit THEN "gone" ELSE Phase[t]
    BY <1>p, <1>17 DEF Restart, PhaseOf, Waiting, Running, Yielding
  <2>3. Phase' = [t \in Turn |-> IF t \in hit THEN "gone" ELSE Phase[t]]
    BY <2>2 DEF Phase
  <2>4. Lifecycle!GiveUp(hit)
    BY <1>17, <2>1, <2>3 DEF Lifecycle!GiveUp, Phase, Restart, tools
  <2> QED
    BY <2>4 DEF Lifecycle!Next
<1>18. ASSUME NEW t \in Turn, Forward(t) PROVE Promise
  BY <1>1, <1>18 DEF Forward, tools
<1>19. ASSUME NEW s \in Session, CancelSession(s) \/ DeleteSession(s) PROVE Promise
  BY <1>1, <1>19 DEF CancelSession, DeleteSession, tools
<1>20. CASE UNCHANGED vars
  BY <1>1, <1>20 DEF vars, tools
<1> QED
  BY <1>4, <1>5, <1>6, <1>7, <1>8, <1>10, <1>11, <1>12, <1>13, <1>14, <1>15, <1>16,
     <1>17, <1>18, <1>19, <1>20, <1>c, <1>r
  DEF Next, TurnStep

\* The engine implements the lifecycle: a question is answered or given up, an
\* answer is stored before the turn is done, no tool runs out of order, twice,
\* or for a turn that is over (respond, _run_turn, _loop).
THEOREM EngineImplementsLifecycle == Spec => ImplementsLifecycle
<1>1. Init => OrderInv
  BY DEF Init, OrderInv
<1>2. Init => Lifecycle!Init
  BY DEF Init, Lifecycle!Init, PhaseOf
<1>3. EngineInv /\ OrderInv /\ [Next]_vars => [Lifecycle!Next]_(Lifecycle!vars)
  BY PhaseStep
<1> QED
  BY <1>1, <1>2, <1>3, OrderStep, EngineCorrect, PTL DEF Spec, ImplementsLifecycle, Lifecycle!Spec
=============================================================================
