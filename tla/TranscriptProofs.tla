--------------------------- MODULE TranscriptProofs ---------------------------
(***************************************************************************)
(* Proofs about what TurnEngine leaves in the message store, for any       *)
(* turns, sessions and budgets: the rows of a turn are in protocol order,  *)
(* and they account for what its tools have done.                          *)
(***************************************************************************)
EXTENDS TurnEngineProofs

RowsIn(q) == {q[i] : i \in DOMAIN q}

\* The rows of a turn.
On(t) == {row \in Row : row.turn = t /\ \E s \in Session : row \in RowsIn(log[s])}

Output(rows, slot) == \E row \in rows : row.role = "tool" /\ <<row.pass, row.n>> = slot

Call(rows, slot) ==
  \E row \in rows : row.role = "call" /\ row.pass = slot[1] /\ row.n >= slot[2]

\* The last row of a turn is the one its loop stands at.
Placed(t) ==
  \A row \in On(t) :
    /\ row.pass <= pass[t]
    /\ pc[t] \in Running \ {"completed"} => row.role \notin Answers
    /\ pc[t] = "stepped" => row.pass < pass[t]
    /\ pc[t] \in InTool /\ row.pass = pass[t] =>
         \/ row.role = "call" /\ row.n = calls[t]
         \/ row.role = "tool" /\ row.n < at[t]

\* No output of a tool that has not run.
OutputsRan(t) ==
  /\ \A row \in On(t) : row.role = "tool" => <<row.pass, row.n>> \in ran[t]
  /\ pc[t] \in {"tool", "returned"} => <<pass[t], at[t]>> \in ran[t]

\* While its session stands, the rows of a turn lack the output it is waiting
\* for, or has broken off in, and no other.
Accounted(t) ==
  /\ pc[t] \in InTool => CallRow(t) \in On(t)
  /\ \A slot \in ran[t] :
       /\ Call(On(t), slot)
       /\ \/ Output(On(t), slot)
          \/ slot = <<pass[t], at[t]>> /\ pc[t] \in {"tool", "returned"} \cup Ended
  /\ \A row \in On(t) : row.role = "call" => \A k \in 1 .. row.n :
       \/ Output(On(t), <<row.pass, k>>)
       \/ /\ row.pass = pass[t] /\ k >= at[t]
          /\ pc[t] \in InTool \cup (Ended \ {"done"})
  /\ pc[t] \in {"completed", "done"} => \E row \in On(t) : row.role \in Answers

Record(t) == Placed(t) /\ OutputsRan(t) /\ (t \notin wiped => Accounted(t))

RecordInv == \A t \in Turn : Record(t)

-----------------------------------------------------------------------------
(* The rows of a turn after a step.                                        *)

LEMMA OnTypes ==
  ASSUME NEW t \in Turn
  PROVE  \A row \in On(t) :
           /\ row \in Row /\ row.turn = t
           /\ row.pass \in Nat /\ row.n \in Nat
BY ConstantsAssumption DEF On, Row

LEMMA RowsInAppend ==
  ASSUME NEW q \in Seq(Row), NEW r \in Row
  PROVE  Append(q, r) \in Seq(Row) /\ RowsIn(Append(q, r)) = RowsIn(q) \cup {r}
<1> DEFINE p == Append(q, r)
<1>1. /\ p \in Seq(Row) /\ DOMAIN p = 1 .. (Len(q) + 1)
      /\ DOMAIN q = 1 .. Len(q) /\ Len(q) \in Nat
      /\ \A i \in DOMAIN q : p[i] = q[i]
      /\ p[Len(q) + 1] = r
  OBVIOUS
<1> HIDE DEF p
<1>2. DOMAIN p = DOMAIN q \cup {Len(q) + 1}
  BY <1>1
<1>3. RowsIn(p) = RowsIn(q) \cup {r}
  BY <1>1, <1>2 DEF RowsIn
<1> QED
  BY <1>1, <1>3 DEF p

\* append_message adds rows to their turn and to no other.
LEMMA OnAppended ==
  ASSUME TypeOK, NEW s \in Session, NEW q, log' = [log EXCEPT ![s] = q],
         NEW new \in SUBSET Row, RowsIn(q) = RowsIn(log[s]) \cup new,
         NEW t \in Turn, \A r \in new : r.turn = t, NEW u \in Turn
  PROVE  On(u)' = IF u = t THEN On(u) \cup new ELSE On(u)
<1>1. /\ log'[s] = q /\ \A h \in Session \ {s} : log'[h] = log[h]
  BY DEF TypeOK
<1>2. \A row \in Row :
        (\E h \in Session : row \in RowsIn(log'[h]))
        <=> row \in new \/ (\E h \in Session : row \in RowsIn(log[h]))
  BY <1>1
<1> QED
  BY <1>2 DEF On

LEMMA OnAppend ==
  ASSUME TypeOK, NEW s \in Session, NEW r \in Row, r.turn \in Turn, NEW u \in Turn,
         log' = [log EXCEPT ![s] = Append(@, r)]
  PROVE  On(u)' = IF u = r.turn THEN On(u) \cup {r} ELSE On(u)
<1>1. log[s] \in Seq(Row)
  BY DEF TypeOK
<1>2. RowsIn(Append(log[s], r)) = RowsIn(log[s]) \cup {r} /\ {r} \in SUBSET Row
  BY <1>1, RowsInAppend
<1> QED
  BY <1>2, OnAppended

\* The rows of a turn are in its session; before its question it has none.
LEMMA OnSession ==
  ASSUME RowsInv, NEW t \in Turn, NEW row \in On(t)
  PROVE  /\ \E i \in DOMAIN log[sid[t]] : log[sid[t]][i] = row
         /\ pc[t] \notin Unasked
BY DEF On, RowsIn, RowsInv

LEMMA OnUnchanged == UNCHANGED log => \A u \in Turn : On(u)' = On(u)
BY DEF On

\* A deletion takes every row of a session; a turn it does not wipe has none there.
LEMMA OnDeletion ==
  ASSUME EngineInv, RowsInv, NEW s \in Session, DeleteSession(s), NEW u \in Turn
  PROVE  On(u)' \subseteq On(u) /\ (u \notin wiped' => On(u)' = On(u))
<1>1. \A h \in Session \ {s} : log'[h] = log[h]
  BY DEF DeleteSession, EngineInv, TypeOK
<1>2. DOMAIN log'[s] = {}
  BY DEF DeleteSession, EngineInv, TypeOK
<1>3. On(u)' \subseteq On(u)
  <2>1. RowsIn(log'[s]) = {}
    BY <1>2 DEF RowsIn
  <2> QED
    BY <1>1, <2>1 DEF On
<1>4. ASSUME u \notin wiped', NEW row \in On(u) PROVE row \in On(u)'
  <2>1. PICK h \in Session : row \in RowsIn(log[h])
    BY DEF On
  <2>2. sid[u] = h /\ pc[u] \notin Unasked
    BY <2>1 DEF On, RowsIn, RowsInv
  <2>3. h # s
    BY <1>4, <2>2 DEF DeleteSession, Unasked, Waiting
  <2> QED
    BY <1>1, <2>1, <2>3 DEF On
<1> QED
  BY <1>3, <1>4

-----------------------------------------------------------------------------
(* The record of a turn after a step.                                      *)

\* What another turn does leaves the record alone.
LEMMA Frame ==
  ASSUME NEW u \in Turn, Record(u), On(u)' = On(u), pc'[u] = pc[u], pass'[u] = pass[u],
         calls'[u] = calls[u], at'[u] = at[u], ran'[u] = ran[u],
         u \notin wiped' => u \notin wiped
  PROVE  Record(u)'
<1>1. CallRow(u)' = CallRow(u)
  BY DEF CallRow
<1>2. Placed(u)'
  BY DEF Record, Placed
<1>3. OutputsRan(u)'
  BY DEF Record, OutputsRan
<1>4. u \notin wiped' => Accounted(u)'
  BY <1>1 DEF Record, Accounted
<1> QED
  BY <1>2, <1>3, <1>4 DEF Record

\* A turn that has not asked has no record.
LEMMA UnaskedRecord ==
  ASSUME EngineInv, RowsInv, NEW u \in Turn, pc[u] \in Unasked
  PROVE  On(u) = {} /\ ran[u] = {} /\ Record(u)
<1>1. On(u) = {}
  BY OnSession
<1>2. ran[u] = {}
  BY DEF EngineInv, LoopInv
<1>3. /\ pc[u] \notin InTool \cup {"completed", "done"}
  BY DEF Unasked, Waiting, InTool
<1> QED
  BY <1>1, <1>2, <1>3 DEF Record, Placed, OutputsRan, Accounted, InTool

\* A turn may break off anywhere, and is done only when it has answered.
LEMMA EndingRecord ==
  ASSUME NEW u \in Turn, Record(u), pc'[u] \in Ended, pc[u] \in InFlight,
         pc'[u] = "done" => pc[u] = "completed",
         On(u)' = On(u), UNCHANGED <<pass, calls, at, ran, wiped>>
  PROVE  Record(u)'
<1>0. /\ Ended \cap InFlight = {} /\ InTool \subseteq InFlight /\ "done" \in Ended
      /\ "tool" \notin Ended /\ "returned" \notin Ended /\ "completed" \notin Ended
      /\ "stepped" \notin Ended /\ InTool \cap Ended = {} /\ Running \cap Ended = {}
      /\ "completed" \notin InTool
  BY DEF Ended, InFlight, Waiting, Running, Yielding, InTool
<1>1. Placed(u)'
  BY <1>0 DEF Record, Placed
<1>2. OutputsRan(u)'
  BY <1>0 DEF Record, OutputsRan
<1>3. u \notin wiped => Accounted(u)'
  <2> SUFFICES ASSUME u \notin wiped PROVE Accounted(u)'
    OBVIOUS
  <2>1. Accounted(u)
    BY DEF Record
  <2>2. \A slot \in ran[u] :
          /\ Call(On(u), slot)
          /\ Output(On(u), slot) \/ (slot = <<pass[u], at[u]>> /\ pc'[u] \in Ended)
    BY <2>1, <1>0 DEF Accounted
  <2>3. \A row \in On(u) : row.role = "call" => \A k \in 1 .. row.n :
          \/ Output(On(u), <<row.pass, k>>)
          \/ row.pass = pass[u] /\ k >= at[u] /\ pc'[u] \in Ended \ {"done"}
    BY <2>1, <1>0 DEF Accounted
  <2>4. pc'[u] \in {"completed", "done"} => \E row \in On(u) : row.role \in Answers
    BY <2>1, <1>0 DEF Accounted
  <2> QED
    BY <1>0, <2>2, <2>3, <2>4 DEF Accounted
<1> QED
  BY <1>1, <1>2, <1>3 DEF Record

LEMMA Grows ==
  ASSUME NEW t \in Turn, On(t) \subseteq On(t)'
  PROVE  \A slot : /\ Output(On(t), slot) => Output(On(t)', slot)
                   /\ Call(On(t), slot) => Call(On(t)', slot)
BY DEF Output, Call

\* The question opens the record.
LEMMA QuestionRecord ==
  ASSUME EngineInv, NEW t \in Turn, ran[t] = {}, pass[t] = 0,
         pc'[t] = "prompt", On(t)' = {UserRow(t)}, UNCHANGED <<pass, ran>>
  PROVE  Record(t)'
<1>1. UserRow(t).role = "user" /\ UserRow(t).pass = 0
  BY DEF UserRow
<1>2. "prompt" \notin InTool /\ "prompt" # "completed"
  BY DEF InTool
<1>3. Placed(t)'
  BY <1>1, <1>2 DEF Placed, Answers
<1>4. OutputsRan(t)'
  BY <1>1 DEF OutputsRan
<1>5. Accounted(t)'
  BY <1>1, <1>2 DEF Accounted
<1> QED
  BY <1>3, <1>4, <1>5 DEF Record

LEMMA AskedRecord ==
  ASSUME EngineInv, NEW t \in Turn, Record(t), AskModel(t)
  PROVE  Record(t)'
<1>1. pc[t] = "prompt" /\ pc'[t] = "model"
  BY DEF AskModel, EngineInv, TypeOK
<1>2. UNCHANGED <<pass, calls, at, ran, wiped, log>> /\ On(t)' = On(t)
  BY OnUnchanged DEF AskModel, store, loop, tools
<1> QED
  BY <1>1, <1>2 DEF Record, Placed, OutputsRan, Accounted, InTool, Running, Yielding, Ended

\* Outside its tools a running turn owes no output.
LEMMA NothingOwed ==
  ASSUME NEW t \in Turn, Accounted(t), pc[t] \notin InTool \cup Ended
  PROVE  /\ \A slot \in ran[t] : Call(On(t), slot) /\ Output(On(t), slot)
         /\ \A row \in On(t) : row.role = "call" =>
              \A k \in 1 .. row.n : Output(On(t), <<row.pass, k>>)
BY DEF Accounted, InTool

LEMMA AnsweredPassRecord ==
  ASSUME EngineInv, NEW t \in Turn, Record(t), NEW kind \in {"text", "claim", "calls"},
         NEW n \in 0 .. MaxCalls, ModelAnswers(t, kind, n)
  PROVE  Record(t)'
<1>1. /\ pc[t] = "model" /\ pc'[t] = "stepped" /\ pass'[t] = pass[t] + 1
      /\ pass[t] \in Nat
  BY DEF ModelAnswers, Yield, EngineInv, TypeOK
<1>2. UNCHANGED <<ran, wiped, log>> /\ On(t)' = On(t)
  BY OnUnchanged DEF ModelAnswers, store, tools
<1>3. "model" \notin InTool \cup Ended /\ "stepped" \notin InTool \cup Ended
  BY DEF InTool, Ended
<1>4. Placed(t)'
  <2>1. \A row \in On(t) : row.pass <= pass[t] /\ row.pass \in Nat /\ row.role \notin Answers
    BY <1>1, OnTypes DEF Record, Placed, Running
  <2> QED
    BY <1>1, <1>2, <1>3, <2>1 DEF Placed
<1>5. OutputsRan(t)'
  BY <1>1, <1>2 DEF Record, OutputsRan
<1>6. t \notin wiped => Accounted(t)'
  BY <1>1, <1>2, <1>3, NothingOwed DEF Record, Accounted
<1> QED
  BY <1>2, <1>4, <1>5, <1>6 DEF Record

\* A final row completes the record.
LEMMA FinalRecord ==
  ASSUME NEW t \in Turn, Record(t), NEW role \in Answers,
         pc[t] \notin InTool \cup Ended, pc'[t] = "completed",
         On(t)' = On(t) \cup {FinalRow(t, role)}, UNCHANGED <<pass, ran, wiped>>,
         pass[t] \in Nat
  PROVE  Record(t)'
<1> DEFINE r == FinalRow(t, role)
<1>1. r.role = role /\ r.role \notin {"call", "tool"} /\ r.pass = pass[t]
  BY DEF FinalRow, Answers
<1>2. "completed" \notin InTool \cup Ended
  BY DEF InTool, Ended
<1> HIDE DEF r
<1>3. Placed(t)'
  BY <1>1, <1>2 DEF Record, Placed, r
<1>4. OutputsRan(t)'
  BY <1>1 DEF Record, OutputsRan, r
<1>5. t \notin wiped => Accounted(t)'
  <2> SUFFICES ASSUME t \notin wiped PROVE Accounted(t)'
    OBVIOUS
  <2>0. Accounted(t) /\ On(t) \subseteq On(t)'
    BY DEF Record
  <2>1. \A slot \in ran[t] : Call(On(t)', slot) /\ Output(On(t)', slot)
    BY <2>0, NothingOwed, Grows
  <2>2. \A row \in On(t)' : row.role = "call" =>
          \A k \in 1 .. row.n : Output(On(t)', <<row.pass, k>>)
    <3>1. \A row \in On(t)' : row.role = "call" => row \in On(t)
      BY <1>1 DEF r
    <3> QED
      BY <2>0, <3>1, NothingOwed, Grows
  <2>3. \E row \in On(t)' : row.role \in Answers
    BY <1>1 DEF r
  <2> QED
    BY <1>2, <2>1, <2>2, <2>3 DEF Accounted
<1> QED
  BY <1>3, <1>4, <1>5 DEF Record

LEMMA CorrectedRecord ==
  ASSUME NEW t \in Turn, Record(t), pc[t] = "stepped", pc'[t] = "model",
         On(t)' = On(t), UNCHANGED <<pass, ran, wiped>>
  PROVE  Record(t)'
<1>1. pc[t] \notin InTool \cup Ended /\ pc'[t] \notin InTool \cup Ended
  BY DEF InTool, Ended
<1>2. Placed(t)'
  BY <1>1 DEF Record, Placed, Running, Yielding
<1>3. OutputsRan(t)'
  BY DEF Record, OutputsRan
<1>4. t \notin wiped => Accounted(t)'
  BY <1>1, NothingOwed DEF Record, Accounted
<1> QED
  BY <1>2, <1>3, <1>4 DEF Record

\* The calls are on record before the first of them is announced.
LEMMA CalledRecord ==
  ASSUME EngineInv, NEW t \in Turn, Record(t), CallTools(t), On(t)' = On(t) \cup {CallRow(t)}
  PROVE  Record(t)'
<1> DEFINE r == CallRow(t)
<1>1. /\ pc[t] = "stepped" /\ pc'[t] = "started" /\ at'[t] = 1
      /\ UNCHANGED <<pass, calls, ran, wiped>>
      /\ pass[t] \in Nat
  BY DEF CallTools, Resumes, Yield, EngineInv, TypeOK, tools
<1>2. r' = r
  BY <1>1 DEF CallRow
<1>3. r.role = "call" /\ r.pass = pass[t] /\ r.n = calls[t]
  BY DEF CallRow
<1>4. pc[t] \notin InTool \cup Ended /\ pc'[t] \in InTool /\ pc'[t] # "done"
  BY <1>1 DEF InTool, Ended
<1> HIDE DEF r
<1>5. Placed(t)'
  <2>1. \A row \in On(t) : row.pass < pass[t] /\ row.role \notin Answers /\ row.pass \in Nat
    BY <1>1, OnTypes DEF Record, Placed, Running, Yielding
  <2>2. r.role \notin Answers
    BY <1>3 DEF Answers
  <2> QED
    BY <1>1, <1>3, <2>1, <2>2 DEF Placed, r
<1>6. OutputsRan(t)'
  BY <1>1, <1>3 DEF Record, OutputsRan, r
<1>7. t \notin wiped => Accounted(t)'
  <2> SUFFICES ASSUME t \notin wiped PROVE Accounted(t)'
    OBVIOUS
  <2>0. Accounted(t) /\ On(t) \subseteq On(t)'
    BY DEF Record
  <2>1. \A slot \in ran[t] : Call(On(t)', slot) /\ Output(On(t)', slot)
    BY <1>4, <2>0, NothingOwed, Grows
  <2>2. \A row \in On(t) : row.role = "call" =>
          \A k \in 1 .. row.n : Output(On(t)', <<row.pass, k>>)
    BY <1>4, <2>0, NothingOwed, Grows
  <2>3. \A k \in 1 .. r.n : r.pass = pass'[t] /\ k >= at'[t]
    BY <1>1, <1>3
  <2> QED
    BY <1>1, <1>2, <1>4, <2>1, <2>2, <2>3 DEF Accounted, r
<1> QED
  BY <1>1, <1>5, <1>6, <1>7 DEF Record

\* A handler starts on a call that is on record.
LEMMA DispatchedRecord ==
  ASSUME EngineInv, NEW t \in Turn, Record(t), Dispatch(t)
  PROVE  Record(t)'
<1>1. /\ pc[t] = "started" /\ pc'[t] = "tool"
      /\ ran'[t] = ran[t] \cup {<<pass[t], at[t]>>}
      /\ UNCHANGED <<pass, calls, at, wiped, log>>
      /\ at[t] \in Nat /\ calls[t] \in Nat /\ at[t] <= calls[t]
  BY DEF Dispatch, Resumes, EngineInv, TypeOK, LoopInv, InTool, store, loop
<1>2. On(t)' = On(t)
  BY <1>1, OnUnchanged
<1>3. pc[t] \in InTool /\ pc'[t] \in InTool /\ pc[t] \notin {"tool", "returned"} \cup Ended
  BY <1>1 DEF InTool, Ended
<1>4. Placed(t)'
  BY <1>1, <1>2, <1>3 DEF Record, Placed, Running, Yielding
<1>5. OutputsRan(t)'
  BY <1>1, <1>2 DEF Record, OutputsRan
<1>6. t \notin wiped => Accounted(t)'
  <2> SUFFICES ASSUME t \notin wiped PROVE Accounted(t)'
    OBVIOUS
  <2>1. Accounted(t)
    BY DEF Record
  <2>2. CallRow(t) \in On(t) /\ CallRow(t)' = CallRow(t)
    BY <1>1, <1>3, <2>1 DEF Accounted, CallRow
  <2>3. Call(On(t), <<pass[t], at[t]>>)
    BY <1>1, <2>2 DEF Call, CallRow
  <2>4. \A slot \in ran[t] : Call(On(t), slot) /\ Output(On(t), slot)
    BY <1>3, <2>1 DEF Accounted
  <2>5. \A row \in On(t) : row.role = "call" => \A k \in 1 .. row.n :
          Output(On(t), <<row.pass, k>>) \/ (row.pass = pass[t] /\ k >= at[t])
    BY <2>1 DEF Accounted
  <2> QED
    BY <1>1, <1>2, <1>3, <2>2, <2>3, <2>4, <2>5 DEF Accounted
<1> QED
  BY <1>1, <1>4, <1>5, <1>6 DEF Record

LEMMA ReturnedRecord ==
  ASSUME EngineInv, NEW t \in Turn, Record(t), ToolReturns(t)
  PROVE  Record(t)'
<1>1. /\ pc[t] = "tool" /\ pc'[t] = "returned"
      /\ UNCHANGED <<pass, calls, at, ran, wiped, log>>
  BY DEF ToolReturns, Yield, EngineInv, TypeOK, store, loop, tools
<1>2. On(t)' = On(t) /\ CallRow(t)' = CallRow(t)
  BY <1>1, OnUnchanged DEF CallRow
<1>3. pc[t] \in InTool /\ pc'[t] \in InTool /\ pc'[t] # "done"
  BY <1>1 DEF InTool
<1>4. Placed(t)'
  BY <1>1, <1>2, <1>3 DEF Record, Placed, Running, Yielding
<1>5. OutputsRan(t)'
  BY <1>1, <1>2 DEF Record, OutputsRan
<1>6. t \notin wiped => Accounted(t)'
  BY <1>1, <1>2, <1>3 DEF Record, Accounted, Ended
<1> QED
  BY <1>1, <1>4, <1>5, <1>6 DEF Record

\* The output of a call is stored: the next call is announced, or, the pass
\* being over, the model is asked, or, the passes being over, the apology is
\* stored as well.
LEMMA StoredRecord ==
  ASSUME EngineInv, NEW t \in Turn, Record(t), pc[t] = "returned",
         NEW last, On(t)' = On(t) \cup {ToolRow(t)} \cup last,
         UNCHANGED <<pass, calls, ran, wiped>>,
         \/ /\ at[t] < calls[t] /\ at'[t] = at[t] + 1 /\ pc'[t] = "started"
            /\ last = {}
         \/ /\ at[t] = calls[t] /\ at'[t] = at[t] /\ pc'[t] = "model"
            /\ last = {}
         \/ /\ at[t] = calls[t] /\ at'[t] = at[t] /\ pc'[t] = "completed"
            /\ last = {FinalRow(t, "apology")}
  PROVE  Record(t)'
<1> DEFINE r == ToolRow(t)
<1>1. r.role = "tool" /\ r.pass = pass[t] /\ r.n = at[t]
  BY DEF ToolRow
<1>a. \A row \in last :
        /\ row.role = "apology" /\ row.role \in Answers /\ row.pass = pass[t]
        /\ pc'[t] = "completed"
  BY DEF FinalRow, Answers
<1>2. /\ at[t] \in Nat /\ calls[t] \in Nat /\ at[t] <= calls[t] /\ pass[t] \in Nat
      /\ at'[t] \in Nat
  BY DEF EngineInv, TypeOK, LoopInv, InTool
<1>3. /\ pc[t] \in InTool /\ pc'[t] \notin {"tool", "returned"} \cup Ended
      /\ pc'[t] \notin {"stepped", "done"}
      /\ pc[t] \in Running \ {"completed"}
      /\ pc[t] \notin Ended
  BY DEF InTool, Ended, Running, Yielding
<1> HIDE DEF r
<1>4. Placed(t)'
  <2>1. \A row \in On(t) :
          /\ row.pass <= pass[t] /\ row.role \notin Answers
          /\ row.pass = pass[t] => \/ row.role = "call" /\ row.n = calls[t]
                                   \/ row.role = "tool" /\ row.n < at[t]
    BY <1>3 DEF Record, Placed
  <2>2. \A row \in On(t) : row.n \in Nat
    BY OnTypes
  <2>3. r.role \notin Answers /\ r.pass <= pass[t]
    BY <1>1, <1>2 DEF Answers
  <2>4. CASE at'[t] = at[t] + 1
    <3>1. \A row \in On(t)' : row.pass = pass[t] =>
            \/ row.role = "call" /\ row.n = calls[t]
            \/ row.role = "tool" /\ row.n < at'[t]
      BY <1>1, <1>2, <2>1, <2>2, <2>4 DEF r
    <3>2. last = {}
      BY <1>2, <2>4
    <3> QED
      BY <1>3, <2>1, <2>3, <3>1, <3>2 DEF Placed, r
  <2>5. CASE pc'[t] \in {"model", "completed"}
    <3>1. pc'[t] \notin InTool
      BY <2>5 DEF InTool
    <3>2. \A row \in last : row.pass <= pass[t] /\ pc'[t] = "completed"
      BY <1>2, <1>a
    <3> QED
      BY <1>3, <2>1, <2>3, <3>1, <3>2 DEF Placed, r
  <2> QED
    BY <2>4, <2>5
<1>5. OutputsRan(t)'
  BY <1>1, <1>a, <1>3 DEF Record, OutputsRan, r
<1>6. t \notin wiped => Accounted(t)'
  <2> SUFFICES ASSUME t \notin wiped PROVE Accounted(t)'
    OBVIOUS
  <2>0. Accounted(t) /\ On(t) \subseteq On(t)'
    BY DEF Record
  <2>1. pc'[t] \in InTool => CallRow(t)' \in On(t)'
    BY <1>3, <2>0 DEF Accounted, CallRow
  <2>2. Output(On(t)', <<pass[t], at[t]>>)
    BY <1>1 DEF Output, r
  <2>3. \A slot \in ran[t] : Call(On(t)', slot) /\ Output(On(t)', slot)
    BY <1>3, <2>0, <2>2, Grows DEF Accounted
  <2>4. ASSUME NEW row \in On(t), row.role = "call", NEW k \in 1 .. row.n
        PROVE  \/ Output(On(t)', <<row.pass, k>>)
               \/ row.pass = pass[t] /\ k >= at'[t] /\ pc'[t] \in InTool
    <3>1. CASE Output(On(t), <<row.pass, k>>)
      BY <2>0, <3>1, Grows
    <3>2. CASE row.pass = pass[t] /\ k >= at[t]
      <4>1. row.n = calls[t]
        BY <1>3, <2>4, <3>2 DEF Record, Placed
      <4>2. k = at[t] => Output(On(t)', <<row.pass, k>>)
        BY <2>2, <3>2
      <4>3. k # at[t] => k >= at[t] + 1 /\ at[t] < calls[t]
        BY <1>2, <3>2, <4>1
      <4>4. "started" \in InTool
        BY DEF InTool
      <4> QED
        BY <1>2, <3>2, <4>2, <4>3, <4>4
    <3> QED
      BY <2>0, <2>4, <3>1, <3>2 DEF Accounted
  <2>5. \A row \in On(t)' : row.role = "call" => row \in On(t)
    BY <1>1, <1>a DEF r
  <2>6. pc'[t] = "completed" => \E row \in On(t)' : row.role \in Answers
    BY <1>a
  <2> QED
    BY <1>3, <2>1, <2>3, <2>4, <2>5, <2>6 DEF Accounted
<1> QED
  BY <1>4, <1>5, <1>6 DEF Record

\* What a step of turn t may do to the record of another turn.
Untouched(u) ==
  /\ On(u)' = On(u) /\ pc'[u] = pc[u] /\ pass'[u] = pass[u] /\ calls'[u] = calls[u]
  /\ at'[u] = at[u] /\ ran'[u] = ran[u] /\ (u \in wiped => u \in wiped')

LEMMA UntouchedRecord ==
  ASSUME NEW u \in Turn, Record(u), Untouched(u) PROVE Record(u)'
BY Frame DEF Untouched

LEMMA RecordStep == EngineInv /\ RowsInv /\ RecordInv /\ [Next]_vars => RecordInv'
<1> SUFFICES ASSUME EngineInv, RowsInv, RecordInv, [Next]_vars, NEW u \in Turn
             PROVE  Record(u)'
  BY DEF RecordInv
<1>r. TypeOK /\ Record(u)
  BY DEF EngineInv, RecordInv
<1>1. ASSUME NEW t \in Turn,
             \/ Register(t)
             \/ \E s \in Session : Arrive(t, s) \/ ArriveNew(t, s) \/ Compacted(t, s)
      PROVE  Record(u)'
  <2>1. UNCHANGED <<log, wiped, pass, calls, at, ran>> /\ On(u)' = On(u)
    BY <1>1, OnUnchanged
    DEF Arrive, ArriveNew, CreateSession, Compacted, Register, store, loop, tools
  <2>2. CASE u # t
    <3>1. pc'[u] = pc[u]
      BY <1>1, <1>r, <2>2 DEF Arrive, ArriveNew, Compacted, Register, TypeOK
    <3> QED
      BY <1>r, <2>1, <3>1, UntouchedRecord DEF Untouched
  <2>3. CASE u = t
    <3>1. pc[u] \in Unasked /\ pc'[u] \in Unasked
      BY <1>1, <2>3, <1>r
      DEF Arrive, ArriveNew, Compacted, Register, Unasked, Waiting, TypeOK
    <3>2. On(u) = {} /\ ran[u] = {}
      BY <3>1, UnaskedRecord
    <3>3. pc'[u] \notin InTool \cup {"completed", "done"}
      BY <3>1 DEF Unasked, Waiting, InTool
    <3> QED
      BY <2>1, <3>2, <3>3 DEF Record, Placed, OutputsRan, Accounted, InTool
  <2> QED
    BY <2>2, <2>3
<1>2. ASSUME NEW t \in Turn, Begin(t) \/ \E s \in Session : StartAtOnce(t, s)
      PROVE  Record(u)'
  <2>1. PICK h \in Session : log' = [log EXCEPT ![h] = Append(@, UserRow(t))]
    <3>1. Begin(t) => sid[t] \in Session
      BY <1>r, ConstantsAssumption
      DEF Begin, Ready, EngineInv, LoopInv, TypeOK
    <3> QED
      BY <1>2, <3>1 DEF StartAtOnce, Begin, AppendRow
  <2>2. UserRow(t) \in Row /\ UserRow(t).turn = t
    BY <1>r, RowTypes DEF UserRow
  <2>3. On(u)' = IF u = t THEN On(u) \cup {UserRow(t)} ELSE On(u)
    BY <1>r, <2>1, <2>2, OnAppend
  <2>4. /\ UNCHANGED <<wiped, pass, calls, at, ran>>
        /\ pc' = [pc EXCEPT ![t] = "prompt"] /\ pc[t] \in Unasked
    BY <1>2 DEF StartAtOnce, Begin, Ready, Unasked, Waiting, loop, tools
  <2>5. CASE u # t
    BY <1>r, <2>3, <2>4, <2>5, UntouchedRecord DEF Untouched
  <2>6. CASE u = t
    <3>1. On(u) = {} /\ ran[u] = {} /\ pass[u] = 0 /\ pc'[u] = "prompt"
      BY <1>r, <2>4, <2>6, UnaskedRecord DEF EngineInv, LoopInv, TypeOK
    <3> QED
      BY <2>3, <2>4, <2>6, <3>1, QuestionRecord
  <2> QED
    BY <2>5, <2>6
<1>3. ASSUME NEW t \in Turn,
             Reject(t) \/ ModelFails(t) \/ Stop(t) \/ Abort(t) \/ Finish(t)
      PROVE  Record(u)'
  <2>1. PICK how \in Ended : pc' = [pc EXCEPT ![t] = how] /\ (how = "done" => pc[t] = "completed")
    BY <1>3 DEF Reject, ModelFails, Stop, Abort, Finish, Leave, Ended
  <2>2. UNCHANGED <<log, wiped, pass, calls, at, ran>> /\ On(u)' = On(u)
    BY <1>3, OnUnchanged DEF Reject, ModelFails, Stop, Abort, Finish, store, loop, tools
  <2>3. pc[t] \in InFlight
    BY <1>3 DEF Reject, ModelFails, Stop, Abort, Finish, Ready, InFlight, Waiting,
                Running, Yielding
  <2>4. CASE u # t
    BY <1>r, <2>1, <2>2, <2>4, UntouchedRecord DEF Untouched
  <2>5. CASE u = t
    BY <1>r, <2>1, <2>2, <2>3, <2>5, EndingRecord DEF TypeOK
  <2> QED
    BY <2>4, <2>5
\* Steps of the loop that store nothing.
<1>4. ASSUME NEW t \in Turn,
             \/ AskModel(t) \/ Dispatch(t) \/ ToolReturns(t)
             \/ \E kind \in {"text", "claim", "calls"}, n \in 0 .. MaxCalls :
                  ModelAnswers(t, kind, n)
      PROVE  Record(u)'
  <2>1. UNCHANGED <<log, wiped>> /\ On(u)' = On(u)
    BY <1>4, OnUnchanged DEF AskModel, Dispatch, ToolReturns, ModelAnswers, store
  <2>2. CASE u # t
    <3>1. /\ pc'[u] = pc[u] /\ pass'[u] = pass[u] /\ calls'[u] = calls[u]
          /\ at'[u] = at[u] /\ ran'[u] = ran[u]
      BY <1>4, <1>r, <2>2
      DEF AskModel, Dispatch, ToolReturns, ModelAnswers, Yield, loop, tools, TypeOK
    <3> QED
      BY <1>r, <2>1, <3>1, UntouchedRecord DEF Untouched
  <2>3. CASE u = t
    BY <1>4, <1>r, <2>3, AskedRecord, DispatchedRecord, ReturnedRecord, AnsweredPassRecord
  <2> QED
    BY <2>2, <2>3
\* Steps of the loop that store.
<1>5. ASSUME NEW t \in Turn, CallTools(t) \/ Correct(t) \/ Answer(t) \/ StoreResult(t)
      PROVE  Record(u)'
  <2>1. sid[t] \in Session /\ pc[t] \in {"stepped", "returned"}
    BY <1>5, <1>r, ConstantsAssumption
    DEF CallTools, Correct, Answer, StoreResult, Resumes, EngineInv, LoopInv, TypeOK
  <2>2. UNCHANGED <<wiped, pass, calls, ran>>
    BY <1>5 DEF CallTools, Correct, Answer, StoreResult, loop, tools
  <2>3. u # t => pc'[u] = pc[u] /\ at'[u] = at[u]
    BY <1>5, <1>r DEF CallTools, Correct, Answer, StoreResult, Yield, loop, TypeOK
  <2>4. u # t /\ On(u)' = On(u) => Record(u)'
    BY <1>r, <2>2, <2>3, UntouchedRecord DEF Untouched
  <2>5. CASE CallTools(t)
    <3>1. CallRow(t) \in Row /\ CallRow(t).turn = t
      BY <1>r, RowTypes DEF CallRow
    <3>2. On(u)' = IF u = t THEN On(u) \cup {CallRow(t)} ELSE On(u)
      BY <1>r, <2>1, <2>5, <3>1, OnAppend DEF CallTools, AppendRow
    <3> QED
      BY <1>r, <2>4, <2>5, <3>2, CalledRecord
  <2>6. ASSUME NEW role \in Answers, AppendRow(t, FinalRow(t, role)), pc[t] = "stepped",
               pc'[t] = "completed"
        PROVE  Record(u)'
    <3>1. FinalRow(t, role) \in Row /\ FinalRow(t, role).turn = t
      BY <1>r, RowTypes DEF FinalRow
    <3>2. On(u)' = IF u = t THEN On(u) \cup {FinalRow(t, role)} ELSE On(u)
      BY <1>r, <2>1, <2>6, <3>1, OnAppend DEF AppendRow
    <3>3. pc[t] \notin InTool \cup Ended /\ pass[t] \in Nat
      BY <1>r, <2>6 DEF InTool, Ended, TypeOK
    <3> QED
      BY <1>r, <2>2, <2>4, <2>6, <3>2, <3>3, FinalRecord
  <2>7. CASE Answer(t)
    <3>1. pc[t] = "stepped" /\ pc'[t] = "completed"
      BY <1>r, <2>7 DEF Answer, Resumes, Yield, TypeOK
    <3>2. \E role \in Answers : AppendRow(t, FinalRow(t, role))
      BY <2>7 DEF Answer, Answers
    <3> QED
      BY <2>6, <3>1, <3>2
  <2>8. CASE Correct(t)
    <3>1. pc[t] = "stepped"
      BY <2>8 DEF Correct, Resumes
    <3>2. CASE pc'[t] = "model" /\ UNCHANGED log
      BY <1>r, <2>2, <2>4, <3>1, <3>2, OnUnchanged, CorrectedRecord
    <3>3. CASE pc'[t] = "completed" /\ AppendRow(t, FinalRow(t, "apology"))
      BY <2>6, <3>1, <3>3 DEF Answers
    <3> QED
      BY <1>r, <2>8, <3>2, <3>3 DEF Correct, Yield, TypeOK
  <2>9. CASE StoreResult(t)
    <3> DEFINE a == ToolRow(t)
               b == FinalRow(t, "apology")
    <3>1. a \in Row /\ a.turn = t /\ b \in Row /\ b.turn = t
      BY <1>r, RowTypes DEF ToolRow, FinalRow, Answers
    <3>2. pc[t] = "returned"
      BY <2>9 DEF StoreResult, Resumes
    <3> HIDE DEF a, b
    <3>3. CASE AppendRow(t, a)
               /\ \/ at[t] < calls[t] /\ at'[t] = at[t] + 1 /\ pc'[t] = "started"
                  \/ at[t] = calls[t] /\ at'[t] = at[t] /\ pc'[t] = "model"
      <4>1. On(u)' = IF u = t THEN On(u) \cup {a} ELSE On(u)
        BY <1>r, <2>1, <3>1, <3>3, OnAppend DEF AppendRow
      <4>2. u = t => On(u)' = On(u) \cup {a} \cup {}
        BY <4>1
      <4> QED
        BY <1>r, <2>2, <2>4, <3>2, <3>3, <4>1, <4>2, StoredRecord DEF a
    <3>4. CASE /\ log' = [log EXCEPT ![sid[t]] = Append(Append(@, a), b)]
               /\ at[t] = calls[t] /\ at'[t] = at[t] /\ pc'[t] = "completed"
      <4> DEFINE q == Append(Append(log[sid[t]], a), b)
                 new == {a, b}
      <4>1. log[sid[t]] \in Seq(Row)
        BY <1>r, <2>1 DEF TypeOK
      <4>2. RowsIn(q) = RowsIn(log[sid[t]]) \cup new
        <5>1. /\ Append(log[sid[t]], a) \in Seq(Row)
              /\ RowsIn(Append(log[sid[t]], a)) = RowsIn(log[sid[t]]) \cup {a}
          BY <3>1, <4>1, RowsInAppend
        <5>2. RowsIn(q) = RowsIn(Append(log[sid[t]], a)) \cup {b}
          BY <3>1, <5>1, RowsInAppend
        <5> QED
          BY <5>1, <5>2
      <4>3. On(u)' = IF u = t THEN On(u) \cup new ELSE On(u)
        <5>1. log' = [log EXCEPT ![sid[t]] = q]
          BY <3>4
        <5>2. new \in SUBSET Row /\ \A r \in new : r.turn = t
          BY <3>1
        <5> HIDE DEF q, new
        <5> QED
          BY <1>r, <2>1, <4>2, <5>1, <5>2, OnAppended
      <4>4. u = t => On(u)' = On(u) \cup {a} \cup {b}
        BY <4>3
      <4> QED
        BY <1>r, <2>2, <2>4, <3>2, <3>4, <4>3, <4>4, StoredRecord DEF a, b
    <3> QED
      BY <1>r, <2>9, <3>3, <3>4 DEF StoreResult, Yield, TypeOK, a, b
  <2> QED
    BY <1>5, <2>5, <2>7, <2>8, <2>9
<1>6. ASSUME NEW s \in Session, DeleteSession(s) PROVE Record(u)'
  <2>1. On(u)' \subseteq On(u) /\ (u \notin wiped' => On(u)' = On(u))
    BY <1>6, OnDeletion
  <2>2. UNCHANGED <<pc, pass, calls, at, ran>> /\ wiped \subseteq wiped'
    BY <1>6 DEF DeleteSession, loop, tools
  <2>3. CASE u \notin wiped'
    BY <1>r, <2>1, <2>2, <2>3, UntouchedRecord DEF Untouched
  <2>4. CASE u \in wiped'
    BY <1>r, <2>1, <2>2, <2>4 DEF Record, Placed, OutputsRan
  <2> QED
    BY <2>3, <2>4
<1>7. CASE Restart
  <2>1. UNCHANGED <<log, wiped, pass, calls, at, ran>> /\ On(u)' = On(u)
    BY <1>7, OnUnchanged DEF Restart, store, loop, tools
  <2>2. CASE pc[u] \in InFlight
    <3>1. pc'[u] = "lost"
      BY <1>7, <2>2 DEF Restart
    <3> QED
      BY <1>r, <2>1, <2>2, <3>1, EndingRecord DEF Ended
  <2>3. CASE pc[u] \notin InFlight
    <3>1. pc'[u] = pc[u]
      BY <1>7, <2>3 DEF Restart
    <3> QED
      BY <1>r, <2>1, <3>1, UntouchedRecord DEF Untouched
  <2> QED
    BY <2>2, <2>3
<1>8. ASSUME UNCHANGED <<log, wiped, pass, calls, at, ran, pc>> PROVE Record(u)'
  BY <1>r, <1>8, OnUnchanged, UntouchedRecord DEF Untouched
<1>9. ASSUME NEW t \in Turn, Forward(t) PROVE Record(u)'
  BY <1>8, <1>9 DEF Forward, store, loop, tools
<1>10. ASSUME NEW s \in Session, CancelSession(s) PROVE Record(u)'
  BY <1>8, <1>10 DEF CancelSession, store, loop, tools
<1>11. CASE UNCHANGED vars
  BY <1>8, <1>11 DEF vars, store, loop, tools
<1> QED
  BY <1>1, <1>2, <1>3, <1>4, <1>5, <1>6, <1>7, <1>9, <1>10, <1>11
  DEF Next, TurnStep

LEMMA RecordCorrect == Spec => []RecordInv
<1>1. Init => RecordInv
  <2> SUFFICES ASSUME Init, NEW t \in Turn PROVE Record(t)
    BY DEF RecordInv
  <2>1. pc[t] = "new" /\ ran[t] = {}
    BY DEF Init
  <2>2. On(t) = {}
    BY DEF On, RowsIn, Init
  <2> QED
    BY <2>1, <2>2 DEF Record, Placed, OutputsRan, Accounted, InTool
<1>2. DeletionInv => RowsInv
  BY DEF DeletionInv
<1> QED
  BY <1>1, <1>2, RecordStep, EngineCorrect, DeletionCorrect, PTL DEF Spec

-----------------------------------------------------------------------------
(* What the record says.                                                   *)

\* The transcript accounts for the tools of a turn: no tool has run without its
\* call on disk, one output at most is lost however the turn ends, no output is
\* of a tool that has not run, and when run.completed goes out everything the
\* browser has been shown is stored (_loop, append_message).
THEOREM TranscriptAccounts == Spec => []ToolsOnRecord
<1>1. EngineInv /\ RowsInv /\ RecordInv => ToolsOnRecord
  <2> SUFFICES ASSUME EngineInv, RowsInv, RecordInv PROVE ToolsOnRecord
    OBVIOUS
  <2>1. \A t \in Turn : Record(t)
    BY DEF RecordInv
  <2>2. ASSUME NEW t \in Turn, NEW row \in On(t)
        PROVE  \E i \in DOMAIN log[sid[t]] : log[sid[t]][i] = row /\ row.turn = t
    BY <2>2, OnSession, OnTypes
  <2>3. ASSUME NEW t \in Turn, NEW slot, Output(On(t), slot) PROVE Stored(t, slot)
    BY <2>2, <2>3 DEF Output, Stored
  <2>4. ASSUME NEW s \in Session, NEW i \in DOMAIN log[s]
        PROVE  log[s][i].turn \in Turn /\ log[s][i] \in On(log[s][i].turn)
    <3>1. log[s][i] \in Row
      BY <2>4 DEF EngineInv, TypeOK
    <3> QED
      BY <2>4, <3>1 DEF On, RowsIn, Row
  <2>5. CalledBeforeRun
    <3> SUFFICES ASSUME NEW t \in Turn \ wiped, NEW slot \in ran[t]
                 PROVE  \E i \in DOMAIN log[sid[t]] :
                          LET row == log[sid[t]][i] IN
                          /\ row.turn = t /\ row.role = "call" /\ row.pass = slot[1]
                          /\ row.n >= slot[2]
      BY DEF CalledBeforeRun
    <3>1. Call(On(t), slot)
      BY <2>1 DEF Record, Accounted
    <3> QED
      BY <2>2, <3>1 DEF Call
  <2>6. AtMostOneResultLost
    <3>1. ASSUME NEW t \in Turn \ wiped, NEW a \in ran[t], ~Stored(t, a)
          PROVE  a = <<pass[t], at[t]>>
      BY <2>1, <2>3, <3>1 DEF Record, Accounted
    <3>2. ASSUME NEW s \in Session, NEW i \in DOMAIN log[s], log[s][i].role = "tool"
          PROVE  <<log[s][i].pass, log[s][i].n>> \in ran[log[s][i].turn]
      BY <2>1, <2>4, <3>2 DEF Record, OutputsRan
    <3> QED
      BY <3>1, <3>2 DEF AtMostOneResultLost
  <2>7. CompleteOnceReported
    <3> SUFFICES ASSUME NEW t \in Turn \ wiped, pc[t] \in {"completed", "done"}
                 PROVE  /\ \E i \in DOMAIN log[sid[t]] :
                             log[sid[t]][i].turn = t /\ log[sid[t]][i].role \in Answers
                        /\ \A i \in DOMAIN log[sid[t]] :
                             LET row == log[sid[t]][i] IN
                             row.turn = t /\ row.role = "call" =>
                               \A k \in 1 .. row.n : Stored(t, <<row.pass, k>>)
      BY DEF CompleteOnceReported
    <3>0. Accounted(t)
      BY <2>1 DEF Record
    <3>1. pc[t] \notin InTool \cup (Ended \ {"done"})
      BY DEF InTool, Ended
    <3>2. \E i \in DOMAIN log[sid[t]] :
            log[sid[t]][i].turn = t /\ log[sid[t]][i].role \in Answers
      BY <2>2, <3>0 DEF Accounted
    <3>3. ASSUME NEW i \in DOMAIN log[sid[t]], log[sid[t]][i].turn = t,
                 log[sid[t]][i].role = "call", NEW k \in 1 .. log[sid[t]][i].n
          PROVE  Stored(t, <<log[sid[t]][i].pass, k>>)
      <4>1. sid[t] \in Session
        BY ConstantsAssumption DEF EngineInv, TypeOK, LoopInv
      <4>2. Output(On(t), <<log[sid[t]][i].pass, k>>)
        BY <2>4, <3>0, <3>1, <3>3, <4>1 DEF Accounted
      <4> QED
        BY <2>3, <4>2
    <3> QED
      BY <3>2, <3>3
  <2> QED
    BY <2>5, <2>6, <2>7 DEF ToolsOnRecord
<1>2. DeletionInv => RowsInv
  BY DEF DeletionInv
<1> QED
  BY <1>1, <1>2, RecordCorrect, EngineCorrect, DeletionCorrect, PTL

-----------------------------------------------------------------------------
(* The order of the rows.                                                  *)

InOrder(q) ==
  \A j \in DOMAIN q : \A i \in 1 .. (j - 1) : q[i].turn = q[j].turn => RowBefore(q[i], q[j])

LEMMA InOrderAppend ==
  ASSUME NEW q \in Seq(Row), NEW r \in Row, InOrder(q),
         \A row \in RowsIn(q) : row.turn = r.turn => RowBefore(row, r)
  PROVE  InOrder(Append(q, r))
<1> DEFINE p == Append(q, r)
<1>1. /\ DOMAIN p = 1 .. (Len(q) + 1) /\ DOMAIN q = 1 .. Len(q) /\ Len(q) \in Nat
      /\ \A i \in DOMAIN q : p[i] = q[i]
      /\ p[Len(q) + 1] = r
  OBVIOUS
<1> HIDE DEF p
<1> SUFFICES ASSUME NEW j \in DOMAIN p, NEW i \in 1 .. (j - 1), p[i].turn = p[j].turn
             PROVE  RowBefore(p[i], p[j])
  BY DEF InOrder, p
<1>2. i \in DOMAIN q /\ p[i] = q[i]
  BY <1>1
<1>3. CASE j \in DOMAIN q
  BY <1>1, <1>2, <1>3 DEF InOrder
<1>4. CASE j = Len(q) + 1
  BY <1>1, <1>2, <1>4 DEF RowsIn
<1> QED
  BY <1>1, <1>3, <1>4

\* A row goes after every row its turn has.
LEMMA AppendInOrder ==
  ASSUME TypeOK, TranscriptInOrder, NEW s \in Session, NEW r \in Row,
         log' = [log EXCEPT ![s] = Append(@, r)],
         \A row \in On(r.turn) : RowBefore(row, r)
  PROVE  TranscriptInOrder'
<1>1. /\ log[s] \in Seq(Row) /\ log'[s] = Append(log[s], r)
      /\ \A h \in Session \ {s} : log'[h] = log[h]
  BY DEF TypeOK
<1>2. \A h \in Session : InOrder(log[h])
  BY DEF TranscriptInOrder, InOrder
<1>3. \A row \in RowsIn(log[s]) : row.turn = r.turn => RowBefore(row, r)
  BY <1>1 DEF On, RowsIn
<1>4. \A h \in Session : InOrder(log'[h])
  BY <1>1, <1>2, <1>3, InOrderAppend
<1> QED
  BY <1>4 DEF TranscriptInOrder, InOrder

LEMMA TranscriptStep ==
  EngineInv /\ RowsInv /\ RecordInv /\ TranscriptInOrder /\ [Next]_vars => TranscriptInOrder'
<1> SUFFICES ASSUME EngineInv, RowsInv, RecordInv, TranscriptInOrder, [Next]_vars
             PROVE  TranscriptInOrder'
  OBVIOUS
<1>r. TypeOK /\ \A t \in Turn : Record(t)
  BY DEF EngineInv, RecordInv
<1>1. ASSUME UNCHANGED log PROVE TranscriptInOrder'
  BY <1>1 DEF TranscriptInOrder
<1>2. ASSUME NEW t \in Turn, Begin(t) \/ \E s \in Session : StartAtOnce(t, s)
      PROVE  TranscriptInOrder'
  <2>1. PICK h \in Session : log' = [log EXCEPT ![h] = Append(@, UserRow(t))]
    <3>1. Begin(t) => sid[t] \in Session
      BY <1>r, ConstantsAssumption DEF Begin, Ready, EngineInv, LoopInv, TypeOK
    <3> QED
      BY <1>2, <3>1 DEF StartAtOnce, Begin, AppendRow
  <2>2. UserRow(t) \in Row /\ UserRow(t).turn = t
    BY <1>r, RowTypes DEF UserRow
  <2>3. On(t) = {}
    BY <1>2, UnaskedRecord DEF StartAtOnce, Begin, Ready, Unasked, Waiting
  <2> QED
    BY <1>r, <2>1, <2>2, <2>3, AppendInOrder
\* At the end of a pass no row of it is there yet.
<1>3. ASSUME NEW t \in Turn, pc[t] = "stepped"
      PROVE  \A row \in On(t) : row.pass < pass[t] /\ row.role \notin Answers
  BY <1>r, <1>3 DEF Record, Placed, Running, Yielding
<1>4. ASSUME NEW t \in Turn, CallTools(t) PROVE TranscriptInOrder'
  <2>1. sid[t] \in Session /\ pc[t] = "stepped"
    BY <1>4, <1>r, ConstantsAssumption DEF CallTools, Resumes, EngineInv, LoopInv, TypeOK
  <2>2. CallRow(t) \in Row /\ CallRow(t).turn = t /\ CallRow(t).pass = pass[t]
    BY <1>r, RowTypes DEF CallRow
  <2>3. \A row \in On(t) : RowBefore(row, CallRow(t))
    BY <1>3, <2>1, <2>2 DEF RowBefore
  <2> QED
    BY <1>r, <1>4, <2>1, <2>2, <2>3, AppendInOrder DEF CallTools, AppendRow
<1>5. ASSUME NEW t \in Turn, NEW role \in Answers, AppendRow(t, FinalRow(t, role)),
             pc[t] = "stepped"
      PROVE  TranscriptInOrder'
  <2>1. sid[t] \in Session
    BY <1>5, <1>r, ConstantsAssumption DEF EngineInv, LoopInv, TypeOK
  <2>2. /\ FinalRow(t, role) \in Row /\ FinalRow(t, role).turn = t
        /\ FinalRow(t, role).pass = pass[t]
    BY <1>r, RowTypes DEF FinalRow
  <2>3. \A row \in On(t) : RowBefore(row, FinalRow(t, role))
    BY <1>3, <1>5, <2>2 DEF RowBefore
  <2> QED
    BY <1>r, <1>5, <2>1, <2>2, <2>3, AppendInOrder DEF AppendRow
<1>6. ASSUME NEW t \in Turn, Answer(t) PROVE TranscriptInOrder'
  BY <1>5, <1>6 DEF Answer, Resumes, Answers
<1>7. ASSUME NEW t \in Turn, Correct(t) PROVE TranscriptInOrder'
  BY <1>1, <1>5, <1>7 DEF Correct, Resumes, Answers
<1>8. ASSUME NEW t \in Turn, StoreResult(t) PROVE TranscriptInOrder'
  <2> DEFINE a == ToolRow(t)
             b == FinalRow(t, "apology")
  <2>1. sid[t] \in Session /\ pc[t] = "returned"
    BY <1>8, <1>r, ConstantsAssumption DEF StoreResult, Resumes, EngineInv, LoopInv, TypeOK
  <2>2. /\ a \in Row /\ a.turn = t /\ a.role = "tool" /\ a.pass = pass[t] /\ a.n = at[t]
        /\ b \in Row /\ b.turn = t /\ b.role = "apology" /\ b.pass = pass[t]
    BY <1>r, RowTypes DEF ToolRow, FinalRow, Answers
  <2> HIDE DEF a, b
  <2>3. \A row \in On(t) :
          /\ row.pass <= pass[t] /\ row.role \notin Answers
          /\ row.pass = pass[t] => \/ row.role = "call"
                                   \/ row.role = "tool" /\ row.n < at[t]
    BY <1>r, <2>1 DEF Record, Placed, Running, Yielding, InTool
  <2>4. pass[t] \in Nat /\ \A row \in On(t) : row.pass \in Nat /\ row.n \in Nat
    BY <1>r, OnTypes DEF TypeOK
  <2>5. \A row \in On(t) : RowBefore(row, a) /\ RowBefore(row, b)
    BY <2>2, <2>3, <2>4 DEF RowBefore, Answers
  <2>6. RowBefore(a, b)
    BY <2>2 DEF RowBefore, Answers
  <2>7. CASE AppendRow(t, a)
    BY <1>r, <2>1, <2>2, <2>5, <2>7, AppendInOrder DEF AppendRow
  <2>8. CASE log' = [log EXCEPT ![sid[t]] = Append(Append(@, a), b)]
    <3> DEFINE p == log[sid[t]]
    <3>1. /\ p \in Seq(Row) /\ log'[sid[t]] = Append(Append(p, a), b)
          /\ \A h \in Session \ {sid[t]} : log'[h] = log[h]
      BY <1>r, <2>1, <2>8 DEF TypeOK
    <3>2. \A h \in Session : InOrder(log[h])
      BY DEF TranscriptInOrder, InOrder
    <3>3. \A row \in RowsIn(p) : row.turn = t => RowBefore(row, a) /\ RowBefore(row, b)
      BY <2>1, <2>5, <3>1 DEF On, RowsIn
    <3> HIDE DEF p
    <3>4. InOrder(p)
      BY <2>1, <3>2 DEF p
    <3>5. Append(p, a) \in Seq(Row) /\ RowsIn(Append(p, a)) = RowsIn(p) \cup {a}
      BY <2>2, <3>1, RowsInAppend
    <3>6. InOrder(Append(p, a))
      BY <2>2, <3>1, <3>3, <3>4, InOrderAppend
    <3>7. InOrder(Append(Append(p, a), b))
      <4>1. \A row \in RowsIn(Append(p, a)) : row.turn = b.turn => RowBefore(row, b)
        BY <2>2, <2>6, <3>3, <3>5
      <4> QED
        BY <2>2, <3>5, <3>6, <4>1, InOrderAppend
    <3>8. \A h \in Session : InOrder(log'[h])
      BY <2>1, <3>1, <3>2, <3>7
    <3> QED
      BY <3>8 DEF TranscriptInOrder, InOrder
  <2> QED
    BY <1>8, <2>7, <2>8 DEF StoreResult, a, b
<1>9. ASSUME NEW s \in Session, DeleteSession(s) PROVE TranscriptInOrder'
  <2>1. \A h \in Session : log'[h] = log[h] \/ DOMAIN log'[h] = {}
    BY <1>9, <1>r DEF DeleteSession, TypeOK
  <2> QED
    BY <2>1 DEF TranscriptInOrder
<1>10. ASSUME NEW t \in Turn,
              \/ Register(t) \/ Reject(t) \/ ModelFails(t) \/ Stop(t) \/ Abort(t)
              \/ Finish(t) \/ Forward(t) \/ AskModel(t) \/ Dispatch(t) \/ ToolReturns(t)
              \/ \E kind \in {"text", "claim", "calls"}, n \in 0 .. MaxCalls :
                   ModelAnswers(t, kind, n)
              \/ \E s \in Session : Arrive(t, s) \/ ArriveNew(t, s) \/ Compacted(t, s)
       PROVE  UNCHANGED log
  BY <1>10 DEF Register, Reject, ModelFails, Stop, Abort, Finish, Forward, AskModel,
     Dispatch, ToolReturns, ModelAnswers, Arrive, ArriveNew, Compacted, store
<1>11. ASSUME NEW s \in Session, CancelSession(s) PROVE UNCHANGED log
  BY <1>11 DEF CancelSession, store
<1>12. Restart \/ UNCHANGED vars => UNCHANGED log
  BY DEF Restart, vars, store
<1> QED
  BY <1>1, <1>2, <1>4, <1>6, <1>7, <1>8, <1>9, <1>10, <1>11, <1>12 DEF Next, TurnStep

\* The rows of one turn are in protocol order, none twice and none after the
\* answer, whatever else is written to the session meanwhile (append_message
\* takes MAX(seq) + 1; _run_turn and _loop store as they go).
THEOREM RowsInOrder == Spec => []TranscriptInOrder
<1>1. Init => TranscriptInOrder
  BY DEF Init, TranscriptInOrder
<1>2. DeletionInv => RowsInv
  BY DEF DeletionInv
<1> QED
  BY <1>1, <1>2, TranscriptStep, RecordCorrect, EngineCorrect, DeletionCorrect, PTL DEF Spec
=============================================================================
