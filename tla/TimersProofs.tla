---------------------------- MODULE TimersProofs ----------------------------
(***************************************************************************)
(* Proofs about Timers: type correctness, the two ring invariants and that *)
(* every timer lives as TimerLifecycle says, for any timers, residents,    *)
(* bounds and clock offset.                                                *)
(***************************************************************************)
EXTENDS Timers, TLAPS

Held(t) == t \in batch \/ t = current

\* A round: nothing is left over between rounds, the row being announced has
\* left the batch, and every fetched row was pending and due.
RoundInv ==
  /\ current = None => batch = {} /\ ~accepted
  /\ current \notin batch
  /\ \A t \in Timer : Held(t) => status[t] \in {"pending", "cancelled"} /\ due[t] <= now

\* The digits of a row never stand for an instant before the one meant.
DigitsInv == \A t \in Timer : meant[t] <= due[t]

\* Rings and records differ only between a ring and its UPDATE, or for good.
RingInv ==
  \A t \in Timer :
    /\ rung[t] \in {unrecorded[t], unrecorded[t] + 1}
    /\ status[t] = "none" => rung[t] = 0
    /\ t = current /\ accepted => rung[t] = unrecorded[t] + 1
    /\ (status[t] = "pending" \/ Held(t)) /\ ~(t = current /\ accepted)
         => rung[t] = unrecorded[t]
    /\ status[t] = "fired" => rung[t] = unrecorded[t] + 1

\* The inductive invariant of the scheduler.
SchedulerInv == TypeOK /\ RoundInv /\ DigitsInv /\ NeverEarly /\ RingInv
-----------------------------------------------------------------------------
(* Type correctness needs nothing but itself.                              *)

LEMMA TypeInit == Init => TypeOK
<1> SUFFICES ASSUME Init PROVE TypeOK
  OBVIOUS
<1>1. accepted \in BOOLEAN
  BY DEF Init
<1>2. /\ now \in 0 .. MaxTime
      /\ due \in [Timer -> Time] /\ meant \in [Timer -> Time]
      /\ restarts \in 0 .. MaxRestarts
  BY TimersAssumption DEF Init, Time
<1> QED
  BY <1>1, <1>2 DEF Init, TypeOK

LEMMA TypeStep == TypeOK /\ [Next]_vars => TypeOK'
<1> SUFFICES ASSUME TypeOK, [Next]_vars PROVE TypeOK'
  OBVIOUS
<1> USE TimersAssumption
<1>1. CASE Tick
  BY <1>1 DEF Tick, TypeOK, row, round
<1>2. ASSUME NEW t \in Timer, NEW uid \in Resident, NEW duration \in 0 .. MaxDuration,
             SetFor(t, uid, duration)
      PROVE  TypeOK'
  <2> DEFINE when == now + IF duration < 1 THEN 1 ELSE duration
  <2>1. when \in Time
    BY DEF TypeOK, Time
  <2> HIDE DEF when
  <2>2. Insert(t, uid, when, when)
    BY <1>2 DEF SetFor, when
  <2> QED
    BY <2>1, <2>2 DEF Insert, TypeOK, round
<1>3. ASSUME NEW t \in Timer, NEW uid \in Resident, NEW instant \in 0 .. MaxTime,
             NEW local \in BOOLEAN, SetAt(t, uid, instant, local)
      PROVE  TypeOK'
  <2> DEFINE digits == instant + IF local THEN UtcOffset ELSE 0
  <2>1. digits \in Time /\ instant \in Time
    BY DEF Time
  <2> HIDE DEF digits
  <2>2. Insert(t, uid, digits, instant)
    BY <1>3 DEF SetAt, digits
  <2> QED
    BY <2>1, <2>2 DEF Insert, TypeOK, round
<1>4. ASSUME NEW t \in Timer, NEW uid \in Resident, Cancel(t, uid) PROVE TypeOK'
  BY <1>4 DEF Cancel, TypeOK, row, round, Settled
<1>5. CASE Poll
  BY <1>5 DEF Poll, GoOn, TypeOK, row
<1>6. ASSUME NEW outcome \in {"fired", "failed"}, Record(outcome) PROVE TypeOK'
  BY <1>6 DEF Record, GoOn, TypeOK, row, Settled
<1>7. CASE Ring
  BY <1>7 DEF Ring, TypeOK, row
<1>8. CASE Forget
  <2>1. accepted' \in BOOLEAN
    BY <1>8 DEF Forget
  <2>2. unrecorded' \in [Timer -> Nat] /\ restarts' \in 0 .. MaxRestarts
    BY <1>8 DEF Forget, TypeOK
  <2> QED
    BY <1>8, <2>1, <2>2 DEF Forget, TypeOK, row
<1>9. CASE UNCHANGED vars
  BY <1>9 DEF vars, row, round, TypeOK
<1> QED
  BY <1>1, <1>2, <1>3, <1>4, <1>5, <1>6, <1>7, <1>8, <1>9
  DEF Next, Scheduler, RoundFails, Restart

\* Every variable of the timers keeps its type (engine_timers and the loop).
THEOREM TypeCorrect == Spec => []TypeOK
BY TypeInit, TypeStep, PTL DEF Spec

-----------------------------------------------------------------------------
(* The inductive invariant.                                                *)

LEMMA SchedulerInit == Init => SchedulerInv
<1> SUFFICES ASSUME Init PROVE SchedulerInv
  OBVIOUS
<1>1. TypeOK
  BY TypeInit
<1>2. RoundInv
  BY TimersAssumption DEF Init, RoundInv, Held
<1>3. DigitsInv /\ NeverEarly /\ RingInv
  BY TimersAssumption DEF Init, DigitsInv, NeverEarly, RingInv, Held
<1> QED
  BY <1>1, <1>2, <1>3 DEF SchedulerInv

\* The table alone changes: a tool of a turn writes, and no round is touched.
LEMMA InsertStep ==
  ASSUME SchedulerInv, TypeOK',
         NEW t \in Timer, NEW uid \in Resident,
         NEW digits \in Time, NEW instant \in Time, instant <= digits,
         Insert(t, uid, digits, instant)
  PROVE  SchedulerInv'
<1> USE DEF SchedulerInv, Insert, TypeOK, round, Time
<1>1. ~Held(t) /\ rung[t] = 0
  BY DEF RoundInv, RingInv
<1>2. RoundInv'
  BY <1>1 DEF RoundInv, Held
<1>3. DigitsInv'
  BY TimersAssumption DEF DigitsInv
<1>4. NeverEarly'
  BY <1>1 DEF NeverEarly
<1>5. RingInv'
  BY <1>1 DEF RingInv, Held
<1> QED
  BY <1>2, <1>3, <1>4, <1>5

LEMMA CancelStep ==
  ASSUME SchedulerInv, TypeOK', NEW t \in Timer, NEW uid \in Resident, Cancel(t, uid)
  PROVE  SchedulerInv'
<1> USE DEF SchedulerInv, Cancel, TypeOK, row, round
<1>1. RoundInv'
  BY DEF RoundInv, Held
<1>2. DigitsInv' /\ NeverEarly'
  BY DEF DigitsInv, NeverEarly
<1>3. RingInv'
  BY DEF RingInv, Held
<1> QED
  BY <1>1, <1>2, <1>3

\* A round starts: what it fetches is pending, so its rings are on record.
LEMMA PollStep ==
  ASSUME SchedulerInv, TypeOK', Poll PROVE SchedulerInv'
<1> USE DEF SchedulerInv, Poll, GoOn, TypeOK, row
<1>1. \A t \in Timer : Held(t)' => IsDue(t)
  BY TimersAssumption DEF Held
<1>2. RoundInv'
  BY <1>1, TimersAssumption DEF RoundInv, IsDue
<1>3. DigitsInv' /\ NeverEarly'
  BY DEF DigitsInv, NeverEarly
<1>4. RingInv'
  BY <1>1, TimersAssumption DEF RingInv, IsDue, Held, RoundInv
<1> QED
  BY <1>2, <1>3, <1>4

LEMMA RingStep ==
  ASSUME SchedulerInv, TypeOK', Ring PROVE SchedulerInv'
<1> USE DEF SchedulerInv, Ring, TypeOK, row
<1>1. RoundInv'
  BY DEF RoundInv, Held
<1>2. DigitsInv'
  BY DEF DigitsInv
<1>3. current \in Timer /\ meant[current] <= due[current] /\ due[current] <= now
  BY DEF RoundInv, Held, DigitsInv
<1>4. NeverEarly'
  BY <1>3, TimersAssumption DEF NeverEarly, Time
<1>5. RingInv'
  BY DEF RingInv, Held, RoundInv
<1> QED
  BY <1>1, <1>2, <1>4, <1>5

\* The UPDATE: the row leaves the round with its ring on record.
LEMMA RecordStep ==
  ASSUME SchedulerInv, TypeOK', NEW outcome \in {"fired", "failed"}, Record(outcome)
  PROVE  SchedulerInv'
<1> USE DEF SchedulerInv, Record, GoOn, TypeOK, row
<1>1. \A t \in Timer : Held(t)' => t \in batch /\ t # current
  BY TimersAssumption DEF Held, RoundInv
<1>2. RoundInv'
  BY <1>1, TimersAssumption DEF RoundInv, Held
<1>3. DigitsInv' /\ NeverEarly'
  BY DEF DigitsInv, NeverEarly
<1>4. RingInv'
  BY <1>1 DEF RingInv, Held
<1> QED
  BY <1>2, <1>3, <1>4

\* A crash or a failed write: the ring without an UPDATE is written off.
LEMMA ForgetStep ==
  ASSUME SchedulerInv, TypeOK', Forget PROVE SchedulerInv'
<1> USE DEF SchedulerInv, Forget, TypeOK, row
<1>1. RoundInv'
  BY TimersAssumption DEF RoundInv, Held
<1>2. DigitsInv' /\ NeverEarly'
  BY DEF DigitsInv, NeverEarly
<1>3. RingInv'
  BY TimersAssumption DEF RingInv, Held, RoundInv
<1> QED
  BY <1>1, <1>2, <1>3

LEMMA SchedulerStep == SchedulerInv /\ [Next]_vars => SchedulerInv'
<1> SUFFICES ASSUME SchedulerInv, [Next]_vars PROVE SchedulerInv'
  OBVIOUS
<1>0. TypeOK /\ TypeOK'
  BY TypeStep DEF SchedulerInv
<1>1. CASE Tick
  <2> USE <1>0, <1>1 DEF SchedulerInv, Tick, TypeOK, row, round
  <2>1. RoundInv'
    BY DEF RoundInv, Held, Time
  <2>2. DigitsInv' /\ NeverEarly'
    BY TimersAssumption DEF DigitsInv, NeverEarly, Time
  <2>3. RingInv'
    BY DEF RingInv, Held
  <2> QED
    BY <2>1, <2>2, <2>3
<1>2. ASSUME NEW t \in Timer, NEW uid \in Resident, NEW duration \in 0 .. MaxDuration,
             SetFor(t, uid, duration)
      PROVE  SchedulerInv'
  <2> DEFINE when == now + IF duration < 1 THEN 1 ELSE duration
  <2>1. when \in Time /\ when <= when
    BY <1>0, TimersAssumption DEF TypeOK, Time
  <2> HIDE DEF when
  <2>2. Insert(t, uid, when, when)
    BY <1>2 DEF SetFor, when
  <2> QED
    BY <1>0, <2>1, <2>2, InsertStep
<1>3. ASSUME NEW t \in Timer, NEW uid \in Resident, NEW instant \in 0 .. MaxTime,
             NEW local \in BOOLEAN, SetAt(t, uid, instant, local)
      PROVE  SchedulerInv'
  <2> DEFINE digits == instant + IF local THEN UtcOffset ELSE 0
  <2>1. digits \in Time /\ instant \in Time /\ instant <= digits
    BY TimersAssumption DEF Time
  <2> HIDE DEF digits
  <2>2. Insert(t, uid, digits, instant)
    BY <1>3 DEF SetAt, digits
  <2> QED
    BY <1>0, <2>1, <2>2, InsertStep
<1>4. CASE UNCHANGED vars
  BY <1>4 DEF vars, row, round, SchedulerInv, TypeOK, RoundInv, Held, DigitsInv,
              NeverEarly, RingInv
<1> QED
  BY <1>0, <1>1, <1>2, <1>3, <1>4,
     CancelStep, PollStep, RingStep, RecordStep, ForgetStep
  DEF Next, Scheduler, RoundFails, Restart

LEMMA SchedulerCorrect == Spec => []SchedulerInv
BY SchedulerInit, SchedulerStep, PTL DEF Spec

-----------------------------------------------------------------------------
(* What follows from it.                                                   *)

\* No timer rings before the instant the resident meant (_fire_due).
THEOREM NoEarlyRing == Spec => []NeverEarly
<1>1. SchedulerInv => NeverEarly
  BY DEF SchedulerInv
<1> QED
  BY <1>1, SchedulerCorrect, PTL

\* A timer rings once, and once more only for a round that died between the
\* ring and its UPDATE (_fire_due after a crash or a failed write).
THEOREM RingsAreAccountedFor == Spec => []RingAccounting
<1>1. SchedulerInv => RingAccounting
  <2> SUFFICES ASSUME SchedulerInv, NEW t \in Timer
               PROVE  /\ rung[t] <= unrecorded[t] + 1
                      /\ status[t] = "fired" => rung[t] = unrecorded[t] + 1
    BY DEF RingAccounting
  <2>1. unrecorded[t] \in Nat /\ rung[t] \in {unrecorded[t], unrecorded[t] + 1}
    BY DEF SchedulerInv, TypeOK, RingInv
  <2> QED
    BY <2>1 DEF SchedulerInv, RingInv
<1> QED
  BY <1>1, SchedulerCorrect, PTL

-----------------------------------------------------------------------------
(* Timers implements TimerLifecycle.                                       *)
(*                                                                         *)
(* An action of a tool moves one timer; one of the scheduler moves those   *)
(* its round holds.  What another timer may see of it is Hold, and that is *)
(* what RoundInv is about.                                                 *)

LEMMA HoldMeans ==
  ASSUME SchedulerInv, NEW t \in Timer
  PROVE  /\ Hold[t] = "rung" <=> t = current /\ accepted
         /\ Hold[t] = "held" <=> Held(t) /\ ~(t = current /\ accepted)
         /\ Hold[t] = "free" <=> ~Held(t)
BY DEF Hold, Held, SchedulerInv, TypeOK, RoundInv

LEMMA HoldTyped == TypeOK => Lifecycle!Typed
<1> SUFFICES ASSUME TypeOK PROVE Lifecycle!Typed
  OBVIOUS
<1>1. Hold \in [Timer -> {"free", "held", "rung"}]
  BY DEF Hold
<1>2. now \in Nat /\ meant \in [Timer -> Nat]
  BY TimersAssumption DEF TypeOK, Time
<1> QED
  BY <1>1, <1>2 DEF TypeOK, Settled, Lifecycle!Typed, Lifecycle!Over

\* A tool moves the row of one timer, and no round.
LEMMA ToolMoves ==
  ASSUME SchedulerInv, Lifecycle!Typed', NEW t \in Timer, NEW uid \in Resident,
         Cancel(t, uid) \/ \E digits, instant \in Time : Insert(t, uid, digits, instant)
  PROVE  Lifecycle!Next
<1>1. now' = now /\ now \in Nat /\ Hold' = Hold /\ rung' = rung /\ unrecorded' = unrecorded
  BY TimersAssumption DEF Insert, Cancel, round, row, Hold, SchedulerInv, TypeOK
<1>2. \A u \in Timer \ {t} : Lifecycle!Stand(u)
  BY <1>1 DEF Insert, Cancel, row, SchedulerInv, TypeOK, Lifecycle!Stand
<1>3. Lifecycle!Move(t)
  BY <1>1 DEF Insert, Cancel, row, SchedulerInv, TypeOK, Lifecycle!Move, Lifecycle!Ask,
              Lifecycle!Cancel
<1> QED
  BY <1>1, <1>2, <1>3 DEF Lifecycle!Next

\* A round takes up what is due, which no round holds.
LEMMA PollMoves ==
  ASSUME SchedulerInv, SchedulerInv', Lifecycle!Typed', Poll
  PROVE  Lifecycle!Next
<1>1. /\ now' = now /\ now \in Nat /\ meant' = meant /\ status' = status
      /\ rung' = rung /\ unrecorded' = unrecorded
  BY TimersAssumption DEF Poll, row, SchedulerInv, TypeOK
<1>2. \A t \in Timer : ~Held(t) /\ Hold[t] = "free"
  BY HoldMeans, TimersAssumption DEF Poll, SchedulerInv, RoundInv, Held
<1>3. ASSUME NEW t \in Timer
      PROVE  Lifecycle!Stand(t) \/ Lifecycle!Move(t)
  <2>1. Held(t)' <=> IsDue(t)
    BY TimersAssumption DEF Poll, GoOn, Held
  <2>2. ~accepted'
    BY DEF Poll, GoOn
  <2>3. Hold'[t] = IF IsDue(t) THEN "held" ELSE "free"
    BY <2>1, <2>2 DEF Hold, Held
  <2>4. CASE IsDue(t)
    <3>1. meant[t] <= now
      BY <2>4, TimersAssumption DEF IsDue, SchedulerInv, DigitsInv, TypeOK, Time
    <3> QED
      BY <1>1, <1>2, <2>3, <2>4, <3>1 DEF IsDue, Lifecycle!Move, Lifecycle!TakeUp
  <2>5. CASE ~IsDue(t)
    BY <1>1, <1>2, <2>3, <2>5 DEF Lifecycle!Stand
  <2> QED
    BY <2>4, <2>5
<1> QED
  BY <1>1, <1>3 DEF Lifecycle!Next

LEMMA RingMoves ==
  ASSUME SchedulerInv, Lifecycle!Typed', Ring
  PROVE  Lifecycle!Next
<1>0. PICK c \in Timer : c = current
  BY DEF Ring, SchedulerInv, TypeOK
<1>1. /\ now' = now /\ now \in Nat /\ meant' = meant /\ status' = status
      /\ unrecorded' = unrecorded /\ current' = c
  BY <1>0, TimersAssumption DEF Ring, row, SchedulerInv, TypeOK
<1>2. ASSUME NEW t \in Timer \ {c} PROVE Lifecycle!Stand(t)
  BY <1>0, <1>1 DEF Ring, SchedulerInv, TypeOK, Hold, Lifecycle!Stand
<1>3. Hold[c] = "held" /\ Hold'[c] = "rung" /\ rung'[c] = rung[c] + 1
  BY <1>0, <1>1 DEF Ring, SchedulerInv, TypeOK, Hold
<1>4. Lifecycle!Move(c)
  BY <1>1, <1>3 DEF Lifecycle!Move, Lifecycle!Ring
<1> QED
  BY <1>1, <1>2, <1>4 DEF Lifecycle!Next

\* The row announced leaves the round; the next one is still only held.
LEMMA RecordMoves ==
  ASSUME SchedulerInv, Lifecycle!Typed', NEW o \in {"fired", "failed"}, Record(o)
  PROVE  Lifecycle!Next
<1>0. PICK c \in Timer : c = current /\ c \notin batch
  BY DEF Record, SchedulerInv, TypeOK, RoundInv
<1>1. /\ now' = now /\ now \in Nat /\ meant' = meant /\ rung' = rung
      /\ unrecorded' = unrecorded
  BY TimersAssumption DEF Record, row, SchedulerInv, TypeOK
<1>2. ~accepted' /\ batch = batch' \cup ({current'} \ {None}) /\ None \notin batch
  BY TimersAssumption DEF Record, GoOn, SchedulerInv, TypeOK
<1>3. ASSUME NEW t \in Timer \ {c} PROVE Lifecycle!Stand(t)
  <2>1. t # None
    BY TimersAssumption
  <2>2. Hold'[t] = Hold[t]
    BY <1>0, <1>2, <2>1 DEF Hold
  <2> QED
    BY <1>0, <1>1, <2>2 DEF Record, SchedulerInv, TypeOK, Lifecycle!Stand
<1>4. Hold'[c] = "free"
  BY <1>0, <1>2, TimersAssumption DEF Hold
<1>5. Hold[c] = IF accepted THEN "rung" ELSE "held"
  BY <1>0 DEF Hold
<1>6. status'[c] = o /\ (o = "fired" => accepted)
  BY <1>0 DEF Record, SchedulerInv, TypeOK
<1>7. Lifecycle!Move(c)
  BY <1>1, <1>4, <1>5, <1>6 DEF Lifecycle!Move, Lifecycle!Record
<1> QED
  BY <1>1, <1>3, <1>7 DEF Lifecycle!Next

\* A crash drops the whole round at once: all it holds is lost, one by one.
LEMMA ForgetMoves ==
  ASSUME SchedulerInv, Lifecycle!Typed', Forget
  PROVE  Lifecycle!Next
<1>1. /\ now' = now /\ now \in Nat /\ meant' = meant /\ status' = status /\ rung' = rung
  BY TimersAssumption DEF Forget, row, SchedulerInv, TypeOK
<1>2. ASSUME NEW t \in Timer
      PROVE  Lifecycle!Stand(t) \/ Lifecycle!Move(t)
  <2>1. Hold'[t] = "free"
    BY TimersAssumption DEF Forget, Hold
  <2>2. unrecorded'[t] = unrecorded[t] + (IF Hold[t] = "rung" THEN 1 ELSE 0)
    BY TimersAssumption DEF Forget, Hold, SchedulerInv, TypeOK
  <2>3. CASE Hold[t] = "free"
    <3>1. unrecorded'[t] = unrecorded[t]
      BY <2>2, <2>3 DEF SchedulerInv, TypeOK
    <3> QED
      BY <1>1, <2>1, <2>3, <3>1 DEF Lifecycle!Stand
  <2>4. CASE Hold[t] # "free"
    BY <1>1, <2>1, <2>2, <2>4 DEF Lifecycle!Move, Lifecycle!Lose
  <2> QED
    BY <2>3, <2>4
<1> QED
  BY <1>1, <1>2 DEF Lifecycle!Next

LEMMA StepMoves ==
  SchedulerInv /\ [Next]_vars => [Lifecycle!Next]_(Lifecycle!vars)
<1> SUFFICES ASSUME SchedulerInv, [Next]_vars
             PROVE  [Lifecycle!Next]_(Lifecycle!vars)
  OBVIOUS
<1>1. SchedulerInv' /\ Lifecycle!Typed'
  <2>1. TypeOK'
    BY SchedulerStep DEF SchedulerInv
  <2>2. TypeOK' => Lifecycle!Typed'
    BY HoldTyped, PTL
  <2> QED
    BY <2>1, <2>2, SchedulerStep
<1>2. CASE Tick
  <2>1. now <= now'
    BY <1>2 DEF Tick, SchedulerInv, TypeOK
  <2>2. \A t \in Timer : Lifecycle!Stand(t)
    BY <1>2 DEF Tick, row, round, Hold, Lifecycle!Stand
  <2> QED
    BY <1>1, <2>1, <2>2 DEF Lifecycle!Next
<1>3. ASSUME NEW t \in Timer, NEW uid \in Resident, NEW duration \in 0 .. MaxDuration,
             SetFor(t, uid, duration)
      PROVE  Lifecycle!Next
  <2> DEFINE when == now + IF duration < 1 THEN 1 ELSE duration
  <2>1. when \in Time
    BY TimersAssumption DEF SchedulerInv, TypeOK, Time
  <2> HIDE DEF when
  <2>2. Insert(t, uid, when, when)
    BY <1>3 DEF SetFor, when
  <2> QED
    BY <1>1, <2>1, <2>2, ToolMoves
<1>4. ASSUME NEW t \in Timer, NEW uid \in Resident, NEW instant \in 0 .. MaxTime,
             NEW local \in BOOLEAN, SetAt(t, uid, instant, local)
      PROVE  Lifecycle!Next
  <2> DEFINE digits == instant + IF local THEN UtcOffset ELSE 0
  <2>1. digits \in Time /\ instant \in Time
    BY TimersAssumption DEF Time
  <2> HIDE DEF digits
  <2>2. Insert(t, uid, digits, instant)
    BY <1>4 DEF SetAt, digits
  <2> QED
    BY <1>1, <2>1, <2>2, ToolMoves
<1>5. CASE UNCHANGED vars
  BY <1>5 DEF vars, row, round, Hold, Lifecycle!vars
<1> QED
  BY <1>1, <1>2, <1>3, <1>4, <1>5, ToolMoves, PollMoves, RingMoves, RecordMoves, ForgetMoves
  DEF Next, Scheduler, RoundFails, Restart

\* Every timer lives as TimerLifecycle says, by itself: a round that fetches
\* several rows, loses them in a crash or goes on from one to the next is, for
\* each of them, a step of its own life or none (engine/scheduler.py: _fire_due;
\* engine/tools/timers.py).
THEOREM TimersImplementLifecycle == Spec => ImplementsTimerLifecycle
<1>1. Init => Lifecycle!Init
  <2> SUFFICES ASSUME Init PROVE Lifecycle!Init
    OBVIOUS
  <2>1. Lifecycle!Typed
    BY TypeInit, HoldTyped
  <2>2. ASSUME NEW t \in Timer PROVE Hold[t] = "free"
    <3>1. ~Held(t)
      BY TimersAssumption DEF Init, Held
    <3> QED
      BY <3>1, SchedulerInit, HoldMeans
  <2> QED
    BY <2>1, <2>2 DEF Init, Lifecycle!Init
<1> QED
  BY <1>1, StepMoves, SchedulerCorrect, PTL
  DEF Spec, ImplementsTimerLifecycle, Lifecycle!Spec

-----------------------------------------------------------------------------
(* What the life of a timer promises, proved of TimerLifecycle alone.      *)

LifeInv ==
  /\ Lifecycle!Typed
  /\ \A t \in Timer :
       /\ rung[t] \in {unrecorded[t], unrecorded[t] + 1}
       /\ rung[t] > 0 \/ Hold[t] # "free" => meant[t] <= now
       /\ status[t] = "none" => Hold[t] = "free" /\ rung[t] = 0
       /\ status[t] \in {"fired", "failed"} => Hold[t] = "free"
       /\ Hold[t] = "rung" => rung[t] = unrecorded[t] + 1
       /\ (status[t] = "pending" /\ Hold[t] # "rung") \/ Hold[t] = "held"
            => rung[t] = unrecorded[t]
       /\ status[t] = "fired" => rung[t] = unrecorded[t] + 1

LEMMA LifeStep == LifeInv /\ [Lifecycle!Next]_(Lifecycle!vars) => LifeInv'
<1> SUFFICES ASSUME LifeInv, [Lifecycle!Next]_(Lifecycle!vars) PROVE LifeInv'
  OBVIOUS
<1>1. CASE UNCHANGED Lifecycle!vars
  BY <1>1 DEF LifeInv, Lifecycle!Typed, Lifecycle!vars
<1>2. CASE Lifecycle!Next
  <2> SUFFICES ASSUME NEW t \in Timer
      PROVE  /\ rung'[t] \in {unrecorded'[t], unrecorded'[t] + 1}
             /\ rung'[t] > 0 \/ Hold'[t] # "free" => meant'[t] <= now'
             /\ status'[t] = "none" => Hold'[t] = "free" /\ rung'[t] = 0
             /\ status'[t] \in {"fired", "failed"} => Hold'[t] = "free"
             /\ Hold'[t] = "rung" => rung'[t] = unrecorded'[t] + 1
             /\ (status'[t] = "pending" /\ Hold'[t] # "rung") \/ Hold'[t] = "held"
                  => rung'[t] = unrecorded'[t]
             /\ status'[t] = "fired" => rung'[t] = unrecorded'[t] + 1
    BY <1>2 DEF LifeInv, Lifecycle!Next
  <2>1. /\ now \in Nat /\ now' \in Nat /\ now <= now'
        /\ meant[t] \in Nat /\ meant'[t] \in Nat
        /\ rung[t] \in Nat /\ unrecorded[t] \in Nat
        /\ Hold[t] \in {"free", "held", "rung"}
        /\ status[t] \in {"none", "pending", "cancelled", "fired", "failed"}
    BY <1>2 DEF LifeInv, Lifecycle!Typed, Lifecycle!Next, Lifecycle!Over
  <2>2. CASE Lifecycle!Stand(t)
    BY <2>1, <2>2 DEF LifeInv, Lifecycle!Stand
  <2>3. CASE Lifecycle!Ask(t)
    BY <2>1, <2>3 DEF LifeInv, Lifecycle!Ask
  <2>4. CASE Lifecycle!Cancel(t)
    BY <2>1, <2>4 DEF LifeInv, Lifecycle!Cancel
  <2>5. CASE Lifecycle!TakeUp(t)
    BY <2>1, <2>5 DEF LifeInv, Lifecycle!TakeUp
  <2>6. CASE Lifecycle!Ring(t)
    BY <2>1, <2>6 DEF LifeInv, Lifecycle!Ring
  <2>7. CASE Lifecycle!Record(t)
    BY <2>1, <2>7 DEF LifeInv, Lifecycle!Record
  <2>8. CASE Lifecycle!Lose(t)
    BY <2>1, <2>8 DEF LifeInv, Lifecycle!Lose
  <2> QED
    BY <1>2, <2>2, <2>3, <2>4, <2>5, <2>6, <2>7, <2>8 DEF Lifecycle!Next, Lifecycle!Move
<1> QED
  BY <1>1, <1>2

LEMMA LifeIsInv == Lifecycle!Spec => []LifeInv
<1>1. Lifecycle!Init => LifeInv
  BY DEF Lifecycle!Init, Lifecycle!Typed, LifeInv
<1> QED
  BY <1>1, LifeStep, PTL DEF Lifecycle!Spec

\* A timer rings once for each time it was taken up and nobody could record it,
\* and once more, never before its instant; fired is what has rung (_fire_due).
THEOREM TimersRingOnce == Spec => []Lifecycle!RingsOnce
<1>1. ASSUME LifeInv PROVE Lifecycle!RingsOnce
  <2>1. ASSUME NEW t \in Timer
        PROVE  /\ rung[t] <= unrecorded[t] + 1
               /\ rung[t] > 0 => meant[t] <= now
               /\ status[t] = "fired" => rung[t] = unrecorded[t] + 1
    <3>1. unrecorded[t] \in Nat /\ rung[t] \in {unrecorded[t], unrecorded[t] + 1}
      BY <1>1 DEF LifeInv, Lifecycle!Typed
    <3> QED
      BY <1>1, <3>1 DEF LifeInv
  <2> QED
    BY <2>1 DEF Lifecycle!RingsOnce
<1> QED
  BY <1>1, TimersImplementLifecycle, LifeIsInv, PTL DEF ImplementsTimerLifecycle

\* A timer that is over and that no round holds is left alone: it is not taken
\* up again, does not ring, and keeps instant and outcome (the status filter of
\* _fire_due, cancel_timer).
THEOREM TimersThatAreOverRest == Spec => Lifecycle!OverIsOver
<1>1. [Lifecycle!Next]_(Lifecycle!vars) =>
        [\A t \in Timer : status[t] \in Lifecycle!Over /\ Hold[t] = "free"
                            => Lifecycle!Stand(t)]_(Lifecycle!vars)
  <2> SUFFICES ASSUME Lifecycle!Next, NEW t \in Timer,
                      status[t] \in Lifecycle!Over, Hold[t] = "free"
               PROVE  Lifecycle!Stand(t)
    OBVIOUS
  <2>1. Lifecycle!Stand(t) \/ Lifecycle!Move(t)
    BY DEF Lifecycle!Next
  <2> QED
    BY <2>1 DEF Lifecycle!Over, Lifecycle!Move, Lifecycle!Ask, Lifecycle!Cancel,
       Lifecycle!TakeUp, Lifecycle!Ring, Lifecycle!Record, Lifecycle!Lose
<1> QED
  BY <1>1, TimersImplementLifecycle, PTL
  DEF ImplementsTimerLifecycle, Lifecycle!Spec, Lifecycle!OverIsOver

\* In the terms of the table: a settled timer that no round holds neither rings
\* nor changes its status ever again.
THEOREM SettledIsFinal == Spec => SettledStays
<1>1. SchedulerInv /\ [\A t \in Timer : status[t] \in Lifecycle!Over /\ Hold[t] = "free"
                                          => Lifecycle!Stand(t)]_(Lifecycle!vars)
        => [\A t \in Timer :
              status[t] \in Settled /\ t \notin batch /\ t # current =>
                rung'[t] = rung[t] /\ status'[t] = status[t]]_vars
  <2> SUFFICES ASSUME SchedulerInv, NEW t \in Timer,
                      status[t] \in Settled, t \notin batch, t # current,
                      \/ UNCHANGED Lifecycle!vars
                      \/ status[t] \in Lifecycle!Over /\ Hold[t] = "free" => Lifecycle!Stand(t)
               PROVE  rung'[t] = rung[t] /\ status'[t] = status[t]
    OBVIOUS
  <2>1. status[t] \in Lifecycle!Over /\ Hold[t] = "free"
    BY HoldMeans DEF Held, Settled, Lifecycle!Over
  <2> QED
    BY <2>1 DEF Lifecycle!Stand, Lifecycle!vars
<1> QED
  BY <1>1, TimersThatAreOverRest, SchedulerCorrect, PTL DEF SettledStays, Lifecycle!OverIsOver
=============================================================================
