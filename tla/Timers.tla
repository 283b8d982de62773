------------------------------- MODULE Timers -------------------------------
(***************************************************************************)
(* Timers, alarms and reminders: the tools of a conversation turn write    *)
(* rows of engine_timers, one scheduler task polls for due rows and rings  *)
(* the speakers through Home Assistant, a process restart may hit anywhere.*)
(*                                                                         *)
(* Instants are natural numbers.  A row keeps the digits of an ISO string, *)
(* compared as text with the UTC digits of now: `due` is the UTC instant   *)
(* whose digits these are, `meant` the instant the resident asked for.     *)
(***************************************************************************)
EXTENDS Naturals

CONSTANTS
  Timer,        \* timer ids
  Resident,     \* owner uids
  MaxTime,      \* bound: the last instant of a run
  MaxDuration,  \* bound: the longest duration asked for
  UtcOffset,    \* how far the resident's clock is ahead of UTC
  LocalTimes,   \* whether "at" may carry local digits (naive, or with an offset)
  MaxRestarts,  \* bound: restarts and failed store writes in a run
  None

ASSUME TimersAssumption ==
  /\ MaxTime \in Nat /\ MaxDuration \in Nat \ {0} /\ UtcOffset \in Nat /\ MaxRestarts \in Nat
  /\ LocalTimes \in BOOLEAN
  /\ None \notin Timer \cup Resident

VARIABLES
  now,          \* the clock
  status,       \* engine_timers.status, or "none" without a row
  owner,        \* engine_timers.owner_uid
  due,          \* engine_timers.fire_at, as digits read in UTC
  meant,        \* the instant the resident asked for
  batch,        \* the rows _fire_due has fetched and not yet come to
  current,      \* the row being announced
  accepted,     \* Home Assistant has taken the announcement of that row
  rung,         \* history: how often the timer rang
  unrecorded,   \* history: rings whose UPDATE never happened
  restarts      \* history: restarts and failed writes so far

row      == <<owner, due, meant>>
round    == <<batch, current, accepted>>
vars     == <<now, status, row, round, rung, unrecorded, restarts>>

Time     == 0 .. (MaxTime + UtcOffset + MaxDuration)
Settled  == {"cancelled", "fired", "failed"}

TypeOK ==
  /\ now \in 0 .. MaxTime
  /\ status \in [Timer -> {"none", "pending"} \cup Settled]
  /\ owner \in [Timer -> Resident \cup {None}]
  /\ due \in [Timer -> Time]
  /\ meant \in [Timer -> Time]
  /\ batch \subseteq Timer
  /\ current \in Timer \cup {None}
  /\ accepted \in BOOLEAN
  /\ rung \in [Timer -> Nat]
  /\ unrecorded \in [Timer -> Nat]
  /\ restarts \in 0 .. MaxRestarts

Init ==
  /\ now = 0
  /\ status = [t \in Timer |-> "none"]
  /\ owner = [t \in Timer |-> None]
  /\ due = [t \in Timer |-> 0]
  /\ meant = [t \in Timer |-> 0]
  /\ batch = {}
  /\ current = None
  /\ accepted = FALSE
  /\ rung = [t \in Timer |-> 0]
  /\ unrecorded = [t \in Timer |-> 0]
  /\ restarts = 0

Tick ==
  /\ now < MaxTime
  /\ now' = now + 1
  /\ UNCHANGED <<status, row, round, rung, unrecorded, restarts>>

-----------------------------------------------------------------------------
(* The tools.                                                              *)

Insert(t, uid, digits, instant) ==
  /\ status[t] = "none"
  /\ status' = [status EXCEPT ![t] = "pending"]
  /\ owner' = [owner EXCEPT ![t] = uid]
  /\ due' = [due EXCEPT ![t] = digits]
  /\ meant' = [meant EXCEPT ![t] = instant]
  /\ UNCHANGED <<now, round, rung, unrecorded, restarts>>

\* timer_set with duration_s: at least one second from now.
SetFor(t, uid, duration) ==
  LET when == now + IF duration < 1 THEN 1 ELSE duration
  IN Insert(t, uid, when, when)

\* timer_set with at: naive digits get the UTC label, an offset stays text.
SetAt(t, uid, instant, local) ==
  /\ local => LocalTimes
  /\ Insert(t, uid, instant + IF local THEN UtcOffset ELSE 0, instant)

\* Mutant of Cancel: a timer that has rung is cancelled too.
CancelSettled(t, uid) ==
  /\ status[t] # "none" /\ owner[t] = uid
  /\ status' = [status EXCEPT ![t] = "cancelled"]
  /\ UNCHANGED <<now, row, round, rung, unrecorded, restarts>>

\* timer_cancel answers {"cancelled": true}.
Cancel(t, uid) ==
  /\ status[t] = "pending" /\ owner[t] = uid
  /\ status' = [status EXCEPT ![t] = "cancelled"]
  /\ UNCHANGED <<now, row, round, rung, unrecorded, restarts>>

-----------------------------------------------------------------------------
(* The scheduler task.                                                     *)

\* Mutants of IsDue: one instant early, at one instant only, whatever its status.
IsDueSoon(t) == status[t] = "pending" /\ due[t] <= now + 1
IsDueNow(t)  == status[t] = "pending" /\ due[t] = now
IsDueStill(t) == status[t] # "none" /\ due[t] <= now

\* The WHERE of _fire_due.
IsDue(t) == status[t] = "pending" /\ due[t] <= now

\* The task goes on with one of the rows it has fetched, if there is one, and
\* suspends in its announcement; the row's status is not read again.
GoOn(fetched) ==
  /\ accepted' = FALSE
  /\ \/ fetched = {} /\ current' = None /\ batch' = {}
     \/ \E t \in fetched : current' = t /\ batch' = fetched \ {t}

\* The SELECT of _fire_due finds something.
Poll ==
  /\ current = None
  /\ \E t \in Timer : IsDue(t)
  /\ GoOn({t \in Timer : IsDue(t)})
  /\ UNCHANGED <<now, status, row, rung, unrecorded, restarts>>

\* Home Assistant takes the POST and the speakers ring.
Ring ==
  /\ current # None /\ ~accepted
  /\ accepted' = TRUE
  /\ rung' = [rung EXCEPT ![current] = @ + 1]
  /\ UNCHANGED <<now, status, row, batch, current, unrecorded, restarts>>

\* _announce has returned; "fired" needs Home Assistant's good reply, which
\* may also be lost after the ring.  The UPDATE goes by id alone.
Record(outcome) ==
  /\ current # None
  /\ outcome = "fired" => accepted
  /\ status' = [status EXCEPT ![current] = outcome]
  /\ GoOn(batch)
  /\ UNCHANGED <<now, row, rung, unrecorded, restarts>>

Forget ==
  /\ restarts < MaxRestarts
  /\ restarts' = restarts + 1
  /\ unrecorded' = IF current # None /\ accepted
                   THEN [unrecorded EXCEPT ![current] = @ + 1]
                   ELSE unrecorded
  /\ batch' = {}
  /\ current' = None
  /\ accepted' = FALSE
  /\ UNCHANGED <<now, status, row, rung>>

\* The UPDATE (or anything _announce does not catch) raises: _run logs it,
\* drops the round and polls again.
RoundFails == current # None /\ Forget

\* The process restarts; the task starts over from the table.
Restart == Forget

-----------------------------------------------------------------------------
(* The specification.                                                      *)

Scheduler ==
  \/ Poll
  \/ \E outcome \in {"fired", "failed"} : Record(outcome)

Next ==
  \/ Tick
  \/ \E t \in Timer, uid \in Resident :
       \/ \E duration \in 0 .. MaxDuration : SetFor(t, uid, duration)
       \/ \E instant \in 0 .. MaxTime, local \in BOOLEAN : SetAt(t, uid, instant, local)
       \/ Cancel(t, uid)
  \/ Scheduler
  \/ Ring
  \/ RoundFails \/ Restart

Spec == Init /\ [][Next]_vars

(* The task polls for ever and every announcement returns within 15 s.     *)
FairSpec == Spec /\ WF_vars(Scheduler)

-----------------------------------------------------------------------------
(* Seen from a single timer, a round is only whether it is taken up.       *)

Hold ==
  [t \in Timer |-> IF t = current /\ accepted THEN "rung"
                   ELSE IF t \in batch \cup {current} THEN "held" ELSE "free"]

Lifecycle == INSTANCE TimerLifecycle WITH
  clock <- now, wanted <- meant, outcome <- status, hold <- Hold,
  rings <- rung, lost <- unrecorded

-----------------------------------------------------------------------------
(* Safety.                                                                 *)

\* No timer rings before the instant the resident meant: neither the clamp of
\* a zero duration nor the text comparison of fire_at makes one early.
NeverEarly == \A t \in Timer : rung[t] > 0 => meant[t] <= now

\* The ring and its UPDATE are two steps.  A timer rings once, plus once for
\* every round that died between the two; "fired" is exactly one ring more.
RingAccounting ==
  \A t \in Timer :
    /\ rung[t] <= unrecorded[t] + 1
    /\ status[t] = "fired" => rung[t] = unrecorded[t] + 1

\* Once a timer is settled and no round holds it, it is over: it never rings
\* again and its outcome is never rewritten, whatever restarts or fails.
SettledStays ==
  [][\A t \in Timer :
       status[t] \in Settled /\ t \notin batch /\ t # current =>
         rung'[t] = rung[t] /\ status'[t] = status[t]]_vars

\* However tools, rounds, failed writes and restarts meet, every timer lives as
\* TimerLifecycle describes it, and none depends on another.
ImplementsTimerLifecycle == Lifecycle!Spec

\* What timer_cancel promises ("Bricht einen Timer per id ab"): a cancelled
\* timer does not ring.  (Refuted: a fetched row is announced regardless.)
CancelledStaysSilent ==
  [][\A t \in Timer : status[t] = "cancelled" => rung'[t] = rung[t]]_vars

\* What the timer_set parameter promises ("ISO 8601, lokale Zeit"): a poll
\* fetches every timer whose instant has come.  (Refuted: local digits are
\* compared with UTC digits.)
NoneOverlooked ==
  [][Poll => \A t \in Timer : status[t] = "pending" /\ meant[t] <= now => t \in batch' \cup {current'}]_vars

-----------------------------------------------------------------------------
(* Liveness.                                                               *)

\* A due timer is settled in the end, across restarts and failed rounds, and
\* however long the announcements before it in the round take.
DueIsSettled ==
  \A t \in Timer : IsDue(t) ~> status[t] \in Settled
=============================================================================
