------------------------------ MODULE NightJobs ------------------------------
(***************************************************************************)
(* The CronRunner: every half minute it compares the latest slot of each   *)
(* job, daily or weekly, with the last one on record, marks a slot that is *)
(* new, and runs the job.  An agent job is an unattended turn in a session *)
(* of its own; the compactor, a job in code, is in Conversations.          *)
(*                                                                         *)
(* A job may take longer than a day, the process may die in any await, and *)
(* the table of runs may be unreadable for a moment.                       *)
(***************************************************************************)
EXTENDS Naturals

CONSTANTS
  JobCount,  \* JOBS, in their order
  AgentJob,  \* those with a prompt
  MaxSlot,   \* bound: slots of a job that come
  MaxCuts    \* bound: restarts in the middle of a tick

ASSUME NightJobsAssumption ==
  /\ JobCount \in Nat \ {0}
  /\ AgentJob \subseteq 1 .. JobCount
  /\ MaxSlot \in Nat \ {0} /\ MaxCuts \in Nat

Job == 1 .. JobCount

VARIABLES
  clock,   \* for each job, its latest slot by the wall clock
  nowSlot, \* the same at the `now` of the running tick
  lastRun, \* engine_cron_runs: the last slot marked, 0 for no row
  at,      \* the job the tick has come to; 0 between two ticks
  agent,   \* whether its agent turn runs
  temps,   \* ephemeral sessions of agent jobs in the database
  fired,   \* history: how often each slot of a job has been run, up to 2
  cut,     \* history: agent jobs cut off by a restart
  restarts \* restarts in the middle of a tick

nightVars == <<clock, nowSlot, lastRun, at, agent, temps, fired, cut, restarts>>

NightTypeOK ==
  /\ clock \in [Job -> 1 .. MaxSlot]
  /\ nowSlot \in [Job -> 1 .. MaxSlot]
  /\ lastRun \in [Job -> 0 .. MaxSlot]
  /\ at \in 0 .. JobCount
  /\ agent \in BOOLEAN
  /\ temps \in 0 .. MaxCuts + 1
  /\ fired \in [Job -> [1 .. MaxSlot -> 0 .. 2]]
  /\ cut \in 0 .. MaxCuts
  /\ restarts \in 0 .. MaxCuts

\* Any job has had a slot in the week before the first boot.
NightInit ==
  /\ clock = [j \in Job |-> 1]
  /\ nowSlot = clock
  /\ lastRun = [j \in Job |-> 0]
  /\ at = 0
  /\ agent = FALSE
  /\ temps = 0
  /\ fired = [j \in Job |-> [n \in 1 .. MaxSlot |-> 0]]
  /\ cut = 0
  /\ restarts = 0

-----------------------------------------------------------------------------
(* The clock, and the tick.                                                *)

SlotComes(j) ==
  /\ clock[j] < MaxSlot
  /\ clock' = [clock EXCEPT ![j] = @ + 1]
  /\ UNCHANGED <<nowSlot, lastRun, at, agent, temps, fired, cut, restarts>>

\* _run: a tick that would find nothing is left out.
StartTick ==
  /\ at = 0
  /\ \E j \in Job : lastRun[j] < clock[j]
  /\ at' = 1
  /\ nowSlot' = clock
  /\ UNCHANGED <<clock, lastRun, agent, temps, fired, cut, restarts>>

\* On to the next job, or to the end of the tick.
Advance == at' = IF at = JobCount THEN 0 ELSE at + 1

\* Mutant of SkipJob: a job that is not due ends the tick.
ReturnAtSkip ==
  /\ at # 0 /\ ~agent
  /\ lastRun[at] >= nowSlot[at]
  /\ at' = 0
  /\ UNCHANGED <<clock, nowSlot, lastRun, agent, temps, fired, cut, restarts>>

\* The slot is on record already.
SkipJob ==
  /\ at # 0 /\ ~agent
  /\ lastRun[at] >= nowSlot[at]
  /\ Advance
  /\ UNCHANGED <<clock, nowSlot, lastRun, agent, temps, fired, cut, restarts>>

\* No run on record, or the table cannot be read, which _last_run takes for
\* the same: the slot is marked and not run.
Baseline ==
  /\ at # 0 /\ ~agent
  /\ lastRun' = [lastRun EXCEPT ![at] = nowSlot[at]]
  /\ Advance
  /\ UNCHANGED <<clock, nowSlot, agent, temps, fired, cut, restarts>>

Twice(n) == IF n = 2 THEN 2 ELSE n + 1

\* Mutant of Mark: the slot of the wall clock is run, that of `now` marked.
MarkAnother ==
  /\ at # 0 /\ ~agent
  /\ lastRun[at] # 0 /\ lastRun[at] < nowSlot[at]
  /\ lastRun' = [lastRun EXCEPT ![at] = nowSlot[at]]
  /\ fired' = [fired EXCEPT ![at][clock[at]] = Twice(@)]

\* A new slot is marked before its job is run.
Mark ==
  /\ at # 0 /\ ~agent
  /\ lastRun[at] # 0 /\ lastRun[at] < nowSlot[at]
  /\ lastRun' = [lastRun EXCEPT ![at] = nowSlot[at]]
  /\ fired' = [fired EXCEPT ![at][nowSlot[at]] = Twice(@)]

\* _compact_stale, and on.
RunCode ==
  /\ Mark
  /\ at \notin AgentJob
  /\ Advance
  /\ UNCHANGED <<clock, nowSlot, agent, temps, cut, restarts>>

\* _run_agent_job up to the turn: an ephemeral session.
RunAgent ==
  /\ Mark
  /\ at \in AgentJob
  /\ agent' = TRUE
  /\ temps' = temps + 1
  /\ UNCHANGED <<clock, nowSlot, at, cut, restarts>>

\* Mutant of AgentEnds: the session of a turn that failed stays.
AgentEndsUntidy ==
  /\ agent
  /\ agent' = FALSE
  /\ \/ Advance /\ temps' = temps - 1
     \/ at' = 0 /\ UNCHANGED temps
  /\ UNCHANGED <<clock, nowSlot, lastRun, fired, cut, restarts>>

\* The turn is answered, or its exception ends the tick.  The session is
\* deleted either way.
AgentEnds ==
  /\ agent
  /\ agent' = FALSE
  /\ Advance \/ at' = 0
  /\ temps' = temps - 1
  /\ UNCHANGED <<clock, nowSlot, lastRun, fired, cut, restarts>>

-----------------------------------------------------------------------------

\* The process dies and comes back.
NightRestart ==
  /\ at # 0
  /\ restarts < MaxCuts
  /\ restarts' = restarts + 1
  /\ cut' = IF agent THEN cut + 1 ELSE cut
  /\ at' = 0
  /\ agent' = FALSE
  /\ UNCHANGED <<clock, nowSlot, lastRun, temps, fired>>

NightStep == StartTick \/ SkipJob \/ Baseline \/ RunCode \/ RunAgent \/ AgentEnds

NightNext == NightStep \/ NightRestart \/ \E j \in Job : SlotComes(j)

NightSpec == NightInit /\ [][NightNext]_nightVars

(* The runner's task goes on: a job that raises is caught by _run, a turn   *)
(* that hangs is ended by the client's timeout, and a restart starts it     *)
(* again.  The clock need not bring another slot.                           *)
FairNightSpec == NightSpec /\ WF_nightVars(NightStep)

-----------------------------------------------------------------------------
(* Properties.                                                             *)

\* However long the jobs before it take, and whenever the process dies, no
\* slot of a job is run twice (CronRunner: runs due jobs once).
OneRunPerSlot == \A j \in Job, n \in 1 .. MaxSlot : fired[j][n] <= 1

\* An unattended run leaves no session behind, save one cut off by a restart
\* (_run_agent_job's finally).
JobSessionsGo == temps = cut + IF agent THEN 1 ELSE 0

\* A slot that has come is run or passed over before long: a job that fails or
\* takes days does not starve the jobs behind it.
SlotsAreSettled ==
  [](\A j \in Job, n \in 1 .. MaxSlot : clock[j] >= n => <>(lastRun[j] >= n))
=============================================================================
