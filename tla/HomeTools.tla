------------------------------ MODULE HomeTools ------------------------------
(***************************************************************************)
(* Two tools of the house: ha_run_scene_script, which finds what is meant  *)
(* by an id or a name and then starts it, and ha_state_history, which      *)
(* finds it in the same way and says when it was in which state.           *)
(*                                                                         *)
(* Between finding and starting, entities are renamed, removed and added;  *)
(* Home Assistant writes a state again when only an attribute changes.     *)
(***************************************************************************)
EXTENDS Integers, Sequences, SequencesExt

CONSTANTS
  Entities, \* the ids, in the order /api/states lists them
  Runnable, \* those of _RUNNABLE_DOMAINS
  Name,     \* friendly names, in lower case
  PartOf,   \* pairs of names of which the first is a part of the second
  Asking,   \* calls of the tools
  Switch,   \* states an entity can be in
  MaxWrites,\* bound: writes of the entity a history is about
  MaxDay,   \* bound: the time, in days
  Window,   \* values of `days`, as the model gives them
  DefaultDays, \* _HISTORY_DEFAULT_DAYS
  MaxDays,  \* the longest window
  MaxTransitions, \* _HISTORY_MAX_TRANSITIONS
  NoEntity  \* also the name of what is not there

ASSUME HomeAssumption ==
  /\ Entities \in Seq(ToSet(Entities))
  /\ Runnable \subseteq ToSet(Entities) /\ NoEntity \notin ToSet(Entities)
  /\ PartOf \subseteq Name \X Name /\ \A n \in Name : <<n, n>> \in PartOf
  /\ MaxDay \in Nat /\ Window \subseteq Int /\ DefaultDays \in Nat
  /\ {MaxWrites, MaxDays, MaxTransitions} \subseteq Nat \ {0}

VARIABLES
  friendly, \* the name of each entity, NoEntity if there is no such entity now
  asked,    \* what each call asked for
  found,    \* the entity_id it found, and the names at that moment
  started,  \* the calls whose entity was started
  today,    \* the time
  writes,   \* what was written of one entity, oldest first: state and time
  told      \* the answer of a history: when, from when, and its transitions, which are
            \* in the order of their numbers

runVars     == <<friendly, asked, found, started>>
historyVars == <<today, writes, told>>
homeVars    == <<runVars, historyVars>>

Ids == ToSet(Entities)
Transition == [nr : 1 .. MaxWrites, state : Switch, since : Nat, duration : Nat]

HomeTypeOK ==
  /\ friendly \in [Ids -> Name \cup {NoEntity}]
  /\ asked \in [Asking -> Ids \cup Name \cup {NoEntity}]
  /\ \A c \in Asking : found[c].id \in Ids \cup {NoEntity}
  /\ started \subseteq Asking
  /\ today \in 0 .. MaxDay
  /\ \A i \in DOMAIN writes : writes[i].state \in Switch /\ writes[i].at \in 0 .. today
  /\ told.transitions \subseteq Transition

Nothing == [id |-> NoEntity, names |-> <<>>]

HomeInit ==
  /\ friendly \in [Ids -> Name \cup {NoEntity}] /\ asked = [c \in Asking |-> NoEntity]
  /\ found = [c \in Asking |-> Nothing] /\ started = {}
  /\ today = 0 /\ \E s \in Switch : writes = <<[state |-> s, at |-> 0]>>
  /\ told = [at |-> 0, from |-> 0, transitions |-> {}]

-----------------------------------------------------------------------------
(* ha_run_scene_script.                                                    *)

\* The first of some entities, as /api/states lists them.
First(ids) ==
  IF ids = {} THEN NoEntity
  ELSE Entities[Min({i \in DOMAIN Entities : Entities[i] \in ids})]

Bearing(n)  == {id \in Ids : friendly[id] = n}
NamedLike(n) == {id \in Ids : <<n, friendly[id]>> \in PartOf}

\* Mutant of Resolve: the first that has the name or a longer one.
ResolveFirst(ref) == IF ref \in Ids THEN ref ELSE First(NamedLike(ref))

\* _resolve_entity_id: an id as it is, else the name, else a part of one.
Resolve(ref) ==
  IF ref \in Ids THEN ref
  ELSE IF Bearing(ref) # {} THEN First(Bearing(ref)) ELSE First(NamedLike(ref))

\* The tool is called; the states are read.
Find(c, ref) ==
  /\ asked[c] = NoEntity
  /\ asked' = [asked EXCEPT ![c] = ref]
  /\ found' = [found EXCEPT ![c] = [id |-> Resolve(ref), names |-> friendly]]
  /\ UNCHANGED <<friendly, started, historyVars>>

\* run_runnable and call_service: only a scene, a script or an automation, by its
\* id, whatever its name is by then; one that is gone does nothing.
RunRunnable(c) ==
  /\ asked[c] # NoEntity /\ c \notin started /\ found[c].id \in Runnable
  /\ friendly[found[c].id] # NoEntity
  /\ started' = started \cup {c}
  /\ UNCHANGED <<friendly, asked, found, historyVars>>

\* An entity gets a name, or goes.
Rename(id, n) ==
  /\ n # friendly[id] /\ \E c \in Asking : asked[c] # NoEntity /\ c \notin started
  /\ friendly' = [friendly EXCEPT ![id] = n]
  /\ UNCHANGED <<asked, found, started, historyVars>>

-----------------------------------------------------------------------------
(* ha_state_history.                                                       *)

\* A window of a day at least and of MaxDays at most; none, and one of no days,
\* is the usual one.
Start(days) ==
  LET wanted == IF days = 0 THEN DefaultDays ELSE days
  IN today - (IF wanted < 1 THEN 1 ELSE IF wanted > MaxDays THEN MaxDays ELSE wanted)

\* What Home Assistant answers: the state at the start, if there was one, and
\* every write since.  A point is the number of its write.
Series(from) == {i \in DOMAIN writes : \A j \in i + 1 .. Len(writes) : writes[j].at > from}

Since(i, from) == IF writes[i].at < from THEN from ELSE writes[i].at

\* A write of the same state is no change.
Changes(series) ==
  {i \in series : i - 1 \in series => writes[i - 1].state # writes[i].state}

\* Each lasts until the next, and the last until now.
Until(i, changes, from) ==
  LET later == {j \in changes : j > i}
  IN IF later = {} THEN today ELSE Since(Min(later), from)

Durations(changes, from) ==
  {[nr |-> i, state |-> writes[i].state, since |-> Since(i, from),
    duration |-> Until(i, changes, from) - Since(i, from)] : i \in changes}

\* The latest ones.
Recent(transitions) ==
  {t \in transitions : Cardinality({u \in transitions : u.nr > t.nr}) < MaxTransitions}

\* get_state_history.
GetStateHistory(days) ==
  /\ told' = [at |-> today, from |-> Start(days),
              transitions |-> Recent(Durations(Changes(Series(Start(days))), Start(days)))]
  /\ UNCHANGED <<runVars, today, writes>>

Write(s) ==
  /\ Len(writes) < MaxWrites
  /\ writes' = Append(writes, [state |-> s, at |-> today])
  /\ UNCHANGED <<runVars, today, told>>

NextDay ==
  /\ today < MaxDay
  /\ today' = today + 1
  /\ UNCHANGED <<runVars, writes, told>>

RunNext ==
  \/ \E id \in Ids, n \in Name \cup {NoEntity} : Rename(id, n)
  \/ \E c \in Asking : RunRunnable(c) \/ \E ref \in Ids \cup Name : Find(c, ref)

HistoryNext ==
  \/ NextDay
  \/ \E s \in Switch : Write(s)
  \/ \E days \in Window : GetStateHistory(days)

HomeNext == RunNext \/ HistoryNext

HomeSpec == HomeInit /\ [][HomeNext]_homeVars

-----------------------------------------------------------------------------
(* Safety.                                                                 *)

\* What was started is a scene, a script or an automation that was asked for by
\* its id, or had the name that was asked for; one with a longer name was
\* started only where nothing had that name (_resolve_entity_id, "exact then
\* substring").
RunsWhatWasAsked ==
  \A c \in started :
    LET ref == asked[c]  id == found[c].id  name == found[c].names IN
    /\ id \in Runnable
    /\ \/ ref = id \/ name[id] = ref
       \/ <<ref, name[id]>> \in PartOf /\ \A other \in Ids : name[other] # ref

\* A history says of every moment it covers the state the entity was in: its
\* transitions follow on each other, each to another state, up to the moment it
\* was asked for, and unless it is cut to the latest ones they reach back to the
\* start of the window or to the first write (get_state_history).
HistoryAsItWas ==
  LET line == told.transitions
      until(t) == t.since + t.duration
      next(t, u) == t.nr < u.nr /\ ~ \E v \in line : t.nr < v.nr /\ v.nr < u.nr
  IN /\ \A t \in line : \A m \in t.since .. (until(t) - 1) :
          \E j \in DOMAIN writes :
            /\ writes[j].at <= m /\ writes[j].state = t.state
            /\ \A k \in j + 1 .. Len(writes) :
                 writes[k].at <= m => writes[k].state = t.state
     /\ \A t \in line : (\A u \in line : u.nr <= t.nr) => until(t) = told.at
     /\ \A t, u \in line : next(t, u) => until(t) = u.since /\ t.state # u.state
     /\ line # {} /\ Cardinality(line) < MaxTransitions =>
          \E t \in line : t.since = (IF told.from < 0 THEN 0 ELSE told.from)

\* The tools say and do what the house is asked for.
AnswersForTheHouse == RunsWhatWasAsked /\ HistoryAsItWas
=============================================================================
