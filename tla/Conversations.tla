---------------------------- MODULE Conversations ----------------------------
(***************************************************************************)
(* A conversation outgrows its context window: before a turn, or at night  *)
(* when the chat has been idle for a week, it is compacted into a          *)
(* continuation session that begins with a summary of it.                  *)
(*                                                                         *)
(* The extract and the summary are themselves turns of the session that is *)
(* compacted, and each of them is a long await: requests of other tabs, a  *)
(* second compaction, a deletion or a restart may come in between.  A      *)
(* resident's own turn is one step to begin and one to end; TurnEngine has *)
(* the rest.                                                               *)
(***************************************************************************)
EXTENDS Naturals

CONSTANTS
  Request,    \* POST /api/chat and /api/chat/stream
  Resident,   \* uids
  Callers,    \* what resolve_uid may give: the resident behind each request
  Session,    \* session ids
  Zuhause,    \* household_session_id: the durable session of a resident who speaks
  Old,        \* a question asked there before
  Night,      \* the CronRunner
  Half,       \* _STALE_MIN_USAGE
  Cap,        \* the compaction threshold, in the same unit
  None        \* no session, no owner

ASSUME ConversationsAssumption ==
  /\ Callers \subseteq [Request -> Resident]
  /\ DOMAIN Zuhause \subseteq Resident
  /\ \A u \in DOMAIN Zuhause : Zuhause[u] \in Session
  /\ Old \notin Request
  /\ Night \notin Request
  /\ Half \in Nat /\ Cap \in Nat /\ Half <= Cap
  /\ None \notin Session \cup Resident

Worker   == Request \cup {Night}
Question == Request \cup {Old}

VARIABLES
  live,      \* the ids that have a row in engine_sessions
  owner,     \* engine_sessions.owner_uid of every id ever used, or None
  usage,     \* input_tokens + output_tokens, up to the cap
  rows,      \* the questions in the session's transcript
  brief,     \* the questions the session's system_prompt summarises
  pc,        \* where a request, or the CronRunner, is suspended
  sid,       \* the session it works on
  read,      \* the history a summary turn was given
  todo,      \* the rows _compact_stale has selected
  caller,    \* the resident behind each request
  seen       \* history: what the chat held when a request was sent, save what
             \* has been deleted since

sessions == <<live, owner, usage, rows, brief>>
worker   == <<pc, sid, read>>
record   == <<seen, caller>>
vars     == <<sessions, worker, todo, record>>

-----------------------------------------------------------------------------
(* Types.                                                                  *)

Compacting == {"extracting", "summarising", "briefing"}
InFlight   == {"ready", "turn"} \cup Compacting

TypeOK ==
  /\ live \subseteq Session
  /\ owner \in [Session -> Resident \cup {None}]
  /\ usage \in [Session -> 0 .. Cap]
  /\ rows \in [Session -> SUBSET Question]
  /\ brief \in [Session -> SUBSET Question]
  /\ pc \in [Worker -> {"new", "over", "resting", "pick"} \cup InFlight]
  /\ sid \in [Worker -> Session \cup {None}]
  /\ read \in [Worker -> SUBSET Question]
  /\ todo \subseteq Session
  /\ seen \in [Request -> SUBSET Question]
  /\ caller \in Callers

Durable == {Zuhause[u] : u \in DOMAIN Zuhause}

\* The durable sessions have been used, to the cap.
Init ==
  /\ live = Durable
  /\ owner = [s \in Session |->
                IF s \in Durable THEN CHOOSE u \in DOMAIN Zuhause : Zuhause[u] = s
                ELSE None]
  /\ usage = [s \in Session |-> IF s \in live THEN Cap ELSE 0]
  /\ rows = [s \in Session |-> IF s \in live THEN {Old} ELSE {}]
  /\ brief = [s \in Session |-> {}]
  /\ caller \in Callers
  /\ pc = [w \in Worker |-> IF w = Night THEN "resting" ELSE "new"]
  /\ sid = [w \in Worker |-> None]
  /\ read = [w \in Worker |-> {}]
  /\ todo = {}
  /\ seen = [r \in Request |-> {}]

-----------------------------------------------------------------------------
(* Sessions.                                                               *)

\* An id nobody has had: a uuid, so it does not matter which.
Unused == {s \in Session \ Durable : owner[s] = None}
Fresh  == CHOOSE s \in Unused : TRUE

\* create_session: a row under a fresh id, with its overlay.
Create(s, uid, overlay) ==
  /\ Unused # {}
  /\ live' = live \cup {s}
  /\ owner' = [owner EXCEPT ![s] = uid]
  /\ brief' = [brief EXCEPT ![s] = overlay]

\* add_usage: prompt and answer tokens of every model pass are added up (here
\* once for a turn, and once for the two turns of a compaction).
Uses(s) ==
  \E n \in 0 .. Cap : n >= usage[s] /\ usage' = [usage EXCEPT ![s] = n]

\* DELETE /api/sessions/{id}, whoever asks and whatever runs on it.
Delete(s) ==
  /\ s \in live
  /\ live' = live \ {s}
  /\ seen' = [r \in Request |-> seen[r] \ (rows[s] \cup brief[s])]
  /\ rows' = [rows EXCEPT ![s] = {}]
  /\ brief' = [brief EXCEPT ![s] = {}]
  /\ usage' = [usage EXCEPT ![s] = 0]
  /\ UNCHANGED <<owner, worker, todo, caller>>

\* ensure_household_session: a spoken turn creates the durable session.
EnsureHousehold(s) ==
  /\ s \in Durable \ live
  /\ live' = live \cup {s}
  /\ UNCHANGED <<owner, usage, rows, brief, worker, todo, record>>

-----------------------------------------------------------------------------
(* Compaction: the part compact_session does on behalf of a worker.        *)

\* The extract prompt is a user row of the session that is compacted.
BeginExtract(w, s) ==
  /\ pc' = [pc EXCEPT ![w] = "extracting"]
  /\ sid' = [sid EXCEPT ![w] = s]

\* Where a worker goes on when its compaction is over.
After(w) == IF w = Night THEN "pick" ELSE "ready"

\* The extract turn is answered; the summary begins unless the session is gone.
Extracted(w) ==
  /\ pc[w] = "extracting"
  /\ IF sid[w] \in live
     THEN Uses(sid[w]) /\ pc' = [pc EXCEPT ![w] = "summarising"]
     ELSE UNCHANGED usage /\ pc' = [pc EXCEPT ![w] = After(w)]
  /\ UNCHANGED <<live, owner, rows, brief, sid, read, todo, record>>

\* Mutant of ReadHistory: the transcript without what an earlier compaction
\* put into the system prompt.
ReadTranscript(w) ==
  /\ pc[w] = "summarising"
  /\ read' = [read EXCEPT ![w] = rows[sid[w]]]
  /\ pc' = [pc EXCEPT ![w] = "briefing"]
  /\ UNCHANGED <<sessions, sid, todo, record>>

\* The summary turn reads its system prompt and the transcript.
ReadHistory(w) ==
  /\ pc[w] = "summarising"
  /\ read' = [read EXCEPT ![w] = rows[sid[w]] \cup brief[sid[w]]]
  /\ pc' = [pc EXCEPT ![w] = "briefing"]
  /\ UNCHANGED <<sessions, sid, todo, record>>

For(w) == IF w = Night THEN owner[sid[w]] ELSE caller[w]

\* create_session for the uid that was handed to compact_session: that of the
\* request, or owner_uid of the row the compactor selected.  The original stays.
Continue(w) ==
  /\ pc[w] = "briefing"
  /\ Create(Fresh, For(w), read[w])
  /\ pc' = [pc EXCEPT ![w] = After(w)]
  /\ sid' = [sid EXCEPT ![w] = Fresh]
  /\ read' = [read EXCEPT ![w] = {}]
  /\ UNCHANGED <<usage, rows, todo, record>>

\* A turn of the compaction fails, or the summary is empty: None, and the
\* caller goes on with the session it has.
GiveUp(w) ==
  /\ pc[w] \in Compacting
  /\ pc' = [pc EXCEPT ![w] = After(w)]
  /\ read' = [read EXCEPT ![w] = {}]
  /\ UNCHANGED <<sessions, sid, todo, record>>

-----------------------------------------------------------------------------
(* A request.                                                              *)

\* Mutant of NearCap: get_session without its owner filter.
AnybodysNearCap(r, s) == s \in live /\ usage[s] = Cap

\* maybe_compact compacts a session of the caller that is at the cap.
NearCap(r, s) == s \in live /\ owner[s] = caller[r] /\ usage[s] = Cap

\* A request for a session the browser knows, compacted first if need be.
Arrive(r, s) ==
  /\ pc[r] = "new"
  /\ owner[s] # None
  /\ seen' = [seen EXCEPT ![r] = rows[s] \cup brief[s]]
  /\ IF NearCap(r, s)
     THEN BeginExtract(r, s)
     ELSE /\ pc' = [pc EXCEPT ![r] = "ready"]
          /\ sid' = [sid EXCEPT ![r] = s]
  /\ UNCHANGED <<live, owner, usage, rows, brief, read, todo, caller>>

\* A request without a session: create_turn_session.
ArriveNew(r) ==
  /\ pc[r] = "new"
  /\ Create(Fresh, caller[r], {})
  /\ pc' = [pc EXCEPT ![r] = "ready"]
  /\ sid' = [sid EXCEPT ![r] = Fresh]
  /\ UNCHANGED <<usage, rows, read, todo, seen, caller>>

\* The handler returns; what was in its frame is gone.
Return(r) ==
  /\ pc' = [pc EXCEPT ![r] = "over"]
  /\ sid' = [sid EXCEPT ![r] = None]
  /\ seen' = [seen EXCEPT ![r] = {}]

\* EngineClient.chat_stream: the question is stored if the session has a row.
Begin(r) ==
  /\ pc[r] = "ready"
  /\ IF sid[r] \in live
     THEN /\ rows' = [rows EXCEPT ![sid[r]] = @ \cup {r}]
          /\ pc' = [pc EXCEPT ![r] = "turn"]
          /\ UNCHANGED <<sid, seen>>
     ELSE UNCHANGED rows /\ Return(r)
  /\ UNCHANGED <<live, owner, usage, brief, read, todo, caller>>

\* The turn is answered, or ends in an error.
End(r) ==
  /\ pc[r] = "turn"
  /\ Return(r)
  /\ IF sid[r] \in live THEN Uses(sid[r]) ELSE UNCHANGED usage
  /\ UNCHANGED <<live, owner, rows, brief, read, todo, caller>>

-----------------------------------------------------------------------------
(* The compactor of the night.                                             *)

Busy(s) == \E w \in Worker : pc[w] \in InFlight /\ sid[w] = s

\* _compact_stale: one SELECT of the sessions nobody has touched for a week
\* (any that nobody is working on), filtered by usage.
Select ==
  /\ pc[Night] = "resting"
  /\ todo' \in SUBSET {s \in live : usage[s] >= Half /\ ~Busy(s)}
  /\ pc' = [pc EXCEPT ![Night] = "pick"]
  /\ UNCHANGED <<sessions, sid, read, record>>

\* compact_session(force) of the next row; the session may be gone by now.
Pick(s) ==
  /\ pc[Night] = "pick"
  /\ s \in todo
  /\ todo' = todo \ {s}
  /\ IF s \in live THEN BeginExtract(Night, s) ELSE UNCHANGED <<pc, sid>>
  /\ UNCHANGED <<sessions, read, record>>

\* The rows are through.
Picked ==
  /\ pc[Night] = "pick" /\ todo = {}
  /\ pc' = [pc EXCEPT ![Night] = "resting"]
  /\ sid' = [sid EXCEPT ![Night] = None]
  /\ UNCHANGED <<sessions, read, todo, record>>

-----------------------------------------------------------------------------
(* The process dies and comes back: what was in memory is gone.            *)

Restart ==
  /\ pc' = [w \in Worker |-> IF w = Night THEN "resting"
                             ELSE IF pc[w] \in InFlight THEN "over" ELSE pc[w]]
  /\ sid' = [w \in Worker |-> None]
  /\ read' = [w \in Worker |-> {}]
  /\ todo' = {}
  /\ seen' = [r \in Request |-> {}]
  /\ UNCHANGED <<sessions, caller>>

-----------------------------------------------------------------------------
(* The specification.                                                      *)

CompactionStep(w) ==
  Extracted(w) \/ ReadHistory(w) \/ Continue(w) \/ GiveUp(w)

RequestStep(r) == CompactionStep(r) \/ Begin(r) \/ End(r)

CompactorStep ==
  \/ Picked
  \/ \E s \in Session : Pick(s)
  \/ CompactionStep(Night)

Next ==
  \/ \E r \in Request :
       \/ \E s \in Session : Arrive(r, s)
       \/ ArriveNew(r)
       \/ RequestStep(r)
  \/ \E s \in Session : Delete(s) \/ EnsureHousehold(s)
  \/ Select
  \/ CompactorStep
  \/ Restart

Spec == Init /\ [][Next]_vars

-----------------------------------------------------------------------------
(* What a request or the compactor holds in memory is seen from outside     *)
(* only as the summaries under way and the questions that cannot be asked   *)
(* any more.                                                                *)

Holds == [s \in Session |-> rows[s] \cup brief[s]]
Spent == {Old} \cup {r \in Request : pc[r] \in {"turn", "over"}}
Notes == {<<sid[w], read[w]>> : w \in {v \in Worker : pc[v] = "briefing"}}

Store == INSTANCE ChatLifecycle WITH
  Given <- {Old}, open <- live, holds <- Holds, spent <- Spent, notes <- Notes

-----------------------------------------------------------------------------
(* Safety.                                                                 *)

\* What a chat held when a request was sent, its turns find: in the transcript
\* or, through any number of compactions, in the summary of the session they
\* run in, save what was deleted meanwhile (compaction.py: never lose data
\* silently).
NothingForgotten ==
  \A r \in Request : pc[r] \in {"ready", "turn"} =>
    seen[r] \subseteq rows[sid[r]] \cup brief[sid[r]]

\* Whoever compacts, the continuation belongs to the resident whose chat it
\* continues: a summary never moves to another resident's list.
StaysWithItsOwner ==
  [][\A w \in Worker :
       pc[w] = "briefing" /\ sid'[w] \notin {sid[w], None} =>
         owner'[sid'[w]] = owner[sid[w]]]_vars

\* However requests, compactions, deletions and restarts meet, the sessions
\* and their rows are a store of chats as ChatLifecycle describes it.
ImplementsChatLifecycle == Store!Spec
=============================================================================
