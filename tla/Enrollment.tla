----------------------------- MODULE Enrollment -----------------------------
(***************************************************************************)
(* Live-voice onboarding: the engine and the gatekeeper enrol a candidate  *)
(* through the enroll_requests table (#376).                               *)
(*                                                                         *)
(* A tool of the conversation opens a request for a uid.  Every spoken     *)
(* turn the gatekeeper transcribes meanwhile is captured as one sample of  *)
(* that uid; the turn that completes the target averages the samples into  *)
(* the uid's voice profile and settles the request.  A second tool reads   *)
(* the result and files a pending resident.  Two satellites make two turns *)
(* at once: each is a coroutine that suspends at every to_thread call, and *)
(* the samples between them live in a dict of the gatekeeper's process.    *)
(***************************************************************************)
EXTENDS Naturals, FiniteSets

CONSTANTS
  Uid,        \* candidate uids
  Capture,    \* spoken turns that bring a sample of their own
  Target,     \* _TARGET_SAMPLES
  Ttl,        \* ENROLL_TTL_SECONDS, the same on both sides
  MaxTime,    \* bound: the last instant of a run
  MaxUncleared, \* bound: how often the DELETE of one uid's request fails
  None

ASSUME EnrollmentAssumption ==
  /\ IsFiniteSet(Capture)
  /\ Target \in Nat \ {0} /\ Ttl \in Nat /\ MaxTime \in Nat /\ MaxUncleared \in Nat
  /\ None \notin Uid

VARIABLES
  now,         \* the clock
  status,      \* enroll_requests.status, or "none" without a row
  created,     \* enroll_requests.created_at
  bucket,      \* the gatekeeper's _pending_embeddings
  profile,     \* voice_embeddings: the samples averaged, {} without a row
  pc,          \* where a capture is suspended
  claimed,     \* the uid a capture works for
  full,        \* add_embedding returned at least the target to it
  batch,       \* the samples it has taken
  filed,       \* rows of pending_residents for the uid
  opening,     \* history: when the request a capture claimed was opened
  overtaken,   \* history: captures whose samples another one took first
  enrolled,    \* history: how often the profile was written
  uncleared    \* history: how often a resident was filed and the request stayed

request   == <<status, created>>
capture   == <<pc, claimed, full, batch>>
history   == <<opening, overtaken, enrolled, uncleared>>
vars      == <<now, request, bucket, profile, capture, filed, history>>

Open      == {"pending", "capturing"}
Suspended == {"claimed", "held", "counted", "taken", "enrolled", "failing"}

TypeOK ==
  /\ now \in 0 .. MaxTime
  /\ status \in [Uid -> {"none", "done", "failed"} \cup Open]
  /\ created \in [Uid -> 0 .. MaxTime]
  /\ bucket \in [Uid -> SUBSET Capture]
  /\ profile \in [Uid -> SUBSET Capture]
  /\ pc \in [Capture -> {"new", "over"} \cup Suspended]
  /\ claimed \in [Capture -> Uid \cup {None}]
  /\ full \in [Capture -> BOOLEAN]
  /\ batch \in [Capture -> SUBSET Capture]
  /\ filed \in [Uid -> Nat]
  /\ opening \in [Capture -> 0 .. MaxTime]
  /\ overtaken \in SUBSET Capture
  /\ enrolled \in [Uid -> Nat]
  /\ uncleared \in [Uid -> Nat]

Init ==
  /\ now = 0
  /\ status = [u \in Uid |-> "none"]
  /\ created = [u \in Uid |-> 0]
  /\ bucket = [u \in Uid |-> {}]
  /\ profile = [u \in Uid |-> {}]
  /\ pc = [c \in Capture |-> "new"]
  /\ claimed = [c \in Capture |-> None]
  /\ full = [c \in Capture |-> FALSE]
  /\ batch = [c \in Capture |-> {}]
  /\ filed = [u \in Uid |-> 0]
  /\ opening = [c \in Capture |-> 0]
  /\ overtaken = {}
  /\ enrolled = [u \in Uid |-> 0]
  /\ uncleared = [u \in Uid |-> 0]

\* Nothing but the clock moves.
Tick ==
  /\ now < MaxTime
  /\ now' = now + 1
  /\ UNCHANGED <<request, bucket, profile, capture, filed, history>>

-----------------------------------------------------------------------------
(* The engine's tools.                                                     *)

\* start_voice_enrollment: open_request inserts the row or resets it.
Start(u) ==
  /\ status' = [status EXCEPT ![u] = "pending"]
  /\ created' = [created EXCEPT ![u] = now]
  /\ UNCHANGED <<now, bucket, profile, capture, filed, history>>

\* clear_request, its DELETE carried out.  When it fails, the error is
\* swallowed and the row stays.
Clear(u) ==
  /\ status' = [status EXCEPT ![u] = "none"]
  /\ created' = [created EXCEPT ![u] = 0]
  /\ UNCHANGED <<now, bucket, profile, capture, opening, overtaken, enrolled>>

Expired(u) == created[u] + Ttl < now

\* register_pending_resident answers speaker_id_disabled: read_request says
\* timed_out.  With the DELETE failing, nothing changes.
RegisterTimedOut(u) ==
  /\ status[u] \in Open /\ Expired(u)
  /\ Clear(u) /\ UNCHANGED <<filed, uncleared>>

\* register_pending_resident answers enroll_failed; the same holds.
RegisterFailed(u) ==
  /\ status[u] = "failed"
  /\ Clear(u) /\ UNCHANGED <<filed, uncleared>>

\* Mutant of RegisterDone: the row is filed, the request is never cleared.
RegisterUncleared(u) ==
  /\ status[u] = "done"
  /\ filed' = [filed EXCEPT ![u] = @ + 1]
  /\ UNCHANGED <<now, request, bucket, profile, capture, history>>

\* register_pending_resident files the row.  The DELETE before it may fail
\* silently: the resident is filed, the request stays "done".  The INSERT, a
\* transaction of its own, may raise after the request is gone.
RegisterDone(u) ==
  /\ status[u] = "done"
  /\ \/ /\ Clear(u) /\ UNCHANGED uncleared
        /\ filed' \in {filed, [filed EXCEPT ![u] = @ + 1]}
     \/ /\ uncleared[u] < MaxUncleared
        /\ filed' = [filed EXCEPT ![u] = @ + 1]
        /\ uncleared' = [uncleared EXCEPT ![u] = @ + 1]
        /\ UNCHANGED <<now, request, bucket, profile, capture, opening, overtaken, enrolled>>

-----------------------------------------------------------------------------
(* The gatekeeper: one capture, from suspension to suspension.             *)

\* The WHERE of claim_active_request.
Fresh(u) == status[u] \in Open /\ created[u] + Ttl >= now

\* claim_active_request: the newest fresh request, marked capturing.  The
\* turn is over by then: its transcription, the speaker's identification and
\* the stash are awaited before, so that the window is the claim's, not the
\* speech's.
Claim(c, u) ==
  /\ pc[c] = "new"
  /\ Fresh(u)
  /\ \A other \in Uid : Fresh(other) => created[other] <= created[u]
  /\ status' = [status EXCEPT ![u] = "capturing"]
  /\ pc' = [pc EXCEPT ![c] = "claimed"]
  /\ claimed' = [claimed EXCEPT ![c] = u]
  /\ opening' = [opening EXCEPT ![c] = created[u]]
  /\ UNCHANGED <<now, created, bucket, profile, full, batch, filed,
                 overtaken, enrolled, uncleared>>

\* A capture is over and its coroutine's locals are gone.
Return(c) ==
  /\ pc' = [pc EXCEPT ![c] = "over"]
  /\ full' = [full EXCEPT ![c] = FALSE]
  /\ batch' = [batch EXCEPT ![c] = {}]

\* The extractor raises, or finds the audio too short or silent.
Skip(c) ==
  /\ pc[c] = "claimed"
  /\ Return(c)
  /\ UNCHANGED <<now, request, bucket, profile, claimed, filed, history>>

\* The embedding is there: add_embedding.
Hold(c) ==
  LET samples == bucket[claimed[c]] \cup {c} IN
  /\ pc[c] = "claimed"
  /\ bucket' = [bucket EXCEPT ![claimed[c]] = samples]
  /\ full' = [full EXCEPT ![c] = Cardinality(samples) >= Target]
  /\ pc' = [pc EXCEPT ![c] = "held"]
  /\ UNCHANGED <<now, request, profile, claimed, batch, filed, history>>

\* Mutant of Count: without a row to count in, the turn hangs.
CountRow(c) ==
  /\ pc[c] = "held"
  /\ status[claimed[c]] # "none"
  /\ IF full[c] THEN pc' = [pc EXCEPT ![c] = "counted"] /\ UNCHANGED <<full, batch>>
                ELSE Return(c)
  /\ UNCHANGED <<now, request, bucket, profile, claimed, filed, history>>

\* Mutant of Count: a capture short of the target goes on.
CountShort(c) ==
  /\ pc[c] = "held"
  /\ pc' = [pc EXCEPT ![c] = "counted"]
  /\ UNCHANGED <<now, request, bucket, profile, claimed, full, batch, filed, history>>

\* increment_collected, a number the tool only reports, is awaited; then a
\* capture short of the target is over.
Count(c) ==
  /\ pc[c] = "held"
  /\ IF full[c] THEN pc' = [pc EXCEPT ![c] = "counted"] /\ UNCHANGED <<full, batch>>
                ELSE Return(c)
  /\ UNCHANGED <<now, request, bucket, profile, claimed, filed, history>>

\* Mutant of Take: the bucket is copied, not popped.
TakeCopy(c) ==
  /\ pc[c] = "counted"
  /\ batch' = [batch EXCEPT ![c] = bucket[claimed[c]]]
  /\ pc' = [pc EXCEPT ![c] = "taken"]
  /\ UNCHANGED <<now, request, bucket, profile, claimed, full, filed, history>>

\* Captures of a uid that met the target and have not taken their samples yet.
Waiting(u) == {c \in Capture : claimed[c] = u /\ full[c] /\ pc[c] \in {"held", "counted"}}

\* take_embeddings: whatever the bucket holds by now, and nothing of it is
\* left for another capture that met the target.
Take(c) ==
  /\ pc[c] = "counted"
  /\ batch' = [batch EXCEPT ![c] = bucket[claimed[c]]]
  /\ bucket' = [bucket EXCEPT ![claimed[c]] = {}]
  /\ pc' = [pc EXCEPT ![c] = "taken"]
  /\ overtaken' = overtaken \cup (Waiting(claimed[c]) \ {c})
  /\ UNCHANGED <<now, request, profile, claimed, full, filed, opening, enrolled, uncleared>>

\* average_embeddings and upsert_embedding.
Enrol(c) ==
  /\ pc[c] = "taken" /\ batch[c] # {}
  /\ profile' = [profile EXCEPT ![claimed[c]] = batch[c]]
  /\ enrolled' = [enrolled EXCEPT ![claimed[c]] = @ + 1]
  /\ pc' = [pc EXCEPT ![c] = "enrolled"]
  /\ UNCHANGED <<now, request, bucket, claimed, full, batch, filed, opening, overtaken, uncleared>>

\* One of the two raises: no sample left, samples that cancel out, or the
\* database.
EnrolFails(c) ==
  /\ pc[c] = "taken"
  /\ pc' = [pc EXCEPT ![c] = "failing"]
  /\ UNCHANGED <<now, request, bucket, profile, claimed, full, batch, filed, history>>

\* finish_request by uid, whichever request that is by now; it does nothing
\* without a row or with the database locked.
Finish(c) ==
  LET u == claimed[c] IN
  /\ pc[c] \in {"enrolled", "failing"}
  /\ \/ /\ status[u] # "none"
        /\ status' = [status EXCEPT ![u] = IF pc[c] = "enrolled" THEN "done" ELSE "failed"]
     \/ UNCHANGED status
  /\ Return(c)
  /\ UNCHANGED <<now, created, bucket, profile, claimed, filed, history>>

\* The gatekeeper restarts: the dict and the turns are gone, the tables stay.
Restart ==
  /\ bucket' = [u \in Uid |-> {}]
  /\ pc' = [c \in Capture |-> IF pc[c] \in Suspended THEN "over" ELSE pc[c]]
  /\ full' = [c \in Capture |-> FALSE]
  /\ batch' = [c \in Capture |-> {}]
  /\ UNCHANGED <<now, request, profile, claimed, filed, history>>

-----------------------------------------------------------------------------
(* The specification.                                                      *)

CaptureStep(c) ==
  Skip(c) \/ Hold(c) \/ Count(c) \/ Take(c) \/ Enrol(c) \/ EnrolFails(c) \/ Finish(c)

Next ==
  \/ Tick
  \/ \E u \in Uid :
       Start(u) \/ RegisterTimedOut(u) \/ RegisterFailed(u) \/ RegisterDone(u)
  \/ \E c \in Capture :
       \/ \E u \in Uid : Claim(c, u)
       \/ CaptureStep(c)
  \/ Restart

Spec == Init /\ [][Next]_vars

(* Every to_thread call returns: the extractor works on a finite recording *)
(* and SQLite gives up on a lock.  Nobody has to speak or to register.     *)
FairSpec == Spec /\ \A c \in Capture : WF_vars(CaptureStep(c))

-----------------------------------------------------------------------------
(* All the places where a sample is.                                       *)

Place ==
  [c \in Capture |->
     (IF pc[c] = "new" THEN {<<"unheard", None>>} ELSE {})
       \cup (IF pc[c] = "claimed" THEN {<<"heard", claimed[c]>>} ELSE {})
       \cup {<<"kept", u>> : u \in {v \in Uid : c \in bucket[v]}}
       \cup {<<"averaged", d>> : d \in {e \in Capture : pc[e] = "taken" /\ c \in batch[e]}}
       \cup {<<"used", u>> : u \in {v \in Uid : c \in profile[v]}}]

Samples == INSTANCE SampleLifecycle WITH
  Sample <- Capture, place <- Place, of <- claimed

-----------------------------------------------------------------------------
(* Safety.                                                                 *)

\* Concurrent onboardings do not contaminate each other, and concurrent turns
\* of one do not use a sample twice: what a uid's bucket, batches and profile
\* hold was claimed for that uid, and a sample in use is in one place only.
SamplesStayApart ==
  /\ \A u \in Uid : \A c \in bucket[u] \cup profile[u] : claimed[c] = u
  /\ \A c \in Capture : pc[c] = "taken" =>
       \A d \in batch[c] :
         /\ claimed[d] = claimed[c]
         /\ d \notin bucket[claimed[c]]
         /\ \A other \in Capture \ {c} : pc[other] = "taken" => d \notin batch[other]

\* However requests, turns and restarts of the gatekeeper meet, every sample goes the
\* way SampleLifecycle describes, and is used for one candidate and once.
ImplementsSampleLifecycle == Samples!Spec

\* A profile is averaged "once the target sample count is reached": the count
\* is taken before an await and the samples after it, and still every capture
\* averages at least the target, and every profile stands on as many samples,
\* whatever was reset, expired or restarted meanwhile.  Exempt are captures
\* whose samples another capture of the same uid took between the two.
ProfilesComplete ==
  /\ \A c \in Capture \ overtaken :
       pc[c] \in {"taken", "enrolled"} => Cardinality(batch[c]) >= Target
  /\ \A u \in Uid :
       \/ profile[u] = {}
       \/ Cardinality(profile[u]) >= Target
       \/ \E c \in overtaken : claimed[c] = u

Owed(u) == {c \in Capture : claimed[c] = u /\ pc[c] = "enrolled"}

\* Each pending resident stands on an enrolment of its own: however requests
\* are reset, cleared and settled by late captures, never more residents are
\* filed than profiles were written, but for those whose request could not be
\* cleared: each DELETE that failed leaves one more to file.
EachResidentEnrolled ==
  \A u \in Uid :
    filed[u] + Cardinality(Owed(u)) + (IF status[u] = "done" THEN 1 ELSE 0)
      <= enrolled[u] + uncleared[u]

\* What open_request says ("zero samples collected"): a profile is averaged
\* from the samples of one request.  (Refuted: the reset leaves the bucket.)
ProfileOfOneRequest ==
  \A u \in Uid : \A c, d \in profile[u] : opening[c] = opening[d]

\* What the comment on the engine's ENROLL_TTL_SECONDS says: it does not
\* declare a timeout while a capture is still in flight.  (Refuted.)
NoTimeoutInFlight ==
  [][\A u \in Uid :
       status[u] \in Open /\ status'[u] = "none" =>
         \A c \in Capture : pc[c] \in Suspended => claimed[c] # u]_vars

-----------------------------------------------------------------------------
(* Liveness.                                                               *)

\* Whatever becomes of the request meanwhile, a captured turn comes to an end
\* and Home Assistant gets its transcript.
EveryCaptureReturns == \A c \in Capture : pc[c] \in Suspended ~> pc[c] = "over"
=============================================================================
