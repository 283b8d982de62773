-------------------------- MODULE EnrollmentProofs --------------------------
(***************************************************************************)
(* Proofs about Enrollment: type correctness and its safety invariants,    *)
(* for any candidates, any finite set of spoken turns, any target, window  *)
(* and bounds.                                                             *)
(***************************************************************************)
EXTENDS Enrollment, FiniteSetTheorems, TLAPS

\* A capture that has brought its sample.
Brought(c) == pc[c] \notin {"new", "claimed"}

\* A capture works for a uid from its claim on.
ClaimInv == \A c \in Capture : pc[c] # "new" => claimed[c] \in Uid

\* Samples: what lies in a bucket, a profile or a batch was brought for that
\* uid; a batch in use shares nothing with the bucket or with another one.
ApartInv ==
  /\ \A u \in Uid : \A c \in bucket[u] \cup profile[u] : claimed[c] = u /\ Brought(c)
  /\ \A c \in Capture : pc[c] = "taken" =>
       \A d \in batch[c] :
         /\ claimed[d] = claimed[c]
         /\ Brought(d)
         /\ d \notin bucket[claimed[c]]
         /\ \A other \in Capture \ {c} : pc[other] = "taken" => d \notin batch[other]

\* Samples are enough: a capture goes on only when full, what it counted is in
\* the bucket until somebody takes it, and a capture that was not overtaken
\* has taken it all.
CompleteInv ==
  /\ \A c \in Capture : pc[c] = "counted" => full[c]
  /\ \A c \in overtaken : pc[c] # "new"
  /\ \A c \in Capture \ overtaken :
       full[c] /\ pc[c] \in {"held", "counted"} => Cardinality(bucket[claimed[c]]) >= Target
  /\ ProfilesComplete
-----------------------------------------------------------------------------
(* Types.                                                                  *)

\* The initial values are of their types.
LEMMA TypeInit == Init => TypeOK
<1> SUFFICES ASSUME Init PROVE TypeOK
  OBVIOUS
<1>1. full \in [Capture -> BOOLEAN]
  BY DEF Init
<1> QED
  BY <1>1, EnrollmentAssumption DEF Init, TypeOK, Open, Suspended

\* Only a claim gives a capture its uid, and it keeps it.
LEMMA ClaimStep == TypeOK /\ ClaimInv /\ [Next]_vars => ClaimInv'
<1> SUFFICES ASSUME TypeOK, ClaimInv, [Next]_vars PROVE ClaimInv'
  OBVIOUS
<1> USE DEF ClaimInv, TypeOK, capture
<1>1. ASSUME NEW c \in Capture, NEW u \in Uid, Claim(c, u) PROVE ClaimInv'
  BY <1>1 DEF Claim
<1>2. ASSUME NEW c \in Capture, CaptureStep(c) PROVE ClaimInv'
  BY <1>2 DEF CaptureStep, Skip, Hold, Count, Take, Enrol, EnrolFails, Finish, Return
<1>3. CASE Restart
  BY <1>3 DEF Restart, Suspended
<1>4. ASSUME UNCHANGED <<pc, claimed>> PROVE ClaimInv'
  BY <1>4
<1> QED
  BY <1>1, <1>2, <1>3, <1>4
  DEF Next, Tick, Start, RegisterTimedOut, RegisterFailed, RegisterDone, Clear, vars

\* Every step keeps the types; Take and Enrol need the capture's uid.
LEMMA TypeStep == TypeOK /\ ClaimInv /\ [Next]_vars => TypeOK'
<1> SUFFICES ASSUME TypeOK, ClaimInv, [Next]_vars PROVE TypeOK'
  OBVIOUS
<1> USE EnrollmentAssumption DEF request, capture, history
<1>1. CASE Tick
  BY <1>1 DEF Tick, TypeOK
<1>2. ASSUME NEW u \in Uid, Start(u) PROVE TypeOK'
  BY <1>2 DEF Start, TypeOK, Open
<1>3. ASSUME NEW u \in Uid, Clear(u), UNCHANGED <<filed, uncleared>> PROVE TypeOK'
  BY <1>3 DEF Clear, TypeOK
<1>15. ASSUME NEW u \in Uid, RegisterDone(u) PROVE TypeOK'
  <2>1. filed' \in [Uid -> Nat] /\ uncleared' \in [Uid -> Nat]
    BY <1>15 DEF RegisterDone, TypeOK
  <2> QED
    BY <1>15, <2>1 DEF RegisterDone, Clear, TypeOK
<1>4. ASSUME NEW c \in Capture, NEW u \in Uid, Claim(c, u) PROVE TypeOK'
  <2>1. opening' \in [Capture -> 0 .. MaxTime]
    BY <1>4 DEF Claim, TypeOK
  <2>2. pc' \in [Capture -> {"new", "over"} \cup Suspended]
    BY <1>4 DEF Claim, TypeOK, Suspended
  <2> QED
    BY <1>4, <2>1, <2>2 DEF Claim, TypeOK, Open
<1>5. ASSUME NEW c \in Capture, Return(c)
      PROVE  /\ pc' \in [Capture -> {"new", "over"} \cup Suspended]
             /\ full' \in [Capture -> BOOLEAN]
             /\ batch' \in [Capture -> SUBSET Capture]
  <2>1. full' \in [Capture -> BOOLEAN]
    BY <1>5 DEF Return, TypeOK
  <2> QED
    BY <1>5, <2>1 DEF Return, TypeOK
<1>6. ASSUME NEW c \in Capture, Skip(c) PROVE TypeOK'
  <2>1. Return(c)
    BY <1>6 DEF Skip
  <2> QED
    BY <1>6, <2>1, <1>5 DEF Skip, TypeOK
<1>7. ASSUME NEW c \in Capture, Hold(c) PROVE TypeOK'
  <2> DEFINE samples == bucket[claimed[c]] \cup {c}
  <2>1. full' \in [Capture -> BOOLEAN]
    <3>1. (Cardinality(samples) >= Target) \in BOOLEAN
      OBVIOUS
    <3> QED
      BY <1>7, <3>1 DEF Hold, TypeOK
  <2>2. bucket' \in [Uid -> SUBSET Capture]
    BY <1>7 DEF Hold, TypeOK
  <2>3. pc' \in [Capture -> {"new", "over"} \cup Suspended]
    BY <1>7 DEF Hold, TypeOK, Suspended
  <2> QED
    BY <1>7, <2>1, <2>2, <2>3 DEF Hold, TypeOK
<1>8. ASSUME NEW c \in Capture, Count(c) PROVE TypeOK'
  <2>1. CASE full[c]
    BY <1>8, <2>1 DEF Count, TypeOK, Suspended
  <2>2. CASE ~full[c]
    <3>1. Return(c)
      BY <1>8, <2>2 DEF Count
    <3> QED
      BY <1>8, <3>1, <1>5 DEF Count, TypeOK
  <2> QED
    BY <2>1, <2>2
<1>9. ASSUME NEW c \in Capture, Take(c) PROVE TypeOK'
  <2>1. claimed[c] \in Uid
    BY <1>9 DEF Take, ClaimInv
  <2>2. overtaken' \in SUBSET Capture
    BY <1>9 DEF Take, Waiting, TypeOK
  <2> QED
    BY <1>9, <2>1, <2>2 DEF Take, TypeOK, Suspended
<1>10. ASSUME NEW c \in Capture, Enrol(c) PROVE TypeOK'
  <2>1. claimed[c] \in Uid
    BY <1>10 DEF Enrol, ClaimInv
  <2>2. profile' \in [Uid -> SUBSET Capture] /\ enrolled' \in [Uid -> Nat]
    BY <1>10, <2>1 DEF Enrol, TypeOK
  <2>3. pc' \in [Capture -> {"new", "over"} \cup Suspended]
    BY <1>10 DEF Enrol, TypeOK, Suspended
  <2> QED
    BY <1>10, <2>2, <2>3 DEF Enrol, TypeOK
<1>11. ASSUME NEW c \in Capture, EnrolFails(c) PROVE TypeOK'
  BY <1>11 DEF EnrolFails, TypeOK, Suspended
<1>12. ASSUME NEW c \in Capture, Finish(c) PROVE TypeOK'
  <2>1. Return(c)
    BY <1>12 DEF Finish
  <2>2. status' \in [Uid -> {"none", "done", "failed"} \cup Open]
    BY <1>12 DEF Finish, TypeOK
  <2> QED
    BY <1>12, <2>1, <2>2, <1>5 DEF Finish, TypeOK
<1>13. CASE Restart
  <2>1. full' \in [Capture -> BOOLEAN]
    BY <1>13 DEF Restart
  <2> QED
    BY <1>13, <2>1 DEF Restart, TypeOK
<1>14. CASE UNCHANGED vars
  BY <1>14 DEF vars, TypeOK
<1> QED
  BY <1>1, <1>2, <1>3, <1>4, <1>6, <1>7, <1>8, <1>9, <1>10, <1>11, <1>12, <1>13, <1>14, <1>15
  DEF Next, CaptureStep, RegisterTimedOut, RegisterFailed

\* Every variable of the enrolment keeps its type (the two tables, the dict
\* and the locals of _capture_enrollment).
THEOREM TypeCorrect == Spec => []TypeOK
<1>1. Init => ClaimInv
  BY DEF Init, ClaimInv
<1> QED
  BY <1>1, TypeInit, TypeStep, ClaimStep, PTL DEF Spec

-----------------------------------------------------------------------------
(* The steps that leave samples alone.                                     *)

\* A step that moves no sample, claims none and restarts nothing.
Quiet == UNCHANGED <<pc, claimed, bucket, profile, batch>>

\* No sample exists at the start.
LEMMA ApartInit == Init => ApartInv
BY DEF Init, ApartInv

\* Without a sample moving, nothing mixes.
LEMMA ApartQuiet == ApartInv /\ Quiet => ApartInv'
BY DEF ApartInv, Quiet, Brought

\* A capture moves on without touching a sample; only Take makes it "taken".
LEMMA ApartMove ==
  ASSUME TypeOK, ApartInv, NEW c \in Capture, NEW where \in {"over", "counted", "enrolled", "failing"},
         Brought(c) \/ where = "over",
         pc' = [pc EXCEPT ![c] = where],
         batch' = batch \/ batch' = [batch EXCEPT ![c] = {}],
         UNCHANGED <<claimed, bucket, profile>>
  PROVE  ApartInv'
<1>1. \A d \in Capture : Brought(d) => Brought(d)'
  BY DEF Brought, TypeOK
<1>2. \A d \in Capture : pc'[d] = "taken" => pc[d] = "taken" /\ batch'[d] = batch[d]
  BY DEF TypeOK
<1>3. ASSUME NEW u \in Uid, NEW d \in bucket'[u] \cup profile'[u]
      PROVE  claimed'[d] = u /\ Brought(d)'
  BY <1>1, <1>3 DEF ApartInv, TypeOK
<1>4. ASSUME NEW d \in Capture, pc'[d] = "taken", NEW e \in batch'[d]
      PROVE  /\ claimed'[e] = claimed'[d]
             /\ Brought(e)'
             /\ e \notin bucket'[claimed'[d]]
             /\ \A other \in Capture \ {d} : pc'[other] = "taken" => e \notin batch'[other]
  <2>1. e \in Capture
    BY <1>2, <1>4 DEF TypeOK
  <2> QED
    BY <1>1, <1>2, <1>4, <2>1 DEF ApartInv
<1> QED
  BY <1>3, <1>4 DEF ApartInv

\* Hold, Take and Enrol are the steps that move samples.
LEMMA ApartStep == TypeOK /\ ClaimInv /\ ApartInv /\ [Next]_vars => ApartInv'
<1> SUFFICES ASSUME TypeOK, ClaimInv, ApartInv, [Next]_vars PROVE ApartInv'
  OBVIOUS
<1> USE DEF capture, history, request
<1>1. ASSUME NEW c \in Capture, NEW u \in Uid, Claim(c, u) PROVE ApartInv'
  <2>1. \A d \in Capture : Brought(d) => Brought(d)' /\ claimed'[d] = claimed[d]
    BY <1>1 DEF Claim, Brought, TypeOK
  <2>2. \A d \in Capture : pc'[d] = "taken" => pc[d] = "taken" /\ claimed'[d] = claimed[d]
    BY <1>1 DEF Claim, TypeOK
  <2>3. \A v \in Uid : bucket[v] \cup profile[v] \subseteq Capture
    BY DEF TypeOK
  <2>4. \A d \in Capture : batch[d] \subseteq Capture
    BY DEF TypeOK
  <2>5. bucket' = bucket /\ profile' = profile /\ batch' = batch
    BY <1>1 DEF Claim
  <2> QED
    BY <2>1, <2>2, <2>3, <2>4, <2>5 DEF ApartInv
<1>2. ASSUME NEW c \in Capture, Skip(c) PROVE ApartInv'
  BY <1>2, ApartMove DEF Skip, Return
<1>3. ASSUME NEW c \in Capture, Hold(c) PROVE ApartInv'
  <2>1. claimed[c] \in Uid
    BY <1>3 DEF Hold, ClaimInv
  <2>2. \A d \in Capture : Brought(d) => Brought(d)'
    BY <1>3 DEF Hold, Brought, TypeOK
  <2>3. Brought(c)' /\ ~Brought(c)
    BY <1>3 DEF Hold, Brought, TypeOK
  <2>4. \A d \in Capture : pc'[d] = "taken" => pc[d] = "taken"
    BY <1>3 DEF Hold, TypeOK
  <2>5. \A u \in Uid : bucket'[u] \subseteq bucket[u] \cup {c} /\ (u # claimed[c] => bucket'[u] = bucket[u])
    BY <1>3, <2>1 DEF Hold, TypeOK
  <2>6. claimed' = claimed /\ profile' = profile /\ batch' = batch
    BY <1>3 DEF Hold
  <2>7. ASSUME NEW u \in Uid, NEW d \in bucket'[u] \cup profile'[u]
        PROVE  claimed'[d] = u /\ Brought(d)'
    <3>1. d \in bucket[u] \cup profile[u] \/ (d = c /\ u = claimed[c])
      BY <2>5, <2>6, <2>7
    <3>2. \A e \in bucket[u] \cup profile[u] : e \in Capture /\ claimed[e] = u /\ Brought(e)
      BY DEF ApartInv, TypeOK
    <3> QED
      BY <2>2, <2>3, <2>6, <3>1, <3>2
  <2>8. ASSUME NEW d \in Capture, pc'[d] = "taken", NEW e \in batch'[d]
        PROVE  /\ claimed'[e] = claimed'[d]
               /\ Brought(e)'
               /\ e \notin bucket'[claimed'[d]]
               /\ \A other \in Capture \ {d} : pc'[other] = "taken" => e \notin batch'[other]
    <3>1. pc[d] = "taken" /\ e \in batch[d] /\ e \in Capture /\ claimed[d] \in Uid
      BY <2>4, <2>6, <2>8 DEF TypeOK, ClaimInv
    <3>2. Brought(e) /\ e # c
      BY <2>3, <3>1 DEF ApartInv
    <3> QED
      BY <2>2, <2>4, <2>5, <2>6, <3>1, <3>2 DEF ApartInv
  <2> QED
    BY <2>7, <2>8 DEF ApartInv
<1>4. ASSUME NEW c \in Capture, Count(c) PROVE ApartInv'
  <2>1. Brought(c)
    BY <1>4 DEF Count, Brought
  <2> QED
    BY <1>4, <2>1, ApartMove DEF Count, Return
<1>5. ASSUME NEW c \in Capture, Take(c) PROVE ApartInv'
  <2>1. claimed[c] \in Uid /\ pc[c] = "counted"
    BY <1>5 DEF Take, ClaimInv
  <2>2. \A d \in Capture : Brought(d) <=> Brought(d)'
    BY <1>5 DEF Take, Brought, TypeOK
  <2>3. /\ pc' = [pc EXCEPT ![c] = "taken"]
        /\ batch' = [batch EXCEPT ![c] = bucket[claimed[c]]]
        /\ bucket' = [bucket EXCEPT ![claimed[c]] = {}]
        /\ UNCHANGED <<claimed, profile>>
    BY <1>5 DEF Take
  <2>4. ASSUME NEW u \in Uid, NEW d \in bucket'[u] \cup profile'[u]
        PROVE  claimed'[d] = u /\ Brought(d)'
    <3>1. d \in bucket[u] \cup profile[u] /\ d \in Capture
      BY <2>1, <2>3, <2>4 DEF TypeOK
    <3> QED
      BY <2>2, <2>3, <3>1 DEF ApartInv
  <2>5. ASSUME NEW d \in Capture, pc'[d] = "taken", NEW e \in batch'[d]
        PROVE  /\ claimed'[e] = claimed'[d]
               /\ Brought(e)'
               /\ e \notin bucket'[claimed'[d]]
               /\ \A other \in Capture \ {d} : pc'[other] = "taken" => e \notin batch'[other]
    <3>1. CASE d = c
      <4>1. e \in bucket[claimed[c]] /\ e \in Capture
        BY <2>1, <2>3, <2>5, <3>1 DEF TypeOK
      <4>2. claimed[e] = claimed[c] /\ Brought(e) /\ bucket'[claimed[c]] = {}
        BY <2>1, <2>3, <4>1 DEF ApartInv, TypeOK
      <4>3. ASSUME NEW other \in Capture \ {c}, pc'[other] = "taken", e \in batch'[other]
            PROVE  FALSE
        <5>1. pc[other] = "taken" /\ e \in batch[other]
          BY <2>3, <4>3 DEF TypeOK
        <5> QED
          BY <4>1, <4>2, <5>1 DEF ApartInv
      <4> QED
        BY <2>2, <2>3, <3>1, <4>1, <4>2, <4>3
    <3>2. CASE d # c
      <4>1. pc[d] = "taken" /\ e \in batch[d] /\ e \in Capture /\ claimed[d] \in Uid
        BY <2>3, <2>5, <3>2 DEF TypeOK, ClaimInv
      <4>2. claimed[e] = claimed[d] /\ Brought(e) /\ e \notin bucket[claimed[d]]
        BY <4>1 DEF ApartInv
      <4>3. e \notin bucket[claimed[c]]
        BY <2>1, <4>1, <4>2 DEF ApartInv
      <4>4. e \notin bucket'[claimed[d]]
        BY <2>1, <2>3, <4>1, <4>2 DEF TypeOK
      <4>5. \A other \in Capture \ {d} : pc'[other] = "taken" => e \notin batch'[other]
        BY <2>3, <4>1, <4>3 DEF ApartInv, TypeOK
      <4> QED
        BY <2>2, <2>3, <4>1, <4>2, <4>4, <4>5
    <3> QED
      BY <3>1, <3>2
  <2> QED
    BY <2>4, <2>5 DEF ApartInv
<1>6. ASSUME NEW c \in Capture, Enrol(c) PROVE ApartInv'
  <2>1. claimed[c] \in Uid /\ pc[c] = "taken"
    BY <1>6 DEF Enrol, ClaimInv
  <2>2. \A d \in Capture : Brought(d) <=> Brought(d)'
    BY <1>6 DEF Enrol, Brought, TypeOK
  <2>3. /\ pc' = [pc EXCEPT ![c] = "enrolled"]
        /\ profile' = [profile EXCEPT ![claimed[c]] = batch[c]]
        /\ UNCHANGED <<claimed, bucket, batch>>
    BY <1>6 DEF Enrol
  <2>4. ASSUME NEW u \in Uid, NEW d \in bucket'[u] \cup profile'[u]
        PROVE  claimed'[d] = u /\ Brought(d)'
    <3>1. d \in Capture /\ (d \in bucket[u] \cup profile[u] \/ (d \in batch[c] /\ u = claimed[c]))
      BY <2>1, <2>3, <2>4 DEF TypeOK
    <3> QED
      BY <2>1, <2>2, <2>3, <3>1 DEF ApartInv
  <2>5. \A d \in Capture : pc'[d] = "taken" => pc[d] = "taken"
    BY <2>3 DEF TypeOK
  <2>6. \A d \in Capture : batch[d] \subseteq Capture
    BY DEF TypeOK
  <2> QED
    BY <2>2, <2>3, <2>4, <2>5, <2>6 DEF ApartInv
<1>7. ASSUME NEW c \in Capture, EnrolFails(c) PROVE ApartInv'
  <2>1. Brought(c)
    BY <1>7 DEF EnrolFails, Brought
  <2> QED
    BY <1>7, <2>1, ApartMove DEF EnrolFails
<1>8. ASSUME NEW c \in Capture, Finish(c) PROVE ApartInv'
  BY <1>8, ApartMove DEF Finish, Return
<1>9. CASE Restart
  <2>1. \A d \in Capture : (Brought(d) => Brought(d)') /\ pc'[d] # "taken"
    BY <1>9 DEF Restart, Brought, Suspended
  <2>2. \A u \in Uid : bucket'[u] = {} /\ profile'[u] = profile[u] /\ profile[u] \subseteq Capture
    BY <1>9 DEF Restart, TypeOK
  <2>3. claimed' = claimed
    BY <1>9 DEF Restart
  <2> QED
    BY <2>1, <2>2, <2>3 DEF ApartInv
<1>10. ASSUME Quiet PROVE ApartInv'
  BY <1>10, ApartQuiet
<1> QED
  BY <1>1, <1>2, <1>3, <1>4, <1>5, <1>6, <1>7, <1>8, <1>9, <1>10
  DEF Next, CaptureStep, Tick, Start, RegisterTimedOut, RegisterFailed, RegisterDone, Clear, Quiet, vars

\* Onboardings do not contaminate each other and no sample is used twice at
\* once (_pending_embeddings, take_embeddings, _capture_enrollment).
THEOREM SamplesApart == Spec => []SamplesStayApart
<1>1. Init => ClaimInv
  BY DEF Init, ClaimInv
<1>2. ApartInv => SamplesStayApart
  BY DEF ApartInv, SamplesStayApart
<1> QED
  BY <1>1, <1>2, TypeInit, TypeStep, ClaimStep, ApartInit, ApartStep, PTL DEF Spec

-----------------------------------------------------------------------------
(* Samples enough.                                                         *)

\* A bucket is finite, and counts as a number.
LEMMA CountOf ==
  ASSUME NEW S \in SUBSET Capture
  PROVE  IsFiniteSet(S) /\ Cardinality(S) \in Nat
BY EnrollmentAssumption, FS_Subset, FS_CardinalityType

\* Nothing is full and nothing averaged at the start.
LEMMA CompleteInit == Init => CompleteInv
BY DEF Init, CompleteInv, ProfilesComplete

\* A step that moves no samples, overtakes nobody and lets no capture on
\* keeps what was complete.
LEMMA CompleteKept ==
  ASSUME TypeOK, CompleteInv,
         UNCHANGED <<bucket, profile, overtaken>>,
         \A d \in Capture :
           \/ pc'[d] \in {"over", "claimed", "failing"}
           \/ pc'[d] = pc[d] /\ claimed'[d] = claimed[d] /\ full'[d] = full[d] /\ batch'[d] = batch[d]
           \/ /\ pc[d] = "held" /\ pc'[d] = "counted" /\ full[d]
              /\ claimed'[d] = claimed[d] /\ full'[d] = full[d] /\ batch'[d] = batch[d],
         \A d \in Capture : pc[d] # "new" => pc'[d] # "new" /\ claimed'[d] = claimed[d]
  PROVE  CompleteInv'
<1>1. \A d \in Capture : pc'[d] = "counted" => full'[d]
  BY DEF CompleteInv
<1>2. \A d \in overtaken : pc[d] # "new" /\ pc'[d] # "new" /\ claimed'[d] = claimed[d]
  BY DEF CompleteInv, TypeOK
<1>3. ASSUME NEW d \in Capture \ overtaken, full'[d], pc'[d] \in {"held", "counted"}
      PROVE  Cardinality(bucket'[claimed'[d]]) >= Target
  BY <1>3 DEF CompleteInv
<1>4. ASSUME NEW d \in Capture \ overtaken, pc'[d] \in {"taken", "enrolled"}
      PROVE  Cardinality(batch'[d]) >= Target
  BY <1>4 DEF CompleteInv, ProfilesComplete
<1>5. ASSUME NEW u \in Uid
      PROVE  \/ profile'[u] = {}
             \/ Cardinality(profile'[u]) >= Target
             \/ \E c \in overtaken' : claimed'[c] = u
  BY <1>2 DEF CompleteInv, ProfilesComplete
<1> QED
  BY <1>1, <1>2, <1>3, <1>4, <1>5 DEF CompleteInv, ProfilesComplete

\* Hold counts what it leaves in the bucket; Take leaves nothing to those it
\* overtakes; Enrol writes what was taken.
LEMMA CompleteStep ==
  TypeOK /\ ClaimInv /\ CompleteInv /\ [Next]_vars => CompleteInv'
<1> SUFFICES ASSUME TypeOK, ClaimInv, CompleteInv, [Next]_vars PROVE CompleteInv'
  OBVIOUS
<1> USE EnrollmentAssumption DEF capture, history, request
<1>1. ASSUME NEW c \in Capture, NEW u \in Uid, Claim(c, u) PROVE CompleteInv'
  BY <1>1, CompleteKept DEF Claim, TypeOK
<1>2. ASSUME NEW c \in Capture, Skip(c) \/ Finish(c) PROVE CompleteInv'
  BY <1>2, CompleteKept DEF Skip, Finish, Return, TypeOK
<1>3. ASSUME NEW c \in Capture, EnrolFails(c) PROVE CompleteInv'
  BY <1>3, CompleteKept DEF EnrolFails, TypeOK
<1>4. ASSUME NEW c \in Capture, Count(c) PROVE CompleteInv'
  BY <1>4, CompleteKept DEF Count, Return, TypeOK
<1>5. CASE Restart
  <2>1. bucket' = [u \in Uid |-> {}] /\ full' = [d \in Capture |-> FALSE]
        /\ UNCHANGED <<profile, overtaken, claimed>>
    BY <1>5 DEF Restart
  <2>2. \A d \in Capture : pc'[d] \in {"new", "over"} /\ (pc[d] # "new" => pc'[d] # "new")
    BY <1>5 DEF Restart, TypeOK
  <2> QED
    BY <2>1, <2>2 DEF CompleteInv, ProfilesComplete, TypeOK
<1>6. ASSUME NEW c \in Capture, Hold(c) PROVE CompleteInv'
  <2>1. claimed[c] \in Uid /\ pc[c] = "claimed"
    BY <1>6 DEF Hold, ClaimInv
  <2>2. /\ pc' = [pc EXCEPT ![c] = "held"]
        /\ bucket' = [bucket EXCEPT ![claimed[c]] = @ \cup {c}]
        /\ full' = [full EXCEPT ![c] = Cardinality(bucket[claimed[c]] \cup {c}) >= Target]
        /\ UNCHANGED <<profile, claimed, batch, overtaken>>
    BY <1>6 DEF Hold
  <2>3. \A u \in Uid : bucket[u] \subseteq bucket'[u] /\ bucket'[u] \in SUBSET Capture
    BY <2>1, <2>2 DEF TypeOK
  <2>4. \A u \in Uid : Cardinality(bucket[u]) <= Cardinality(bucket'[u])
    BY <2>3, CountOf, FS_Subset
  <2>5. ASSUME NEW d \in Capture \ overtaken', full'[d], pc'[d] \in {"held", "counted"}
        PROVE  Cardinality(bucket'[claimed'[d]]) >= Target
    <3>1. CASE d = c
      <4>1. bucket'[claimed[c]] = bucket[claimed[c]] \cup {c}
        BY <2>1, <2>2 DEF TypeOK
      <4>2. full'[c] = (Cardinality(bucket[claimed[c]] \cup {c}) >= Target)
        BY <2>2 DEF TypeOK
      <4> QED
        BY <2>2, <2>5, <3>1, <4>1, <4>2
    <3>2. CASE d # c
      <4>1. full[d] /\ pc[d] \in {"held", "counted"}
        BY <2>2, <2>5, <3>2 DEF TypeOK
      <4>2. Cardinality(bucket[claimed[d]]) >= Target /\ claimed[d] \in Uid
        BY <2>2, <2>5, <4>1 DEF CompleteInv, ClaimInv
      <4>3. Cardinality(bucket[claimed[d]]) \in Nat /\ Cardinality(bucket'[claimed[d]]) \in Nat
        BY <2>3, <4>2, CountOf DEF TypeOK
      <4> QED
        BY <2>2, <2>4, <4>2, <4>3
    <3> QED
      BY <3>1, <3>2
  <2>6. \A d \in Capture : pc'[d] \in {"counted", "taken", "enrolled"} => pc'[d] = pc[d] /\ d # c
    BY <2>2 DEF TypeOK
  <2>7. \A d \in Capture : pc'[d] = "counted" => full'[d]
    BY <2>2, <2>6 DEF CompleteInv, TypeOK
  <2>8. \A d \in overtaken' : pc'[d] # "new"
    BY <2>2 DEF CompleteInv, TypeOK
  <2>9. ProfilesComplete'
    BY <2>2, <2>6 DEF CompleteInv, ProfilesComplete
  <2> QED
    BY <2>5, <2>7, <2>8, <2>9 DEF CompleteInv
<1>7. ASSUME NEW c \in Capture, Take(c) PROVE CompleteInv'
  <2>1. claimed[c] \in Uid /\ pc[c] = "counted" /\ full[c]
    BY <1>7 DEF Take, ClaimInv, CompleteInv
  <2>2. /\ pc' = [pc EXCEPT ![c] = "taken"]
        /\ batch' = [batch EXCEPT ![c] = bucket[claimed[c]]]
        /\ bucket' = [bucket EXCEPT ![claimed[c]] = {}]
        /\ overtaken' = overtaken \cup (Waiting(claimed[c]) \ {c})
        /\ UNCHANGED <<profile, claimed, full>>
    BY <1>7 DEF Take
  <2>3. c \in overtaken' => c \in overtaken
    BY <2>2
  <2>4. \A d \in Capture \ {c} : pc'[d] = pc[d] /\ batch'[d] = batch[d]
    BY <2>2 DEF TypeOK
  <2>5. pc'[c] = "taken" /\ batch'[c] = bucket[claimed[c]]
    BY <2>2 DEF TypeOK
  <2>6. ASSUME NEW d \in Capture \ overtaken', full'[d], pc'[d] \in {"held", "counted"}
        PROVE  Cardinality(bucket'[claimed'[d]]) >= Target
    <3>1. d # c /\ pc[d] \in {"held", "counted"} /\ full[d]
      BY <2>2, <2>4, <2>5, <2>6
    <3>2. d \notin Waiting(claimed[c]) /\ d \notin overtaken
      BY <2>2, <2>6, <3>1
    <3>3. claimed[d] # claimed[c] /\ claimed[d] \in Uid
      BY <3>1, <3>2 DEF Waiting, ClaimInv
    <3>4. bucket'[claimed[d]] = bucket[claimed[d]]
      BY <2>2, <3>3 DEF TypeOK
    <3> QED
      BY <2>2, <3>1, <3>2, <3>4 DEF CompleteInv
  <2>7. ASSUME NEW d \in Capture \ overtaken', pc'[d] \in {"taken", "enrolled"}
        PROVE  Cardinality(batch'[d]) >= Target
    <3>1. d \notin overtaken
      BY <2>2, <2>7
    <3>2. CASE d = c
      BY <2>1, <2>5, <3>1, <3>2 DEF CompleteInv
    <3>3. CASE d # c
      BY <2>4, <2>7, <3>1, <3>3 DEF CompleteInv, ProfilesComplete
    <3> QED
      BY <3>2, <3>3
  <2>8. \A d \in overtaken' : pc'[d] # "new"
    BY <2>2, <2>4, <2>5 DEF CompleteInv, Waiting, TypeOK
  <2>9. \A d \in Capture : pc'[d] = "counted" => full'[d]
    BY <2>2, <2>4, <2>5 DEF CompleteInv
  <2>10. \A u \in Uid : \/ profile'[u] = {}
                        \/ Cardinality(profile'[u]) >= Target
                        \/ \E d \in overtaken' : claimed'[d] = u
    BY <2>2 DEF CompleteInv, ProfilesComplete
  <2> QED
    BY <2>6, <2>7, <2>8, <2>9, <2>10 DEF CompleteInv, ProfilesComplete
<1>8. ASSUME NEW c \in Capture, Enrol(c) PROVE CompleteInv'
  <2>1. claimed[c] \in Uid /\ pc[c] = "taken"
    BY <1>8 DEF Enrol, ClaimInv
  <2>2. /\ pc' = [pc EXCEPT ![c] = "enrolled"]
        /\ profile' = [profile EXCEPT ![claimed[c]] = batch[c]]
        /\ UNCHANGED <<bucket, claimed, full, batch, overtaken>>
    BY <1>8 DEF Enrol
  <2>3. \A d \in Capture : pc'[d] \notin {"taken", "enrolled"} => pc'[d] = pc[d]
    BY <2>2 DEF TypeOK
  <2>4. \A d \in Capture : pc'[d] \in {"taken", "enrolled"} => pc[d] \in {"taken", "enrolled"}
    BY <2>1, <2>2 DEF TypeOK
  <2>5. c \notin overtaken => Cardinality(batch[c]) >= Target
    BY <2>1 DEF CompleteInv, ProfilesComplete
  <2>6. ASSUME NEW u \in Uid
        PROVE  \/ profile'[u] = {}
               \/ Cardinality(profile'[u]) >= Target
               \/ \E d \in overtaken' : claimed'[d] = u
    <3>1. CASE u = claimed[c]
      <4>1. profile'[u] = batch[c]
        BY <2>1, <2>2, <3>1 DEF TypeOK
      <4> QED
        BY <2>2, <2>5, <3>1, <4>1
    <3>2. CASE u # claimed[c]
      <4>1. profile'[u] = profile[u]
        BY <2>2, <3>2 DEF TypeOK
      <4> QED
        BY <2>2, <4>1 DEF CompleteInv, ProfilesComplete
    <3> QED
      BY <3>1, <3>2
  <2>7. \A d \in overtaken' : pc'[d] # "new"
    BY <2>2 DEF CompleteInv, TypeOK
  <2>8. \A d \in Capture : pc'[d] = "counted" => full'[d]
    BY <2>2, <2>3 DEF CompleteInv
  <2>9. \A d \in Capture \ overtaken' :
          full'[d] /\ pc'[d] \in {"held", "counted"} => Cardinality(bucket'[claimed'[d]]) >= Target
    BY <2>2, <2>3 DEF CompleteInv
  <2>10. \A d \in Capture \ overtaken' :
           pc'[d] \in {"taken", "enrolled"} => Cardinality(batch'[d]) >= Target
    BY <2>2, <2>4 DEF CompleteInv, ProfilesComplete
  <2> QED
    BY <2>6, <2>7, <2>8, <2>9, <2>10 DEF CompleteInv, ProfilesComplete
<1>9. ASSUME UNCHANGED <<bucket, profile, capture, overtaken>> PROVE CompleteInv'
  BY <1>9 DEF CompleteInv, ProfilesComplete
<1> QED
  BY <1>1, <1>2, <1>3, <1>4, <1>5, <1>6, <1>7, <1>8, <1>9
  DEF Next, CaptureStep, Tick, Start, RegisterTimedOut, RegisterFailed, RegisterDone, Clear, vars

\* A profile stands on the target number of samples, unless two captures
\* that met the target took them one after the other (add_embedding,
\* take_embeddings, _capture_enrollment).
THEOREM ProfilesAreComplete == Spec => []ProfilesComplete
<1>1. Init => ClaimInv
  BY DEF Init, ClaimInv
<1>2. CompleteInv => ProfilesComplete
  BY DEF CompleteInv
<1> QED
  BY <1>1, <1>2, TypeInit, TypeStep, ClaimStep, CompleteInit, CompleteStep, PTL DEF Spec

-----------------------------------------------------------------------------
(* Residents.                                                              *)

\* Nothing is filed and nothing owed at the start.
LEMMA ResidentInit == Init => EachResidentEnrolled
<1> SUFFICES ASSUME Init, NEW u \in Uid
             PROVE  filed[u] + Cardinality(Owed(u)) + (IF status[u] = "done" THEN 1 ELSE 0)
                      <= enrolled[u] + uncleared[u]
  BY DEF EachResidentEnrolled
<1>1. Owed(u) = {}
  BY DEF Init, Owed
<1> QED
  BY <1>1, FS_EmptySet DEF Init

\* Finitely many captures owe the request an outcome.
LEMMA OwedIsFinite == ASSUME NEW u \in Uid PROVE IsFiniteSet(Owed(u)) /\ Cardinality(Owed(u)) \in Nat
<1>1. Owed(u) \in SUBSET Capture
  BY DEF Owed
<1> QED
  BY <1>1, EnrollmentAssumption, FS_Subset, FS_CardinalityType

\* A step that owes no more, settles no more and files no more keeps the count.
LEMMA ResidentQuiet ==
  ASSUME TypeOK, TypeOK', EachResidentEnrolled,
         NEW u \in Uid,
         Owed(u)' \subseteq Owed(u),
         filed'[u] = filed[u], enrolled'[u] = enrolled[u], uncleared'[u] = uncleared[u],
         status'[u] = "done" => status[u] = "done"
  PROVE  filed'[u] + Cardinality(Owed(u)') + (IF status'[u] = "done" THEN 1 ELSE 0)
           <= enrolled'[u] + uncleared'[u]
<1>1. Cardinality(Owed(u)') <= Cardinality(Owed(u)) /\ Cardinality(Owed(u)') \in Nat
  BY OwedIsFinite, FS_Subset, FS_CardinalityType
<1>2. filed[u] + Cardinality(Owed(u)) + (IF status[u] = "done" THEN 1 ELSE 0)
        <= enrolled[u] + uncleared[u]
  BY DEF EachResidentEnrolled
<1>3. filed[u] \in Nat /\ enrolled[u] \in Nat /\ uncleared[u] \in Nat /\ Cardinality(Owed(u)) \in Nat
  BY OwedIsFinite DEF TypeOK
<1> QED
  BY <1>1, <1>2, <1>3

\* Enrol raises both sides; Finish and RegisterDone only move the debt.
LEMMA ResidentStep ==
  TypeOK /\ TypeOK' /\ ClaimInv /\ EachResidentEnrolled /\ [Next]_vars => EachResidentEnrolled'
<1> SUFFICES ASSUME TypeOK, TypeOK', ClaimInv, EachResidentEnrolled, [Next]_vars, NEW u \in Uid
             PROVE  filed'[u] + Cardinality(Owed(u)') + (IF status'[u] = "done" THEN 1 ELSE 0)
                      <= enrolled'[u] + uncleared'[u]
  BY DEF EachResidentEnrolled
<1> DEFINE Kept == filed'[u] + Cardinality(Owed(u)') + (IF status'[u] = "done" THEN 1 ELSE 0)
                     <= enrolled'[u] + uncleared'[u]
<1> USE DEF capture, history, request
<1>1. filed[u] + Cardinality(Owed(u)) + (IF status[u] = "done" THEN 1 ELSE 0)
        <= enrolled[u] + uncleared[u]
  BY DEF EachResidentEnrolled
<1>2. /\ filed[u] \in Nat /\ enrolled[u] \in Nat /\ uncleared[u] \in Nat
      /\ Cardinality(Owed(u)) \in Nat /\ IsFiniteSet(Owed(u))
  BY OwedIsFinite DEF TypeOK
<1>3. ASSUME UNCHANGED <<pc, claimed, filed, enrolled, uncleared>>,
             status'[u] = "done" => status[u] = "done"
      PROVE  Kept
  <2>1. Owed(u)' = Owed(u)
    BY <1>3 DEF Owed
  <2> QED
    BY <1>3, <2>1, ResidentQuiet
<1>4. ASSUME NEW v \in Uid, Start(v) PROVE Kept
  BY <1>3, <1>4 DEF Start, TypeOK
<1>5. ASSUME NEW v \in Uid, Clear(v), UNCHANGED <<filed, uncleared>> PROVE Kept
  BY <1>3, <1>5 DEF Clear, TypeOK
<1>6. ASSUME NEW v \in Uid, RegisterDone(v) PROVE Kept
  <2>1. Owed(u)' = Owed(u) /\ enrolled' = enrolled
    BY <1>6 DEF RegisterDone, Clear, Owed
  <2>2. CASE u # v
    <3>1. filed'[u] = filed[u] /\ status'[u] = status[u] /\ uncleared'[u] = uncleared[u]
      BY <1>6, <2>2 DEF RegisterDone, Clear, TypeOK
    <3> QED
      BY <2>1, <3>1, ResidentQuiet
  <2>3. CASE u = v /\ Clear(v) /\ UNCHANGED uncleared
    <3>1. status[u] = "done" /\ status'[u] = "none"
      BY <1>6, <2>3 DEF RegisterDone, Clear, TypeOK
    <3>2. filed'[u] \in {filed[u], filed[u] + 1}
      BY <1>6, <2>3 DEF RegisterDone, TypeOK
    <3> QED
      BY <1>1, <1>2, <2>1, <2>3, <3>1, <3>2
  <2>4. CASE u = v /\ filed' = [filed EXCEPT ![v] = @ + 1]
             /\ uncleared' = [uncleared EXCEPT ![v] = @ + 1] /\ UNCHANGED request
    <3>1. filed'[u] = filed[u] + 1 /\ uncleared'[u] = uncleared[u] + 1 /\ status'[u] = status[u]
      BY <2>4 DEF TypeOK
    <3> QED
      BY <1>1, <1>2, <2>1, <3>1
  <2> QED
    BY <1>6, <2>2, <2>3, <2>4 DEF RegisterDone
<1>7. ASSUME NEW c \in Capture, NEW where \in {"claimed", "held", "counted", "taken", "failing", "over"},
             pc' = [pc EXCEPT ![c] = where],
             \A d \in Capture \ {c} : claimed'[d] = claimed[d],
             UNCHANGED <<filed, enrolled, uncleared>>,
             status'[u] = "done" => status[u] = "done"
      PROVE  Kept
  <2>1. Owed(u)' \subseteq Owed(u)
    BY <1>7 DEF Owed, TypeOK
  <2> QED
    BY <1>7, <2>1, ResidentQuiet
<1>8. ASSUME NEW c \in Capture, NEW v \in Uid, Claim(c, v) PROVE Kept
  BY <1>7, <1>8 DEF Claim, TypeOK
<1>9. ASSUME NEW c \in Capture, Skip(c) \/ Hold(c) \/ Count(c) \/ Take(c) \/ EnrolFails(c) PROVE Kept
  BY <1>7, <1>9 DEF Skip, Hold, Count, Take, EnrolFails, Return
<1>10. ASSUME NEW c \in Capture, Enrol(c) PROVE Kept
  <2>1. pc[c] = "taken" /\ claimed[c] \in Uid
    BY <1>10 DEF Enrol, ClaimInv
  <2>2. UNCHANGED <<filed, status, claimed, uncleared>>
    BY <1>10 DEF Enrol
  <2>3. CASE u = claimed[c]
    <3>1. Owed(u)' = Owed(u) \cup {c} /\ c \notin Owed(u)
      BY <1>10, <2>1, <2>2, <2>3 DEF Owed, Enrol, TypeOK
    <3>2. Cardinality(Owed(u)') = Cardinality(Owed(u)) + 1
      BY <1>2, <3>1, FS_AddElement
    <3>3. enrolled'[u] = enrolled[u] + 1
      BY <1>10, <2>1, <2>3 DEF Enrol, TypeOK
    <3> QED
      BY <1>1, <1>2, <2>2, <3>2, <3>3
  <2>4. CASE u # claimed[c]
    <3>1. Owed(u)' \subseteq Owed(u)
      BY <1>10, <2>2, <2>4 DEF Owed, Enrol, TypeOK
    <3>2. enrolled'[u] = enrolled[u]
      BY <1>10, <2>1, <2>4 DEF Enrol, TypeOK
    <3> QED
      BY <2>2, <3>1, <3>2, ResidentQuiet
  <2> QED
    BY <2>3, <2>4
<1>11. ASSUME NEW c \in Capture, Finish(c) PROVE Kept
  <2>1. /\ pc' = [pc EXCEPT ![c] = "over"]
        /\ UNCHANGED <<filed, enrolled, uncleared, claimed>>
    BY <1>11 DEF Finish, Return
  <2>2. CASE status'[u] = "done" => status[u] = "done"
    BY <1>7, <2>1, <2>2
  <2>3. CASE status'[u] = "done" /\ status[u] # "done"
    <3>1. claimed[c] = u /\ pc[c] = "enrolled"
      BY <1>11, <2>3 DEF Finish, TypeOK
    <3>2. Owed(u)' = Owed(u) \ {c} /\ c \in Owed(u)
      BY <2>1, <3>1 DEF Owed, TypeOK
    <3>3. Cardinality(Owed(u)') = Cardinality(Owed(u)) - 1
      BY <1>2, <3>2, FS_RemoveElement
    <3> QED
      BY <1>1, <1>2, <2>1, <2>3, <3>3
  <2> QED
    BY <2>2, <2>3
<1>12. CASE Restart
  <2>1. Owed(u)' \subseteq Owed(u)
    BY <1>12 DEF Restart, Owed, Suspended
  <2> QED
    BY <1>12, <2>1, ResidentQuiet DEF Restart
<1>13. CASE Tick \/ UNCHANGED vars
  BY <1>3, <1>13 DEF Tick, vars
<1> QED
  BY <1>4, <1>5, <1>6, <1>8, <1>9, <1>10, <1>11, <1>12, <1>13
  DEF Next, CaptureStep, RegisterTimedOut, RegisterFailed

\* Every filed resident stands on an enrolment of its own
\* (register_pending_resident, finish_request).
THEOREM ResidentsAreEnrolled == Spec => []EachResidentEnrolled
<1>1. Init => ClaimInv
  BY DEF Init, ClaimInv
<1> QED
  BY <1>1, TypeInit, TypeStep, ClaimStep, ResidentInit, ResidentStep, PTL DEF Spec

-----------------------------------------------------------------------------
(* One use for each sample.                                                *)

\* What is in a profile is in no bucket and in no batch in use.
UsedInv ==
  \A u \in Uid : \A d \in profile[u] :
    /\ d \notin bucket[u]
    /\ \A c \in Capture : pc[c] = "taken" => d \notin batch[c]

SampleInv == TypeOK /\ ClaimInv /\ ApartInv /\ UsedInv

\* No profile at the start.
LEMMA SampleInit == Init => SampleInv
<1>1. Init => ClaimInv /\ UsedInv
  BY DEF Init, ClaimInv, UsedInv
<1> QED
  BY <1>1, TypeInit, ApartInit DEF SampleInv

\* Without a new profile, sample or batch, a profile shares nothing more.
LEMMA UsedKept ==
  ASSUME UsedInv, UNCHANGED profile,
         \A u \in Uid : bucket'[u] \subseteq bucket[u],
         \A c \in Capture : pc'[c] = "taken" => pc[c] = "taken" /\ batch'[c] = batch[c]
  PROVE  UsedInv'
BY DEF UsedInv

\* Only a fresh sample is held, and a batch in use, once averaged, is not in
\* use any more.
LEMMA UsedStep == SampleInv /\ [Next]_vars => UsedInv'
<1> SUFFICES ASSUME SampleInv, [Next]_vars PROVE UsedInv'
  OBVIOUS
<1> USE DEF capture, history, request
<1>0. TypeOK /\ ClaimInv /\ ApartInv /\ UsedInv
  BY DEF SampleInv
<1>1. ASSUME NEW c \in Capture, NEW u \in Uid, Claim(c, u) PROVE UsedInv'
  BY <1>0, <1>1, UsedKept DEF Claim, TypeOK
<1>2. ASSUME NEW c \in Capture, Skip(c) \/ Count(c) \/ EnrolFails(c) \/ Finish(c) PROVE UsedInv'
  BY <1>0, <1>2, UsedKept DEF Skip, Count, EnrolFails, Finish, Return, TypeOK
<1>3. ASSUME NEW c \in Capture, Hold(c) PROVE UsedInv'
  <2>1. \A u \in Uid : c \notin profile[u]
    BY <1>0, <1>3 DEF Hold, ApartInv, Brought
  <2>2. \A u \in Uid : bucket'[u] \subseteq bucket[u] \cup {c}
    BY <1>0, <1>3 DEF Hold, TypeOK
  <2>3. \A d \in Capture : pc'[d] = "taken" => pc[d] = "taken"
    BY <1>0, <1>3 DEF Hold, TypeOK
  <2>4. UNCHANGED <<profile, batch>>
    BY <1>3 DEF Hold
  <2> QED
    BY <1>0, <2>1, <2>2, <2>3, <2>4 DEF UsedInv
<1>4. ASSUME NEW c \in Capture, Take(c) PROVE UsedInv'
  <2>1. claimed[c] \in Uid
    BY <1>0, <1>4 DEF Take, ClaimInv
  <2>2. /\ \A u \in Uid : bucket'[u] \subseteq bucket[u]
        /\ \A d \in Capture : pc'[d] = "taken" =>
             (pc[d] = "taken" /\ batch'[d] = batch[d]) \/ batch'[d] = bucket[claimed[c]]
        /\ UNCHANGED profile
    BY <1>0, <1>4, <2>1 DEF Take, TypeOK
  <2>3. ASSUME NEW u \in Uid, NEW d \in profile[u] PROVE d \notin bucket[claimed[c]]
    BY <1>0, <2>1, <2>3 DEF ApartInv, UsedInv
  <2> QED
    BY <1>0, <2>2, <2>3 DEF UsedInv
<1>5. ASSUME NEW c \in Capture, Enrol(c) PROVE UsedInv'
  <2>1. claimed[c] \in Uid /\ pc[c] = "taken"
    BY <1>0, <1>5 DEF Enrol, ClaimInv
  <2>2. /\ \A d \in Capture : pc'[d] = "taken" => pc[d] = "taken" /\ d # c
        /\ \A u \in Uid : profile'[u] = IF u = claimed[c] THEN batch[c] ELSE profile[u]
        /\ UNCHANGED <<bucket, batch>>
    BY <1>0, <1>5, <2>1 DEF Enrol, TypeOK
  <2>3. \A d \in batch[c] :
          /\ d \notin bucket[claimed[c]]
          /\ \A other \in Capture \ {c} : pc[other] = "taken" => d \notin batch[other]
    BY <1>0, <2>1 DEF ApartInv
  <2> QED
    BY <1>0, <2>2, <2>3 DEF UsedInv
<1>6. CASE Restart
  BY <1>0, <1>6, UsedKept DEF Restart, Suspended, TypeOK
<1>7. ASSUME Quiet PROVE UsedInv'
  BY <1>0, <1>7, UsedKept DEF Quiet
<1> QED
  BY <1>1, <1>2, <1>3, <1>4, <1>5, <1>6, <1>7
  DEF Next, CaptureStep, Tick, Start, RegisterTimedOut, RegisterFailed, RegisterDone, Clear, Quiet, vars

\* The invariant the refinement rests on.
LEMMA SampleStep == SampleInv /\ [Next]_vars => SampleInv'
BY TypeStep, ClaimStep, ApartStep, UsedStep DEF SampleInv

-----------------------------------------------------------------------------
(* Where a sample is.                                                      *)

\* A sample that was brought and lies nowhere: it was dropped.
Nowhere(s) ==
  /\ Brought(s)
  /\ \A u \in Uid : s \notin bucket[u] \cup profile[u]
  /\ \A d \in Capture : pc[d] = "taken" => s \notin batch[d]

\* A sample's place is the one set that holds it.
PlaceInv ==
  \A s \in Capture :
    /\ pc[s] = "new" => Place[s] = {Samples!Unheard}
    /\ pc[s] = "claimed" => Place[s] = {Samples!Heard(claimed[s])}
    /\ \A u \in Uid : s \in bucket[u] => claimed[s] = u /\ Place[s] = {Samples!Kept(u)}
    /\ \A d \in Capture : pc[d] = "taken" /\ s \in batch[d] =>
         claimed[d] = claimed[s] /\ Place[s] = {Samples!Averaged(d)}
    /\ \A u \in Uid : s \in profile[u] => claimed[s] = u /\ Place[s] = {Samples!Used(u)}
    /\ Nowhere(s) => Place[s] = {}

\* The members of a place.
LEMMA PlaceIs ==
  ASSUME NEW s \in Capture, NEW x
  PROVE  x \in Place[s] <=>
           \/ pc[s] = "new" /\ x = Samples!Unheard
           \/ pc[s] = "claimed" /\ x = Samples!Heard(claimed[s])
           \/ \E u \in Uid : s \in bucket[u] /\ x = Samples!Kept(u)
           \/ \E d \in Capture : pc[d] = "taken" /\ s \in batch[d] /\ x = Samples!Averaged(d)
           \/ \E u \in Uid : s \in profile[u] /\ x = Samples!Used(u)
BY DEF Place, Samples!Unheard, Samples!Heard, Samples!Kept, Samples!Averaged, Samples!Used

\* The sets exclude each other.
LEMMA InOnePlaceOnly == SampleInv => PlaceInv
<1> SUFFICES ASSUME SampleInv, NEW s \in Capture
             PROVE  /\ pc[s] = "new" => Place[s] = {Samples!Unheard}
                    /\ pc[s] = "claimed" => Place[s] = {Samples!Heard(claimed[s])}
                    /\ \A u \in Uid : s \in bucket[u] =>
                         claimed[s] = u /\ Place[s] = {Samples!Kept(u)}
                    /\ \A d \in Capture : pc[d] = "taken" /\ s \in batch[d] =>
                         claimed[d] = claimed[s] /\ Place[s] = {Samples!Averaged(d)}
                    /\ \A u \in Uid : s \in profile[u] =>
                         claimed[s] = u /\ Place[s] = {Samples!Used(u)}
                    /\ Nowhere(s) => Place[s] = {}
  BY DEF PlaceInv
<1>0. TypeOK /\ ClaimInv /\ ApartInv /\ UsedInv
  BY DEF SampleInv
<1>1. ~Brought(s) => /\ \A u \in Uid : s \notin bucket[u] /\ s \notin profile[u]
                     /\ \A d \in Capture : pc[d] = "taken" => s \notin batch[d]
  BY <1>0 DEF ApartInv
<1>2. ASSUME NEW u \in Uid, s \in bucket[u]
      PROVE  /\ claimed[s] = u /\ pc[s] \notin {"new", "claimed"}
             /\ \A v \in Uid : (s \in bucket[v] => v = u) /\ s \notin profile[v]
             /\ \A d \in Capture : pc[d] = "taken" => s \notin batch[d]
  <2>1. claimed[s] = u /\ pc[s] \notin {"new", "claimed"}
    BY <1>0, <1>2 DEF ApartInv, Brought
  <2>2. \A v \in Uid : (s \in bucket[v] => v = u) /\ s \notin profile[v]
    BY <1>0, <1>2, <2>1 DEF ApartInv, UsedInv
  <2>3. \A d \in Capture : pc[d] = "taken" => s \notin batch[d]
    BY <1>0, <1>2, <2>1 DEF ApartInv
  <2> QED
    BY <2>1, <2>2, <2>3
<1>3. ASSUME NEW d \in Capture, pc[d] = "taken", s \in batch[d]
      PROVE  /\ claimed[d] = claimed[s] /\ pc[s] \notin {"new", "claimed"}
             /\ \A v \in Uid : s \notin bucket[v] /\ s \notin profile[v]
             /\ \A e \in Capture : pc[e] = "taken" /\ s \in batch[e] => e = d
  <2>1. claimed[d] = claimed[s] /\ pc[s] \notin {"new", "claimed"}
    BY <1>0, <1>3 DEF ApartInv, Brought
  <2>2. \A v \in Uid : s \notin bucket[v]
    BY <1>2, <1>3
  <2>3. \A v \in Uid : s \notin profile[v]
    BY <1>0, <1>3 DEF UsedInv
  <2>4. \A e \in Capture : pc[e] = "taken" /\ s \in batch[e] => e = d
    BY <1>0, <1>3 DEF ApartInv
  <2> QED
    BY <2>1, <2>2, <2>3, <2>4
<1>4. ASSUME NEW u \in Uid, s \in profile[u]
      PROVE  /\ claimed[s] = u /\ pc[s] \notin {"new", "claimed"}
             /\ \A v \in Uid : s \notin bucket[v] /\ (s \in profile[v] => v = u)
             /\ \A d \in Capture : pc[d] = "taken" => s \notin batch[d]
  <2>1. claimed[s] = u /\ pc[s] \notin {"new", "claimed"}
    BY <1>0, <1>4 DEF ApartInv, Brought
  <2>2. \A v \in Uid : s \in profile[v] => v = u
    BY <1>0, <1>4, <2>1 DEF ApartInv
  <2> QED
    BY <1>2, <1>3, <1>4, <2>1, <2>2
<1>5. CASE pc[s] = "new"
  BY <1>1, <1>5, PlaceIs DEF Brought, Nowhere
<1>6. CASE pc[s] = "claimed"
  BY <1>1, <1>6, PlaceIs DEF Brought, Nowhere
<1>7. ASSUME NEW u \in Uid, s \in bucket[u] PROVE Place[s] = {Samples!Kept(u)}
  BY <1>2, <1>7, PlaceIs
<1>8. ASSUME NEW d \in Capture, pc[d] = "taken", s \in batch[d] PROVE Place[s] = {Samples!Averaged(d)}
  BY <1>3, <1>8, PlaceIs
<1>9. ASSUME NEW u \in Uid, s \in profile[u] PROVE Place[s] = {Samples!Used(u)}
  BY <1>4, <1>9, PlaceIs
<1>10. Nowhere(s) => Place[s] = {}
  BY PlaceIs DEF Nowhere, Brought
<1> QED
  BY <1>2, <1>3, <1>4, <1>5, <1>6, <1>7, <1>8, <1>9, <1>10

-----------------------------------------------------------------------------
(* The ways of a sample.                                                   *)

\* What a step may do with sample s, claimed already or not at all.
GoesOn(s) ==
  /\ UNCHANGED claimed[s]
  /\ pc[s] = "new" => pc'[s] = "new"
  /\ pc[s] = "claimed" =>
       pc'[s] = "claimed" \/ s \in bucket'[claimed[s]] \/ Nowhere(s)'
  /\ \A u \in Uid : s \in bucket[u] =>
       \/ s \in bucket'[u] \/ Nowhere(s)'
       \/ \E d \in Capture : pc'[d] = "taken" /\ s \in batch'[d]
  /\ \A d \in Capture : pc[d] = "taken" /\ s \in batch[d] =>
       (pc'[d] = "taken" /\ s \in batch'[d]) \/ s \in profile'[claimed[s]] \/ Nowhere(s)'
  /\ \A u \in Uid : s \in profile[u] => s \in profile'[u] \/ Nowhere(s)'
  /\ Nowhere(s) => Nowhere(s)'

\* The places differ.
LEMMA PlacesDiffer ==
  ASSUME NEW u, NEW d
  PROVE  /\ Samples!Heard(u) # Samples!Unheard
         /\ Samples!Kept(u) # Samples!Unheard
         /\ Samples!Averaged(d) # Samples!Unheard
         /\ Samples!Used(u) # Samples!Unheard
BY DEF Samples!Unheard, Samples!Heard, Samples!Kept, Samples!Averaged, Samples!Used

\* Such a step leaves the sample where it is or moves it on.
LEMMA GoesOnMoves ==
  ASSUME PlaceInv, PlaceInv', ClaimInv, NEW s \in Capture, GoesOn(s),
         \A d \in Capture : pc'[d] = "taken" => claimed'[d] = claimed[d]
  PROVE  Samples!Stand(s) \/ Samples!Move(s)
<1>0. UNCHANGED claimed[s]
  BY DEF GoesOn
<1>1. ASSUME Nowhere(s)', Place[s] # {Samples!Unheard} PROVE Samples!Move(s)
  <2>1. Place'[s] = {}
    BY <1>1 DEF PlaceInv
  <2> QED
    BY <1>0, <1>1, <2>1 DEF Samples!Move, Samples!Drop
<1>2. CASE pc[s] = "new"
  <2>1. Place[s] = {Samples!Unheard} /\ Place'[s] = {Samples!Unheard}
    BY <1>2 DEF GoesOn, PlaceInv
  <2> QED
    BY <1>0, <2>1 DEF Samples!Stand
<1>3. CASE pc[s] = "claimed"
  <2>1. Place[s] = {Samples!Heard(claimed[s])} /\ claimed[s] \in Uid
    BY <1>3 DEF PlaceInv, ClaimInv
  <2>2. CASE pc'[s] = "claimed"
    <3>1. Place'[s] = {Samples!Heard(claimed'[s])}
      BY <2>2 DEF PlaceInv
    <3> QED
      BY <1>0, <2>1, <3>1 DEF Samples!Stand
  <2>3. CASE s \in bucket'[claimed[s]]
    <3>1. Place'[s] = {Samples!Kept(claimed[s])}
      BY <2>1, <2>3 DEF PlaceInv
    <3> QED
      BY <1>0, <2>1, <3>1 DEF Samples!Move, Samples!Keep
  <2>4. CASE Nowhere(s)'
    BY <1>1, <2>1, <2>4, PlacesDiffer
  <2> QED
    BY <1>3, <2>2, <2>3, <2>4 DEF GoesOn
<1>4. ASSUME NEW u \in Uid, s \in bucket[u] PROVE Samples!Stand(s) \/ Samples!Move(s)
  <2>1. Place[s] = {Samples!Kept(u)} /\ claimed[s] = u
    BY <1>4 DEF PlaceInv
  <2>2. CASE s \in bucket'[u]
    <3>1. Place'[s] = {Samples!Kept(u)}
      BY <2>2 DEF PlaceInv
    <3> QED
      BY <1>0, <2>1, <3>1 DEF Samples!Stand
  <2>3. ASSUME NEW d \in Capture, pc'[d] = "taken", s \in batch'[d] PROVE Samples!Move(s)
    <3>1. Place'[s] = {Samples!Averaged(d)} /\ claimed'[d] = claimed'[s]
      BY <2>3 DEF PlaceInv
    <3>2. claimed[d] = claimed[s]
      BY <1>0, <2>3, <3>1
    <3> QED
      BY <1>0, <2>1, <3>1, <3>2 DEF Samples!Move, Samples!Average
  <2>4. CASE Nowhere(s)'
    BY <1>1, <2>1, <2>4, PlacesDiffer
  <2> QED
    BY <1>4, <2>2, <2>3, <2>4 DEF GoesOn
<1>5. ASSUME NEW d \in Capture, pc[d] = "taken", s \in batch[d]
      PROVE  Samples!Stand(s) \/ Samples!Move(s)
  <2>1. Place[s] = {Samples!Averaged(d)} /\ claimed[d] = claimed[s] /\ claimed[s] \in Uid
    BY <1>5 DEF PlaceInv, ClaimInv
  <2>2. CASE pc'[d] = "taken" /\ s \in batch'[d]
    <3>1. Place'[s] = {Samples!Averaged(d)}
      BY <2>2 DEF PlaceInv
    <3> QED
      BY <1>0, <2>1, <3>1 DEF Samples!Stand
  <2>3. CASE s \in profile'[claimed[s]]
    <3>1. Place'[s] = {Samples!Used(claimed[s])}
      BY <2>1, <2>3 DEF PlaceInv
    <3> QED
      BY <1>0, <2>1, <3>1 DEF Samples!Move, Samples!Use
  <2>4. CASE Nowhere(s)'
    BY <1>1, <2>1, <2>4, PlacesDiffer
  <2> QED
    BY <1>5, <2>2, <2>3, <2>4 DEF GoesOn
<1>6. ASSUME NEW u \in Uid, s \in profile[u] PROVE Samples!Stand(s) \/ Samples!Move(s)
  <2>1. Place[s] = {Samples!Used(u)}
    BY <1>6 DEF PlaceInv
  <2>2. CASE s \in profile'[u]
    <3>1. Place'[s] = {Samples!Used(u)}
      BY <2>2 DEF PlaceInv
    <3> QED
      BY <1>0, <2>1, <3>1 DEF Samples!Stand
  <2>3. CASE Nowhere(s)'
    BY <1>1, <2>1, <2>3, PlacesDiffer
  <2> QED
    BY <1>6, <2>2, <2>3 DEF GoesOn
<1>7. CASE Nowhere(s)
  <2>1. Place[s] = {} /\ Place'[s] = {}
    BY <1>7 DEF GoesOn, PlaceInv
  <2> QED
    BY <1>0, <2>1 DEF Samples!Stand
<1> QED
  BY <1>2, <1>3, <1>4, <1>5, <1>6, <1>7 DEF Nowhere, Brought

\* A capture that only moves on takes its own batch out of use at most.
LEMMA MovesOn ==
  ASSUME SampleInv, NEW c \in Capture, NEW where \in {"over", "counted", "failing"},
         pc[c] # "new",
         pc' = [pc EXCEPT ![c] = where],
         \A d \in Capture \ {c} : batch'[d] = batch[d],
         UNCHANGED <<claimed, bucket, profile>>,
         NEW s \in Capture
  PROVE  GoesOn(s)
<1>0. TypeOK /\ ApartInv /\ UsedInv
  BY DEF SampleInv
<1>1. \A d \in Capture \ {c} : pc'[d] = pc[d]
  BY <1>0 DEF TypeOK
<1>2. pc'[c] \notin {"new", "claimed", "taken"}
  BY <1>0 DEF TypeOK
<1>3. Nowhere(s) => Nowhere(s)'
  BY <1>1, <1>2 DEF Nowhere, Brought
<1>4. pc[s] = "claimed" => s # c \/ Nowhere(s)'
  BY <1>0, <1>1, <1>2 DEF Nowhere, Brought, ApartInv
<1>5. pc[c] = "taken" /\ s \in batch[c] => Nowhere(s)'
  BY <1>0, <1>1, <1>2 DEF Nowhere, Brought, ApartInv, UsedInv
<1> QED
  BY <1>1, <1>2, <1>3, <1>4, <1>5 DEF GoesOn

\* Hold puts a fresh sample into its candidate's bucket.
LEMMA HoldMoves ==
  ASSUME SampleInv, NEW c \in Capture, Hold(c), NEW s \in Capture
  PROVE  GoesOn(s)
<1>0. TypeOK /\ ClaimInv /\ ApartInv
  BY DEF SampleInv
<1>1. pc[c] = "claimed" /\ claimed[c] \in Uid
  BY <1>0 DEF Hold, ClaimInv
<1>2. /\ \A d \in Capture \ {c} : pc'[d] = pc[d]
      /\ pc'[c] = "held"
      /\ \A u \in Uid : bucket'[u] = IF u = claimed[c] THEN bucket[u] \cup {c} ELSE bucket[u]
      /\ UNCHANGED <<claimed, profile, batch>>
  BY <1>0, <1>1 DEF Hold, TypeOK
<1>3. Nowhere(s) => Nowhere(s)'
  <2> SUFFICES ASSUME Nowhere(s) PROVE Nowhere(s)'
    OBVIOUS
  <2>1. s # c /\ Brought(s)'
    BY <1>1, <1>2 DEF Nowhere, Brought
  <2>2. ASSUME NEW u \in Uid PROVE s \notin bucket'[u] /\ s \notin profile'[u]
    <3>1. s \notin bucket[u] /\ s \notin profile[u]
      BY DEF Nowhere
    <3> QED
      BY <1>2, <2>1, <3>1
  <2>3. \A d \in Capture : pc'[d] = "taken" => s \notin batch'[d]
    BY <1>2 DEF Nowhere
  <2> QED
    BY <2>1, <2>2, <2>3 DEF Nowhere
<1> QED
  BY <1>1, <1>2, <1>3 DEF GoesOn

\* Take brings the bucket into the batch.
LEMMA TakeMoves ==
  ASSUME SampleInv, NEW c \in Capture, Take(c), NEW s \in Capture
  PROVE  GoesOn(s)
<1>0. TypeOK /\ ClaimInv /\ ApartInv
  BY DEF SampleInv
<1>1. pc[c] = "counted" /\ claimed[c] \in Uid
  BY <1>0 DEF Take, ClaimInv
<1>2. /\ \A d \in Capture \ {c} : pc'[d] = pc[d] /\ batch'[d] = batch[d]
      /\ pc'[c] = "taken" /\ batch'[c] = bucket[claimed[c]]
      /\ \A u \in Uid : bucket'[u] = IF u = claimed[c] THEN {} ELSE bucket[u]
      /\ UNCHANGED <<claimed, profile>>
  BY <1>0, <1>1 DEF Take, TypeOK
<1>3. Nowhere(s) => Nowhere(s)'
  BY <1>1, <1>2 DEF Nowhere, Brought
<1> QED
  BY <1>1, <1>2, <1>3 DEF GoesOn

\* Enrol brings the batch into the profile; what was there is gone.
LEMMA EnrolMoves ==
  ASSUME SampleInv, NEW c \in Capture, Enrol(c), NEW s \in Capture
  PROVE  GoesOn(s)
<1>0. TypeOK /\ ClaimInv /\ ApartInv /\ UsedInv
  BY DEF SampleInv
<1>1. pc[c] = "taken" /\ claimed[c] \in Uid
  BY <1>0 DEF Enrol, ClaimInv
<1>2. /\ \A d \in Capture \ {c} : pc'[d] = pc[d]
      /\ pc'[c] = "enrolled"
      /\ \A u \in Uid : profile'[u] = IF u = claimed[c] THEN batch[c] ELSE profile[u]
      /\ UNCHANGED <<claimed, bucket, batch>>
  BY <1>0, <1>1 DEF Enrol, TypeOK
<1>3. \A d \in Capture : Brought(d) => Brought(d)'
  BY <1>1, <1>2 DEF Brought
<1>4. Nowhere(s) => Nowhere(s)'
  BY <1>1, <1>2, <1>3 DEF Nowhere
<1>5. s \in batch[c] => s \in profile'[claimed[s]]
  BY <1>0, <1>1, <1>2 DEF ApartInv
<1>6. ASSUME NEW u \in Uid, s \in profile[u], s \notin profile'[u] PROVE Nowhere(s)'
  <2>1. Brought(s) /\ claimed[s] = u
    BY <1>0, <1>6 DEF ApartInv
  <2>2. \A v \in Uid : s \notin bucket[v]
    BY <1>0, <1>6, <2>1 DEF ApartInv, UsedInv
  <2>3. \A v \in Uid : s \notin profile'[v]
    BY <1>0, <1>2, <1>6, <2>1 DEF ApartInv
  <2>4. \A d \in Capture : pc'[d] = "taken" => s \notin batch[d]
    BY <1>0, <1>2, <1>6 DEF UsedInv
  <2> QED
    BY <1>2, <1>3, <2>1, <2>2, <2>3, <2>4 DEF Nowhere
<1> QED
  BY <1>1, <1>2, <1>4, <1>5, <1>6 DEF GoesOn

\* A restart drops everything but the profiles.
LEMMA RestartMoves ==
  ASSUME SampleInv, Restart, NEW s \in Capture
  PROVE  GoesOn(s)
<1>0. TypeOK /\ ApartInv /\ UsedInv
  BY DEF SampleInv
<1>1. /\ \A d \in Capture : pc'[d] # "taken"
      /\ pc[s] = "new" => pc'[s] = "new"
      /\ pc[s] # "new" => Brought(s)'
      /\ \A u \in Uid : bucket'[u] = {}
      /\ UNCHANGED <<claimed, profile>>
  BY <1>0 DEF Restart, Brought, Suspended, TypeOK
<1>2. pc[s] # "new" /\ (\A u \in Uid : s \notin profile[u]) => Nowhere(s)'
  BY <1>1 DEF Nowhere
<1>3. pc[s] = "claimed" \/ Nowhere(s) => \A u \in Uid : s \notin profile[u]
  BY <1>0 DEF Nowhere, ApartInv, Brought
<1>4. ASSUME NEW u \in Uid, s \in bucket[u] PROVE \A v \in Uid : s \notin profile[v]
  BY <1>0, <1>4 DEF ApartInv, UsedInv
<1>5. ASSUME NEW d \in Capture, pc[d] = "taken", s \in batch[d]
      PROVE  \A v \in Uid : s \notin profile[v]
  BY <1>0, <1>5 DEF UsedInv
<1>6. (\E u \in Uid : s \in bucket[u]) \/ (\E d \in Capture : pc[d] = "taken" /\ s \in batch[d])
        \/ Nowhere(s) => pc[s] # "new"
  BY <1>0 DEF Nowhere, ApartInv, Brought
<1> QED
  BY <1>1, <1>2, <1>3, <1>4, <1>5, <1>6 DEF GoesOn

\* A capture's steps, one by one.
LEMMA CaptureMoves ==
  ASSUME SampleInv, NEW c \in Capture, CaptureStep(c), NEW s \in Capture
  PROVE  GoesOn(s)
<1>0. TypeOK
  BY DEF SampleInv
<1>1. CASE Skip(c)
  BY <1>0, <1>1, MovesOn DEF Skip, Return, TypeOK
<1>2. CASE Hold(c)
  BY <1>2, HoldMoves
<1>3. CASE Count(c)
  BY <1>0, <1>3, MovesOn DEF Count, Return, TypeOK
<1>4. CASE Take(c)
  BY <1>4, TakeMoves
<1>5. CASE Enrol(c)
  BY <1>5, EnrolMoves
<1>6. CASE EnrolFails(c)
  BY <1>0, <1>6, MovesOn DEF EnrolFails
<1>7. CASE Finish(c)
  BY <1>0, <1>7, MovesOn DEF Finish, Return, TypeOK
<1> QED
  BY <1>1, <1>2, <1>3, <1>4, <1>5, <1>6, <1>7 DEF CaptureStep

\* Claim: one sample is heard, the others stand.
LEMMA ClaimMoves ==
  ASSUME SampleInv, PlaceInv, PlaceInv', NEW c \in Capture, NEW u \in Uid, Claim(c, u),
         NEW s \in Capture
  PROVE  Samples!Stand(s) \/ Samples!Move(s)
<1>0. TypeOK
  BY DEF SampleInv
<1>1. CASE s = c
  <2>1. pc[s] = "new" /\ pc'[s] = "claimed" /\ claimed'[s] = u
    BY <1>0, <1>1 DEF Claim, TypeOK
  <2>2. Place[s] = {Samples!Unheard} /\ Place'[s] = {Samples!Heard(u)}
    BY <2>1 DEF PlaceInv
  <2> QED
    BY <2>1, <2>2 DEF Samples!Move, Samples!Hear
<1>2. CASE s # c
  <2>1. /\ pc'[s] = pc[s] /\ claimed'[s] = claimed[s]
        /\ \A d \in Capture : pc'[d] = "taken" <=> pc[d] = "taken"
        /\ UNCHANGED <<bucket, profile, batch>>
    BY <1>0, <1>2 DEF Claim, TypeOK
  <2>2. Place'[s] = Place[s]
    BY <2>1 DEF Place
  <2> QED
    BY <2>1, <2>2 DEF Samples!Stand
<1> QED
  BY <1>1, <1>2

-----------------------------------------------------------------------------
(* Enrolment implements SampleLifecycle.                                   *)

\* Every sample is unheard at the start.
LEMMA StartOfSamples == Init => Samples!Init
BY DEF Init, Samples!Init, Place, Samples!Unheard

\* A step of the enrolment moves each sample or leaves it.
LEMMA StepOfSamples ==
  SampleInv /\ PlaceInv /\ PlaceInv' /\ [Next]_vars => [Samples!Next]_(Samples!vars)
<1> SUFFICES ASSUME SampleInv, PlaceInv, PlaceInv', [Next]_vars
             PROVE  Samples!Next \/ UNCHANGED <<Place, claimed>>
  BY DEF Samples!vars
<1>0. TypeOK /\ TypeOK' /\ ClaimInv
  BY SampleStep DEF SampleInv
<1>1. DOMAIN Place' = Capture /\ DOMAIN claimed' = Capture
  BY <1>0 DEF Place, TypeOK
<1>2. ASSUME NEW c \in Capture, NEW u \in Uid, Claim(c, u) PROVE Samples!Next
  BY <1>1, <1>2, ClaimMoves DEF Samples!Next
<1>3. ASSUME \A s \in Capture : GoesOn(s) PROVE Samples!Next
  BY <1>0, <1>1, <1>3, GoesOnMoves DEF GoesOn, Samples!Next
<1>4. ASSUME NEW c \in Capture, CaptureStep(c) PROVE Samples!Next
  BY <1>3, <1>4, CaptureMoves
<1>5. CASE Restart
  BY <1>3, <1>5, RestartMoves
<1>6. ASSUME Quiet PROVE UNCHANGED <<Place, claimed>>
  BY <1>6 DEF Quiet, Place
<1> QED
  BY <1>2, <1>4, <1>5, <1>6
  DEF Next, Tick, Start, RegisterTimedOut, RegisterFailed, RegisterDone, Clear, Quiet,
      vars, capture, history

\* However requests, turns and restarts of the gatekeeper meet, live enrolment
\* implements SampleLifecycle (_pending_embeddings, _capture_enrollment).
THEOREM SamplesImplementLifecycle == Spec => ImplementsSampleLifecycle
<1>1. SampleInv => PlaceInv
  BY InOnePlaceOnly
<1> QED
  BY <1>1, SampleInit, SampleStep, StartOfSamples, StepOfSamples, PTL
  DEF Spec, ImplementsSampleLifecycle, Samples!Spec

-----------------------------------------------------------------------------
(* What follows for samples.                                               *)

\* A sample has no candidate until it is heard.
HeardInv ==
  \A s \in Capture :
    IF Place[s] = {Samples!Unheard} THEN claimed[s] = None ELSE claimed[s] \in Uid

\* A sample is in one place from the start.
LEMMA OnePlaceInit == Samples!Init => HeardInv /\ Samples!InOnePlace
BY DEF Samples!Init, HeardInv, Samples!InOnePlace

\* The places of a candidate's sample differ.
LEMMA UsedDiffers ==
  ASSUME NEW u, NEW d
  PROVE  Samples!Used(u) \notin {Samples!Unheard, Samples!Heard(u), Samples!Kept(u), Samples!Averaged(d)}
BY DEF Samples!Unheard, Samples!Heard, Samples!Kept, Samples!Averaged, Samples!Used

\* Whatever move a sample makes, it has its candidate then and keeps it.
LEMMA HeardMove ==
  ASSUME HeardInv, NEW s \in Capture, Samples!Stand(s) \/ Samples!Move(s)
  PROVE  /\ Place[s] # {Samples!Unheard} => Place'[s] # {Samples!Unheard} /\ UNCHANGED claimed[s]
         /\ IF Place'[s] = {Samples!Unheard} THEN claimed'[s] = None ELSE claimed'[s] \in Uid
<1>1. IF Place[s] = {Samples!Unheard} THEN claimed[s] = None ELSE claimed[s] \in Uid
  BY DEF HeardInv
<1>2. CASE Samples!Stand(s)
  BY <1>1, <1>2 DEF Samples!Stand
<1>3. CASE Samples!Hear(s)
  BY <1>3, PlacesDiffer DEF Samples!Hear
<1>4. CASE Samples!Keep(s)
  BY <1>1, <1>4, PlacesDiffer DEF Samples!Keep
<1>5. CASE Samples!Average(s)
  BY <1>1, <1>5, PlacesDiffer DEF Samples!Average
<1>6. CASE Samples!Use(s)
  BY <1>1, <1>6, PlacesDiffer DEF Samples!Use
<1>7. CASE Samples!Drop(s)
  BY <1>1, <1>7 DEF Samples!Drop
<1> QED
  BY <1>2, <1>3, <1>4, <1>5, <1>6, <1>7 DEF Samples!Move

\* SampleLifecycle keeps a sample in one place.
LEMMA OnePlaceStep ==
  HeardInv /\ Samples!InOnePlace /\ [Samples!Next]_(Samples!vars) => (HeardInv /\ Samples!InOnePlace)'
<1> SUFFICES ASSUME HeardInv, Samples!InOnePlace, [Samples!Next]_(Samples!vars)
             PROVE  HeardInv' /\ Samples!InOnePlace'
  OBVIOUS
<1>1. CASE UNCHANGED <<Place, claimed>>
  BY <1>1 DEF HeardInv, Samples!InOnePlace
<1>2. CASE Samples!Next
  <2>1. \A s \in Capture : Samples!Stand(s) \/ Samples!Move(s)
    BY <1>2 DEF Samples!Next
  <2>2. \A s \in Capture :
          /\ Place[s] # {Samples!Unheard} => UNCHANGED claimed[s]
          /\ IF Place'[s] = {Samples!Unheard} THEN claimed'[s] = None ELSE claimed'[s] \in Uid
    BY <2>1, HeardMove
  <2>3. \A s, d \in Capture :
          claimed[d] = claimed[s] /\ Place[s] # {Samples!Unheard} => UNCHANGED claimed[d]
    BY <2>2, EnrollmentAssumption DEF HeardInv
  <2>4. ASSUME NEW s \in Capture
        PROVE  \/ Place'[s] \in {{}, {Samples!Unheard}, {Samples!Heard(claimed'[s])},
                                 {Samples!Kept(claimed'[s])}, {Samples!Used(claimed'[s])}}
               \/ \E d \in Capture : claimed'[d] = claimed'[s] /\ Place'[s] = {Samples!Averaged(d)}
    <3>1. CASE Samples!Stand(s)
      <4>1. UNCHANGED <<Place[s], claimed[s]>>
        BY <3>1 DEF Samples!Stand
      <4>2. CASE Place[s] = {Samples!Unheard}
        BY <4>1, <4>2
      <4>3. ASSUME NEW d \in Capture, claimed[d] = claimed[s], Place[s] = {Samples!Averaged(d)}
            PROVE  claimed'[d] = claimed'[s] /\ Place'[s] = {Samples!Averaged(d)}
        <5>1. UNCHANGED claimed[d]
          BY <2>3, <4>3, PlacesDiffer
        <5> QED
          BY <4>1, <4>3, <5>1
      <4> QED
        BY <4>1, <4>2, <4>3 DEF Samples!InOnePlace
    <3>2. CASE Samples!Average(s)
      <4>1. PICK d \in Capture : claimed[d] = claimed[s] /\ Place'[s] = {Samples!Averaged(d)}
        BY <3>2 DEF Samples!Average
      <4>2. UNCHANGED claimed[s] /\ UNCHANGED claimed[d]
        BY <2>3, <3>2, <4>1, PlacesDiffer DEF Samples!Average
      <4> QED
        BY <4>1, <4>2
    <3>3. CASE Samples!Hear(s) \/ Samples!Keep(s) \/ Samples!Use(s) \/ Samples!Drop(s)
      BY <3>3 DEF Samples!Hear, Samples!Keep, Samples!Use, Samples!Drop
    <3> QED
      BY <2>1, <3>1, <3>2, <3>3 DEF Samples!Move
  <2> QED
    BY <2>2, <2>4 DEF HeardInv, Samples!InOnePlace
<1> QED
  BY <1>1, <1>2 DEF Samples!vars

\* A sample is in one place at a time, which is of the candidate it was heard
\* for (_pending_embeddings, take_embeddings, upsert_embedding).
THEOREM SamplesInOnePlace == Spec => []Samples!InOnePlace
<1>1. Samples!Spec => []Samples!InOnePlace
  BY OnePlaceInit, OnePlaceStep, PTL DEF Samples!Spec
<1> QED
  BY <1>1, SamplesImplementLifecycle, PTL DEF ImplementsSampleLifecycle

\* What was used has had its use: it may only be dropped.
LEMMA UsedStays ==
  ASSUME NEW s \in Capture, Samples!Stand(s) \/ Samples!Move(s),
         Place[s] \subseteq {Samples!Used(claimed[s])}
  PROVE  Samples!Stand(s) \/ Samples!Drop(s)
<1>1. \A d \in Capture : Place[s] # {Samples!Averaged(d)}
  BY UsedDiffers
<1>2. Place[s] \notin {{Samples!Unheard}, {Samples!Heard(claimed[s])}, {Samples!Kept(claimed[s])}}
  BY UsedDiffers
<1> QED
  BY <1>1, <1>2 DEF Samples!Move, Samples!Hear, Samples!Keep, Samples!Average, Samples!Use

\* A sample that was averaged into a profile never comes back into use, in
\* that profile or another, and one that was dropped never comes back at all:
\* no restart, retry or second turn brings it (take_embeddings).
THEOREM SamplesUsedOnce == Spec => Samples!NeverTwice
<1>1. [Samples!Next]_(Samples!vars) =>
        [\A c \in Capture :
           Place[c] \subseteq {Samples!Used(claimed[c])} => Samples!Stand(c) \/ Samples!Drop(c)]_(Samples!vars)
  <2> SUFFICES ASSUME Samples!Next, NEW c \in Capture, Place[c] \subseteq {Samples!Used(claimed[c])}
               PROVE  Samples!Stand(c) \/ Samples!Drop(c)
    OBVIOUS
  <2>1. Samples!Stand(c) \/ Samples!Move(c)
    BY DEF Samples!Next
  <2> QED
    BY <2>1, UsedStays
<1> QED
  BY <1>1, SamplesImplementLifecycle, PTL
  DEF ImplementsSampleLifecycle, Samples!Spec, Samples!NeverTwice
=============================================================================
