----------------------------- MODULE VoiceProofs ------------------------------
(***************************************************************************)
(* Proofs about SpokenTurn, Approval and Speech, for any utterances,       *)
(* residents, registrations, tool runs and requests that overlap: whom a   *)
(* spoken turn is credited to, what the model is shown of earlier turns,   *)
(* what the admin's answer does to a candidate, and how an answer sounds.  *)
(***************************************************************************)
EXTENDS SpokenTurn, Approval, Speech, SequenceTheorems, FiniteSetTheorems, TLAPS

-----------------------------------------------------------------------------
(* Natural numbers.                                                        *)

\* The least-number principle, from the well-foundedness of strict inclusion
\* on the finite sets: a number is taken for the numbers below it.
LEMMA LeastNatural ==
  ASSUME NEW T, T \subseteq Nat, T # {}
  PROVE  \E x \in T : \A y \in T : x <= y
<1> DEFINE R == FiniteSubsetsOf(Nat)
           O == StrictSubsetOrdering(Nat)
           below(n) == 0 .. n - 1
           TT == {below(n) : n \in T}
<1>1. IsWellFoundedOn(O, R)
  BY FS_StrictSubsetOrderingWellFounded
<1>2. TT \subseteq R /\ TT # {}
  <2>1. ASSUME NEW n \in T PROVE below(n) \in R
    <3>1. 0 \in Int /\ n - 1 \in Int /\ below(n) \subseteq Nat
      OBVIOUS
    <3>2. IsFiniteSet(below(n))
      BY <3>1, FS_Interval
    <3> QED
      BY <3>1, <3>2 DEF FiniteSubsetsOf
  <2> HIDE DEF R, below
  <2> QED
    BY <2>1
<1> HIDE DEF R, O, TT, below
<1>3. PICK b \in TT : \A c \in TT : <<c, b>> \notin O
  BY <1>1, <1>2, WFMin
<1>4. PICK x \in T : b = 0 .. x - 1
  BY <1>3 DEF TT, below
<1>5. ASSUME NEW y \in T, y < x PROVE FALSE
  <2>1. (0 .. y - 1) \in TT /\ (0 .. y - 1) \subseteq Nat /\ (0 .. x - 1) \subseteq Nat
    BY <1>5 DEF TT, below
  <2>2. (0 .. y - 1) \subseteq (0 .. x - 1) /\ y \in 0 .. x - 1 /\ y \notin 0 .. y - 1
    BY <1>5
  <2>3. <<0 .. y - 1, b>> \in O
    BY <1>4, <2>1, <2>2 DEF O, StrictSubsetOrdering
  <2> QED
    BY <1>3, <2>1, <2>3
<1> QED
  BY <1>5

LEMMA MaxIsThere ==
  ASSUME NEW n \in Nat, NEW S, S \subseteq 1 .. n, S # {}
  PROVE  Max(S) \in S /\ \A y \in S : Max(S) >= y
<1> DEFINE T == {n - i : i \in S}
<1>1. T \subseteq Nat /\ T # {}
  <2>1. \A i \in S : n - i \in Nat
    OBVIOUS
  <2> QED
    BY <2>1
<1>2. PICK x \in T : \A y \in T : x <= y
  BY <1>1, LeastNatural
<1>3. PICK m \in S : x = n - m
  BY <1>2
<1>4. \A y \in S : m >= y
  BY <1>2, <1>3
<1> QED
  BY <1>4 DEF Max

-----------------------------------------------------------------------------
(* Approval: types.                                                        *)

LEMMA PendingIsARow ==
  ASSUME ApprovalTypeOK, GetPending # 0
  PROVE  GetPending \in DOMAIN rows /\ rows[GetPending].status = "pending"
<1>1. PendingRows # {} /\ GetPending = Max(PendingRows)
  BY DEF GetPending
<1>2. PendingRows \subseteq 1 .. Len(rows) /\ Len(rows) \in Nat
  BY DEF PendingRows, ApprovalTypeOK
<1>3. GetPending \in PendingRows
  BY <1>1, <1>2, MaxIsThere
<1> QED
  BY <1>3 DEF PendingRows

\* What a suspended tool holds, and what an approval rests on.
HeldInv ==
  \A c \in ToolCall :
    /\ tool[c].pc # "idle" => tool[c].row \in DOMAIN rows
    /\ tool[c].pc \in {"polling", "approving", "dropping", "closing"} =>
         /\ tool[c].request \in DOMAIN requests
         /\ requests[tool[c].request].row = tool[c].row
    /\ tool[c].pc = "approving" => tool[c].request \in approvedBy

FiledInv ==
  /\ \A i \in DOMAIN rows : rows[i].request # 0 =>
       rows[i].request \in DOMAIN requests /\ requests[rows[i].request].row = i
  /\ \A q \in DOMAIN requests : requests[q].status = "approved" => q \in approvedBy
  /\ approvedBy \subseteq DOMAIN requests

\* A profile that nobody has lost is kept by a row that no tool is about to close.
Open(i) == rows[i].status \in {"pending", "approved"}

KeptInv ==
  profile /\ ~missed /\ ~enrolling =>
    \E i \in DOMAIN rows : Open(i) /\ \A c \in ToolCall : tool[c].pc = "closing" => tool[c].row # i

ApprovalInv ==
  /\ ApprovalTypeOK /\ HeldInv /\ FiledInv /\ OnlyAdminApproves
  /\ enrolling => Len(rows) < MaxRows

ARow  == [status : RowStatus, request : 0 .. MaxRequests]
AReq  == [row : 1 .. MaxRows, status : Answer]
ATool == [pc : {"idle", "filing", "polling", "approving", "dropping", "closing"},
          row : 0 .. MaxRows, request : 0 .. MaxRequests]

LEMMA SuspendType ==
  ASSUME ApprovalTypeOK, NEW c \in ToolCall, NEW held \in ATool, tool' = [tool EXCEPT ![c] = held]
  PROVE  /\ tool' \in [ToolCall -> ATool] /\ tool'[c] = held
         /\ \A d \in ToolCall \ {c} : tool'[d] = tool[d]
BY DEF ApprovalTypeOK, ATool

LEMMA IdleType == Idle \in ATool
BY ApprovalAssumption DEF Idle, ATool

\* The tool is done, or never suspended: what the others hold is as it was.
LEMMA HeldByOthers ==
  ASSUME ApprovalTypeOK, HeldInv, NEW c \in ToolCall, Done(c),
         DOMAIN rows \subseteq DOMAIN rows', DOMAIN requests \subseteq DOMAIN requests',
         \A q \in DOMAIN requests : requests'[q].row = requests[q].row,
         approvedBy \subseteq approvedBy'
  PROVE  HeldInv'
<1>1. tool'[c] = Idle /\ \A d \in ToolCall \ {c} : tool'[d] = tool[d]
  BY SuspendType, IdleType DEF Done
<1>2. tool'[c].pc = "idle"
  BY <1>1 DEF Idle
<1> QED
  BY <1>1, <1>2 DEF HeldInv

\* An element of a sequence replaced, and one field of an element of the two tables.
LEMMA ElementSet ==
  ASSUME NEW S, NEW q \in Seq(S), NEW i \in DOMAIN q, NEW e \in S
  PROVE  LET p == [q EXCEPT ![i] = e] IN
         /\ p \in Seq(S) /\ Len(p) = Len(q) /\ DOMAIN p = DOMAIN q
         /\ \A j \in DOMAIN q : p[j] = IF j = i THEN e ELSE q[j]
OBVIOUS

LEMMA StatusSet ==
  ASSUME NEW q \in Seq(ARow), NEW i \in DOMAIN q, NEW st \in RowStatus
  PROVE  LET p == [q EXCEPT ![i].status = st] IN
         /\ p \in Seq(ARow) /\ Len(p) = Len(q) /\ DOMAIN p = DOMAIN q
         /\ \A j \in DOMAIN q : /\ p[j].request = q[j].request
                               /\ p[j].status = IF j = i THEN st ELSE q[j].status
<1>1. PICK x \in ARow : x = q[i]
  OBVIOUS
<1> DEFINE y == [x EXCEPT !.status = st]
<1>2. y \in ARow /\ y.status = st /\ y.request = x.request
  BY DEF ARow
<1>3. [q EXCEPT ![i].status = st] = [q EXCEPT ![i] = y]
  BY <1>1
<1> HIDE DEF y
<1> QED
  BY <1>1, <1>2, <1>3, ElementSet

LEMMA RequestSet ==
  ASSUME NEW q \in Seq(ARow), NEW i \in DOMAIN q, NEW k \in 0 .. MaxRequests
  PROVE  LET p == [q EXCEPT ![i].request = k] IN
         /\ p \in Seq(ARow) /\ Len(p) = Len(q) /\ DOMAIN p = DOMAIN q
         /\ \A j \in DOMAIN q : /\ p[j].status = q[j].status
                               /\ p[j].request = IF j = i THEN k ELSE q[j].request
<1>1. PICK x \in ARow : x = q[i]
  OBVIOUS
<1> DEFINE y == [x EXCEPT !.request = k]
<1>2. y \in ARow /\ y.request = k /\ y.status = x.status
  BY DEF ARow
<1>3. [q EXCEPT ![i].request = k] = [q EXCEPT ![i] = y]
  BY <1>1
<1> HIDE DEF y
<1> QED
  BY <1>1, <1>2, <1>3, ElementSet

LEMMA AnswerSet ==
  ASSUME NEW q \in Seq(AReq), NEW i \in DOMAIN q, NEW st \in Answer
  PROVE  LET p == [q EXCEPT ![i].status = st] IN
         /\ p \in Seq(AReq) /\ Len(p) = Len(q) /\ DOMAIN p = DOMAIN q
         /\ \A j \in DOMAIN q : /\ p[j].row = q[j].row
                               /\ p[j].status = IF j = i THEN st ELSE q[j].status
<1>1. PICK x \in AReq : x = q[i]
  OBVIOUS
<1> DEFINE y == [x EXCEPT !.status = st]
<1>2. y \in AReq /\ y.status = st /\ y.row = x.row
  BY DEF AReq
<1>3. [q EXCEPT ![i].status = st] = [q EXCEPT ![i] = y]
  BY <1>1
<1> HIDE DEF y
<1> QED
  BY <1>1, <1>2, <1>3, ElementSet

\* A step that only moves one tool on, to something it may hold.
LEMMA SuspendStep ==
  ASSUME ApprovalInv, NEW c \in ToolCall, NEW held \in ATool, tool' = [tool EXCEPT ![c] = held],
         UNCHANGED <<enrolling, rows, requests, approvedBy>>,
         profile' \in BOOLEAN, missed' \in BOOLEAN,
         held.pc # "idle" => held.row \in DOMAIN rows,
         held.pc \in {"polling", "approving", "dropping", "closing"} =>
           held.request \in DOMAIN requests /\ requests[held.request].row = held.row,
         held.pc = "approving" => held.request \in approvedBy
  PROVE  ApprovalInv'
<1>1. /\ tool' \in [ToolCall -> ATool] /\ tool'[c] = held
      /\ \A d \in ToolCall \ {c} : tool'[d] = tool[d]
  BY SuspendType DEF ApprovalInv
<1>2. HeldInv'
  BY <1>1 DEF ApprovalInv, HeldInv
<1> QED
  BY <1>1, <1>2 DEF ApprovalInv, ApprovalTypeOK, ATool, FiledInv, OnlyAdminApproves

LEMMA ApprovalStep == ApprovalInv /\ [ApprovalNext]_approvalVars => ApprovalInv'
<1> SUFFICES ASSUME ApprovalInv, [ApprovalNext]_approvalVars PROVE ApprovalInv'
  OBVIOUS
<1> USE ApprovalAssumption
<1>t. /\ ApprovalTypeOK /\ HeldInv /\ FiledInv /\ OnlyAdminApproves
      /\ rows \in Seq(ARow) /\ Len(rows) <= MaxRows
      /\ requests \in Seq(AReq) /\ Len(requests) <= MaxRequests
      /\ tool \in [ToolCall -> ATool] /\ approvedBy \subseteq 1 .. MaxRequests
      /\ profile \in BOOLEAN /\ missed \in BOOLEAN
      /\ enrolling \in BOOLEAN /\ (enrolling => Len(rows) < MaxRows)
  BY DEF ApprovalInv, ApprovalTypeOK, ARow, AReq, ATool
<1>n. /\ DOMAIN rows = 1 .. Len(rows) /\ DOMAIN requests = 1 .. Len(requests)
      /\ Len(rows) \in Nat /\ Len(requests) \in Nat
  BY <1>t
\* The parts of the invariant, as a step is to establish them.
<1> DEFINE Types == /\ rows' \in Seq(ARow) /\ Len(rows') <= MaxRows
                    /\ requests' \in Seq(AReq) /\ Len(requests') <= MaxRequests
                    /\ tool' \in [ToolCall -> ATool] /\ approvedBy' \subseteq 1 .. MaxRequests
                    /\ profile' \in BOOLEAN /\ missed' \in BOOLEAN
                    /\ enrolling' \in BOOLEAN /\ (enrolling' => Len(rows') < MaxRows)
<1>q. ASSUME Types, HeldInv', FiledInv', OnlyAdminApproves' PROVE ApprovalInv'
  BY <1>q DEF ApprovalInv, ApprovalTypeOK, ARow, AReq, ATool
<1>1. CASE EnrolVoice
  BY <1>1, <1>t DEF EnrolVoice, ApprovalInv, ApprovalTypeOK, HeldInv, FiledInv, OnlyAdminApproves
<1>2. CASE AddPendingResident
  <2> DEFINE new == [status |-> "pending", request |-> 0]
  <2>1. /\ rows' = Append(rows, new) /\ enrolling /\ enrolling' = FALSE
        /\ UNCHANGED <<profile, requests, tool, approvedBy, missed>>
    BY <1>2 DEF AddPendingResident
  <2>2. new \in ARow /\ new.status = "pending" /\ new.request = 0
    BY DEF ARow, RowStatus
  <2> HIDE DEF new
  <2>3. /\ rows' \in Seq(ARow) /\ Len(rows') = Len(rows) + 1
        /\ \A i \in DOMAIN rows : i \in DOMAIN rows' /\ rows'[i] = rows[i]
        /\ \A i \in DOMAIN rows' : i \in DOMAIN rows \/ rows'[i] = new
    BY <1>t, <2>1, <2>2
  <2>4. Types
    <3>1. Len(rows) < MaxRows /\ Len(rows') <= MaxRows
      BY <1>t, <1>n, <2>1, <2>3
    <3> QED
      BY <1>t, <2>1, <2>3, <3>1
  <2>5. HeldInv'
    BY <1>t, <2>1, <2>3 DEF HeldInv
  <2>6. FiledInv' /\ OnlyAdminApproves'
    BY <1>t, <2>1, <2>2, <2>3 DEF FiledInv, OnlyAdminApproves
  <2> QED
    BY <1>q, <2>4, <2>5, <2>6
<1>3. ASSUME NEW q \in DOMAIN requests, NEW a \in Answer, Resolve(q, a) PROVE ApprovalInv'
  <2>1. /\ requests' = [requests EXCEPT ![q].status = a]
        /\ approvedBy' = IF a = "approved" THEN approvedBy \cup {q} ELSE approvedBy
        /\ UNCHANGED <<profile, enrolling, rows, tool, missed>>
    BY <1>3 DEF Resolve
  <2>2. /\ requests' \in Seq(AReq) /\ Len(requests') = Len(requests)
        /\ DOMAIN requests' = DOMAIN requests
        /\ \A p \in DOMAIN requests : /\ requests'[p].row = requests[p].row
                                    /\ requests'[p].status = IF p = q THEN a ELSE requests[p].status
    BY <1>t, <2>1, AnswerSet
  <2>3. approvedBy \subseteq approvedBy' /\ approvedBy' \subseteq approvedBy \cup {q}
    BY <2>1
  <2>4. Types
    BY <1>t, <1>n, <2>1, <2>2, <2>3
  <2>5. HeldInv'
    BY <1>t, <2>1, <2>2, <2>3 DEF HeldInv
  <2>6. FiledInv'
    BY <1>t, <2>1, <2>2, <2>3 DEF FiledInv
  <2>7. OnlyAdminApproves'
    BY <1>t, <2>1, <2>2, <2>3 DEF FiledInv, OnlyAdminApproves
  <2> QED
    BY <1>q, <2>4, <2>5, <2>6, <2>7
<1>4. ASSUME NEW q \in DOMAIN requests, Forget(q) PROVE ApprovalInv'
  <2>1. /\ requests' = [requests EXCEPT ![q].status = "not-found"]
        /\ UNCHANGED <<profile, enrolling, rows, tool, missed, approvedBy>>
    BY <1>4 DEF Forget
  <2>2. /\ requests' \in Seq(AReq) /\ Len(requests') = Len(requests)
        /\ DOMAIN requests' = DOMAIN requests
        /\ \A p \in DOMAIN requests :
             /\ requests'[p].row = requests[p].row
             /\ requests'[p].status = IF p = q THEN "not-found" ELSE requests[p].status
    <3>1. "not-found" \in Answer
      BY DEF Answer
    <3> QED
      BY <1>t, <2>1, <3>1, AnswerSet
  <2>4. Types
    BY <1>t, <2>1, <2>2
  <2>5. HeldInv'
    BY <1>t, <2>1, <2>2 DEF HeldInv
  <2>6. FiledInv'
    BY <1>t, <2>1, <2>2 DEF FiledInv
  <2>7. OnlyAdminApproves'
    BY <1>t, <2>1, <2>2 DEF FiledInv, OnlyAdminApproves
  <2> QED
    BY <1>q, <2>4, <2>5, <2>6, <2>7
<1>5. ASSUME NEW c \in ToolCall, File(c) PROVE ApprovalInv'
  <2>1. GetPending \in DOMAIN rows
    BY <1>5, <1>t, PendingIsARow DEF File
  <2>2. [pc |-> "filing", row |-> GetPending, request |-> 0] \in ATool
    BY <1>t, <1>n, <2>1 DEF ATool
  <2> QED
    BY <1>5, <1>t, <2>1, <2>2, SuspendStep DEF File, Suspend
<1>6. ASSUME NEW c \in ToolCall, Filed(c) PROVE ApprovalInv'
  <2> DEFINE r == tool[c].row
             new == [row |-> r, status |-> "pending"]
  <2>1. Done(c) /\ UNCHANGED <<profile, enrolling, approvedBy, missed>> /\ r \in DOMAIN rows
    BY <1>6, <1>t DEF Filed, HeldInv
  <2>2. tool' \in [ToolCall -> ATool]
    BY <1>t, <2>1, SuspendType, IdleType DEF Done
  <2>3. CASE UNCHANGED <<requests, rows>>
    <3>1. HeldInv'
      BY <1>t, <2>1, <2>3, HeldByOthers
    <3> QED
      BY <1>t, <1>q, <2>1, <2>2, <2>3, <3>1 DEF FiledInv, OnlyAdminApproves
  <2>4. CASE /\ Len(requests) < MaxRequests
             /\ requests' = Append(requests, new)
             /\ rows' \in {rows, [rows EXCEPT ![r].request = Len(requests')]}
    <3>1. new \in AReq /\ new.row = r /\ new.status = "pending"
      BY <1>t, <1>n, <2>1 DEF AReq, Answer
    <3> HIDE DEF new, r
    <3> DEFINE k == Len(requests) + 1
    <3>2. /\ requests' \in Seq(AReq) /\ Len(requests') = k /\ k \in DOMAIN requests'
          /\ requests'[k] = new
          /\ \A q \in DOMAIN requests : q \in DOMAIN requests' /\ requests'[q] = requests[q]
          /\ \A q \in DOMAIN requests' : q \in DOMAIN requests \/ q = k
      BY <1>t, <2>4, <3>1
    <3>3. k \in 1 .. MaxRequests
      BY <1>n, <2>4
    <3> HIDE DEF k
    <3>4. /\ rows' \in Seq(ARow) /\ Len(rows') = Len(rows) /\ DOMAIN rows' = DOMAIN rows
          /\ \A i \in DOMAIN rows : /\ rows'[i].status = rows[i].status
                                  /\ \/ rows'[i].request = rows[i].request
                                     \/ i = r /\ rows'[i].request = k
      <4>1. CASE rows' = rows
        BY <1>t, <4>1
      <4>2. CASE rows' = [rows EXCEPT ![r].request = k]
        <5>1. k \in 0 .. MaxRequests
          BY <3>3
        <5> QED
          BY <1>t, <2>1, <4>2, <5>1, RequestSet
      <4> QED
        BY <2>4, <3>2, <4>1, <4>2
    <3>5. Types
      BY <1>t, <1>n, <2>1, <2>2, <2>4, <3>2, <3>3, <3>4
    <3>6. HeldInv'
      BY <1>t, <2>1, <3>2, <3>4, HeldByOthers
    <3>7. FiledInv'
      <4>1. \A i \in DOMAIN rows' : rows'[i].request # 0 =>
              rows'[i].request \in DOMAIN requests' /\ requests'[rows'[i].request].row = i
        BY <1>t, <3>1, <3>2, <3>4 DEF FiledInv
      <4>2. \A q \in DOMAIN requests' : requests'[q].status = "approved" => q \in approvedBy'
        BY <1>t, <2>1, <3>1, <3>2 DEF FiledInv
      <4> QED
        BY <1>t, <2>1, <3>2, <4>1, <4>2 DEF FiledInv
    <3>8. OnlyAdminApproves'
      BY <1>t, <2>1, <3>2, <3>4 DEF FiledInv, OnlyAdminApproves
    <3> QED
      BY <1>q, <3>5, <3>6, <3>7, <3>8
  <2> QED
    BY <1>6, <2>3, <2>4 DEF Filed
<1>7. ASSUME NEW c \in ToolCall, Check(c) PROVE ApprovalInv'
  <2> DEFINE q == rows[GetPending].request
  <2>1. GetPending \in DOMAIN rows /\ q # 0
    BY <1>7, <1>t, PendingIsARow DEF Check
  <2>2. q \in DOMAIN requests /\ requests[q].row = GetPending
    BY <1>t, <2>1 DEF FiledInv
  <2>3. [pc |-> "polling", row |-> GetPending, request |-> q] \in ATool
    BY <1>t, <1>n, <2>1, <2>2 DEF ATool
  <2> QED
    BY <1>7, <1>t, <2>1, <2>2, <2>3, SuspendStep DEF Check, Suspend
<1>8. ASSUME NEW c \in ToolCall, Polled(c) PROVE ApprovalInv'
  <2> DEFINE held == tool[c]
  <2>1. /\ held.pc = "polling" /\ held \in ATool
        /\ UNCHANGED <<profile, enrolling, rows, requests, approvedBy, missed>>
    BY <1>8, <1>t DEF Polled
  <2>2. /\ held.row \in DOMAIN rows /\ held.request \in DOMAIN requests
        /\ requests[held.request].row = held.row
    BY <1>t, <2>1 DEF HeldInv
  <2>3. CASE Done(c)
    <3>1. Idle.pc = "idle"
      BY DEF Idle
    <3> QED
      BY <1>t, <2>1, <2>3, <3>1, IdleType, SuspendStep DEF Done
  <2>4. ASSUME NEW where \in {"approving", "dropping"}, Suspend(c, where, held.row, held.request),
               where = "approving" => held.request \in approvedBy
        PROVE  ApprovalInv'
    <3>1. [pc |-> where, row |-> held.row, request |-> held.request] \in ATool
      BY <2>1 DEF ATool
    <3> QED
      BY <1>t, <2>1, <2>2, <2>4, <3>1, SuspendStep DEF Suspend
  <2>5. requests[held.request].status = "approved" => held.request \in approvedBy
    BY <1>t, <2>2 DEF FiledInv
  <2> QED
    BY <1>8, <2>3, <2>4, <2>5 DEF Polled
<1>9. ASSUME NEW c \in ToolCall, NEW st \in {"approved", "denied"},
             Done(c), rows' = [rows EXCEPT ![tool[c].row].status = st],
             tool[c].pc \in {"approving", "closing"}, st = "approved" => tool[c].pc = "approving",
             UNCHANGED <<profile, enrolling, requests, approvedBy, missed>>
      PROVE  ApprovalInv'
  <2>1. /\ tool[c].row \in DOMAIN rows /\ tool[c].request \in DOMAIN requests
        /\ requests[tool[c].request].row = tool[c].row
        /\ st = "approved" => tool[c].request \in approvedBy
    BY <1>t, <1>9 DEF HeldInv
  <2>2. /\ rows' \in Seq(ARow) /\ Len(rows') = Len(rows) /\ DOMAIN rows' = DOMAIN rows
        /\ \A i \in DOMAIN rows :
             /\ rows'[i].request = rows[i].request
             /\ rows'[i].status = IF i = tool[c].row THEN st ELSE rows[i].status
    <3>1. st \in RowStatus
      BY DEF RowStatus
    <3> QED
      BY <1>t, <1>9, <2>1, <3>1, StatusSet
  <2>3. tool' \in [ToolCall -> ATool]
    BY <1>t, <1>9, SuspendType, IdleType DEF Done
  <2>4. Types
    BY <1>t, <1>9, <2>2, <2>3
  <2>5. HeldInv'
    BY <1>t, <1>9, <2>2, HeldByOthers
  <2>6. FiledInv'
    BY <1>t, <1>9, <2>2 DEF FiledInv
  <2>7. OnlyAdminApproves'
    BY <1>t, <1>9, <2>1, <2>2 DEF OnlyAdminApproves
  <2> QED
    BY <1>q, <2>4, <2>5, <2>6, <2>7
<1>10. ASSUME NEW c \in ToolCall, DropVoice(c) PROVE ApprovalInv'
  <2> DEFINE held == tool[c]
  <2>1. /\ held.pc = "dropping" /\ held \in ATool
        /\ UNCHANGED <<enrolling, rows, requests, approvedBy>>
        /\ profile' \in BOOLEAN /\ missed' \in BOOLEAN
    BY <1>10, <1>t DEF DropVoice
  <2>2. /\ held.row \in DOMAIN rows /\ held.request \in DOMAIN requests
        /\ requests[held.request].row = held.row
    BY <1>t, <2>1 DEF HeldInv
  <2>3. CASE Done(c)
    <3>1. Idle.pc = "idle"
      BY DEF Idle
    <3> QED
      BY <1>t, <2>1, <2>3, <3>1, IdleType, SuspendStep DEF Done
  <2>4. CASE Suspend(c, "closing", held.row, held.request)
    <3>1. [pc |-> "closing", row |-> held.row, request |-> held.request] \in ATool
      BY <2>1 DEF ATool
    <3> QED
      BY <1>t, <2>1, <2>2, <2>4, <3>1, SuspendStep DEF Suspend
  <2> QED
    BY <1>10, <2>3, <2>4 DEF DropVoice
<1>11. ASSUME NEW c \in ToolCall, MarkApproved(c) \/ MarkDenied(c) PROVE ApprovalInv'
  BY <1>9, <1>11 DEF MarkApproved, MarkDenied
<1>12. CASE ApprovalRestart
  <2>1. /\ tool' = [c \in ToolCall |-> Idle]
        /\ UNCHANGED <<profile, enrolling, rows, requests, approvedBy, missed>>
    BY <1>12 DEF ApprovalRestart
  <2>2. tool' \in [ToolCall -> ATool] /\ \A c \in ToolCall : tool'[c].pc = "idle"
    BY <2>1, IdleType DEF Idle
  <2>3. HeldInv'
    BY <2>2 DEF HeldInv
  <2> QED
    BY <1>t, <1>q, <2>1, <2>2, <2>3 DEF FiledInv, OnlyAdminApproves
<1>13. CASE UNCHANGED approvalVars
  BY <1>13, <1>t DEF approvalVars, ApprovalInv, ApprovalTypeOK, HeldInv, FiledInv, OnlyAdminApproves
<1> QED
  BY <1>1, <1>2, <1>3, <1>4, <1>5, <1>6, <1>7, <1>8, <1>10, <1>11, <1>12, <1>13
  DEF ApprovalNext

LEMMA ApprovalStart == ApprovalInit => ApprovalInv
<1> SUFFICES ASSUME ApprovalInit PROVE ApprovalInv
  OBVIOUS
<1>1. /\ tool = [c \in ToolCall |-> Idle] /\ Idle \in ATool /\ Idle.pc = "idle"
      /\ rows = <<>> /\ requests = <<>> /\ approvedBy = {}
      /\ profile = FALSE /\ enrolling = FALSE /\ missed = FALSE
  BY IdleType DEF ApprovalInit, Idle
<1>2. tool \in [ToolCall -> ATool] /\ \A c \in ToolCall : tool[c].pc = "idle"
  BY <1>1
<1>3. HeldInv
  BY <1>2 DEF HeldInv
<1>4. ApprovalTypeOK
  <2>1. rows \in Seq(ARow) /\ Len(rows) = 0 /\ requests \in Seq(AReq) /\ Len(requests) = 0
    BY <1>1
  <2>2. Len(rows) <= MaxRows /\ Len(requests) <= MaxRequests
    BY <2>1, ApprovalAssumption
  <2> QED
    BY <1>1, <1>2, <2>1, <2>2 DEF ApprovalTypeOK, ATool, ARow, AReq
<1>5. FiledInv /\ OnlyAdminApproves
  BY <1>1 DEF FiledInv, OnlyAdminApproves
<1> QED
  BY <1>1, <1>3, <1>4, <1>5 DEF ApprovalInv

LEMMA ApprovalIsInv == ApprovalSpec => []ApprovalInv
BY ApprovalStart, ApprovalStep, PTL DEF ApprovalSpec

\* Solilos never approves a candidate of its own accord (mark_approved): the
\* rows of the admin's requests are the only ones that become approved.
THEOREM OnlyTheAdminApproves == ApprovalSpec => []OnlyAdminApproves
<1>1. ApprovalInv => OnlyAdminApproves
  BY DEF ApprovalInv
<1> QED
  BY <1>1, ApprovalIsInv, PTL

\* What a step must leave of the rows and of the tools that are closing one.
LEMMA KeptStays ==
  ASSUME KeptInv, profile' => profile, missed => missed', enrolling' = enrolling,
         missed \in BOOLEAN,
         \A i \in DOMAIN rows : i \in DOMAIN rows' /\ (Open(i) => Open(i)'),
         \A c \in ToolCall : tool'[c].pc = "closing" => tool'[c] = tool[c]
  PROVE  KeptInv'
<1> SUFFICES ASSUME profile', ~missed', ~enrolling'
             PROVE  \E i \in DOMAIN rows' : Open(i)' /\ \A c \in ToolCall :
                      tool'[c].pc = "closing" => tool'[c].row # i
  BY DEF KeptInv
<1>1. PICK i \in DOMAIN rows : Open(i) /\ \A c \in ToolCall : tool[c].pc = "closing" => tool[c].row # i
  BY DEF KeptInv
<1>2. i \in DOMAIN rows' /\ Open(i)'
  BY <1>1
<1>3. ASSUME NEW c \in ToolCall, tool'[c].pc = "closing" PROVE tool'[c].row # i
  <2>1. tool'[c] = tool[c]
    BY <1>3
  <2> QED
    BY <1>1, <1>3, <2>1
<1> QED
  BY <1>2, <1>3

LEMMA KeptStep == ApprovalInv /\ KeptInv /\ [ApprovalNext]_approvalVars => KeptInv'
<1> SUFFICES ASSUME ApprovalInv, KeptInv, [ApprovalNext]_approvalVars PROVE KeptInv'
  OBVIOUS
<1>t. /\ ApprovalTypeOK /\ HeldInv /\ rows \in Seq(ARow) /\ Len(rows) \in Nat
      /\ DOMAIN rows = 1 .. Len(rows)
      /\ tool \in [ToolCall -> ATool] /\ profile \in BOOLEAN /\ missed \in BOOLEAN
  BY DEF ApprovalInv, ApprovalTypeOK, ARow, ATool
\* The tool is done, or suspended in something else than the closing of a row.
<1>d. ASSUME NEW c \in ToolCall, NEW held \in ATool, tool' = [tool EXCEPT ![c] = held], held.pc # "closing"
      PROVE  \A d \in ToolCall : tool'[d].pc = "closing" => tool'[d] = tool[d]
  <2>1. tool'[c] = held /\ \A d \in ToolCall \ {c} : tool'[d] = tool[d]
    BY <1>d, <1>t, SuspendType
  <2> QED
    BY <1>d, <2>1
<1>e. ASSUME NEW c \in ToolCall, Done(c)
      PROVE  \A d \in ToolCall : tool'[d].pc = "closing" => tool'[d] = tool[d]
  <2>1. Idle \in ATool /\ Idle.pc # "closing"
    BY IdleType DEF Idle
  <2> QED
    BY <1>d, <1>e, <2>1 DEF Done
<1>r. rows' = rows => \A i \in DOMAIN rows : i \in DOMAIN rows' /\ (Open(i) => Open(i)')
  BY DEF Open
<1>1. CASE EnrolVoice
  BY <1>1 DEF EnrolVoice, KeptInv
<1>2. CASE AddPendingResident
  <2> DEFINE new == [status |-> "pending", request |-> 0]
  <2>1. rows' = Append(rows, new) /\ tool' = tool
    BY <1>2 DEF AddPendingResident
  <2>2. PICK i \in DOMAIN rows' : rows'[i] = new /\ i \notin DOMAIN rows
    BY <1>t, <2>1
  <2>3. Open(i)'
    BY <2>2 DEF Open
  <2>4. \A c \in ToolCall : tool'[c].pc = "closing" => tool'[c].row # i
    BY <1>t, <2>1, <2>2 DEF HeldInv
  <2> HIDE DEF new
  <2> QED
    BY <2>2, <2>3, <2>4 DEF KeptInv
<1>3. ASSUME NEW q \in DOMAIN requests, Forget(q) \/ \E a \in Answer : Resolve(q, a) PROVE KeptInv'
  <2>1. UNCHANGED <<profile, missed, enrolling, rows, tool>>
    BY <1>3 DEF Forget, Resolve
  <2> QED
    BY <1>r, <1>t, <2>1, KeptStays
<1>4. ASSUME NEW c \in ToolCall, File(c) PROVE KeptInv'
  <2> DEFINE held == [pc |-> "filing", row |-> GetPending, request |-> 0]
  <2>1. GetPending \in DOMAIN rows /\ tool' = [tool EXCEPT ![c] = held]
        /\ UNCHANGED <<profile, missed, enrolling, rows>>
    BY <1>4, <1>t, PendingIsARow DEF File, Suspend
  <2>2. held \in ATool /\ held.pc # "closing"
    BY <1>t, <2>1, ApprovalAssumption DEF ATool, ApprovalTypeOK
  <2> HIDE DEF held
  <2> QED
    BY <1>d, <1>r, <1>t, <2>1, <2>2, KeptStays
<1>5. ASSUME NEW c \in ToolCall, Filed(c) PROVE KeptInv'
  <2>1. Done(c) /\ UNCHANGED <<profile, missed, enrolling>>
    BY <1>5 DEF Filed
  <2>2. \A i \in DOMAIN rows : i \in DOMAIN rows' /\ rows'[i].status = rows[i].status
    <3>1. CASE rows' = rows
      BY <3>1
    <3>2. ASSUME requests' = Append(requests, [row |-> tool[c].row, status |-> "pending"]),
                 rows' = [rows EXCEPT ![tool[c].row].request = Len(requests')],
                 Len(requests) < MaxRequests
          PROVE  \A i \in DOMAIN rows : i \in DOMAIN rows' /\ rows'[i].status = rows[i].status
      <4>1. tool[c].row \in DOMAIN rows
        BY <1>5, <1>t DEF Filed, HeldInv
      <4>2. Len(requests') \in 0 .. MaxRequests
        BY <1>t, <3>2, ApprovalAssumption DEF ApprovalTypeOK
      <4> QED
        BY <1>t, <3>2, <4>1, <4>2, RequestSet
    <3> QED
      BY <1>5, <3>1, <3>2 DEF Filed
  <2> QED
    BY <1>e, <1>t, <2>1, <2>2, KeptStays DEF Open
<1>6. ASSUME NEW c \in ToolCall, Check(c) PROVE KeptInv'
  <2> DEFINE held == [pc |-> "polling", row |-> GetPending, request |-> rows[GetPending].request]
  <2>1. GetPending \in DOMAIN rows /\ tool' = [tool EXCEPT ![c] = held]
        /\ UNCHANGED <<profile, missed, enrolling, rows>>
    BY <1>6, <1>t, PendingIsARow DEF Check, Suspend
  <2>2. rows[GetPending] \in ARow
    BY <1>t, <2>1
  <2>3. held \in ATool /\ held.pc # "closing"
    BY <1>t, <2>1, <2>2, ApprovalAssumption DEF ATool, ARow, ApprovalTypeOK
  <2> HIDE DEF held
  <2> QED
    BY <1>d, <1>r, <1>t, <2>1, <2>3, KeptStays
<1>7. ASSUME NEW c \in ToolCall, Polled(c) PROVE KeptInv'
  <2>1. tool[c] \in ATool /\ UNCHANGED <<profile, missed, enrolling, rows>>
    BY <1>7, <1>t DEF Polled
  <2>2. ASSUME NEW where \in {"approving", "dropping"}, Suspend(c, where, tool[c].row, tool[c].request)
        PROVE  \A d \in ToolCall : tool'[d].pc = "closing" => tool'[d] = tool[d]
    <3> DEFINE held == [pc |-> where, row |-> tool[c].row, request |-> tool[c].request]
    <3>1. held \in ATool /\ held.pc # "closing" /\ tool' = [tool EXCEPT ![c] = held]
      BY <2>1, <2>2 DEF ATool, Suspend
    <3> HIDE DEF held
    <3> QED
      BY <1>d, <3>1
  <2>3. \A d \in ToolCall : tool'[d].pc = "closing" => tool'[d] = tool[d]
    BY <1>7, <1>e, <2>2 DEF Polled
  <2> QED
    BY <1>r, <1>t, <2>1, <2>3, KeptStays
<1>8. ASSUME NEW c \in ToolCall, MarkApproved(c) PROVE KeptInv'
  <2>1. tool[c].row \in DOMAIN rows /\ "approved" \in RowStatus
    BY <1>8, <1>t DEF MarkApproved, HeldInv, RowStatus
  <2>2. \A i \in DOMAIN rows : i \in DOMAIN rows' /\
          rows'[i].status = IF i = tool[c].row THEN "approved" ELSE rows[i].status
    BY <1>8, <1>t, <2>1, StatusSet DEF MarkApproved
  <2>3. \A i \in DOMAIN rows : i \in DOMAIN rows' /\ (Open(i) => Open(i)')
    BY <2>2 DEF Open
  <2>4. Done(c) /\ UNCHANGED <<profile, missed, enrolling>>
    BY <1>8 DEF MarkApproved
  <2> QED
    BY <1>e, <1>t, <2>3, <2>4, KeptStays
<1>9. ASSUME NEW c \in ToolCall, DropVoice(c) PROVE KeptInv'
  <2>1. profile' \in {FALSE, profile} /\ UNCHANGED <<enrolling, rows>>
    BY <1>9 DEF DropVoice
  <2>2. CASE missed' = (missed \/ profile')
    BY <1>t, <2>1, <2>2 DEF KeptInv
  <2>3. CASE Done(c) /\ UNCHANGED missed
    <3>1. profile' => profile
      BY <2>1
    <3> QED
      BY <1>e, <1>r, <1>t, <2>1, <2>3, <3>1, KeptStays
  <2> QED
    BY <1>9, <2>2, <2>3 DEF DropVoice
<1>10. ASSUME NEW c \in ToolCall, MarkDenied(c) PROVE KeptInv'
  <2>1. /\ tool[c].pc = "closing" /\ tool[c].row \in DOMAIN rows /\ "denied" \in RowStatus
        /\ UNCHANGED <<profile, missed, enrolling>>
    BY <1>10, <1>t DEF MarkDenied, HeldInv, RowStatus
  <2>2. \A i \in DOMAIN rows : i \in DOMAIN rows' /\
          rows'[i].status = IF i = tool[c].row THEN "denied" ELSE rows[i].status
    BY <1>10, <1>t, <2>1, StatusSet DEF MarkDenied
  <2>3. \A d \in ToolCall : tool'[d].pc = "closing" => tool'[d] = tool[d]
    BY <1>10, <1>e DEF MarkDenied
  <2> SUFFICES ASSUME profile', ~missed', ~enrolling'
               PROVE  \E i \in DOMAIN rows' : Open(i)' /\ \A d \in ToolCall :
                        tool'[d].pc = "closing" => tool'[d].row # i
    BY DEF KeptInv
  <2>4. PICK i \in DOMAIN rows : Open(i) /\ \A d \in ToolCall : tool[d].pc = "closing" => tool[d].row # i
    BY <2>1 DEF KeptInv
  <2>5. i \in DOMAIN rows' /\ Open(i)'
    BY <2>1, <2>2, <2>4 DEF Open
  <2>6. ASSUME NEW d \in ToolCall, tool'[d].pc = "closing" PROVE tool'[d].row # i
    <3>1. tool'[d] = tool[d]
      BY <2>3, <2>6
    <3> QED
      BY <2>4, <2>6, <3>1
  <2> QED
    BY <2>5, <2>6
<1>11. CASE ApprovalRestart
  <2>1. \A c \in ToolCall : tool'[c].pc # "closing"
    BY <1>11 DEF ApprovalRestart, Idle
  <2> QED
    BY <1>11, <1>r, <1>t, <2>1, KeptStays DEF ApprovalRestart
<1>12. CASE UNCHANGED approvalVars
  BY <1>12, <1>r, <1>t, KeptStays DEF approvalVars
<1> QED
  BY <1>1, <1>2, <1>3, <1>4, <1>5, <1>6, <1>7, <1>8, <1>9, <1>10, <1>11, <1>12 DEF ApprovalNext

\* A denied candidate leaves no voice behind (check_approval: the profile is
\* deleted before the row is closed), unless the gatekeeper was down for it.
THEOREM DenialDropsTheVoice == ApprovalSpec => []DenialDropsVoice
<1>1. ApprovalInit => KeptInv
  BY DEF ApprovalInit, KeptInv
<1>2. KeptInv => DenialDropsVoice
  BY DEF KeptInv, DenialDropsVoice, Open
<1> QED
  BY <1>1, <1>2, KeptStep, ApprovalIsInv, PTL DEF ApprovalSpec

-----------------------------------------------------------------------------
(* SpokenTurn: types.                                                      *)

Step == {"silent", "heard", "sent", "running", "over"}
Said == Utterance \X {"user", "assistant"}

LEMMA LatestIsASequence ==
  ASSUME NEW S, NEW s \in Seq(S)
  PROVE  /\ Latest(s) \in Seq(S) /\ Len(Latest(s)) <= MaxHistory
         /\ LET k == IF Len(s) <= MaxHistory THEN 0 ELSE Len(s) - MaxHistory IN
            /\ Len(Latest(s)) = Len(s) - k
            /\ \A i \in DOMAIN Latest(s) : i + k \in DOMAIN s /\ Latest(s)[i] = s[i + k]
<1>0. Len(s) \in Nat /\ MaxHistory \in Nat \ {0} /\ DOMAIN s = 1 .. Len(s)
  BY SpokenAssumption
<1>1. CASE Len(s) <= MaxHistory
  BY <1>0, <1>1 DEF Latest
<1>2. CASE Len(s) > MaxHistory
  <2> DEFINE k == Len(s) - MaxHistory
             p == SubSeq(s, k + 1, Len(s))
  <2>1. k \in Nat /\ Len(s) - k = MaxHistory /\ Latest(s) = p
    BY <1>0, <1>2 DEF Latest
  <2>2. /\ p \in Seq(S) /\ Len(p) = MaxHistory
        /\ \A i \in 1 .. MaxHistory : p[i] = s[i + k] /\ i + k \in 1 .. Len(s)
    BY <1>0, <1>2
  <2> HIDE DEF p
  <2>3. DOMAIN Latest(s) = 1 .. MaxHistory /\ ~(Len(s) <= MaxHistory)
    BY <1>0, <1>2, <2>1, <2>2
  <2> QED
    BY <1>0, <2>1, <2>2, <2>3
<1> QED
  BY <1>0, <1>1, <1>2

LEMMA Pair ==
  ASSUME NEW s \in Seq(Said), NEW t \in Utterance
  PROVE  LET n == Len(s)
             p == s \o <<<<t, "user">>, <<t, "assistant">>>>
         IN /\ p \in Seq(Said) /\ Len(p) = n + 2
            /\ \A i \in 1 .. n : p[i] = s[i]
            /\ p[n + 1] = <<t, "user">> /\ p[n + 2] = <<t, "assistant">>
BY DEF Said

LEMMA SpokenTypeStep == SpokenTypeOK /\ [SpokenNext]_spokenVars => SpokenTypeOK'
<1> SUFFICES ASSUME SpokenTypeOK, [SpokenNext]_spokenVars PROVE SpokenTypeOK'
  OBVIOUS
<1>t. /\ upc \in [Utterance -> Step] /\ heardAs \in [Utterance -> Uid]
      /\ stash \in [Transcript -> Utterance \cup {Nobody}] /\ expired \subseteq Transcript
      /\ credit \in [Utterance -> Utterance \cup {Nobody}] /\ runAs \in [Utterance -> Uid]
      /\ sessions \in [Uid -> SUBSET Utterance] /\ history \in [Uid -> Seq(Said)]
      /\ \A u \in Uid : Len(history[u]) <= MaxHistory
  BY DEF SpokenTypeOK, Step, Said
<1>w. \A t \in Utterance : Words[t] \in Transcript
  BY DEF Transcript
<1>u. Told \subseteq Uid /\ Household \in Uid
  BY DEF Told, Uid
<1>1. ASSUME NEW t \in Utterance, Hear(t) PROVE SpokenTypeOK'
  <2>1. heardAs' \in [Utterance -> Uid]
    BY <1>1, <1>t, <1>u DEF Hear
  <2>2. upc' \in [Utterance -> Step]
    BY <1>1, <1>t DEF Hear, Mode, Step
  <2> QED
    BY <1>1, <1>t, <2>1, <2>2 DEF Hear, SpokenTypeOK, Step, Said
<1>2. ASSUME NEW t \in Utterance, StashUid(t) PROVE SpokenTypeOK'
  <2>1. upc' \in [Utterance -> Step]
    BY <1>2, <1>t DEF StashUid, Step
  <2>2. stash' \in [Transcript -> Utterance \cup {Nobody}] /\ expired' \subseteq Transcript
    BY <1>2, <1>t, <1>w DEF StashUid
  <2> QED
    BY <1>2, <1>t, <2>1, <2>2 DEF StashUid, SpokenTypeOK, Step, Said
<1>3. ASSUME NEW t \in Utterance, Dropped(t) PROVE SpokenTypeOK'
  BY <1>3, <1>t DEF Dropped, SpokenTypeOK, Step, Said
<1>4. ASSUME NEW t \in Utterance, Facade(t) PROVE SpokenTypeOK'
  <2> DEFINE u == IF credit'[t] # Nobody THEN heardAs[credit'[t]]
                  ELSE IF t \in BySatellite THEN heardAs[t] ELSE Household
  <2>1. Found(t) \in Utterance \cup {Nobody}
    BY <1>t, <1>w DEF Found
  <2>2. /\ credit' \in [Utterance -> Utterance \cup {Nobody}]
        /\ stash' \in [Transcript -> Utterance \cup {Nobody}]
    BY <1>4, <1>t, <1>w, <2>1 DEF Facade, ConsumeUid
  <2>3. u \in Uid
    BY <1>t, <1>u, <2>2
  <2>4. runAs' = [runAs EXCEPT ![t] = u] /\ sessions' = StoredFor(u, t)
    BY <1>4 DEF Facade
  <2> HIDE DEF u
  <2>5. runAs' \in [Utterance -> Uid] /\ sessions' \in [Uid -> SUBSET Utterance]
    BY <1>t, <2>3, <2>4 DEF StoredFor
  <2>6. upc' \in [Utterance -> Step] /\ expired' \subseteq Transcript
        /\ UNCHANGED <<heardAs, history>>
    BY <1>4, <1>t DEF Facade, Step
  <2> QED
    BY <1>t, <2>2, <2>5, <2>6 DEF SpokenTypeOK, Step, Said
<1>5. ASSUME NEW t \in Utterance, Reply(t) PROVE SpokenTypeOK'
  <2> DEFINE h == history[heardAs[t]] \o <<<<t, "user">>, <<t, "assistant">>>>
  <2>1. heardAs[t] \in Uid /\ h \in Seq(Said)
    BY <1>t, Pair
  <2>2. history' = history \/ history' = [history EXCEPT ![heardAs[t]] = Latest(h)]
    BY <1>5, <1>t DEF Reply, Remembered
  <2> HIDE DEF h
  <2>3. Latest(h) \in Seq(Said) /\ Len(Latest(h)) <= MaxHistory
    BY <2>1, LatestIsASequence
  <2>4. history' \in [Uid -> Seq(Said)] /\ \A u \in Uid : Len(history'[u]) <= MaxHistory
    BY <1>t, <2>1, <2>2, <2>3
  <2>5. upc' \in [Utterance -> Step]
        /\ UNCHANGED <<heardAs, stash, expired, credit, runAs, sessions>>
    BY <1>5, <1>t DEF Reply, Step
  <2> QED
    BY <1>t, <2>4, <2>5 DEF SpokenTypeOK, Step, Said
<1>6. ASSUME NEW w \in Transcript, RowExpires(w) PROVE SpokenTypeOK'
  BY <1>6, <1>t DEF RowExpires, SpokenTypeOK, Step, Said
<1>7. CASE GatekeeperRestart
  <2>1. upc' \in [Utterance -> Step]
    BY <1>7, <1>t DEF GatekeeperRestart, Step
  <2>2. history' = [u \in Uid |-> <<>>] /\ UNCHANGED <<heardAs, stash, expired, credit, runAs, sessions>>
    BY <1>7 DEF GatekeeperRestart
  <2>3. history' \in [Uid -> Seq(Said)] /\ \A u \in Uid : Len(history'[u]) <= MaxHistory
    BY <2>2, SpokenAssumption
  <2> QED
    BY <1>t, <2>1, <2>2, <2>3 DEF SpokenTypeOK, Step, Said
<1>8. CASE UNCHANGED spokenVars
  BY <1>8 DEF spokenVars, SpokenTypeOK
<1> QED
  BY <1>1, <1>2, <1>3, <1>4, <1>5, <1>6, <1>7, <1>8 DEF SpokenNext

-----------------------------------------------------------------------------
(* SpokenTurn: the follow-ups.                                             *)

LEMMA EvenLess ==
  ASSUME NEW a \in Nat, NEW b \in Nat, a % 2 = 0, b % 2 = 0, b <= a
  PROVE  (a - b) % 2 = 0
OBVIOUS

LEMMA EvenMore ==
  ASSUME NEW a \in Nat, NEW b \in Nat, b % 2 = 0
  PROVE  (a + b) % 2 = a % 2
OBVIOUS

\* A list of questions, each followed by its answer.
Paired(s) ==
  \A i \in DOMAIN s :
    LET other == IF i % 2 = 1 THEN i + 1 ELSE i - 1
    IN /\ other \in DOMAIN s
       /\ s[i][1] = s[other][1]
       /\ s[i][2] = IF i % 2 = 1 THEN "user" ELSE "assistant"

LEMMA PairedIsEven ==
  ASSUME NEW s \in Seq(Said), Paired(s)
  PROVE  Len(s) % 2 = 0
<1>1. Len(s) \in Nat /\ DOMAIN s = 1 .. Len(s)
  OBVIOUS
<1>2. CASE Len(s) = 0
  BY <1>2
<1>3. CASE Len(s) # 0
  <2>1. Len(s) \in DOMAIN s /\ Len(s) + 1 \notin DOMAIN s
    BY <1>1, <1>3
  <2>2. Len(s) % 2 # 1
    BY <2>1 DEF Paired
  <2> QED
    BY <1>1, <2>2
<1> QED
  BY <1>2, <1>3

LEMMA PairedGrows ==
  ASSUME NEW s \in Seq(Said), Paired(s), NEW t \in Utterance
  PROVE  Paired(s \o <<<<t, "user">>, <<t, "assistant">>>>)
<1> DEFINE n == Len(s)
           p == s \o <<<<t, "user">>, <<t, "assistant">>>>
<1>1. /\ n \in Nat /\ n % 2 = 0 /\ DOMAIN s = 1 .. n
      /\ DOMAIN p = 1 .. n + 2
      /\ \A i \in 1 .. n : p[i] = s[i]
      /\ p[n + 1] = <<t, "user">> /\ p[n + 2] = <<t, "assistant">>
  <2>1. p \in Seq(Said) /\ Len(p) = n + 2
    BY Pair
  <2> QED
    BY <2>1, Pair, PairedIsEven
<1> HIDE DEF n, p
<1>2. (n + 1) % 2 = 1 /\ (n + 2) % 2 = 0
  BY <1>1
<1>3. ASSUME NEW i \in 1 .. n + 2
      PROVE  LET other == IF i % 2 = 1 THEN i + 1 ELSE i - 1
             IN /\ other \in 1 .. n + 2
                /\ p[i][1] = p[other][1]
                /\ p[i][2] = IF i % 2 = 1 THEN "user" ELSE "assistant"
  <2>1. CASE i \in 1 .. n
    BY <1>1, <2>1 DEF Paired
  <2>2. CASE i = n + 1
    BY <1>1, <1>2, <2>2
  <2>3. CASE i = n + 2
    BY <1>1, <1>2, <2>3
  <2> QED
    BY <1>1, <2>1, <2>2, <2>3
<1>4. Paired(p)
  BY <1>1, <1>3 DEF Paired
<1> QED
  BY <1>4 DEF p

\* The far end of the deque drops whole pairs.
LEMMA PairedLatest ==
  ASSUME NEW s \in Seq(Said), Paired(s)
  PROVE  Paired(Latest(s))
<1> DEFINE k == IF Len(s) <= MaxHistory THEN 0 ELSE Len(s) - MaxHistory
           p == Latest(s)
<1>1. /\ p \in Seq(Said) /\ Len(p) = Len(s) - k
      /\ \A i \in DOMAIN p : i + k \in DOMAIN s /\ p[i] = s[i + k]
  BY LatestIsASequence
<1>2. Len(s) \in Nat /\ Len(s) % 2 = 0 /\ MaxHistory \in Nat /\ MaxHistory % 2 = 0
  BY PairedIsEven, SpokenAssumption
<1>3. k \in Nat /\ k % 2 = 0 /\ k <= Len(s)
  <2>1. CASE Len(s) <= MaxHistory
    BY <1>2, <2>1
  <2>2. CASE ~(Len(s) <= MaxHistory)
    BY <1>2, <2>2, EvenLess
  <2> QED
    BY <2>1, <2>2
<1> HIDE DEF k, p
<1>4. DOMAIN p = 1 .. Len(s) - k /\ DOMAIN s = 1 .. Len(s)
  BY <1>1, <1>2, <1>3
<1>5. ASSUME NEW i \in DOMAIN p
      PROVE  LET other == IF i % 2 = 1 THEN i + 1 ELSE i - 1
             IN /\ other \in DOMAIN p
                /\ p[i][1] = p[other][1]
                /\ p[i][2] = IF i % 2 = 1 THEN "user" ELSE "assistant"
  <2>1. i \in Nat /\ i >= 1 /\ (i + k) % 2 = i % 2 /\ i + k \in DOMAIN s
    <3>1. i \in Nat /\ i >= 1 /\ i + k \in DOMAIN s
      BY <1>1, <1>2, <1>3, <1>4
    <3> QED
      BY <1>3, <3>1, EvenMore
  <2>2. CASE i % 2 = 1
    <3>1. i + k + 1 \in DOMAIN s /\ s[i + k][1] = s[i + k + 1][1] /\ s[i + k][2] = "user"
      BY <2>1, <2>2 DEF Paired
    <3>2. i + 1 \in DOMAIN p /\ i + 1 + k = i + k + 1
      BY <1>2, <1>3, <1>4, <2>1, <3>1
    <3> QED
      BY <1>1, <2>2, <3>1, <3>2
  <2>3. CASE i % 2 # 1
    <3>0. PICK j \in DOMAIN s : j = i + k /\ j % 2 # 1
      BY <2>1, <2>3
    <3>1. j - 1 \in DOMAIN s /\ s[j][1] = s[j - 1][1] /\ s[j][2] = "assistant"
      BY <3>0 DEF Paired
    <3>2. i # 1
      BY <2>3
    <3>3. i - 1 \in DOMAIN p /\ i - 1 + k = j - 1
      BY <1>2, <1>3, <1>4, <2>1, <3>0, <3>2
    <3> QED
      BY <1>1, <2>3, <3>0, <3>1, <3>3
  <2> QED
    BY <2>2, <2>3
<1>6. Paired(p)
  BY <1>5 DEF Paired
<1> QED
  BY <1>6 DEF p

LEMMA SpokenTypeStart == SpokenInit => SpokenTypeOK
<1> SUFFICES ASSUME SpokenInit PROVE SpokenTypeOK
  OBVIOUS
<1>1. Household \in Uid
  BY DEF Uid
<1>2. history \in [Uid -> Seq(Said)] /\ \A u \in Uid : Len(history[u]) <= MaxHistory
  BY SpokenAssumption DEF SpokenInit
<1> QED
  BY <1>1, <1>2 DEF SpokenInit, SpokenTypeOK, Said

LEMMA SpokenTypes == SpokenSpec => []SpokenTypeOK
BY SpokenTypeStart, SpokenTypeStep, PTL DEF SpokenSpec

\* What the model is shown of earlier turns are questions with their answers:
\* pairs are appended whole, and a deque of even length drops whole pairs.
THEOREM FollowUpsArePaired == SpokenSpec => []FollowUpsPaired
<1>0. FollowUpsPaired <=> \A u \in Uid : Paired(history[u])
  BY DEF FollowUpsPaired, Paired
<1>1. SpokenInit => FollowUpsPaired
  BY DEF SpokenInit, FollowUpsPaired
<1>2. SpokenTypeOK /\ FollowUpsPaired /\ [SpokenNext]_spokenVars => FollowUpsPaired'
  <2> SUFFICES ASSUME SpokenTypeOK, FollowUpsPaired, [SpokenNext]_spokenVars
               PROVE  \A u \in Uid : Paired(history'[u])
    BY DEF FollowUpsPaired, Paired
  <2>1. CASE UNCHANGED history
    BY <1>0, <2>1
  <2>2. ASSUME NEW t \in Utterance, Reply(t) PROVE \A u \in Uid : Paired(history'[u])
    <3> DEFINE h == history[heardAs[t]] \o <<<<t, "user">>, <<t, "assistant">>>>
    <3>1. /\ heardAs[t] \in Uid /\ history \in [Uid -> Seq(Said)]
          /\ history[heardAs[t]] \in Seq(Said)
      BY DEF SpokenTypeOK, Said
    <3>2. h \in Seq(Said) /\ Paired(h)
      BY <1>0, <3>1, Pair, PairedGrows
    <3>3. history' = history \/ history' = [history EXCEPT ![heardAs[t]] = Latest(h)]
      BY <2>2, <3>1 DEF Reply, Remembered
    <3> HIDE DEF h
    <3>4. Paired(Latest(h))
      BY <3>2, PairedLatest
    <3> QED
      BY <1>0, <3>1, <3>3, <3>4
  <2>3. CASE GatekeeperRestart
    <3>1. \A u \in Uid : history'[u] = <<>>
      BY <2>3 DEF GatekeeperRestart
    <3> QED
      BY <3>1 DEF Paired
  <2> QED
    BY <2>1, <2>2, <2>3
    DEF SpokenNext, Hear, StashUid, Dropped, Facade, RowExpires, spokenVars
<1> QED
  BY <1>1, <1>2, SpokenTypes, PTL DEF SpokenSpec

-----------------------------------------------------------------------------
(* SpokenTurn: whose uid a turn runs as.                                   *)

\* Past the gatekeeper: its speaker is told, and may be in the table.
Identified == {"sent", "running", "over"}

\* A row is of an utterance with its words, and has attributed no turn yet; a
\* row that has attributed one is gone from the table for good.
StashInv ==
  \A w \in Transcript : stash[w] # Nobody =>
    /\ Words[stash[w]] = w
    /\ upc[stash[w]] \in Identified
    /\ \A v \in Utterance : credit[v] # stash[w]

CreditInv ==
  \A t \in Utterance : credit[t] # Nobody =>
    /\ upc[t] \in {"running", "over"}
    /\ upc[credit[t]] \in Identified

\* Whose uid: the household's, the satellite speaker's own, or the row's.
RunInv ==
  \A t \in Utterance :
    \/ runAs[t] = Household
    \/ t \in BySatellite /\ upc[t] \in Identified /\ runAs[t] = heardAs[t]
    \/ credit[t] # Nobody /\ runAs[t] = heardAs[credit[t]]

SpokenInv == SpokenTypeOK /\ StashInv /\ CreditInv /\ AttributedOnce /\ RunInv

\* A turn that neither hears, stashes nor attributes.
LEMMA MoveOn ==
  ASSUME SpokenInv, UNCHANGED <<heardAs, stash, credit, runAs>>,
         \A t \in Utterance : /\ upc[t] \in Identified => upc'[t] \in Identified
                              /\ upc[t] \in {"running", "over"} => upc'[t] \in {"running", "over"}
  PROVE  StashInv' /\ CreditInv' /\ AttributedOnce' /\ RunInv'
<1>1. /\ \A w \in Transcript : stash[w] # Nobody => stash[w] \in Utterance
      /\ \A t \in Utterance : credit[t] # Nobody => credit[t] \in Utterance
  BY DEF SpokenInv, SpokenTypeOK
<1>2. StashInv'
  BY <1>1 DEF SpokenInv, StashInv
<1>3. CreditInv'
  BY <1>1 DEF SpokenInv, CreditInv
<1>4. AttributedOnce' /\ RunInv'
  BY DEF SpokenInv, AttributedOnce, RunInv
<1> QED
  BY <1>2, <1>3, <1>4

LEMMA SpokenStep == SpokenInv /\ [SpokenNext]_spokenVars => SpokenInv'
<1> SUFFICES ASSUME SpokenInv, [SpokenNext]_spokenVars PROVE SpokenInv'
  OBVIOUS
<1>t. SpokenTypeOK' /\ SpokenTypeOK
  BY SpokenTypeStep DEF SpokenInv
<1>i. StashInv /\ CreditInv /\ AttributedOnce /\ RunInv
  BY DEF SpokenInv
<1>s. /\ \A w \in Transcript : stash[w] # Nobody => stash[w] \in Utterance
      /\ \A t \in Utterance : credit[t] # Nobody => credit[t] \in Utterance
      /\ \A t \in Utterance : Words[t] \in Transcript
      /\ Nobody \notin Utterance
  BY <1>t, SpokenAssumption DEF SpokenTypeOK, Transcript
<1> SUFFICES StashInv' /\ CreditInv' /\ AttributedOnce' /\ RunInv'
  BY <1>t DEF SpokenInv
<1>1. ASSUME NEW t \in Utterance, Hear(t) PROVE StashInv' /\ CreditInv' /\ AttributedOnce' /\ RunInv'
  <2>1. /\ upc[t] = "silent" /\ upc'[t] \in Step
        /\ \A v \in Utterance \ {t} : upc'[v] = upc[v] /\ heardAs'[v] = heardAs[v]
        /\ UNCHANGED <<stash, expired, credit, runAs, sessions, history>>
    BY <1>1, <1>t DEF Hear, SpokenTypeOK, Step, Mode
  <2>2. \A w \in Transcript : stash[w] # t
    BY <1>i, <1>s, <2>1 DEF StashInv, Identified
  <2>3. credit[t] = Nobody /\ \A v \in Utterance : credit[v] # t
    BY <1>i, <1>s, <2>1 DEF CreditInv, Identified
  <2>4. StashInv'
    BY <1>i, <1>s, <2>1, <2>2 DEF StashInv
  <2>5. CreditInv'
    BY <1>i, <1>s, <2>1, <2>3 DEF CreditInv
  <2>6. AttributedOnce'
    BY <1>i, <2>1 DEF AttributedOnce
  <2>7. RunInv'
    <3>1. runAs[t] = Household
      BY <1>i, <2>1, <2>3 DEF RunInv, Identified
    <3>2. ASSUME NEW v \in Utterance, v # t
          PROVE  /\ upc'[v] = upc[v] /\ heardAs'[v] = heardAs[v]
                 /\ credit[v] # Nobody => heardAs'[credit[v]] = heardAs[credit[v]]
      BY <1>s, <2>1, <2>3, <3>2
    <3> QED
      BY <1>i, <2>1, <3>1, <3>2 DEF RunInv
  <2> QED
    BY <2>4, <2>5, <2>6, <2>7
<1>2. ASSUME NEW t \in Utterance, StashUid(t) PROVE StashInv' /\ CreditInv' /\ AttributedOnce' /\ RunInv'
  <2>1. /\ upc[t] = "heard" /\ upc'[t] = "sent" /\ \A v \in Utterance \ {t} : upc'[v] = upc[v]
        /\ UNCHANGED <<heardAs, credit, runAs, sessions, history>>
        /\ \A w \in Transcript : stash'[w] \in {stash[w], t} /\ (stash'[w] = t => stash[w] = t \/ w = Words[t])
    BY <1>2, <1>t, <1>s DEF StashUid, SpokenTypeOK
  <2>2. \A w \in Transcript : stash[w] # t
    BY <1>i, <1>s, <2>1 DEF StashInv, Identified
  <2>3. credit[t] = Nobody /\ \A v \in Utterance : credit[v] # t
    BY <1>i, <1>s, <2>1 DEF CreditInv, Identified
  <2>4. StashInv'
    <3> SUFFICES ASSUME NEW w \in Transcript, stash'[w] # Nobody
                 PROVE  /\ Words[stash'[w]] = w /\ upc'[stash'[w]] \in Identified
                        /\ \A v \in Utterance : credit[v] # stash'[w]
      BY <2>1 DEF StashInv
    <3>1. CASE stash'[w] = t
      BY <2>1, <2>2, <2>3, <3>1 DEF Identified
    <3>2. CASE stash'[w] = stash[w]
      BY <1>i, <1>s, <2>1, <2>2, <3>2 DEF StashInv
    <3> QED
      BY <2>1, <3>1, <3>2
  <2>5. CreditInv'
    BY <1>i, <1>s, <2>1, <2>3 DEF CreditInv
  <2>6. AttributedOnce'
    BY <1>i, <2>1 DEF AttributedOnce
  <2>7. RunInv'
    BY <1>i, <2>1 DEF RunInv, Identified
  <2> QED
    BY <2>4, <2>5, <2>6, <2>7
<1>3. ASSUME NEW t \in Utterance, Facade(t) PROVE StashInv' /\ CreditInv' /\ AttributedOnce' /\ RunInv'
  <2> DEFINE u == IF credit'[t] # Nobody THEN heardAs[credit'[t]]
                  ELSE IF t \in BySatellite THEN heardAs[t] ELSE Household
  <2>1. /\ upc[t] = "sent" /\ upc'[t] = "running" /\ \A v \in Utterance \ {t} : upc'[v] = upc[v]
        /\ runAs'[t] = u /\ \A v \in Utterance \ {t} : runAs'[v] = runAs[v]
        /\ UNCHANGED <<heardAs, history>>
    BY <1>3, <1>t DEF Facade, SpokenTypeOK
  <2>2. credit[t] = Nobody
    BY <1>i, <2>1 DEF CreditInv
  \* No row was found, or it was of the same words and is gone.
  <2>3. /\ \A v \in Utterance \ {t} : credit'[v] = credit[v]
        /\ \A w \in Transcript : stash'[w] \in {stash[w], Nobody}
        /\ credit'[t] # Nobody =>
             t \notin InRoom /\ credit'[t] = stash[Words[t]] /\ stash'[Words[t]] = Nobody
    BY <1>3, <1>t, <1>s, <2>2 DEF Facade, ConsumeUid, Found, SpokenTypeOK
  <2> HIDE DEF u
  <2>4. credit'[t] # Nobody =>
          /\ credit'[t] \in Utterance /\ Words[credit'[t]] = Words[t]
          /\ upc[credit'[t]] \in Identified
          /\ \A v \in Utterance : credit[v] # credit'[t]
          /\ \A w \in Transcript : stash'[w] # credit'[t]
    BY <1>i, <1>s, <2>3 DEF StashInv
  <2>5. \A v \in Utterance : upc[v] \in Identified => upc'[v] \in Identified
    BY <2>1 DEF Identified
  <2>6. StashInv'
    <3> SUFFICES ASSUME NEW w \in Transcript, stash'[w] # Nobody
                 PROVE  /\ Words[stash'[w]] = w /\ upc'[stash'[w]] \in Identified
                        /\ \A v \in Utterance : credit'[v] # stash'[w]
      BY DEF StashInv
    <3>1. stash'[w] = stash[w] /\ stash[w] \in Utterance
      BY <1>s, <2>3
    <3>2. \A v \in Utterance : credit'[v] # stash'[w]
      BY <1>i, <2>3, <2>4, <3>1 DEF StashInv
    <3> QED
      BY <1>i, <2>5, <3>1, <3>2 DEF StashInv
  <2>7. CreditInv'
    BY <1>i, <1>s, <2>1, <2>3, <2>4, <2>5 DEF CreditInv
  <2>8. AttributedOnce'
    BY <1>i, <2>3, <2>4 DEF AttributedOnce
  <2>9. RunInv'
    <3>1. ASSUME NEW v \in Utterance, v # t
          PROVE  /\ runAs'[v] = runAs[v] /\ credit'[v] = credit[v] /\ upc'[v] = upc[v]
      BY <2>1, <2>3, <3>1
    <3>2. \/ runAs'[t] = Household
          \/ t \in BySatellite /\ upc'[t] \in Identified /\ runAs'[t] = heardAs[t]
          \/ credit'[t] # Nobody /\ runAs'[t] = heardAs[credit'[t]]
      BY <2>1 DEF u, Identified
    <3> QED
      BY <1>i, <2>1, <3>1, <3>2 DEF RunInv
  <2> QED
    BY <2>6, <2>7, <2>8, <2>9
<1>4. ASSUME NEW t \in Utterance, Dropped(t) \/ Reply(t)
      PROVE  StashInv' /\ CreditInv' /\ AttributedOnce' /\ RunInv'
  <2>1. UNCHANGED <<heardAs, stash, credit, runAs>>
        /\ \A v \in Utterance : upc'[v] \in {upc[v], "over"}
    BY <1>4, <1>t DEF Dropped, Reply, SpokenTypeOK
  <2> QED
    BY <2>1, MoveOn DEF Identified
<1>5. ASSUME NEW w \in Transcript, RowExpires(w)
      PROVE  StashInv' /\ CreditInv' /\ AttributedOnce' /\ RunInv'
  BY <1>5, MoveOn DEF RowExpires
<1>6. CASE GatekeeperRestart
  <2>1. UNCHANGED <<heardAs, stash, credit, runAs>>
        /\ \A t \in Utterance : upc'[t] \in {upc[t], "over"}
    BY <1>6 DEF GatekeeperRestart
  <2> QED
    BY <2>1, MoveOn DEF Identified
<1>7. CASE UNCHANGED spokenVars
  BY <1>7, MoveOn DEF spokenVars
<1> QED
  BY <1>1, <1>2, <1>3, <1>4, <1>5, <1>6, <1>7 DEF SpokenNext

LEMMA SpokenIsInv == SpokenSpec => []SpokenInv
<1>1. SpokenInit => SpokenInv
  BY SpokenTypeStart DEF SpokenInit, SpokenInv, StashInv, CreditInv, AttributedOnce, RunInv
<1> QED
  BY <1>1, SpokenStep, PTL DEF SpokenSpec

\* The uid of an utterance attributes one turn at most, one of the same words
\* (consume_uid: a row is taken with its reading, and nothing puts it back).
THEOREM UidsAttributeOnce == SpokenSpec => []AttributedOnce
<1>1. SpokenInv => AttributedOnce
  BY DEF SpokenInv
<1> QED
  BY <1>1, SpokenIsInv, PTL

\* How far a uid can stray (gatekeeper/uid_stash.py): to a turn of the very same
\* words, and not to a satellite's whose room is known.
OnlyTheSameWords ==
  \A t \in Utterance :
    \/ runAs[t] = Household
    \/ t \in BySatellite /\ runAs[t] = heardAs[t]
    \/ t \notin InRoom /\ \E v \in Utterance : Words[v] = Words[t] /\ runAs[t] = heardAs[v]

\* A turn runs as the household, as the speaker its satellite told, or as the
\* speaker of an utterance of the same words (stash_uid is keyed by the words).
THEOREM UidsStayWithTheirWords == SpokenSpec => []OnlyTheSameWords
<1>1. SpokenInv => OnlyTheSameWords
  BY DEF SpokenInv, SpokenTypeOK, RunInv, AttributedOnce, OnlyTheSameWords
<1> QED
  BY <1>1, SpokenIsInv, PTL

\* Where no two utterances have the same words, no turn of a resident ever runs
\* as somebody else: the collision of the run SpokenCollision is the only way
\* the claim of gatekeeper/uid_stash.py fails.
THEOREM NoCollisionNoLeak ==
  ASSUME \A t, v \in Utterance : Words[t] = Words[v] => t = v
  PROVE  SpokenSpec => []NeverAnothersTurn
<1>1. OnlyTheSameWords => NeverAnothersTurn
  BY DEF OnlyTheSameWords, NeverAnothersTurn
<1> QED
  BY <1>1, UidsStayWithTheirWords, PTL

-----------------------------------------------------------------------------
(* Speech.                                                                 *)
(*                                                                         *)
(* SpokenInOrder speaks of an answer that is given.  Until then each       *)
(* sentence is on its way under its own number: what waits in the pool and *)
(* what the workers are at belongs to a request that has begun, and what   *)
(* has come back stands in the place of its sentence.                      *)

\* A sequence, whatever it is a sequence of.
Row(s) == Len(s) \in Nat /\ DOMAIN s = 1 .. Len(s)

\* A task is of a sentence of a request that has begun, or warms the pool.
Begun(task) ==
  task[1] # WarmTask => /\ task[1] \in Request /\ at[task[1]] # "idle"
                        /\ task[2] \in DOMAIN sentences[task[1]]

\* What has come back for a request stands in the place of its sentence.
InPlace(r) ==
  /\ Row(sentences[r])
  /\ results[r] = [i \in DOMAIN results[r] |-> results[r][i]]
  /\ DOMAIN results[r] \subseteq DOMAIN sentences[r]
  /\ \A i \in DOMAIN results[r] : results[r][i] \in Outcome(sentences[r][i])
  /\ at[r] = "idle" => DOMAIN results[r] = {}

SpeechInv ==
  /\ DOMAIN at = Request /\ DOMAIN sentences = Request
  /\ DOMAIN results = Request /\ DOMAIN audio = Request /\ workers \in Capacity
  /\ tasks \in Seq((Request \cup {WarmTask}) \X Nat)
  /\ \A task \in ToSet(tasks) \cup working : Begun(task)
  /\ \A r \in Request : InPlace(r)
  /\ SpokenInOrder

LEMMA RowOf ==
  ASSUME NEW n \in Nat, NEW s, DOMAIN s = 1 .. n, s = [i \in 1 .. n |-> s[i]]
  PROVE  Row(s) /\ Len(s) = n
<1>1. s \in Seq({s[i] : i \in 1 .. n})
  BY SeqDef
<1>2. QED
  BY <1>1, LenProperties DEF Row

LEMMA SplitIsRow == ASSUME NEW text \in Text PROVE Row(Split(text))
<1> DEFINE kept == {i \in DOMAIN text : text[i] # "letter"}
           nth(k) == CHOOSE i \in kept : Cardinality({j \in kept : j <= i}) = k
<1>1. DOMAIN text = 1 .. Len(text) /\ Len(text) \in Nat
  BY SpeechAssumption, LenProperties DEF SpeechAssumption
<1>2. IsFiniteSet(1 .. Len(text))
  BY <1>1, FS_Interval
<1>3. IsFiniteSet(kept)
  BY <1>1, <1>2, FS_Subset
<1>4. Cardinality(kept) \in Nat
  BY <1>3, FS_CardinalityType
<1>5. Split(text) = [k \in 1 .. Cardinality(kept) |-> text[nth(k)]]
  BY DEF Split
<1> HIDE DEF kept, nth
<1>6. DOMAIN Split(text) = 1 .. Cardinality(kept)
      /\ Split(text) = [k \in 1 .. Cardinality(kept) |-> Split(text)[k]]
  BY <1>5
<1>7. QED
  BY <1>4, <1>6, RowOf

\* The pieces of an answer stand in it in their order, with a pause after each.
Joined(all, r, n, pieces) ==
  /\ Len(all) = 2 * n
  /\ \A i \in 1 .. n : all[2 * i] = Pause /\ all[2 * i - 1] = <<r, i, pieces[i]>>

LEMMA JoinInOrder ==
  ASSUME NEW r, NEW n \in Nat, NEW pieces, DOMAIN pieces = 1 .. n,
         pieces = [i \in 1 .. n |-> pieces[i]]
  PROVE  Joined(Join(r, pieces), r, n, pieces)
<1>1. Len(pieces) = n
  BY RowOf
<1> DEFINE joined == Join(r, pieces)
<1>2. joined = [i \in 1 .. 2 * n |->
                  IF i % 2 = 0 THEN Pause ELSE <<r, (i + 1) \div 2, pieces[(i + 1) \div 2]>>]
  BY <1>1 DEF Join
<1>3. 2 * n \in Nat
  OBVIOUS
<1>4. DOMAIN joined = 1 .. 2 * n /\ joined = [i \in 1 .. 2 * n |-> joined[i]]
  BY <1>2
<1>5. Len(joined) = 2 * n
  <2> HIDE DEF joined
  <2>1. QED
    BY <1>3, <1>4, RowOf
<1>6. ASSUME NEW i \in 1 .. n
      PROVE  joined[2 * i] = Pause /\ joined[2 * i - 1] = <<r, i, pieces[i]>>
  <2>1. 2 * i \in 1 .. 2 * n /\ (2 * i) % 2 = 0
    OBVIOUS
  <2>2. 2 * i - 1 \in 1 .. 2 * n /\ (2 * i - 1) % 2 # 0 /\ ((2 * i - 1) + 1) \div 2 = i
    OBVIOUS
  <2> HIDE DEF joined
  <2>3. joined[2 * i] = Pause
    BY <1>2, <2>1
  <2>4. joined[2 * i - 1] = <<r, i, pieces[i]>>
    BY <1>2, <2>2
  <2>5. QED
    BY <2>3, <2>4
<1>7. QED
  BY <1>5, <1>6 DEF Joined

LEMMA TasksOf ==
  ASSUME NEW S, NEW s \in Seq(S) PROVE ToSet(s) = {s[i] : i \in 1 .. Len(s)}
BY LenProperties DEF ToSet

LEMMA NoTasks == ToSet(<<>>) = {}
BY DEF ToSet

\* A queue and what is put behind it.
LEMMA TogetherInTheQueue ==
  ASSUME NEW S, NEW s \in Seq(S), NEW t \in Seq(S)
  PROVE  s \o t \in Seq(S) /\ ToSet(s \o t) \subseteq ToSet(s) \cup ToSet(t)
<1>1. PICK all : all = s \o t
  OBVIOUS
<1>2. PICK m \in Nat, n \in Nat : m = Len(s) /\ n = Len(t)
  BY LenProperties
<1>3. all \in Seq(S) /\ Len(all) = m + n
      /\ \A i \in 1 .. m + n : all[i] = IF i <= m THEN s[i] ELSE t[i - m]
  BY <1>1, <1>2, ConcatProperties
<1>a. ToSet(all) = {all[i] : i \in 1 .. Len(all)}
  BY <1>3, TasksOf
<1>b. ToSet(s) = {s[i] : i \in 1 .. Len(s)} /\ ToSet(t) = {t[i] : i \in 1 .. Len(t)}
  BY TasksOf
<1>4. /\ ToSet(all) = {all[i] : i \in 1 .. m + n}
      /\ ToSet(s) = {s[i] : i \in 1 .. m} /\ ToSet(t) = {t[i] : i \in 1 .. n}
  BY <1>2, <1>3, <1>a, <1>b
<1>5. ASSUME NEW i \in 1 .. m + n PROVE all[i] \in ToSet(s) \cup ToSet(t)
  <2>1. CASE i <= m
    <3>1. i \in 1 .. m /\ all[i] = s[i]
      BY <1>3, <2>1
    <3>2. QED
      BY <1>4, <3>1
  <2>2. CASE ~(i <= m)
    <3>1. i - m \in 1 .. n /\ all[i] = t[i - m]
      BY <1>3, <2>2
    <3>2. QED
      BY <1>4, <3>1
  <2>3. QED
    BY <2>1, <2>2
<1>6. ToSet(all) \subseteq ToSet(s) \cup ToSet(t)
  BY <1>4, <1>5
<1>7. QED
  BY <1>1, <1>3, <1>6

\* A queue and what is left of it when the first is taken.
LEMMA RestOfTheQueue ==
  ASSUME NEW S, NEW s \in Seq(S), s # <<>>
  PROVE  Tail(s) \in Seq(S) /\ ToSet(Tail(s)) \subseteq ToSet(s) /\ Head(s) \in ToSet(s)
<1>1. PICK rest : rest = Tail(s)
  OBVIOUS
<1>2. PICK n \in Nat : n = Len(s)
  BY LenProperties
<1>3. n > 0 /\ Head(s) = s[1] /\ rest \in Seq(S) /\ Len(rest) = n - 1
      /\ \A i \in 1 .. n - 1 : rest[i] = s[i + 1]
  BY <1>1, <1>2, HeadTailProperties, EmptySeq
<1>4. ToSet(rest) = {rest[i] : i \in 1 .. n - 1} /\ ToSet(s) = {s[i] : i \in 1 .. n}
  BY <1>2, <1>3, TasksOf
<1>5. ASSUME NEW i \in 1 .. n - 1 PROVE rest[i] \in ToSet(s)
  <2>1. i + 1 \in 1 .. n /\ rest[i] = s[i + 1]
    BY <1>3
  <2>2. QED
    BY <1>4, <2>1
<1>6. 1 \in 1 .. n
  BY <1>3
<1>7. QED
  BY <1>1, <1>3, <1>4, <1>5, <1>6

LEMMA SpeechStart == SpeechInit => SpeechInv
<1> SUFFICES ASSUME SpeechInit PROVE SpeechInv
  OBVIOUS
<1>1. tasks \in Seq((Request \cup {WarmTask}) \X Nat) /\ ToSet(tasks) = {}
  BY EmptySeq, NoTasks DEF SpeechInit
<1>2. Len(<<>>) = 0 /\ DOMAIN <<>> = {} /\ <<>> = [i \in {} |-> <<>>[i]]
  OBVIOUS
<1>3. 1 .. 0 = {}
  OBVIOUS
<1>4. Row(<<>>)
  BY <1>2, <1>3 DEF Row
<1>5. \A r \in Request : sentences[r] = <<>> /\ results[r] = <<>> /\ at[r] = "idle"
  BY DEF SpeechInit
<1>6. SpokenInOrder
  BY <1>5 DEF SpokenInOrder
<1>7. QED
  BY <1>1, <1>2, <1>4, <1>5, <1>6 DEF SpeechInit, SpeechInv, InPlace

\* What is said of a request that has every sentence back.
LEMMA GivenInOrder ==
  ASSUME SpeechInv, NEW r \in Request, NEW pieces, Row(sentences'[r]),
         DOMAIN pieces = DOMAIN sentences'[r],
         pieces = [i \in DOMAIN pieces |-> pieces[i]],
         \A i \in DOMAIN pieces : pieces[i] \in Outcome(sentences'[r][i]),
         \A q \in Request \ {r} : /\ at'[q] = at[q] /\ audio'[q] = audio[q]
                                  /\ sentences'[q] = sentences[q],
         audio'[r] = Join(r, pieces)
  PROVE  SpokenInOrder'
<1> SUFFICES ASSUME NEW q \in Request, at'[q] = "answered"
             PROVE  /\ Len(audio'[q]) = 2 * Len(sentences'[q])
                    /\ \A i \in DOMAIN sentences'[q] :
                         /\ audio'[q][2 * i] = Pause
                         /\ audio'[q][2 * i - 1] \in
                              {<<q, i, o>> : o \in Outcome(sentences'[q][i])}
  BY DEF SpokenInOrder, Outcome, Sound, Pause, WarmTask
<1>1. CASE q # r
  <2>1. at[q] = "answered" /\ audio'[q] = audio[q] /\ sentences'[q] = sentences[q]
    BY <1>1
  <2>2. QED
    BY <2>1 DEF SpeechInv, SpokenInOrder
<1>2. CASE q = r
  <2>1. PICK n \in Nat : n = Len(sentences'[r]) /\ DOMAIN sentences'[r] = 1 .. n
    BY DEF Row
  <2>2. DOMAIN pieces = 1 .. n /\ pieces = [i \in 1 .. n |-> pieces[i]]
    BY <2>1
  <2>3. PICK joined : joined = Join(r, pieces)
    OBVIOUS
  <2>4. Joined(joined, r, n, pieces)
    BY <2>2, <2>3, JoinInOrder
  <2>5. \A i \in 1 .. n : pieces[i] \in Outcome(sentences'[r][i])
    BY <2>1
  <2>6. audio'[q] = joined
    BY <1>2, <2>3
  <2>7. QED
    BY <1>2, <2>1, <2>4, <2>5, <2>6 DEF Joined
<1>3. QED
  BY <1>1, <1>2

\* A task stays what it was as long as its request stays begun.
LEMMA BegunStays ==
  ASSUME NEW task, Begun(task),
         \A r \in Request : at[r] # "idle" => at'[r] # "idle" /\ sentences'[r] = sentences[r]
  PROVE  Begun(task)'
BY DEF Begun


\* The others are as they were.
LEMMA OthersInPlace ==
  ASSUME NEW r \in Request, InPlace(r), sentences'[r] = sentences[r],
         results'[r] = results[r], at'[r] = "idle" => at[r] = "idle"
  PROVE  InPlace(r)'
BY DEF InPlace, Row, Outcome, Sound

\* So is every answer that was given before.
LEMMA StillInOrder ==
  ASSUME SpeechInv,
         \A r \in Request : at'[r] = "answered" =>
           at[r] = "answered" /\ audio'[r] = audio[r] /\ sentences'[r] = sentences[r]
  PROVE  SpokenInOrder'
<1> SUFFICES ASSUME NEW r \in Request, at'[r] = "answered"
             PROVE  /\ Len(audio'[r]) = 2 * Len(sentences'[r])
                    /\ \A i \in DOMAIN sentences'[r] :
                         /\ audio'[r][2 * i] = Pause
                         /\ audio'[r][2 * i - 1] \in
                              {<<r, i, o>> : o \in Outcome(sentences'[r][i])}
  BY DEF SpokenInOrder, Outcome, Sound, Pause, WarmTask
<1>1. at[r] = "answered" /\ audio'[r] = audio[r] /\ sentences'[r] = sentences[r]
  OBVIOUS
<1>2. QED
  BY <1>1 DEF SpeechInv, SpokenInOrder

\* More tasks, behind those there are.
LEMMA MoreTasks ==
  ASSUME SpeechInv, NEW n \in Nat, NEW more, DOMAIN more = 1 .. n,
         more = [i \in 1 .. n |-> more[i]],
         \A i \in 1 .. n : more[i] \in Task,
         \A task \in {more[i] : i \in 1 .. n} : Begun(task)',
         \A r \in Request : at[r] # "idle" => at'[r] # "idle" /\ sentences'[r] = sentences[r],
         tasks' = tasks \o more
  PROVE  /\ tasks' \in Seq((Request \cup {WarmTask}) \X Nat)
         /\ \A task \in ToSet(tasks') : Begun(task)'
<1>1. tasks \in Seq(Task) /\ \A task \in ToSet(tasks) : Begun(task)
  BY DEF SpeechInv, Task
<1>2. more \in Seq(Task) /\ Len(more) = n
  <2>1. more \in [1 .. n -> Task]
    OBVIOUS
  <2>2. more \in Seq(Task)
    BY <2>1, SeqDef
  <2>3. Len(more) = n
    BY RowOf
  <2>4. QED
    BY <2>2, <2>3
<1>3. ToSet(more) = {more[i] : i \in 1 .. n}
  BY <1>2, TasksOf
<1>4. tasks' \in Seq(Task) /\ ToSet(tasks') \subseteq ToSet(tasks) \cup ToSet(more)
  BY <1>1, <1>2, TogetherInTheQueue
<1>5. \A task \in ToSet(tasks) : Begun(task)'
  BY <1>1, BegunStays
<1>6. QED
  BY <1>3, <1>4, <1>5 DEF Task

\* One worker says it all at once.
LEMMA AloneStep ==
  ASSUME SpeechInv, NEW r \in Request, NEW text \in Text, SpeakAlone(r, text)
  PROVE  SpeechInv'
<1>a. /\ DOMAIN at = Request /\ DOMAIN sentences = Request
      /\ DOMAIN results = Request /\ DOMAIN audio = Request
  BY DEF SpeechInv
<1>1. PICK pieces \in [DOMAIN Split(text) -> Sound] :
        /\ \A i \in DOMAIN pieces : pieces[i] \in Outcome(Split(text)[i])
        /\ results' = [results EXCEPT ![r] = pieces]
        /\ audio' = [audio EXCEPT ![r] = Join(r, pieces)]
  BY DEF SpeakAlone
<1>2. /\ at[r] = "idle" /\ at' = [at EXCEPT ![r] = "answered"]
      /\ sentences' = [sentences EXCEPT ![r] = Split(text)]
      /\ tasks' = tasks /\ working' = working /\ workers' = workers
  BY DEF SpeakAlone
<1>3. /\ sentences'[r] = Split(text) /\ results'[r] = pieces /\ audio'[r] = Join(r, pieces)
      /\ at'[r] = "answered"
      /\ \A q \in Request \ {r} : /\ at'[q] = at[q] /\ audio'[q] = audio[q]
                                  /\ sentences'[q] = sentences[q] /\ results'[q] = results[q]
  BY <1>a, <1>1, <1>2
<1>4. Row(Split(text))
  BY SplitIsRow
<1>5. DOMAIN pieces = DOMAIN sentences'[r] /\ pieces = [i \in DOMAIN pieces |-> pieces[i]]
      /\ \A i \in DOMAIN pieces : pieces[i] \in Outcome(sentences'[r][i])
  BY <1>1, <1>3
<1>6. SpokenInOrder'
  BY <1>3, <1>4, <1>5, GivenInOrder
<1>7. \A task : Begun(task) => Begun(task)'
  BY <1>2, <1>3, BegunStays
<1>8. ASSUME NEW q \in Request PROVE InPlace(q)'
  <2>1. CASE q = r
    BY <1>3, <1>4, <1>5, <2>1 DEF InPlace, Row, Outcome, Sound
  <2>2. CASE q # r
    BY <1>3, <2>2, OthersInPlace DEF SpeechInv
  <2>3. QED
    BY <2>1, <2>2
<1>9. DOMAIN at' = Request /\ DOMAIN sentences' = Request
      /\ DOMAIN results' = Request /\ DOMAIN audio' = Request
  BY <1>a, <1>1, <1>2
<1>10. /\ tasks' \in Seq((Request \cup {WarmTask}) \X Nat)
       /\ \A task \in ToSet(tasks') \cup working' : Begun(task)'
  BY <1>2, <1>7 DEF SpeechInv
<1>11. QED
  BY <1>2, <1>6, <1>8, <1>9, <1>10 DEF SpeechInv

\* Several workers: the sentences go to the pool under their numbers.
LEMMA SubmitStep ==
  ASSUME SpeechInv, NEW r \in Request, NEW text \in Text, Submit(r, text)
  PROVE  SpeechInv'
<1>a. /\ DOMAIN at = Request /\ DOMAIN sentences = Request
      /\ DOMAIN results = Request /\ DOMAIN audio = Request
  BY DEF SpeechInv
<1>1. /\ at[r] = "idle" /\ results' = results /\ audio' = audio /\ working' = working
      /\ workers' = workers /\ at'[r] \in {"failed", "speaking"} /\ DOMAIN at' = Request
      /\ \A q \in Request \ {r} : at'[q] = at[q]
  BY <1>a DEF Submit
<1>2. CASE pool = "broken"
  <2>1. tasks' = tasks /\ sentences' = sentences
    BY <1>2 DEF Submit
  <2>2. \A task : Begun(task) => Begun(task)'
    BY <1>1, <2>1, BegunStays
  <2>3. \A q \in Request : InPlace(q)'
    BY <1>1, <2>1, OthersInPlace DEF SpeechInv
  <2>4. SpokenInOrder'
    BY <1>1, <2>1, StillInOrder
  <2>5. QED
    BY <1>1, <2>1, <2>2, <2>3, <2>4 DEF SpeechInv
<1>3. CASE pool # "broken"
  <2>0. PICK more : more = [i \in DOMAIN Split(text) |-> <<r, i>>]
    OBVIOUS
  <2>1. /\ sentences' = [sentences EXCEPT ![r] = Split(text)] /\ tasks' = tasks \o more
    BY <1>3, <2>0 DEF Submit
  <2>2. Row(Split(text))
    BY SplitIsRow
  <2>3. PICK n \in Nat : DOMAIN Split(text) = 1 .. n
    BY <2>2 DEF Row
  <2>4. sentences'[r] = Split(text) /\ \A q \in Request \ {r} : sentences'[q] = sentences[q]
    BY <1>a, <2>1
  <2>5. \A i \in 1 .. n : more[i] = <<r, i>>
    BY <2>0, <2>3
  <2>6. DOMAIN more = 1 .. n /\ more = [i \in 1 .. n |-> more[i]]
    BY <2>0, <2>3
  <2>7. (\A i \in 1 .. n : more[i] \in Task) /\ \A task \in {more[i] : i \in 1 .. n} : Begun(task)'
    <3>1. \A i \in 1 .. n : more[i] \in Task
      BY <2>5 DEF Task
    <3>2. ASSUME NEW i \in 1 .. n, NEW task, task = more[i] PROVE Begun(task)'
      <4>1. task[1] = r /\ task[2] = i
        BY <2>5, <3>2
      <4>2. QED
        BY <1>1, <2>3, <2>4, <4>1 DEF Begun
    <3>3. QED
      BY <3>1, <3>2
  <2>8. \A q \in Request : at[q] # "idle" => at'[q] # "idle" /\ sentences'[q] = sentences[q]
    BY <1>1, <2>4
  <2>9. /\ tasks' \in Seq((Request \cup {WarmTask}) \X Nat)
        /\ \A task \in ToSet(tasks') : Begun(task)'
    BY <2>1, <2>6, <2>7, <2>8, MoreTasks
  <2>10. \A task \in working' : Begun(task)'
    BY <1>1, <2>8, BegunStays DEF SpeechInv
  <2>11. ASSUME NEW q \in Request PROVE InPlace(q)'
    <3>1. CASE q = r
      <4>1. DOMAIN results[r] = {} /\ results[r] = [i \in DOMAIN results[r] |-> results[r][i]]
        BY <1>1 DEF SpeechInv, InPlace
      <4>2. QED
        BY <1>1, <2>2, <2>4, <3>1, <4>1 DEF InPlace, Row
    <3>2. CASE q # r
      BY <1>1, <2>4, <3>2, OthersInPlace DEF SpeechInv
    <3>3. QED
      BY <3>1, <3>2
  <2>12. SpokenInOrder'
    BY <1>1, <2>4, StillInOrder
  <2>13. DOMAIN sentences' = Request
    BY <1>a, <2>1
  <2>14. QED
    BY <1>1, <2>9, <2>10, <2>11, <2>12, <2>13 DEF SpeechInv
<1>4. QED
  BY <1>2, <1>3

LEMMA RespondStep == ASSUME SpeechInv, NEW r \in Request, Respond(r) PROVE SpeechInv'
<1>1. /\ at[r] = "speaking" /\ DOMAIN results[r] = DOMAIN sentences[r]
      /\ audio' = [audio EXCEPT ![r] = Join(r, results[r])]
      /\ at' = [at EXCEPT ![r] = "answered"]
      /\ UNCHANGED <<workers, pool, tasks, working, sentences, results>>
  BY DEF Respond
<1>2. DOMAIN at = Request /\ DOMAIN audio = Request /\ InPlace(r)
  BY DEF SpeechInv
<1>3. /\ audio'[r] = Join(r, results[r]) /\ at'[r] = "answered"
      /\ \A q \in Request \ {r} : at'[q] = at[q] /\ audio'[q] = audio[q]
      /\ DOMAIN at' = Request /\ DOMAIN audio' = Request
  BY <1>1, <1>2
<1>4. PICK pieces : pieces = results[r]
  OBVIOUS
<1>5. /\ Row(sentences'[r]) /\ DOMAIN pieces = DOMAIN sentences'[r]
      /\ pieces = [i \in DOMAIN pieces |-> pieces[i]]
      /\ \A i \in DOMAIN pieces : pieces[i] \in Outcome(sentences'[r][i])
  BY <1>1, <1>2, <1>4 DEF InPlace
<1>6. SpokenInOrder'
  BY <1>1, <1>3, <1>4, <1>5, GivenInOrder
<1>7. \A q \in Request : InPlace(q)'
  BY <1>1, <1>3, OthersInPlace DEF SpeechInv
<1>8. \A task : Begun(task) => Begun(task)'
  BY <1>1, <1>3, BegunStays
<1>9. QED
  BY <1>1, <1>3, <1>6, <1>7, <1>8 DEF SpeechInv

\* What a worker has said goes to the place of its own sentence.
LEMMA SynthesisedStep ==
  ASSUME SpeechInv, NEW task \in working, Synthesised(task) PROVE SpeechInv'
<1>1. /\ working' = working \ {task}
      /\ UNCHANGED <<workers, pool, tasks, sentences, at, audio>>
  BY DEF Synthesised
<1>2. \A t : Begun(t) => Begun(t)'
  BY <1>1, BegunStays
<1>3. SpokenInOrder'
  BY <1>1, StillInOrder
<1>4. DOMAIN results' = Request /\ \A q \in Request : InPlace(q)'
  <2>1. CASE task[1] = WarmTask
    <3>1. results' = results
      BY <2>1 DEF Synthesised
    <3>2. QED
      BY <1>1, <3>1, OthersInPlace DEF SpeechInv
  <2>2. CASE task[1] # WarmTask
    <3>1. PICK sound \in Outcome(sentences[task[1]][task[2]]) :
            results' = [results EXCEPT ![task[1]] =
                          [i \in DOMAIN @ \cup {task[2]} |->
                             IF i = task[2] THEN sound ELSE @[i]]]
      BY <2>2 DEF Synthesised
    <3>2. PICK r, k : r = task[1] /\ k = task[2]
      OBVIOUS
    <3>3. r \in Request /\ at[r] # "idle" /\ k \in DOMAIN sentences[r]
      BY <2>2, <3>2 DEF SpeechInv, Begun
    <3>4. DOMAIN results = Request /\ InPlace(r)
      BY <3>3 DEF SpeechInv
    <3>5. /\ DOMAIN results' = Request
          /\ \A q \in Request \ {r} : results'[q] = results[q]
      BY <3>1, <3>2, <3>4
    <3>6. results'[task[1]] = [i \in DOMAIN results[task[1]] \cup {task[2]} |->
                                 IF i = task[2] THEN sound ELSE results[task[1]][i]]
      BY <3>1, <3>2, <3>3, <3>4
    <3>7. /\ DOMAIN results'[r] = DOMAIN results[r] \cup {k}
          /\ results'[r] = [i \in DOMAIN results'[r] |-> results'[r][i]]
          /\ \A i \in DOMAIN results'[r] :
               results'[r][i] = IF i = k THEN sound ELSE results[r][i]
      BY <3>2, <3>6
    <3>8. InPlace(r)'
      <4>1. sound \in Outcome(sentences[r][k])
        BY <3>2
      <4>2. QED
        BY <1>1, <3>3, <3>4, <3>7, <4>1 DEF InPlace, Row, Outcome, Sound
    <3>9. \A q \in Request \ {r} : InPlace(q)'
      BY <1>1, <3>5, OthersInPlace DEF SpeechInv
    <3>10. QED
      BY <3>5, <3>8, <3>9
  <2>3. QED
    BY <2>1, <2>2
<1>5. QED
  BY <1>1, <1>2, <1>3, <1>4 DEF SpeechInv

\* The pool or the service dies: nothing waits any more, and nothing is answered.
LEMMA DeathStep ==
  ASSUME SpeechInv, tasks' = <<>>, working' = {},
         UNCHANGED <<workers, sentences, results, audio>>, DOMAIN at' = Request,
         \A r \in Request : at'[r] = at[r] \/ (at[r] = "speaking" /\ at'[r] = "failed")
  PROVE  SpeechInv'
<1>1. tasks' \in Seq((Request \cup {WarmTask}) \X Nat) /\ ToSet(tasks') = {}
  BY EmptySeq, NoTasks
<1>2. \A q \in Request : InPlace(q)'
  BY OthersInPlace DEF SpeechInv
<1>3. SpokenInOrder'
  BY StillInOrder
<1>4. QED
  BY <1>1, <1>2, <1>3 DEF SpeechInv

LEMMA SpeechStep == SpeechInv /\ [SpeechNext]_speechVars => SpeechInv'
<1> SUFFICES ASSUME SpeechInv, [SpeechNext]_speechVars PROVE SpeechInv'
  OBVIOUS
<1>1. CASE WarmUp
  <2>1. PICK n \in Nat : n = workers
    BY SpeechAssumption DEF SpeechAssumption, SpeechInv
  <2>a. PICK more : more = [i \in 1 .. n |-> <<WarmTask, i>>]
    OBVIOUS
  <2>2. /\ tasks' = tasks \o more
        /\ UNCHANGED <<workers, working, sentences, at, results, audio>>
    BY <1>1, <2>1, <2>a DEF WarmUp
  <2>3. DOMAIN more = 1 .. n /\ more = [i \in 1 .. n |-> more[i]]
        /\ \A i \in 1 .. n : more[i] = <<WarmTask, i>>
    BY <2>a
  <2>4. \A i \in 1 .. n : more[i] \in Task
    <3>1. \A i \in 1 .. n : i \in Nat
      OBVIOUS
    <3>2. QED
      BY <2>3, <3>1 DEF Task
  <2>5. \A task \in {more[i] : i \in 1 .. n} : Begun(task)'
    BY <2>3 DEF Begun
  <2>6. /\ tasks' \in Seq((Request \cup {WarmTask}) \X Nat)
        /\ \A task \in ToSet(tasks') : Begun(task)'
    BY <2>2, <2>3, <2>4, <2>5, MoreTasks
  <2>7. \A task \in working' : Begun(task)'
    BY <2>2, BegunStays DEF SpeechInv
  <2>8. \A q \in Request : InPlace(q)'
    BY <2>2, OthersInPlace DEF SpeechInv
  <2>9. SpokenInOrder'
    BY <2>2, StillInOrder
  <2>10. QED
    BY <2>2, <2>6, <2>7, <2>8, <2>9 DEF SpeechInv
<1>2. CASE TakeTask
  <2>1. /\ tasks # <<>> /\ working' = working \cup {Head(tasks)} /\ tasks' = Tail(tasks)
        /\ UNCHANGED <<workers, pool, sentences, at, results, audio>>
    BY <1>2 DEF TakeTask
  <2>2. /\ tasks' \in Seq((Request \cup {WarmTask}) \X Nat)
        /\ ToSet(tasks') \subseteq ToSet(tasks) /\ Head(tasks) \in ToSet(tasks)
    BY <2>1, RestOfTheQueue DEF SpeechInv
  <2>3. \A t : Begun(t) => Begun(t)'
    BY <2>1, BegunStays
  <2>4. \A task \in ToSet(tasks') \cup working' : Begun(task)'
    BY <2>1, <2>2, <2>3 DEF SpeechInv
  <2>10. \A q \in Request : InPlace(q)'
    BY <2>1, OthersInPlace DEF SpeechInv
  <2>11. SpokenInOrder'
    BY <2>1, StillInOrder
  <2>12. QED
    BY <2>1, <2>2, <2>4, <2>10, <2>11 DEF SpeechInv
<1>3. CASE WorkerDies
  BY <1>3, DeathStep DEF WorkerDies
<1>4. CASE SpeechRestart
  BY <1>4, DeathStep DEF SpeechRestart
<1>5. ASSUME NEW r \in Request, NEW text \in Text, Refuse(r, text) PROVE SpeechInv'
  <2>1. /\ at[r] = "idle" /\ at' = [at EXCEPT ![r] = "refused"]
        /\ UNCHANGED <<workers, pool, tasks, working, sentences, results, audio>>
    BY <1>5 DEF Refuse
  <2>2. at'[r] = "refused" /\ (\A q \in Request \ {r} : at'[q] = at[q]) /\ DOMAIN at' = Request
    BY <2>1 DEF SpeechInv
  <2>3. \A t : Begun(t) => Begun(t)'
    BY <2>1, <2>2, BegunStays
  <2>4. \A q \in Request : InPlace(q)'
    BY <2>1, <2>2, OthersInPlace DEF SpeechInv
  <2>5. SpokenInOrder'
    BY <2>1, <2>2, StillInOrder
  <2>6. QED
    BY <2>1, <2>2, <2>3, <2>4, <2>5 DEF SpeechInv
<1>6. CASE UNCHANGED speechVars
  <2>1. UNCHANGED <<workers, pool, tasks, working, sentences, at, results, audio>>
    BY <1>6 DEF speechVars
  <2>2. \A t : Begun(t) => Begun(t)'
    BY <2>1, BegunStays
  <2>3. \A q \in Request : InPlace(q)'
    BY <2>1, OthersInPlace DEF SpeechInv
  <2>4. SpokenInOrder'
    BY <2>1, StillInOrder
  <2>5. QED
    BY <2>1, <2>2, <2>3, <2>4 DEF SpeechInv
<1>7. QED
  BY <1>1, <1>2, <1>3, <1>4, <1>5, <1>6, AloneStep, SubmitStep, RespondStep, SynthesisedStep
  DEF SpeechNext

\* However many requests overlap, whatever order the workers end in, and whenever
\* one dies, an answer is spoken in the order of its text (generate_speech).
THEOREM AnswersAreSpokenInOrder == SpeechSpec => []SpokenInOrder
<1>1. SpeechInv => SpokenInOrder
  BY DEF SpeechInv
<1>2. QED
  BY <1>1, SpeechStart, SpeechStep, PTL DEF SpeechSpec

-----------------------------------------------------------------------------
(* Speech: types.                                                          *)

\* Each number up to the size of a set of numbers is the rank of one of them.
UpTo(S, i) == {j \in S : j <= i}

LEMMA RankIsThere ==
  ASSUME NEW n \in Nat, NEW S, S \subseteq 1 .. n, NEW k \in 1 .. Cardinality(S)
  PROVE  \E i \in S : Cardinality(UpTo(S, i)) = k
<1>0. S \subseteq Nat /\ \A j \in S : j <= n /\ j >= 1
  OBVIOUS
<1>1. IsFiniteSet(S) /\ Cardinality(S) \in Nat
  <2>1. IsFiniteSet(1 .. n)
    BY FS_Interval
  <2> QED
    BY <2>1, FS_Subset, FS_CardinalityType
<1>2. ASSUME NEW i PROVE IsFiniteSet(UpTo(S, i)) /\ Cardinality(UpTo(S, i)) \in Nat
  <2>1. UpTo(S, i) \subseteq S
    BY DEF UpTo
  <2> QED
    BY <1>1, <2>1, FS_Subset, FS_CardinalityType
<1> DEFINE T == {i \in Nat : Cardinality(UpTo(S, i)) >= k}
<1>3. n \in T
  <2>1. UpTo(S, n) = S
    BY <1>0 DEF UpTo
  <2> QED
    BY <1>1, <2>1
<1>4. PICK i \in T : \A j \in T : i <= j
  <2>1. T \subseteq Nat
    OBVIOUS
  <2> HIDE DEF T
  <2> QED
    BY <1>3, <2>1, LeastNatural
<1>5. i \in Nat /\ Cardinality(UpTo(S, i)) >= k
  OBVIOUS
<1>6. i # 0
  <2>1. ASSUME i = 0 PROVE FALSE
    <3>0. \A j \in S : ~(j <= i)
      <4> SUFFICES ASSUME NEW j \in S PROVE ~(j <= i)
        OBVIOUS
      <4> QED
        BY <1>0, <2>1
    <3>1. UpTo(S, i) = {}
      BY <3>0 DEF UpTo
    <3>2. Cardinality(UpTo(S, i)) = 0
      BY <3>1, FS_EmptySet
    <3> QED
      BY <1>1, <1>5, <3>2
  <2> QED
    BY <2>1
<1>7. PICK h \in Nat : i = h + 1
  BY <1>5, <1>6
<1>8. h \notin T
  BY <1>4, <1>5, <1>7
<1>9. ~(Cardinality(UpTo(S, h)) >= k)
  BY <1>8
<1> HIDE DEF T
<1>10. PICK a \in Nat, b \in Nat : a = Cardinality(UpTo(S, i)) /\ b = Cardinality(UpTo(S, h))
  BY <1>2
<1>11. k \in Nat /\ a >= k /\ b < k
  BY <1>1, <1>5, <1>9, <1>10
<1>12. UpTo(S, i) = IF i \in S THEN UpTo(S, h) \cup {i} ELSE UpTo(S, h)
  <2>1. \A j \in S : j <= i <=> j <= h \/ j = i
    <3> SUFFICES ASSUME NEW j \in S PROVE j <= i <=> j <= h \/ j = i
      OBVIOUS
    <3> QED
      BY <1>0, <1>7
  <2> QED
    BY <2>1 DEF UpTo
<1>13. i \in S /\ a = b + 1
  <2>1. i \in S
    BY <1>10, <1>11, <1>12
  <2>2. UpTo(S, i) = UpTo(S, h) \cup {i} /\ i \notin UpTo(S, h)
    BY <1>7, <1>12, <2>1 DEF UpTo
  <2>3. IsFiniteSet(UpTo(S, h))
    BY <1>2
  <2> QED
    BY <1>10, <2>1, <2>2, <2>3, FS_AddElement
<1> QED
  <2>1. a = k
    BY <1>11, <1>13
  <2> QED
    BY <1>10, <1>13, <2>1

LEMMA SplitType == ASSUME NEW text \in Text PROVE Split(text) \in Seq({"sentence", "signs"})
<1> DEFINE kept == {i \in DOMAIN text : text[i] # "letter"}
           nth(k) == CHOOSE i \in kept : Cardinality(UpTo(kept, i)) = k
<1>1. /\ DOMAIN text = 1 .. Len(text) /\ Len(text) \in Nat
      /\ \A i \in DOMAIN text : text[i] \in {"sentence", "letter", "signs"}
  BY SpeechAssumption, LenProperties, ElementOfSeq
<1>2. IsFiniteSet(1 .. Len(text))
  BY <1>1, FS_Interval
<1>3. IsFiniteSet(kept)
  BY <1>1, <1>2, FS_Subset
<1>4. Cardinality(kept) \in Nat /\ kept \subseteq 1 .. Len(text)
  BY <1>1, <1>3, FS_CardinalityType
<1>5. Split(text) = [k \in 1 .. Cardinality(kept) |-> text[nth(k)]]
  BY DEF Split, UpTo
<1>6. ASSUME NEW k \in 1 .. Cardinality(kept) PROVE text[nth(k)] \in {"sentence", "signs"}
  <2>1. nth(k) \in kept
    <3> HIDE DEF kept
    <3>1. \E i \in kept : Cardinality(UpTo(kept, i)) = k
      BY <1>1, <1>4, RankIsThere
    <3> QED
      BY <3>1
  <2> QED
    BY <1>1, <2>1
<1> HIDE DEF kept, nth
<1>7. Split(text) \in [1 .. Cardinality(kept) -> {"sentence", "signs"}]
  BY <1>5, <1>6
<1> QED
  BY <1>4, <1>7, SeqDef

\* The pieces an answer is joined from.
AudioPiece == (Request \cup {WarmTask}) \X Nat \X (Sound \cup {"pause"})

LEMMA JoinType ==
  ASSUME NEW r \in Request, NEW n \in Nat, NEW pieces, DOMAIN pieces = 1 .. n,
         pieces = [i \in 1 .. n |-> pieces[i]], \A i \in 1 .. n : pieces[i] \in Sound
  PROVE  Join(r, pieces) \in Seq(AudioPiece)
<1>1. Len(pieces) = n
  BY RowOf
<1>2. ASSUME NEW i \in 1 .. 2 * n
      PROVE  (IF i % 2 = 0 THEN Pause ELSE <<r, (i + 1) \div 2, pieces[(i + 1) \div 2]>>) \in AudioPiece
  <2>1. CASE i % 2 = 0
    BY <2>1 DEF Pause, AudioPiece
  <2>2. CASE i % 2 # 0
    <3>1. (i + 1) \div 2 \in 1 .. n
      BY <2>2
    <3>2. pieces[(i + 1) \div 2] \in Sound /\ (i + 1) \div 2 \in Nat
      BY <3>1
    <3> QED
      BY <2>2, <3>2 DEF AudioPiece
  <2> QED
    BY <2>1, <2>2
<1>3. Join(r, pieces) = [i \in 1 .. 2 * n |->
                           IF i % 2 = 0 THEN Pause
                           ELSE <<r, (i + 1) \div 2, pieces[(i + 1) \div 2]>>]
  BY <1>1 DEF Join
<1>4. Join(r, pieces) \in [1 .. 2 * n -> AudioPiece]
  BY <1>2, <1>3
<1>5. 2 * n \in Nat
  OBVIOUS
<1> QED
  BY <1>4, <1>5, SeqDef

\* Beside SpeechInv: the pool never has more at work than it has workers.
SpeechTyped ==
  /\ SpeechInv
  /\ pool \in {"none", "working", "broken"}
  /\ working \subseteq Task /\ IsFiniteSet(working) /\ Cardinality(working) <= workers
  /\ at \in [Request -> {"idle", "speaking", "answered", "refused", "failed"}]
  /\ \A r \in Request : /\ sentences[r] \in Seq({"sentence", "signs"})
                        /\ audio[r] \in Seq(AudioPiece)

LEMMA SpeechTypedIsOK == SpeechTyped => SpeechTypeOK
<1> SUFFICES ASSUME SpeechTyped PROVE SpeechTypeOK
  OBVIOUS
<1>1. \A s : Outcome(s) \subseteq Sound
  BY DEF Outcome, Sound
<1>2. ASSUME NEW r \in Request
      PROVE  DOMAIN results[r] \subseteq DOMAIN sentences[r]
             /\ \A i \in DOMAIN results[r] : results[r][i] \in Sound
  BY <1>1 DEF SpeechTyped, SpeechInv, InPlace
<1> QED
  BY <1>2 DEF SpeechTyped, SpeechTypeOK, SpeechInv, Task, AudioPiece

LEMMA SpeechTypedStart == SpeechInit => SpeechTyped
<1> SUFFICES ASSUME SpeechInit PROVE SpeechTyped
  OBVIOUS
<1>1. workers \in Nat
  BY SpeechAssumption DEF SpeechInit
<1>2. IsFiniteSet(working) /\ Cardinality(working) = 0
  BY FS_EmptySet DEF SpeechInit
<1>3. <<>> \in Seq({"sentence", "signs"}) /\ <<>> \in Seq(AudioPiece)
  BY EmptySeq
<1> QED
  BY <1>1, <1>2, <1>3, SpeechStart DEF SpeechInit, SpeechTyped

LEMMA SpeechTypedStep == SpeechTyped /\ [SpeechNext]_speechVars => SpeechTyped'
<1> SUFFICES ASSUME SpeechTyped, [SpeechNext]_speechVars PROVE SpeechTyped'
  OBVIOUS
<1>i. SpeechInv /\ SpeechInv'
  BY SpeechStep DEF SpeechTyped
<1>t. /\ pool \in {"none", "working", "broken"}
      /\ working \subseteq Task /\ IsFiniteSet(working)
      /\ at \in [Request -> {"idle", "speaking", "answered", "refused", "failed"}]
      /\ \A r \in Request : /\ sentences[r] \in Seq({"sentence", "signs"})
                            /\ audio[r] \in Seq(AudioPiece)
      /\ DOMAIN sentences = Request /\ DOMAIN audio = Request
  BY <1>i DEF SpeechTyped, SpeechInv
<1>n. PICK w \in Nat, c \in Nat : w = workers /\ c = Cardinality(working) /\ c <= w
  BY <1>i, SpeechAssumption, FS_CardinalityType DEF SpeechTyped, SpeechInv
<1>1. CASE WarmUp
  BY <1>1, <1>i, <1>t, <1>n DEF WarmUp, GetProcessPool, SpeechTyped
<1>2. CASE TakeTask
  <2>1. /\ working' = working \cup {Head(tasks)} /\ Cardinality(working) < workers /\ tasks # <<>>
        /\ UNCHANGED <<workers, pool, sentences, at, results, audio>>
    BY <1>2 DEF TakeTask
  <2>2. Head(tasks) \in Task
    BY <1>i, <2>1 DEF SpeechInv, Task
  <2>3. IsFiniteSet(working') /\ Cardinality(working') <= c + 1 /\ c + 1 <= w
    <3>1. PICK task : task = Head(tasks)
      OBVIOUS
    <3>2. working' = working \cup {task} /\ c < w
      BY <1>n, <2>1, <3>1
    <3>3. /\ IsFiniteSet(working \cup {task})
          /\ Cardinality(working \cup {task}) = IF task \in working THEN c ELSE c + 1
      BY <1>t, <1>n, FS_AddElement
    <3> QED
      BY <3>2, <3>3
  <2>4. Cardinality(working') <= workers'
    <3>1. Cardinality(working') \in Nat
      BY <2>3, FS_CardinalityType
    <3> QED
      BY <1>n, <2>1, <2>3, <3>1
  <2> QED
    BY <1>i, <1>t, <2>1, <2>2, <2>3, <2>4 DEF SpeechTyped
<1>3. CASE WorkerDies \/ SpeechRestart
  <2>1. /\ pool' \in {"none", "broken"} /\ working' = {} /\ UNCHANGED <<workers, sentences, audio>>
        /\ at' \in [Request -> {"idle", "speaking", "answered", "refused", "failed"}]
    BY <1>3, <1>t DEF WorkerDies, SpeechRestart
  <2>2. IsFiniteSet(working') /\ Cardinality(working') <= workers'
    BY <1>n, <2>1, FS_EmptySet
  <2> QED
    BY <1>i, <1>t, <2>1, <2>2 DEF SpeechTyped
<1>4. ASSUME NEW task \in working, Synthesised(task) PROVE SpeechTyped'
  <2>1. working' = working \ {task} /\ UNCHANGED <<workers, pool, sentences, at, audio>>
    BY <1>4 DEF Synthesised
  <2>2. IsFiniteSet(working') /\ Cardinality(working') <= c /\ Cardinality(working') \in Nat
    <3>1. IsFiniteSet(working \ {task}) /\ Cardinality(working \ {task}) = c - 1
      BY <1>t, <1>n, FS_RemoveElement
    <3>2. Cardinality(working \ {task}) \in Nat
      BY <3>1, FS_CardinalityType
    <3> QED
      BY <2>1, <3>1, <3>2
  <2>3. Cardinality(working') <= workers'
    BY <1>n, <2>1, <2>2
  <2> QED
    BY <1>i, <1>t, <2>1, <2>2, <2>3 DEF SpeechTyped
<1>5. ASSUME NEW r \in Request, Respond(r) PROVE SpeechTyped'
  <2>1. /\ audio' = [audio EXCEPT ![r] = Join(r, results[r])]
        /\ at' = [at EXCEPT ![r] = "answered"] /\ DOMAIN results[r] = DOMAIN sentences[r]
        /\ UNCHANGED <<workers, pool, working, sentences>>
    BY <1>5 DEF Respond
  <2>2. PICK n \in Nat : n = Len(sentences[r]) /\ DOMAIN sentences[r] = 1 .. n
    BY <1>i DEF SpeechInv, InPlace, Row
  <2>a. PICK pieces : pieces = results[r]
    OBVIOUS
  <2>3. DOMAIN pieces = 1 .. n /\ pieces = [i \in 1 .. n |-> pieces[i]]
        /\ \A i \in 1 .. n : pieces[i] \in Sound
    <3>1. InPlace(r)
      BY <1>i DEF SpeechInv
    <3>2. \A s : Outcome(s) \subseteq Sound
      BY DEF Outcome, Sound
    <3> QED
      BY <2>1, <2>2, <2>a, <3>1, <3>2 DEF InPlace
  <2>4. Join(r, pieces) \in Seq(AudioPiece)
    BY <2>3, JoinType
  <2>5. \A q \in Request : audio'[q] \in Seq(AudioPiece)
    BY <1>t, <2>1, <2>a, <2>4
  <2> QED
    BY <1>i, <1>t, <1>n, <2>1, <2>5 DEF SpeechTyped
<1>6. ASSUME NEW r \in Request, NEW text \in Text, Refuse(r, text) PROVE SpeechTyped'
  BY <1>6, <1>i, <1>t, <1>n DEF Refuse, SpeechTyped
<1>7. ASSUME NEW r \in Request, NEW text \in Text, SpeakAlone(r, text) PROVE SpeechTyped'
  <2>1. PICK said : said = Split(text)
    OBVIOUS
  <2>2. said \in Seq({"sentence", "signs"}) /\ Row(said)
    BY <2>1, SplitType, SplitIsRow
  <2>3. PICK pieces \in [DOMAIN said -> Sound] : audio' = [audio EXCEPT ![r] = Join(r, pieces)]
    BY <1>7, <2>1 DEF SpeakAlone
  <2>4. /\ sentences' = [sentences EXCEPT ![r] = said] /\ at' = [at EXCEPT ![r] = "answered"]
        /\ UNCHANGED <<workers, pool, working>>
    BY <1>7, <2>1 DEF SpeakAlone
  <2>5. PICK n \in Nat : n = Len(said) /\ DOMAIN said = 1 .. n
    BY <2>1, SplitIsRow DEF Row
  <2>6. DOMAIN pieces = 1 .. n /\ pieces = [i \in 1 .. n |-> pieces[i]]
        /\ \A i \in 1 .. n : pieces[i] \in Sound
    BY <2>3, <2>5
  <2>7. Join(r, pieces) \in Seq(AudioPiece)
    BY <2>6, JoinType
  <2>8. \A q \in Request : audio'[q] \in Seq(AudioPiece) /\ sentences'[q] \in Seq({"sentence", "signs"})
    BY <1>t, <2>2, <2>3, <2>4, <2>7
  <2> QED
    BY <1>i, <1>t, <1>n, <2>4, <2>8 DEF SpeechTyped
<1>8. ASSUME NEW r \in Request, NEW text \in Text, Submit(r, text) PROVE SpeechTyped'
  <2>1. PICK said : said = Split(text)
    OBVIOUS
  <2>2. said \in Seq({"sentence", "signs"})
    BY <2>1, SplitType
  <2>3. sentences' \in {sentences, [sentences EXCEPT ![r] = said]}
        /\ at' \in [Request -> {"idle", "speaking", "answered", "refused", "failed"}]
        /\ pool' \in {"none", "working", "broken"} /\ UNCHANGED <<workers, working, audio>>
    BY <1>8, <1>t, <2>1 DEF Submit, GetProcessPool
  <2>4. \A q \in Request : sentences'[q] \in Seq({"sentence", "signs"})
    BY <1>t, <2>2, <2>3
  <2> QED
    BY <1>i, <1>t, <1>n, <2>3, <2>4 DEF SpeechTyped
<1>9. CASE UNCHANGED speechVars
  BY <1>9, <1>i, <1>t, <1>n DEF speechVars, SpeechTyped
<1> QED
  BY <1>1, <1>2, <1>3, <1>4, <1>5, <1>6, <1>7, <1>8, <1>9 DEF SpeechNext
=============================================================================
