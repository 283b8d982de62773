------------------------------ MODULE Approval -------------------------------
(***************************************************************************)
(* The admin's side of onboarding: the pending row of a candidate is filed *)
(* with ServiceBay, polled there, and closed as approved, or as denied     *)
(* with the voice profile dropped at the gatekeeper.                       *)
(*                                                                         *)
(* Both tools may run in several turns at once and are suspended in every  *)
(* call; the candidate may register again meanwhile; a reply may be lost,  *)
(* and the gatekeeper may be down.  One candidate uid stands for all.      *)
(***************************************************************************)
EXTENDS Naturals, Sequences, FiniteSetsExt

CONSTANTS
  ToolCall,   \* runs of file_resident_approval and check_resident_approval
  MaxRows,    \* bound: registrations
  MaxRequests \* bound: requests ServiceBay files

ASSUME ApprovalAssumption == MaxRows \in Nat /\ MaxRequests \in Nat

VARIABLES
  profile,   \* whether voice_embeddings has a row for the uid
  enrolling, \* it has been enrolled, and the pending row is yet to come
  rows,      \* pending_residents, oldest first: status and request_id (0: none)
  requests,  \* ServiceBay: the row it was filed for, and what it answers
  tool,      \* where each tool is suspended, and what it holds
  approvedBy,\* history: the requests the admin has approved
  missed     \* history: a deletion that did not reach the gatekeeper

approvalVars == <<profile, enrolling, rows, requests, tool, approvedBy, missed>>

RowStatus == {"pending", "approved", "denied"}
Answer    == {"pending", "approved", "denied", "not-found"}
Idle      == [pc |-> "idle", row |-> 0, request |-> 0]

ApprovalTypeOK ==
  /\ profile \in BOOLEAN /\ enrolling \in BOOLEAN /\ missed \in BOOLEAN
  /\ rows \in Seq([status : RowStatus, request : 0 .. MaxRequests])
  /\ Len(rows) <= MaxRows
  /\ requests \in Seq([row : 1 .. MaxRows, status : Answer])
  /\ Len(requests) <= MaxRequests
  /\ tool \in [ToolCall -> [pc : {"idle", "filing", "polling", "approving",
                                  "dropping", "closing"},
                            row : 0 .. MaxRows, request : 0 .. MaxRequests]]
  /\ approvedBy \subseteq 1 .. MaxRequests

ApprovalInit ==
  /\ profile = FALSE /\ enrolling = FALSE /\ missed = FALSE
  /\ rows = <<>> /\ requests = <<>>
  /\ tool = [c \in ToolCall |-> Idle]
  /\ approvedBy = {}

-----------------------------------------------------------------------------
(* Around the tools.                                                       *)

\* The gatekeeper has upserted the profile (Enrollment).
EnrolVoice ==
  /\ ~enrolling /\ Len(rows) < MaxRows
  /\ profile' = TRUE /\ enrolling' = TRUE
  /\ UNCHANGED <<rows, requests, tool, approvedBy, missed>>

\* register_pending_resident adds a row, whatever rows the uid has already.
AddPendingResident ==
  /\ enrolling
  /\ enrolling' = FALSE
  /\ rows' = Append(rows, [status |-> "pending", request |-> 0])
  /\ UNCHANGED <<profile, requests, tool, approvedBy, missed>>

\* The admin resolves a request in ServiceBay's list.
Resolve(q, answer) ==
  /\ requests[q].status = "pending" /\ answer \in {"approved", "denied"}
  /\ requests' = [requests EXCEPT ![q].status = answer]
  /\ approvedBy' = IF answer = "approved" THEN approvedBy \cup {q} ELSE approvedBy
  /\ UNCHANGED <<profile, enrolling, rows, tool, missed>>

\* ServiceBay forgets a request.
Forget(q) ==
  /\ requests[q].status # "not-found"
  /\ requests' = [requests EXCEPT ![q].status = "not-found"]
  /\ UNCHANGED <<profile, enrolling, rows, tool, approvedBy, missed>>

-----------------------------------------------------------------------------
(* The tools.                                                              *)

PendingRows == {i \in DOMAIN rows : rows[i].status = "pending"}

\* get_pending_by_uid: the newest.
GetPending == IF PendingRows = {} THEN 0 ELSE Max(PendingRows)

Suspend(c, pc, row, request) ==
  tool' = [tool EXCEPT ![c] = [pc |-> pc, row |-> row, request |-> request]]

Done(c) == tool' = [tool EXCEPT ![c] = Idle]

\* file_approval up to the call: a row that is filed already is left alone.
File(c) ==
  /\ tool[c].pc = "idle" /\ GetPending # 0
  /\ rows[GetPending].request = 0
  /\ Suspend(c, "filing", GetPending, 0)
  /\ UNCHANGED <<profile, enrolling, rows, requests, approvedBy, missed>>

\* The request is filed and its id stored in the row; or it is filed and the
\* reply is lost; or it is not filed.
Filed(c) ==
  /\ tool[c].pc = "filing"
  /\ Done(c)
  /\ \/ /\ Len(requests) < MaxRequests
        /\ requests' = Append(requests, [row |-> tool[c].row, status |-> "pending"])
        /\ rows' \in {rows, [rows EXCEPT ![tool[c].row].request = Len(requests')]}
     \/ UNCHANGED <<requests, rows>>
  /\ UNCHANGED <<profile, enrolling, approvedBy, missed>>

\* check_approval up to the poll.
Check(c) ==
  /\ tool[c].pc = "idle" /\ GetPending # 0
  /\ rows[GetPending].request # 0
  /\ Suspend(c, "polling", GetPending, rows[GetPending].request)
  /\ UNCHANGED <<profile, enrolling, rows, requests, approvedBy, missed>>

\* ServiceBay answers, or the poll fails.
Polled(c) ==
  /\ tool[c].pc = "polling"
  /\ LET held == tool[c] IN
     \/ Done(c)
     \/ /\ requests[held.request].status = "approved"
        /\ Suspend(c, "approving", held.row, held.request)
     \/ /\ requests[held.request].status \in {"denied", "not-found"}
        /\ Suspend(c, "dropping", held.row, held.request)
  /\ UNCHANGED <<profile, enrolling, rows, requests, approvedBy, missed>>

\* Mutant of MarkApproved: by uid, as the row was read, instead of by row id.
MarkNewest(c) ==
  /\ tool[c].pc = "approving"
  /\ rows' = IF GetPending = 0 THEN rows
             ELSE [rows EXCEPT ![GetPending].status = "approved"]
  /\ Done(c)
  /\ UNCHANGED <<profile, enrolling, requests, approvedBy, missed>>

MarkApproved(c) ==
  /\ tool[c].pc = "approving"
  /\ rows' = [rows EXCEPT ![tool[c].row].status = "approved"]
  /\ Done(c)
  /\ UNCHANGED <<profile, enrolling, requests, approvedBy, missed>>

\* Mutant of DropVoice: a gatekeeper that timed out is taken for done.
DropVoiceInTime(c) ==
  /\ tool[c].pc = "dropping"
  /\ profile' \in {FALSE, profile}
  /\ Suspend(c, "closing", tool[c].row, tool[c].request)
  /\ missed' \in {missed, missed \/ profile'}
  /\ UNCHANGED <<enrolling, rows, requests, approvedBy>>

\* _delete_voice_profile: the profile is gone; or an error of the client, with
\* or without the profile, is swallowed and the row is closed all the same; or
\* a timeout ends the tool and leaves the row open.
DropVoice(c) ==
  /\ tool[c].pc = "dropping"
  /\ profile' \in {FALSE, profile}
  /\ \/ /\ Suspend(c, "closing", tool[c].row, tool[c].request)
        /\ missed' = (missed \/ profile')
     \/ /\ Done(c)
        /\ UNCHANGED missed
  /\ UNCHANGED <<enrolling, rows, requests, approvedBy>>

MarkDenied(c) ==
  /\ tool[c].pc = "closing"
  /\ rows' = [rows EXCEPT ![tool[c].row].status = "denied"]
  /\ Done(c)
  /\ UNCHANGED <<profile, enrolling, requests, approvedBy, missed>>

\* The process dies and comes back.
ApprovalRestart ==
  /\ tool' = [c \in ToolCall |-> Idle]
  /\ UNCHANGED <<profile, enrolling, rows, requests, approvedBy, missed>>

-----------------------------------------------------------------------------

ApprovalNext ==
  \/ EnrolVoice \/ AddPendingResident \/ ApprovalRestart
  \/ \E q \in DOMAIN requests : Forget(q) \/ \E a \in Answer : Resolve(q, a)
  \/ \E c \in ToolCall :
       \/ File(c) \/ Filed(c)
       \/ Check(c) \/ Polled(c) \/ MarkApproved(c) \/ DropVoice(c) \/ MarkDenied(c)

ApprovalSpec == ApprovalInit /\ [][ApprovalNext]_approvalVars

-----------------------------------------------------------------------------
(* Safety.                                                                 *)

\* Solilos never approves of its own accord: a row is approved only if the
\* admin has approved a request that was filed for that very row, however
\* often the candidate registers and the tools overlap (mark_approved).
OnlyAdminApproves ==
  \A i \in DOMAIN rows : rows[i].status = "approved" =>
    \E q \in approvedBy : requests[q].row = i

\* A denied candidate leaves no voice behind: while there is a profile there is
\* a row that is open or approved, or the row is on its way, or a gatekeeper
\* that was down has kept it (check_approval: delete first, then close).
DenialDropsVoice ==
  profile =>
    \/ enrolling \/ missed
    \/ \E i \in DOMAIN rows : rows[i].status \in {"pending", "approved"}
=============================================================================
