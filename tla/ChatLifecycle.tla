---------------------------- MODULE ChatLifecycle ----------------------------
(***************************************************************************)
(* What the store of chats promises, without requests, turns, usage or the *)
(* compactor: a question is put to one chat and is known there and in the  *)
(* chats that continue it, a continuation belongs to whom its original     *)
(* belongs and begins with what that held when it was summarised, and no   *)
(* chat loses anything but by being deleted.                               *)
(***************************************************************************)
CONSTANTS
  Resident,
  Session,
  Question,
  Given,      \* the questions asked before the start
  Durable,    \* the chats that may be opened again after they were deleted
  None        \* the owner of an id that was never used

VARIABLES
  open,    \* the chats that are in a list
  owner,   \* the resident of every chat there ever was
  holds,   \* the questions a chat knows
  spent,   \* the questions that were put, or were lost before
  notes    \* the summaries under way, as <<chat, what it held>>

vars == <<open, owner, holds, spent, notes>>

Init ==
  /\ open = Durable
  /\ owner \in [Session -> Resident \cup {None}]
  /\ \A s \in Session : owner[s] = None <=> s \notin Durable
  /\ holds \in [Session -> SUBSET Question]
  /\ \A s \in Session : holds[s] \subseteq (IF s \in Durable THEN Given ELSE {})
  /\ spent = Given
  /\ notes = {}

\* A chat begins under an id nobody has had.
Appear(s, uid, known) ==
  /\ s \in Session \ Durable
  /\ owner[s] = None
  /\ open' = open \cup {s}
  /\ owner' = [owner EXCEPT ![s] = uid]
  /\ holds' = [holds EXCEPT ![s] = known]
  /\ UNCHANGED spent

Open(s, uid) ==
  /\ Appear(s, uid, {})
  /\ UNCHANGED notes

\* A durable chat is there again, and empty.
Reopen(s) ==
  /\ s \in Durable \ open
  /\ open' = open \cup {s}
  /\ UNCHANGED <<owner, holds, spent, notes>>

Ask(s, q) ==
  /\ s \in open
  /\ q \notin spent
  /\ holds' = [holds EXCEPT ![s] = @ \cup {q}]
  /\ spent' = spent \cup {q}
  /\ UNCHANGED <<open, owner, notes>>

\* What a chat holds is read, to be summarised.
Note(s) ==
  /\ owner[s] # None
  /\ notes' = notes \cup {<<s, holds[s]>>}
  /\ UNCHANGED <<open, owner, holds, spent>>

\* A summary begins the continuation of its chat, which stays as it is.
\* Another of the same text may still be under way.
Continue(note, s) ==
  /\ note \in notes
  /\ Appear(s, owner[note[1]], note[2])
  /\ notes' \in {notes, notes \ {note}}

Delete(s) ==
  /\ s \in open
  /\ open' = open \ {s}
  /\ holds' = [holds EXCEPT ![s] = {}]
  /\ UNCHANGED <<owner, spent, notes>>

\* Summaries fail, and questions find no chat: one at a time, or all that a
\* crash interrupts.
GiveUp(lost) ==
  /\ spent' = spent \cup lost
  /\ notes' \in SUBSET notes
  /\ UNCHANGED <<open, owner, holds>>

Next ==
  \/ \E s \in Session :
       \/ \E uid \in Resident : Open(s, uid)
       \/ Reopen(s) \/ Note(s) \/ Delete(s)
       \/ \E q \in Question : Ask(s, q)
       \/ \E note \in notes : Continue(note, s)
  \/ \E lost \in SUBSET Question : GiveUp(lost)

Spec == Init /\ [][Next]_vars

-----------------------------------------------------------------------------
(* What follows.                                                           *)

Known(q) ==
  {s \in Session : q \in holds[s]} \cup {note[1] : note \in {n \in notes : q \in n[2]}}

\* A question asked since is known to the chats of one resident only, those that hold it
\* or of which a summary with it is under way.
StaysWithOneResident ==
  \A q \in Question \ Given : \A s, t \in Known(q) : owner[s] = owner[t]

\* What no chat and no summary knows any more comes back in no chat.
DeletedForGood ==
  [][\A q \in spent : Known(q) = {} => Known(q)' = {}]_vars
=============================================================================
