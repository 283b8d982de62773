--------------------------- MODULE SampleLifecycle ---------------------------
(***************************************************************************)
(* What live enrolment promises of a voice sample, without requests,       *)
(* windows, targets or coroutines: a sample is heard for one candidate, is *)
(* kept, averaged and used for that candidate, each at most once, and is   *)
(* in one place only.  At any moment it may be dropped, and a sample that  *)
(* was dropped is never used.                                              *)
(***************************************************************************)
CONSTANTS
  Sample,
  Uid,
  None

VARIABLES
  place,  \* where a sample is: a set, with one place in it or none
  of      \* the candidate it was heard for

vars == <<place, of>>

Unheard     == <<"unheard", None>>
Heard(u)    == <<"heard", u>>
Kept(u)     == <<"kept", u>>
Averaged(d) == <<"averaged", d>>  \* with others, in the turn that brought d
Used(u)     == <<"used", u>>

Init ==
  /\ place = [c \in Sample |-> {Unheard}]
  /\ of = [c \in Sample |-> None]

Stand(c) == UNCHANGED <<place[c], of[c]>>

Hear(c) ==
  /\ place[c] = {Unheard}
  /\ of'[c] \in Uid
  /\ place'[c] = {Heard(of'[c])}

Keep(c) ==
  /\ place[c] = {Heard(of[c])}
  /\ place'[c] = {Kept(of[c])}
  /\ UNCHANGED of[c]

Average(c) ==
  /\ place[c] = {Kept(of[c])}
  /\ \E d \in Sample : of[d] = of[c] /\ place'[c] = {Averaged(d)}
  /\ UNCHANGED of[c]

Use(c) ==
  /\ \E d \in Sample : place[c] = {Averaged(d)}
  /\ place'[c] = {Used(of[c])}
  /\ UNCHANGED of[c]

\* A turn breaks off, a profile is replaced, the gatekeeper restarts.
Drop(c) ==
  /\ place[c] # {Unheard}
  /\ place'[c] = {}
  /\ UNCHANGED of[c]

Move(c) == Hear(c) \/ Keep(c) \/ Average(c) \/ Use(c) \/ Drop(c)

\* Samples move one at a time or together, but each by itself.
Next ==
  /\ DOMAIN place' = Sample /\ DOMAIN of' = Sample
  /\ \A c \in Sample : Stand(c) \/ Move(c)

Spec == Init /\ [][Next]_vars

-----------------------------------------------------------------------------
(* What follows.                                                           *)

\* A sample is in one place, which is of the candidate it was heard for.
InOnePlace ==
  \A c \in Sample :
    \/ place[c] \in {{}, {Unheard}, {Heard(of[c])}, {Kept(of[c])}, {Used(of[c])}}
    \/ \E d \in Sample : of[d] = of[c] /\ place[c] = {Averaged(d)}

\* What was used is not used again, and what was dropped not at all.
NeverTwice ==
  [][\A c \in Sample : place[c] \subseteq {Used(of[c])} => Stand(c) \/ Drop(c)]_vars
===============================================================================
