----------------------------- MODULE SpokenTurn ------------------------------
(***************************************************************************)
(* Who a spoken turn runs as.  The gatekeeper hears an utterance twice: to *)
(* transcribe it and to tell the speaker.  In Home Assistant's pipeline it *)
(* returns the transcript alone, and leaves the speaker in a table under   *)
(* the words, where the facade looks when Home Assistant sends it the same *)
(* words; a satellite's utterance it sends to the facade itself, with the  *)
(* speaker and the history it keeps for that speaker.                      *)
(*                                                                         *)
(* Utterances overlap at every await.  Home Assistant may drop a turn, the *)
(* table may be locked, a call fail, and the gatekeeper restart.           *)
(***************************************************************************)
EXTENDS Naturals, Sequences

CONSTANTS
  Utterance,   \* what is said
  Words,       \* the transcript of each
  BySatellite, \* those a wyoming-satellite sends
  InRoom,      \* those of a satellite whose room is known
  Resident,    \* uids with an enrolled voice
  Household,   \* default_uid
  Guest,       \* GUEST_UID
  Nobody,      \* no row of the stash
  MaxHistory   \* _MAX_HISTORY

ASSUME SpokenAssumption ==
  /\ DOMAIN Words = Utterance
  /\ InRoom \subseteq BySatellite /\ BySatellite \subseteq Utterance
  /\ Nobody \notin Utterance /\ {Household, Guest} \cap Resident = {}
  /\ MaxHistory \in Nat \ {0} /\ MaxHistory % 2 = 0

Uid        == Resident \cup {Household, Guest}
Transcript == {Words[t] : t \in Utterance}

VARIABLES
  upc,      \* where each utterance is
  heardAs,  \* whom _resolve_uid has told, or the user of the request
  stash,    \* voice_uid_stash: the utterance a row is of, by its words
  expired,  \* the transcripts whose row has outlived STASH_TTL_SECONDS
  credit,   \* history: the utterance whose row the turn was attributed by
  runAs,    \* uid of the turn
  sessions, \* the utterances in each household session
  history   \* SolClient._history: <<utterance, role>>, oldest first

spokenVars == <<upc, heardAs, stash, expired, credit, runAs, sessions, history>>

SpokenTypeOK ==
  /\ upc \in [Utterance -> {"silent", "heard", "sent", "running", "over"}]
  /\ heardAs \in [Utterance -> Uid]
  /\ stash \in [Transcript -> Utterance \cup {Nobody}]
  /\ expired \subseteq Transcript
  /\ credit \in [Utterance -> Utterance \cup {Nobody}]
  /\ runAs \in [Utterance -> Uid]
  /\ sessions \in [Uid -> SUBSET Utterance]
  /\ history \in [Uid -> Seq(Utterance \X {"user", "assistant"})]
  /\ \A u \in Uid : Len(history[u]) <= MaxHistory

SpokenInit ==
  /\ upc = [t \in Utterance |-> "silent"]
  /\ heardAs = [t \in Utterance |-> Household]
  /\ stash = [w \in Transcript |-> Nobody] /\ expired = {}
  /\ credit = [t \in Utterance |-> Nobody]
  /\ runAs = [t \in Utterance |-> Household]
  /\ sessions = [u \in Uid |-> {}]
  /\ history = [u \in Uid |-> <<>>]

-----------------------------------------------------------------------------
(* The gatekeeper.                                                         *)

\* A gap is the household; a voice below the threshold is a guest, if anybody
\* is enrolled to compare it with.
Told == {Household} \cup Resident \cup (IF Resident = {} THEN {} ELSE {Guest})

\* handle_event: Home Assistant opens with Transcribe, a satellite never does.
Mode(t) == IF t \in BySatellite THEN "sent" ELSE "heard"

\* _transcribe and _resolve_uid.  In the pipeline of a satellite the turn goes
\* on to the facade; nothing audible ends it.
Hear(t) ==
  /\ upc[t] = "silent"
  /\ \/ /\ \E u \in Told : heardAs' = [heardAs EXCEPT ![t] = u]
        /\ upc' = [upc EXCEPT ![t] = Mode(t)]
     \/ /\ upc' = [upc EXCEPT ![t] = "over"]
        /\ UNCHANGED heardAs
  /\ UNCHANGED <<stash, expired, credit, runAs, sessions, history>>

\* stash_uid, the last row of the same words being replaced; a table that is
\* locked is left alone, as it is for what is typed.  The transcript is returned.
StashUid(t) ==
  /\ upc[t] = "heard"
  /\ upc' = [upc EXCEPT ![t] = "sent"]
  /\ \/ /\ stash' = [stash EXCEPT ![Words[t]] = t]
        /\ expired' = expired \ {Words[t]}
     \/ UNCHANGED <<stash, expired>>
  /\ UNCHANGED <<heardAs, credit, runAs, sessions, history>>

\* Half a minute passes over a row.
RowExpires(w) ==
  /\ stash[w] # Nobody
  /\ expired' = expired \cup {w}
  /\ UNCHANGED <<upc, heardAs, stash, credit, runAs, sessions, history>>

\* Home Assistant drops the turn, or the call to the facade fails.
Dropped(t) ==
  /\ upc[t] = "sent"
  /\ upc' = [upc EXCEPT ![t] = "over"]
  /\ UNCHANGED <<heardAs, stash, expired, credit, runAs, sessions, history>>

-----------------------------------------------------------------------------
(* The facade.                                                             *)

\* The satellite's room rides before the words, which then match no row.
Found(t) == IF t \in InRoom THEN Nobody ELSE stash[Words[t]]

\* Mutant of ConsumeUid: a row that was found stays.
PeekUid(t) ==
  /\ credit' = [credit EXCEPT ![t] = IF Words[t] \in expired THEN Nobody ELSE Found(t)]
  /\ UNCHANGED stash

\* consume_uid: a fresh row is returned, and any row of the words goes; a table
\* that is locked is none.
ConsumeUid(t) ==
  \/ /\ credit' = [credit EXCEPT ![t] = IF Words[t] \in expired THEN Nobody ELSE Found(t)]
     /\ stash' = IF t \in InRoom THEN stash ELSE [stash EXCEPT ![Words[t]] = Nobody]
  \/ UNCHANGED <<credit, stash>>

\* respond_session stores the turn in the household session of its uid; respond,
\* for a guest, nowhere.
StoredFor(u, t) ==
  IF u = Guest THEN sessions ELSE [sessions EXCEPT ![u] = @ \cup {t}]

\* The turn runs as the uid of the row, or as the user of the request.
Facade(t) ==
  /\ upc[t] = "sent"
  /\ ConsumeUid(t)
  /\ LET u == IF credit'[t] # Nobody THEN heardAs[credit'[t]]
              ELSE IF t \in BySatellite THEN heardAs[t] ELSE Household
     IN /\ runAs' = [runAs EXCEPT ![t] = u]
        /\ sessions' = StoredFor(u, t)
  /\ expired' = {w \in expired : stash'[w] # Nobody}
  /\ upc' = [upc EXCEPT ![t] = "running"]
  /\ UNCHANGED <<heardAs, history>>

-----------------------------------------------------------------------------
(* The reply.                                                              *)

\* Mutant of Latest: a list instead of the deque.
AllOf(s) == s

\* deque(maxlen=_MAX_HISTORY).
Latest(s) == IF Len(s) <= MaxHistory THEN s
             ELSE SubSeq(s, Len(s) - MaxHistory + 1, Len(s))

\* Mutant of Remembered: the question is remembered without a reply, too.
QuestionRemembered(t, reply) ==
  [history EXCEPT ![heardAs[t]] =
     Latest(@ \o IF reply THEN <<<<t, "user">>, <<t, "assistant">>>> ELSE <<<<t, "user">>>>)]

\* converse appends the two together when the reply is there.
Remembered(t, reply) ==
  IF reply
  THEN [history EXCEPT ![heardAs[t]] = Latest(@ \o <<<<t, "user">>, <<t, "assistant">>>>)]
  ELSE history

\* The answer, an error, or silence.
Reply(t) ==
  /\ upc[t] = "running"
  /\ upc' = [upc EXCEPT ![t] = "over"]
  /\ \E reply \in BOOLEAN :
       history' = IF t \in BySatellite THEN Remembered(t, reply) ELSE history
  /\ UNCHANGED <<heardAs, stash, expired, credit, runAs, sessions>>

\* The gatekeeper restarts: its turns end, its histories are gone.
GatekeeperRestart ==
  /\ upc' = [t \in Utterance |->
               IF upc[t] = "heard" \/ (t \in BySatellite /\ upc[t] \in {"sent", "running"})
               THEN "over" ELSE upc[t]]
  /\ history' = [u \in Uid |-> <<>>]
  /\ UNCHANGED <<heardAs, stash, expired, credit, runAs, sessions>>

-----------------------------------------------------------------------------

SpokenNext ==
  \/ \E t \in Utterance :
       Hear(t) \/ StashUid(t) \/ Dropped(t) \/ Facade(t) \/ Reply(t)
  \/ \E w \in Transcript : RowExpires(w)
  \/ GatekeeperRestart

SpokenSpec == SpokenInit /\ [][SpokenNext]_spokenVars

-----------------------------------------------------------------------------
(* Safety.                                                                 *)

\* The uid of an utterance attributes one turn at most, one of the same words,
\* and never a satellite's of a known room, in whatever order utterances are
\* heard, dropped and answered (consume_uid: consume-once).
AttributedOnce ==
  \A t \in Utterance : credit[t] # Nobody =>
    /\ Words[credit[t]] = Words[t]
    /\ t \notin InRoom
    /\ \A v \in Utterance \ {t} : credit[v] # credit[t]

\* A collided uid never leaks into a later turn (gatekeeper/uid_stash.py): the
\* turn of a resident who was recognised runs as that resident, or as the
\* household where the row was lost, and never as somebody else.
NeverAnothersTurn ==
  \A t \in Utterance : heardAs[t] \in Resident => runAs[t] \in {heardAs[t], Household}

\* What the model is shown of earlier turns are questions with their answers,
\* however the turns of one speaker overlap, fail, or fall off the far end.
FollowUpsPaired ==
  \A u \in Uid : \A i \in DOMAIN history[u] :
    LET other == IF i % 2 = 1 THEN i + 1 ELSE i - 1
    IN /\ other \in DOMAIN history[u]
       /\ history[u][i][1] = history[u][other][1]
       /\ history[u][i][2] = IF i % 2 = 1 THEN "user" ELSE "assistant"
=============================================================================
