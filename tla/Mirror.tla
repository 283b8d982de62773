------------------------------- MODULE Mirror --------------------------------
(***************************************************************************)
(* The live mirror of one session in one browser tab.  Every turn of the   *)
(* session, spoken or typed, here or in another tab, publishes its events; *)
(* the subscription of the tab queues them, sends them on, and the tab     *)
(* draws them, except while a turn of its own is in flight.                *)
(*                                                                         *)
(* Turns may overlap, fail or be cancelled, and the connection may break   *)
(* and come back; the queue is of one connection.                          *)
(***************************************************************************)
EXTENDS Naturals, Sequences, SequencesExt

CONSTANTS
  MirroredTurn, \* turns of the session
  Typed,        \* those typed in this tab
  MaxDeltas,    \* bound: deltas of a turn
  NoBubble

ASSUME MirrorAssumption ==
  Typed \subseteq MirroredTurn /\ NoBubble \notin MirroredTurn /\ MaxDeltas \in Nat

VARIABLES
  turnAt,     \* where each turn is
  deltas,     \* how many deltas it has streamed
  subscribed, \* whether the tab has a connection to /events
  events,      \* its asyncio.Queue
  streamed,   \* a local of session_events
  active,     \* activeTurn of the tab
  bubble,     \* mirrorMsg of the tab: the turn it was opened for
  text,       \* what stands in the bubble
  shown,      \* the finished bubbles: the turn, and what stands there
  disturbed   \* history: the turns this tab was not quietly watching

mirrorVars == <<turnAt, deltas, subscribed, events, streamed,
                active, bubble, text, shown, disturbed>>

\* Deltas are counted from 1; 0 is an answer that comes with run.completed.
Piece == MirroredTurn \X (0 .. MaxDeltas)
Event == [kind : {"mirror_user", "delta", "completed"}, piece : Piece]

MirrorTypeOK ==
  /\ turnAt \in [MirroredTurn -> {"idle", "asked", "running", "completed", "ended"}]
  /\ deltas \in [MirroredTurn -> 0 .. MaxDeltas]
  /\ {subscribed, streamed, active} \subseteq BOOLEAN
  /\ events \in Seq(Event) /\ text \in Seq(Piece)
  /\ bubble \in MirroredTurn \cup {NoBubble}
  /\ \A b \in shown : b \in MirroredTurn \X Seq(Piece)
  /\ disturbed \subseteq MirroredTurn

MirrorInit ==
  /\ turnAt = [t \in MirroredTurn |-> "idle"]
  /\ deltas = [t \in MirroredTurn |-> 0]
  /\ subscribed = FALSE /\ events = <<>> /\ streamed = FALSE
  /\ active = FALSE /\ bubble = NoBubble /\ text = <<>>
  /\ shown = {} /\ disturbed = Typed

\* The turns that are running, and those with an event on the way.
Live     == {t \in MirroredTurn : turnAt[t] = "running"}
OnTheWay == {e.piece[1] : e \in ToSet(events)}

serverVars == <<turnAt, deltas>>
tabVars    == <<active, bubble, text, shown>>

-----------------------------------------------------------------------------
(* The turns.                                                              *)

\* SessionBus.publish: into the queue of the connection, if there is one.
Publish(kind, t, i) ==
  events' = IF subscribed THEN Append(events, [kind |-> kind, piece |-> <<t, i>>])
           ELSE events

\* The tab sends a turn of its own.
Type(t) ==
  /\ t \in Typed /\ turnAt[t] = "idle" /\ ~active
  /\ turnAt' = [turnAt EXCEPT ![t] = "asked"]
  /\ active' = TRUE
  /\ UNCHANGED <<deltas, subscribed, events, streamed, bubble, text, shown, disturbed>>

\* _run_turn up to the model: the question goes out first.
BeginMirrored(t) ==
  /\ turnAt[t] = IF t \in Typed THEN "asked" ELSE "idle"
  /\ turnAt' = [turnAt EXCEPT ![t] = "running"]
  /\ Publish("mirror_user", t, 0)
  /\ disturbed' = disturbed \cup (IF subscribed /\ Live = {} THEN {}
                                  ELSE Live \cup {t})
  /\ UNCHANGED <<deltas, subscribed, streamed, tabVars>>

StreamDelta(t) ==
  /\ turnAt[t] = "running" /\ deltas[t] < MaxDeltas
  /\ deltas' = [deltas EXCEPT ![t] = @ + 1]
  /\ Publish("delta", t, deltas'[t])
  /\ UNCHANGED <<turnAt, subscribed, streamed, tabVars, disturbed>>

Complete(t) ==
  /\ turnAt[t] = "running"
  /\ turnAt' = [turnAt EXCEPT ![t] = "completed"]
  /\ Publish("completed", t, 0)
  /\ UNCHANGED <<deltas, subscribed, streamed, tabVars, disturbed>>

\* A turn that fails or is cancelled publishes nothing more.
Break(t) ==
  /\ turnAt[t] \in {"asked", "running"}
  /\ turnAt' = [turnAt EXCEPT ![t] = "ended"]
  /\ UNCHANGED <<deltas, subscribed, events, streamed, tabVars, disturbed>>

\* The direct stream of the tab's own turn ends, or is stopped or cut while the
\* server goes on.
OwnTurnOver ==
  /\ active
  /\ active' = FALSE
  /\ UNCHANGED <<serverVars, subscribed, events, streamed, bubble, text, shown, disturbed>>

-----------------------------------------------------------------------------
(* The subscription.                                                       *)

\* subscribeMirror and subscribe: an empty queue, from now on.
Subscribe ==
  /\ ~subscribed
  /\ subscribed' = TRUE /\ events' = <<>> /\ streamed' = FALSE
  /\ bubble' = NoBubble /\ text' = <<>>
  /\ UNCHANGED <<serverVars, active, shown, disturbed>>

\* The browser's EventSource reconnects by itself; the bubble stays open.
Reconnect ==
  /\ ~subscribed
  /\ subscribed' = TRUE /\ events' = <<>> /\ streamed' = FALSE
  /\ UNCHANGED <<serverVars, tabVars, disturbed>>

\* The connection goes, and its queue with it.
Unsubscribe ==
  /\ subscribed
  /\ subscribed' = FALSE /\ events' = <<>>
  /\ disturbed' = disturbed \cup Live \cup OnTheWay
  /\ UNCHANGED <<serverVars, streamed, tabVars>>

Take(kind) ==
  /\ events # <<>> /\ Head(events).kind = kind
  /\ events' = Tail(events)
  /\ disturbed' = disturbed \cup (IF active THEN {Head(events).piece[1]} ELSE {})
  /\ UNCHANGED <<serverVars, subscribed, active>>

\* Mutant of SendUser: what streamed in one turn counts for the next.
SendUserAgain ==
  /\ Take("mirror_user")
  /\ IF active THEN UNCHANGED <<bubble, text>>
     ELSE bubble' = Head(events).piece[1] /\ text' = <<>>
  /\ UNCHANGED <<streamed, shown>>

\* The question opens a bubble.
SendUser ==
  /\ Take("mirror_user")
  /\ streamed' = FALSE
  /\ IF active THEN UNCHANGED <<bubble, text>>
     ELSE bubble' = Head(events).piece[1] /\ text' = <<>>
  /\ UNCHANGED shown

\* The tab drops what comes while it is busy or has no bubble to put it in.
Drawing == ~active /\ bubble # NoBubble

SendDelta ==
  /\ Take("delta")
  /\ streamed' = TRUE
  /\ text' = IF Drawing THEN Append(text, Head(events).piece) ELSE text
  /\ UNCHANGED <<bubble, shown>>

\* The answer itself, if nothing streamed; then the bubble is finished.
SendCompleted ==
  /\ Take("completed")
  /\ LET all == IF streamed THEN text ELSE Append(text, Head(events).piece) IN
     IF Drawing
     THEN /\ shown' = shown \cup {<<bubble, all>>}
          /\ bubble' = NoBubble /\ text' = <<>>
     ELSE UNCHANGED <<shown, bubble, text>>
  /\ UNCHANGED streamed

MirrorNext ==
  \/ Subscribe \/ Reconnect \/ Unsubscribe \/ OwnTurnOver
  \/ SendUser \/ SendDelta \/ SendCompleted
  \/ \E t \in MirroredTurn :
       \/ Type(t) \/ BeginMirrored(t) \/ StreamDelta(t) \/ Complete(t) \/ Break(t)

MirrorSpec == MirrorInit /\ [][MirrorNext]_mirrorVars

-----------------------------------------------------------------------------
(* Safety.                                                                 *)

\* What the originating request shows of a turn.
Answered(t) ==
  IF deltas[t] = 0 THEN << <<t, 0>> >> ELSE [i \in 1 .. deltas[t] |-> <<t, i>>]

\* A tab that watches a turn from its question to its end shows the answer, and
\* shows it once: every delta in order, or the answer that only came with
\* run.completed, whatever turns failed or were missed before (session_events,
\* "surface the final answer once, but don't double it").  Turns that overlap
\* share the flag `streamed` and the bubble, and are left out.
MirroredOnce ==
  \A t \in MirroredTurn \ disturbed :
    turnAt[t] = "completed" /\ t \notin OnTheWay =>
      {b \in shown : b[1] = t} = {<<t, Answered(t)>>}
=============================================================================
