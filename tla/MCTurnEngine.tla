---------------------------- MODULE MCTurnEngine ----------------------------
(***************************************************************************)
(* Instances of TurnEngine for TLC.  The turns are strings, so that a run  *)
(* chooses by name which kinds of turn meet on its sessions.               *)
(***************************************************************************)
EXTENDS TurnEngine

CONSTANTS s1, h1, nil

\* Two streamed turns that may meet on one ordinary session.
TwoStreams == {"stream1", "stream2"}

\* A streamed turn, and one that arrives as a spoken turn of the household
\* session, as POST /api/chat, as a night job or as a compaction prompt.
StreamAndOther == {"stream1", "other1"}
NoTurns == {}
=============================================================================
