------------------------------- MODULE MCChats -------------------------------
(* The chats of the house by day and by night: compaction, routing, the    *)
(* cron runner, what a turn knows and does of the home, and the trace it   *)
(* leaves, each by itself.  They share no variable here, so a behaviour is *)
(* one of the seven that its initial state selects, and the others stand   *)
(* still.                                                                  *)
EXTENDS Conversations, Routing, NightJobs, HomeRegistry, HomeTools, Trace

VARIABLE part

chatVars == <<vars, routingVars, nightVars>>
mcVars   == <<chatVars, registryVars, homeVars, traceVars, part>>

\* Anna, who speaks and has a durable chat, sends two requests, or she and Ben
\* send one each.
Asks == {[r1 |-> "anna", r2 |-> u] : u \in Resident}
Durables == [anna |-> "h"]

\* A lamp before two scripts; one name is a part of the other.
House == <<"light.bed", "script.bed", "script.sleep">>
Names == {"bed", "bed time"}
Parts == {<<"bed", "bed">>, <<"bed time", "bed time">>, <<"bed", "bed time">>}

\* No days at all, two, and more than the longest window.
Windows == {-1, 0, 4}

\* Two turns of one session and one of another.
TracedChats == [chat |-> "h", spoken |-> "h", other |-> "a"]

MCInit ==
  /\ part \in {"conversations", "routing", "nights", "registry", "runs", "history",
               "trace"}
  /\ Init /\ RoutingInit /\ NightInit /\ RegistryInit /\ HomeInit /\ TraceInit
  /\ part # "conversations" => caller["r2"] = "ben"
  /\ part # "registry" => devices
  /\ part # "runs" => friendly = [id \in Ids |-> "bed"]
  /\ part # "history" => writes[1].state = "on"

Move(p, vs) == part = p /\ UNCHANGED <<vs, part>>

Converse(A) == /\ Move("conversations",
                       <<routingVars, nightVars, registryVars, homeVars, traceVars>>)
               /\ A
Route(A)    == /\ Move("routing", <<vars, nightVars, registryVars, homeVars, traceVars>>)
               /\ A
RunNight(A) == /\ Move("nights", <<vars, routingVars, registryVars, homeVars, traceVars>>)
               /\ A
Prompt(A)   == Move("registry", <<chatVars, homeVars, traceVars>>) /\ A
Run(A)      == Move("runs", <<chatVars, registryVars, traceVars>>) /\ A
Recall(A)   == Move("history", <<chatVars, registryVars, traceVars>>) /\ A
Traces(A)   == Move("trace", <<chatVars, registryVars, homeVars>>) /\ A

MCNext ==
  \/ Converse(Next) \/ Route(RoutingNext) \/ RunNight(NightNext)
  \/ Prompt(RegistryNext) \/ Run(RunNext) \/ Recall(HistoryNext) \/ Traces(TraceNext)

\* The fairness of FairNightSpec, where it is the runner that moves.
MCSpec == MCInit /\ [][MCNext]_mcVars /\ WF_mcVars(RunNight(NightStep))

\* SlotsAreSettled, where the runner runs.
SlotsSettled == part = "nights" => SlotsAreSettled

\* The types of the part that moves; the others stand where it has found them.
TypesOK ==
  CASE part = "conversations" -> TypeOK
    [] part = "routing"  -> RoutingTypeOK
    [] part = "nights"   -> NightTypeOK
    [] part = "registry" -> RegistryTypeOK
    [] part = "trace"    -> TraceTypeOK
    [] OTHER -> HomeTypeOK
=============================================================================
