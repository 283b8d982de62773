---------------------------- MODULE HomeRegistry -----------------------------
(***************************************************************************)
(* The device list of the system prompt.  One registry serves the turns of *)
(* every chat: it asks Home Assistant for all states, keeps the list for   *)
(* five minutes, and when Home Assistant does not answer a turn gets the   *)
(* list there was.                                                         *)
(*                                                                         *)
(* The registry holds no lock: turns may ask at the same time and their    *)
(* answers come in any order.  Of a list all that matters here is when it  *)
(* was read, and whether it has a device at all.                           *)
(***************************************************************************)
EXTENDS Naturals

CONSTANTS
  Prompting, \* turns that assemble a prompt, one after the other or at once
  TTL,       \* _TTL_S
  TIMEOUT,   \* the total timeout of a request to Home Assistant
  MaxClock,  \* bound: the time
  NoList     \* the empty block

ASSUME RegistryAssumption ==
  /\ {TTL, TIMEOUT} \subseteq Nat \ {0} /\ MaxClock \in Nat /\ NoList \notin Nat

VARIABLES
  time,      \* the time
  devices,   \* whether the home has a device to control
  block,     \* _block: when the list was read
  fetchedAt, \* _fetched_at
  fetch,     \* what each turn has asked for: when, and what it will read
  given      \* the list in the latest prompt of each turn, when it was given, and
             \* whether Home Assistant had failed to answer

registryVars == <<time, devices, block, fetchedAt, fetch, given>>

Time    == 0 .. MaxClock
List    == Time \cup {NoList}
NoFetch == [asked |-> FALSE, at |-> 0, list |-> NoList]
NoPrompt == [list |-> NoList, at |-> 0, failed |-> FALSE]

RegistryTypeOK ==
  /\ time \in Time /\ fetchedAt \in Time /\ devices \in BOOLEAN /\ block \in List
  /\ fetch \in [Prompting -> [asked : BOOLEAN, at : Time, list : List]]
  /\ given \in [Prompting -> [list : List, at : Time, failed : BOOLEAN]]

RegistryInit ==
  /\ time = 0 /\ devices \in BOOLEAN /\ block = NoList /\ fetchedAt = 0
  /\ fetch = [t \in Prompting |-> NoFetch]
  /\ given = [t \in Prompting |-> NoPrompt]

Give(t, list, failed) ==
  given' = [given EXCEPT ![t] = [list |-> list, at |-> time, failed |-> failed]]

\* The list is there and young enough.
Cached == block # NoList /\ time - fetchedAt < TTL

-----------------------------------------------------------------------------
(* prompt_block.                                                           *)

FromCache(t) ==
  /\ ~fetch[t].asked /\ Cached
  /\ Give(t, block, FALSE)
  /\ UNCHANGED <<time, devices, block, fetchedAt, fetch>>

\* _fetch_states: GET /api/states, answered from the states of this moment.
FetchStates(t) ==
  /\ ~fetch[t].asked /\ ~Cached
  /\ fetch' = [fetch EXCEPT ![t] = [asked |-> TRUE, at |-> time,
                                    list |-> IF devices THEN time ELSE NoList]]
  /\ UNCHANGED <<time, devices, block, fetchedAt, given>>

\* The answer replaces the list, even one that another turn has brought since.
Fetched(t) ==
  /\ fetch[t].asked
  /\ block' = fetch[t].list /\ fetchedAt' = time
  /\ Give(t, fetch[t].list, FALSE)
  /\ fetch' = [fetch EXCEPT ![t] = NoFetch]
  /\ UNCHANGED <<time, devices>>

\* Mutant of Unreachable: the list that is kept counts as fetched.
UnreachableRenewed(t) ==
  /\ fetch[t].asked
  /\ fetchedAt' = time
  /\ Give(t, block, TRUE)
  /\ fetch' = [fetch EXCEPT ![t] = NoFetch]
  /\ UNCHANGED <<time, devices, block>>

\* Stale beats empty, and the next turn asks again.
Unreachable(t) ==
  /\ fetch[t].asked
  /\ Give(t, block, TRUE)
  /\ fetch' = [fetch EXCEPT ![t] = NoFetch]
  /\ UNCHANGED <<time, devices, block, fetchedAt>>

-----------------------------------------------------------------------------

\* Devices come and go.
DevicesChange ==
  /\ devices' = ~devices
  /\ UNCHANGED <<time, block, fetchedAt, fetch, given>>

\* No request outlives its timeout.
RegistryTick ==
  /\ time < MaxClock
  /\ \A t \in Prompting : fetch[t].asked => time - fetch[t].at < TIMEOUT
  /\ time' = time + 1
  /\ UNCHANGED <<devices, block, fetchedAt, fetch, given>>

RegistryNext ==
  \/ DevicesChange \/ RegistryTick
  \/ \E t \in Prompting :
       FromCache(t) \/ FetchStates(t) \/ Fetched(t) \/ Unreachable(t)

RegistrySpec == RegistryInit /\ [][RegistryNext]_registryVars

-----------------------------------------------------------------------------
(* Safety.                                                                 *)

\* Unless Home Assistant has just failed to answer, the list in a prompt was
\* read no longer ago than the five minutes and the one request that may have
\* been under way, however the turns' requests overlapped ("a TTL refresh picks
\* up registry changes within minutes").
PromptIsRecent ==
  \A t \in Prompting :
    ~given[t].failed /\ given[t].list # NoList =>
      given[t].at - given[t].list < TTL + TIMEOUT
=============================================================================
