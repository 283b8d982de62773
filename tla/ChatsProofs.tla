----------------------------- MODULE ChatsProofs -----------------------------
(***************************************************************************)
(* Proofs about the chats of the house, for any number of residents, chats *)
(* and requests: what a turn finds after its chat has been compacted, who  *)
(* answers it, what the CronRunner runs at night, what the tools of the    *)
(* house tell and do, and what the trace of a turn tells.                  *)
(***************************************************************************)
EXTENDS MCChats, SequenceTheorems, FiniteSetTheorems, WellFoundedInduction, TLAPS

-----------------------------------------------------------------------------
(* Conversations.                                                          *)
(*                                                                         *)
(* NothingForgotten is not inductive: while a chat is compacted what it    *)
(* held lives in three places in turn, the old session, the history that   *)
(* was read, and the overlay of the continuation, and nobody else may get  *)
(* the id of a session that somebody works on.                             *)

\* Whatever is in use has been somebody's.
Owned ==
  /\ \A s \in live \cup Durable \cup todo : owner[s] # None
  /\ \A w \in Worker : pc[w] \in InFlight => sid[w] \in Session /\ owner[sid[w]] # None

\* What the chat held is where the request will look for it.
Carried ==
  \A r \in Request :
    /\ pc[r] = "new" => seen[r] = {}
    /\ pc[r] \in InFlight => seen[r] \subseteq rows[sid[r]] \cup brief[sid[r]]
    /\ pc[r] = "briefing" => seen[r] \subseteq read[r]

\* A request compacts the chats of its resident only.
CompactsItsOwn ==
  \A r \in Request : pc[r] \in Compacting => owner[sid[r]] = caller[r]

ChatInv == TypeOK /\ Owned /\ Carried /\ CompactsItsOwn

LEMMA ChatStart == Init => ChatInv
<1> SUFFICES ASSUME Init PROVE ChatInv
  OBVIOUS
<1> USE ConversationsAssumption DEF ConversationsAssumption
<1>1. ASSUME NEW s \in Durable
      PROVE  owner[s] \in Resident /\ s \in Session
  <2>1. \E u \in DOMAIN Zuhause : Zuhause[u] = s
    BY DEF Durable
  <2>2. (CHOOSE u \in DOMAIN Zuhause : Zuhause[u] = s) \in DOMAIN Zuhause
    BY <2>1
  <2>3. s \in Session
    BY <2>1
  <2>4. QED
    BY <2>2, <2>3 DEF Init
<1>2. owner \in [Session -> Resident \cup {None}]
  <2>1. \A s \in Session \ Durable : owner[s] = None
    BY DEF Init
  <2>2. DOMAIN owner = Session /\ owner = [s \in Session |-> owner[s]]
    BY DEF Init
  <2>3. \A s \in Session : owner[s] \in Resident \cup {None}
    BY <1>1, <2>1
  <2>4. QED
    BY <2>2, <2>3
<1>3. TypeOK
  <2>1. live \subseteq Session
    BY <1>1 DEF Init
  <2>2. /\ usage \in [Session -> 0 .. Cap]
        /\ rows \in [Session -> SUBSET Question]
        /\ brief \in [Session -> SUBSET Question]
    BY DEF Init, Question
  <2>3. /\ pc \in [Worker -> {"new", "over", "resting", "pick"} \cup InFlight]
        /\ sid \in [Worker -> Session \cup {None}]
        /\ read \in [Worker -> SUBSET Question]
        /\ todo \subseteq Session
        /\ seen \in [Request -> SUBSET Question]
        /\ caller \in Callers
    BY DEF Init
  <2>4. QED
    BY <1>2, <2>1, <2>2, <2>3 DEF TypeOK
<1>4. \A w \in Worker : pc[w] \notin InFlight
  BY DEF Init, InFlight, Compacting
<1>5. Owned
  BY <1>1, <1>4 DEF Init, Owned
<1>6. Carried /\ CompactsItsOwn
  BY <1>4 DEF Init, Carried, CompactsItsOwn, InFlight, Worker
<1>7. QED
  BY <1>3, <1>5, <1>6 DEF ChatInv

\* The id of a new session is nobody's.
LEMMA FreshIsUnused ==
  ASSUME ChatInv, Unused # {}
  PROVE  /\ Fresh \in Session \ Durable
         /\ owner[Fresh] = None
         /\ Fresh \notin live \cup todo
         /\ \A w \in Worker : pc[w] \in InFlight => sid[w] # Fresh
<1>1. Fresh \in Unused
  BY DEF Fresh
<1>2. QED
  BY <1>1 DEF Unused, ChatInv, Owned

LEMMA Residents == TypeOK => \A r \in Request : caller[r] \in Resident
  BY ConversationsAssumption DEF ConversationsAssumption, TypeOK

\* A new session disturbs nobody who works on another one.
LEMMA CreateKeeps ==
  ASSUME ChatInv,
         NEW uid \in Resident, NEW overlay \in SUBSET Question,
         Create(Fresh, uid, overlay)
  PROVE  /\ live' \subseteq Session
         /\ owner' \in [Session -> Resident \cup {None}]
         /\ brief' \in [Session -> SUBSET Question]
         /\ owner'[Fresh] = uid /\ brief'[Fresh] = overlay
         /\ \A s \in Session \ {Fresh} : owner'[s] = owner[s] /\ brief'[s] = brief[s]
         /\ Fresh \in Session
         /\ \A s \in live' \cup Durable \cup todo : owner'[s] # None
<1>1. Unused # {}
  BY DEF Create
<1>2. /\ Fresh \in Session /\ Fresh \notin live \cup todo \cup Durable
  BY <1>1, FreshIsUnused
<1>3. uid # None
  BY ConversationsAssumption DEF ConversationsAssumption
<1>4. Durable \subseteq Session
  BY ConversationsAssumption DEF ConversationsAssumption, Durable
<1>5. QED
  BY <1>2, <1>3, <1>4 DEF Create, ChatInv, TypeOK, Owned

\* The compaction on behalf of any worker.
LEMMA CompactionKeeps ==
  ASSUME ChatInv, NEW w \in Worker, CompactionStep(w)
  PROVE  ChatInv'
<1> USE DEF InFlight, Compacting
<1>1. w = Night \/ w \in Request
  BY DEF Worker
<1>2. After(w) \in {"pick", "ready"} /\ (w \in Request => After(w) = "ready")
      /\ (w = Night => After(w) = "pick")
  BY ConversationsAssumption DEF After, ConversationsAssumption
<1>3. CASE Extracted(w)
  <2>1. usage' \in [Session -> 0 .. Cap]
    BY <1>3 DEF Extracted, Uses, ChatInv, TypeOK
  <2>2. \/ pc' = [pc EXCEPT ![w] = "summarising"]
        \/ pc' = [pc EXCEPT ![w] = After(w)]
    BY <1>3 DEF Extracted
  <2>3. TypeOK'
    BY <1>2, <1>3, <2>1, <2>2 DEF Extracted, ChatInv, TypeOK, record
  <2>4. \A v \in Worker : pc'[v] \in InFlight => pc[v] \in InFlight
    BY <1>3, <2>2 DEF Extracted, ChatInv, TypeOK
  <2>5. \A v \in Worker : /\ pc'[v] \in Compacting => pc[v] \in Compacting
                          /\ pc'[v] = "briefing" => pc[v] = "briefing"
                          /\ pc'[v] = "new" => pc[v] = "new"
    BY <1>2, <1>3, <2>2 DEF Extracted, ChatInv, TypeOK
  <2>6. QED
    BY <1>3, <2>3, <2>4, <2>5
    DEF Extracted, ChatInv, Owned, Carried, CompactsItsOwn, record, Worker
<1>4. CASE ReadHistory(w)
  <2>1. sid[w] \in Session
    BY <1>4 DEF ReadHistory, ChatInv, Owned
  <2>2. read' = [read EXCEPT ![w] = rows[sid[w]] \cup brief[sid[w]]]
    BY <1>4 DEF ReadHistory
  <2>3. TypeOK'
    BY <1>4, <2>1, <2>2 DEF ReadHistory, ChatInv, TypeOK, record, sessions
  <2>4. Owned' /\ CompactsItsOwn'
    BY <1>4 DEF ReadHistory, ChatInv, TypeOK, Owned, CompactsItsOwn, record, sessions,
       Worker
  <2>5. Carried'
    BY <1>4, <2>2 DEF ReadHistory, ChatInv, TypeOK, Carried, record, sessions, Worker
  <2>6. QED
    BY <2>3, <2>4, <2>5 DEF ChatInv
<1>5. CASE Continue(w)
  <2>1. For(w) \in Resident
    <3>1. CASE w = Night
      BY <1>5, <3>1 DEF Continue, For, ChatInv, TypeOK, Owned
    <3>2. CASE w # Night
      BY <1>1, <3>2, Residents DEF For, ChatInv
    <3>3. QED
      BY <3>1, <3>2
  <2>2. read[w] \in SUBSET Question
    BY DEF ChatInv, TypeOK
  <2> DEFINE f == Fresh
  <2>3. /\ Create(f, For(w), read[w])
        /\ pc' = [pc EXCEPT ![w] = After(w)]
        /\ sid' = [sid EXCEPT ![w] = f]
        /\ read' = [read EXCEPT ![w] = {}]
        /\ UNCHANGED <<usage, rows, todo, seen, caller>>
    BY <1>5 DEF Continue, record
  <2>4. /\ live' \subseteq Session
        /\ owner' \in [Session -> Resident \cup {None}]
        /\ brief' \in [Session -> SUBSET Question]
        /\ owner'[f] = For(w) /\ brief'[f] = read[w]
        /\ \A s \in Session \ {f} : owner'[s] = owner[s] /\ brief'[s] = brief[s]
        /\ f \in Session
        /\ \A s \in live' \cup Durable \cup todo : owner'[s] # None
    BY <2>1, <2>2, <2>3, CreateKeeps
  <2>5. \A v \in Worker : pc[v] \in InFlight => sid[v] # f
    BY <2>3, FreshIsUnused DEF Create
  <2> HIDE DEF f
  <2>6. TypeOK'
    BY <1>2, <2>2, <2>3, <2>4 DEF ChatInv, TypeOK
  <2>7. For(w) # None
    BY <2>1, ConversationsAssumption DEF ConversationsAssumption
  <2>8. pc[w] = "briefing"
    BY <1>5 DEF Continue
  <2>9. ASSUME NEW v \in Worker, v # w
        PROVE  pc'[v] = pc[v] /\ sid'[v] = sid[v] /\ read'[v] = read[v]
    BY <2>3, <2>9 DEF ChatInv, TypeOK
  <2>10. pc'[w] = After(w) /\ sid'[w] = f
    BY <2>3 DEF ChatInv, TypeOK
  <2>11. ASSUME NEW v \in Worker, pc'[v] \in InFlight
         PROVE  sid'[v] \in Session /\ owner'[sid'[v]] # None
    <3>1. CASE v = w
      BY <2>4, <2>7, <2>10, <3>1
    <3>2. CASE v # w
      BY <2>4, <2>5, <2>9, <2>11, <3>2 DEF ChatInv, Owned
    <3>3. QED
      BY <3>1, <3>2
  <2>12. Owned'
    BY <2>3, <2>4, <2>11 DEF Owned, Durable
  <2>13. ASSUME NEW r \in Request
         PROVE  /\ pc'[r] = "new" => seen'[r] = {}
                /\ pc'[r] \in InFlight =>
                     seen'[r] \subseteq rows'[sid'[r]] \cup brief'[sid'[r]]
                /\ pc'[r] = "briefing" => seen'[r] \subseteq read'[r]
                /\ pc'[r] \in Compacting => owner'[sid'[r]] = caller'[r]
    <3>1. r \in Worker
      BY DEF Worker
    <3>2. CASE r = w
      BY <1>2, <2>3, <2>4, <2>8, <2>10, <3>2 DEF ChatInv, Carried
    <3>3. CASE r # w
      <4>1. pc[r] \in InFlight => /\ sid[r] \in Session \ {f}
                                  /\ seen[r] \subseteq rows[sid[r]] \cup brief[sid[r]]
        BY <2>5, <3>1 DEF ChatInv, Owned, Carried
      <4>2. QED
        BY <2>3, <2>4, <2>9, <3>1, <3>3, <4>1 DEF ChatInv, Carried, CompactsItsOwn
    <3>4. QED
      BY <3>2, <3>3
  <2>14. QED
    BY <2>6, <2>12, <2>13 DEF ChatInv, Carried, CompactsItsOwn
<1>6. CASE GiveUp(w)
  <2>1. TypeOK'
    BY <1>2, <1>6 DEF GiveUp, ChatInv, TypeOK, record, sessions
  <2>2. \A v \in Worker : /\ pc'[v] \in InFlight => pc[v] \in InFlight
                          /\ pc'[v] \in Compacting => pc[v] \in Compacting
                          /\ pc'[v] = "new" => pc[v] = "new"
                          /\ pc'[v] = "briefing" => pc[v] = "briefing" /\ read'[v] = read[v]
    BY <1>2, <1>6 DEF GiveUp, ChatInv, TypeOK
  <2>3. QED
    BY <1>6, <2>1, <2>2
    DEF GiveUp, ChatInv, Owned, Carried, CompactsItsOwn, record, sessions, Worker
<1>7. QED
  BY <1>3, <1>4, <1>5, <1>6 DEF CompactionStep

LEMMA ChatStep == ChatInv /\ [Next]_vars => ChatInv'
<1> SUFFICES ASSUME ChatInv, [Next]_vars PROVE ChatInv'
  OBVIOUS
<1> USE DEF InFlight, Compacting
<1>1. Request \subseteq Worker /\ Night \in Worker /\ Night \notin Request
  BY ConversationsAssumption DEF ConversationsAssumption, Worker
<1>2. ASSUME NEW r \in Request, NEW s \in Session, Arrive(r, s)
      PROVE  ChatInv'
  <2>1. seen' = [seen EXCEPT ![r] = rows[s] \cup brief[s]]
    BY <1>2 DEF Arrive
  <2>2. pc' = [pc EXCEPT ![r] = pc'[r]] /\ pc'[r] \in {"extracting", "ready"}
    BY <1>1, <1>2 DEF Arrive, BeginExtract, ChatInv, TypeOK
  <2>3. sid' = [sid EXCEPT ![r] = s]
    BY <1>2 DEF Arrive, BeginExtract
  <2>4. pc'[r] = "extracting" => owner[s] = caller[r]
    BY <1>1, <1>2 DEF Arrive, BeginExtract, NearCap, ChatInv, TypeOK
  <2>5. UNCHANGED <<live, owner, usage, rows, brief, read, todo, caller>> /\ owner[s] # None
    BY <1>2 DEF Arrive
  <2>6. TypeOK'
    BY <1>1, <2>1, <2>2, <2>3, <2>5 DEF ChatInv, TypeOK
  <2>7. Owned'
    BY <1>1, <2>2, <2>3, <2>5 DEF ChatInv, TypeOK, Owned, Durable
  <2>8. Carried' /\ CompactsItsOwn'
    BY <1>1, <2>1, <2>2, <2>3, <2>4, <2>5 DEF ChatInv, TypeOK, Carried, CompactsItsOwn
  <2>9. QED
    BY <2>6, <2>7, <2>8 DEF ChatInv
<1>3. ASSUME NEW r \in Request, ArriveNew(r)
      PROVE  ChatInv'
  <2> DEFINE f == Fresh
  <2>1. /\ Create(f, caller[r], {})
        /\ pc' = [pc EXCEPT ![r] = "ready"]
        /\ sid' = [sid EXCEPT ![r] = f]
        /\ UNCHANGED <<usage, rows, read, todo, seen, caller>>
        /\ pc[r] = "new"
    BY <1>3 DEF ArriveNew
  <2>2. caller[r] \in Resident
    BY Residents DEF ChatInv
  <2>3. /\ live' \subseteq Session
        /\ owner' \in [Session -> Resident \cup {None}]
        /\ brief' \in [Session -> SUBSET Question]
        /\ owner'[f] = caller[r]
        /\ \A s \in Session \ {f} : owner'[s] = owner[s] /\ brief'[s] = brief[s]
        /\ f \in Session
        /\ \A s \in live' \cup Durable \cup todo : owner'[s] # None
    BY <2>1, <2>2, CreateKeeps
  <2>4. \A v \in Worker : pc[v] \in InFlight => sid[v] # f
    BY <2>1, FreshIsUnused DEF Create
  <2> HIDE DEF f
  <2>5. TypeOK'
    BY <1>1, <2>1, <2>3 DEF ChatInv, TypeOK
  <2>6. caller[r] # None
    BY <2>2, ConversationsAssumption DEF ConversationsAssumption
  <2>7. ASSUME NEW v \in Worker, pc'[v] \in InFlight
        PROVE  sid'[v] \in Session /\ owner'[sid'[v]] # None
    <3>1. CASE v = r
      BY <1>1, <2>1, <2>3, <2>6, <3>1 DEF ChatInv, TypeOK
    <3>2. CASE v # r
      BY <1>1, <2>1, <2>3, <2>4, <2>7, <3>2 DEF ChatInv, TypeOK, Owned
    <3>3. QED
      BY <3>1, <3>2
  <2>8. Owned'
    BY <2>1, <2>3, <2>7 DEF Owned, Durable
  <2>9. ASSUME NEW q \in Request
        PROVE  /\ pc'[q] = "new" => seen'[q] = {}
               /\ pc'[q] \in InFlight => seen'[q] \subseteq rows'[sid'[q]] \cup brief'[sid'[q]]
               /\ pc'[q] = "briefing" => seen'[q] \subseteq read'[q]
               /\ pc'[q] \in Compacting => owner'[sid'[q]] = caller'[q]
    <3>1. CASE q = r
      BY <1>1, <2>1, <3>1 DEF ChatInv, TypeOK, Carried
    <3>2. CASE q # r
      <4>1. pc[q] \in InFlight => /\ sid[q] \in Session \ {f}
                                  /\ seen[q] \subseteq rows[sid[q]] \cup brief[sid[q]]
        BY <1>1, <2>4 DEF ChatInv, Owned, Carried
      <4>2. pc'[q] = pc[q] /\ sid'[q] = sid[q]
        BY <1>1, <2>1, <3>2 DEF ChatInv, TypeOK
      <4>3. QED
        BY <2>1, <2>3, <4>1, <4>2 DEF ChatInv, Carried, CompactsItsOwn
    <3>3. QED
      BY <3>1, <3>2
  <2>10. QED
    BY <2>5, <2>8, <2>9 DEF ChatInv, Carried, CompactsItsOwn
<1>4. ASSUME NEW r \in Request, Begin(r)
      PROVE  ChatInv'
  <2>0. pc[r] = "ready" /\ UNCHANGED <<live, owner, usage, brief, read, todo, caller>>
    BY <1>4 DEF Begin
  <2>1. CASE sid[r] \in live
    <3>1. /\ rows' = [rows EXCEPT ![sid[r]] = @ \cup {r}]
          /\ pc' = [pc EXCEPT ![r] = "turn"]
          /\ UNCHANGED <<sid, seen>>
      BY <1>4, <2>1 DEF Begin
    <3>2. TypeOK'
      BY <1>1, <2>0, <2>1, <3>1 DEF ChatInv, TypeOK, Question
    <3>3. \A s \in Session : rows[s] \subseteq rows'[s]
      BY <2>1, <3>1 DEF ChatInv, TypeOK
    <3>4. \A v \in Worker : /\ pc'[v] \in InFlight => pc[v] \in InFlight
                            /\ pc'[v] \in Compacting => pc[v] \in Compacting
                            /\ pc'[v] \in {"new", "briefing"} => pc[v] = pc'[v]
      BY <1>1, <2>0, <3>1 DEF ChatInv, TypeOK
    <3>5. Owned' /\ CompactsItsOwn'
      BY <1>1, <2>0, <3>1, <3>4 DEF ChatInv, Owned, CompactsItsOwn, Durable
    <3>6. Carried'
      <4> SUFFICES ASSUME NEW q \in Request
                   PROVE  /\ pc'[q] = "new" => seen'[q] = {}
                          /\ pc'[q] \in InFlight =>
                               seen'[q] \subseteq rows'[sid'[q]] \cup brief'[sid'[q]]
                          /\ pc'[q] = "briefing" => seen'[q] \subseteq read'[q]
        BY DEF Carried
      <4>1. pc'[q] \in InFlight => sid[q] \in Session
        BY <1>1, <3>4 DEF ChatInv, Owned
      <4>2. QED
        BY <1>1, <2>0, <3>1, <3>3, <3>4, <4>1 DEF ChatInv, Carried
    <3>7. QED
      BY <3>2, <3>5, <3>6 DEF ChatInv
  <2>2. CASE sid[r] \notin live
    <3>1. UNCHANGED rows /\ Return(r)
      BY <1>4, <2>2 DEF Begin
    <3>2. TypeOK'
      BY <1>1, <2>0, <3>1 DEF Return, ChatInv, TypeOK
    <3>3. Owned' /\ CompactsItsOwn' /\ Carried'
      BY <1>1, <2>0, <3>1
      DEF Return, ChatInv, TypeOK, Owned, CompactsItsOwn, Carried, Durable
    <3>4. QED
      BY <3>2, <3>3 DEF ChatInv
  <2>3. QED
    BY <2>1, <2>2
<1>5. ASSUME NEW r \in Request, End(r)
      PROVE  ChatInv'
  <2>1. Return(r) /\ UNCHANGED <<live, owner, rows, brief, read, todo, caller>>
    BY <1>5 DEF End
  <2>2. usage' \in [Session -> 0 .. Cap]
    BY <1>5 DEF End, Uses, ChatInv, TypeOK
  <2>3. TypeOK'
    BY <1>1, <2>1, <2>2 DEF Return, ChatInv, TypeOK
  <2>4. Owned' /\ CompactsItsOwn' /\ Carried'
    BY <1>1, <2>1 DEF Return, ChatInv, TypeOK, Owned, CompactsItsOwn, Carried, Durable
  <2>5. QED
    BY <2>3, <2>4 DEF ChatInv
<1>6. ASSUME NEW s \in Session, Delete(s)
      PROVE  ChatInv'
  <2>1. /\ live' = live \ {s}
        /\ seen' = [r \in Request |-> seen[r] \ (rows[s] \cup brief[s])]
        /\ rows' = [rows EXCEPT ![s] = {}]
        /\ brief' = [brief EXCEPT ![s] = {}]
        /\ usage' = [usage EXCEPT ![s] = 0]
        /\ UNCHANGED <<owner, pc, sid, read, todo, caller>>
    BY <1>6 DEF Delete, worker
  <2>2. 0 \in 0 .. Cap
    BY ConversationsAssumption DEF ConversationsAssumption
  <2>3. TypeOK'
    BY <2>1, <2>2 DEF ChatInv, TypeOK
  <2>4. Owned' /\ CompactsItsOwn'
    BY <2>1 DEF ChatInv, Owned, CompactsItsOwn, Durable
  <2>5. Carried'
    <3> SUFFICES ASSUME NEW q \in Request
                 PROVE  /\ pc'[q] = "new" => seen'[q] = {}
                        /\ pc'[q] \in InFlight =>
                             seen'[q] \subseteq rows'[sid'[q]] \cup brief'[sid'[q]]
                        /\ pc'[q] = "briefing" => seen'[q] \subseteq read'[q]
      BY DEF Carried
    <3>1. seen'[q] = seen[q] \ (rows[s] \cup brief[s])
      BY <2>1
    <3>2. pc[q] \in InFlight =>
            sid[q] \in Session /\ seen[q] \subseteq rows[sid[q]] \cup brief[sid[q]]
      BY <1>1 DEF ChatInv, Owned, Carried
    <3>3. sid[q] \in Session /\ sid[q] # s =>
            rows'[sid[q]] = rows[sid[q]] /\ brief'[sid[q]] = brief[sid[q]]
      BY <2>1 DEF ChatInv, TypeOK
    <3>4. pc'[q] \in InFlight => seen'[q] \subseteq rows'[sid'[q]] \cup brief'[sid'[q]]
      <4>1. CASE sid[q] = s
        BY <2>1, <3>1, <3>2, <4>1
      <4>2. CASE sid[q] # s
        BY <2>1, <3>1, <3>2, <3>3, <4>2
      <4>3. QED
        BY <4>1, <4>2
    <3>5. QED
      BY <2>1, <3>1, <3>4 DEF ChatInv, Carried
  <2>6. QED
    BY <2>3, <2>4, <2>5 DEF ChatInv
<1>7. ASSUME NEW s \in Session, EnsureHousehold(s)
      PROVE  ChatInv'
  BY <1>7 DEF EnsureHousehold, worker, record, ChatInv, TypeOK, Owned, Carried,
     CompactsItsOwn, Durable
<1>8. CASE Select
  <2>1. todo' \subseteq live
    BY <1>8 DEF Select
  <2>2. /\ pc' = [pc EXCEPT ![Night] = "pick"]
        /\ UNCHANGED <<live, owner, usage, rows, brief, sid, read, seen, caller>>
    BY <1>8 DEF Select, sessions, record
  <2>3. TypeOK'
    BY <1>1, <2>1, <2>2 DEF ChatInv, TypeOK
  <2>4. Owned' /\ Carried' /\ CompactsItsOwn'
    BY <1>1, <2>1, <2>2 DEF ChatInv, TypeOK, Owned, Carried, CompactsItsOwn, Durable
  <2>5. QED
    BY <2>3, <2>4 DEF ChatInv
<1>9. ASSUME NEW s \in Session, Pick(s)
      PROVE  ChatInv'
  <2>1. /\ s \in todo /\ todo' = todo \ {s}
        /\ UNCHANGED <<live, owner, usage, rows, brief, read, seen, caller>>
    BY <1>9 DEF Pick, sessions, record
  <2>2. \/ pc' = [pc EXCEPT ![Night] = "extracting"] /\ sid' = [sid EXCEPT ![Night] = s]
        \/ UNCHANGED <<pc, sid>>
    BY <1>9 DEF Pick, BeginExtract
  <2>3. TypeOK'
    BY <1>1, <2>1, <2>2 DEF ChatInv, TypeOK
  <2>4. Owned' /\ Carried' /\ CompactsItsOwn'
    BY <1>1, <2>1, <2>2 DEF ChatInv, TypeOK, Owned, Carried, CompactsItsOwn, Durable
  <2>5. QED
    BY <2>3, <2>4 DEF ChatInv
<1>10. CASE Picked
  BY <1>1, <1>10 DEF Picked, sessions, record, ChatInv, TypeOK, Owned, Carried,
     CompactsItsOwn, Durable
<1>11. CASE Restart
  <2>1. \A w \in Worker : pc'[w] \notin InFlight /\ (pc'[w] = "new" => w # Night)
    BY <1>11 DEF Restart, ChatInv, TypeOK
  <2>2. /\ pc' \in [Worker -> {"new", "over", "resting", "pick"} \cup InFlight]
        /\ sid' \in [Worker -> Session \cup {None}]
        /\ read' \in [Worker -> SUBSET Question]
        /\ todo' = {}
        /\ seen' = [r \in Request |-> {}]
        /\ UNCHANGED <<live, owner, usage, rows, brief, caller>>
    BY <1>11 DEF Restart, ChatInv, TypeOK, sessions
  <2>3. QED
    BY <1>1, <2>1, <2>2 DEF ChatInv, TypeOK, Owned, Carried, CompactsItsOwn, Durable
<1>12. CASE UNCHANGED vars
  BY <1>12 DEF vars, sessions, worker, record, ChatInv, TypeOK, Owned, Carried,
     CompactsItsOwn, Durable, NearCap
<1>13. QED
  BY <1>1, <1>2, <1>3, <1>4, <1>5, <1>6, <1>7, <1>8, <1>9, <1>10, <1>11, <1>12,
     CompactionKeeps
  DEF Next, RequestStep, CompactorStep

LEMMA ChatIsInv == Spec => []ChatInv
  BY ChatStart, ChatStep, PTL DEF Spec

\* What a chat held when a request was sent its turn finds, however many
\* residents write, compact and delete at once, and whatever the compactor of
\* the night does meanwhile (compaction.py: never lose data silently).
THEOREM NothingIsForgotten == Spec => []NothingForgotten
<1>1. ChatInv => NothingForgotten
  BY DEF ChatInv, Carried, NothingForgotten, InFlight
<1>2. QED
  BY <1>1, ChatIsInv, PTL

\* Only a compaction that ends moves its worker to another session.
LEMMA OnlyContinueMoves ==
  ASSUME ChatInv, [Next]_vars, NEW w \in Worker,
         pc[w] = "briefing", sid'[w] \notin {sid[w], None}
  PROVE  Continue(w)
<1> USE DEF ChatInv, TypeOK, Worker
<1>1. ASSUME NEW v \in Worker, CompactionStep(v)
      PROVE  Continue(v) \/ sid' = sid
  BY <1>1 DEF CompactionStep, Extracted, ReadHistory, GiveUp
<1>2. ASSUME NEW v \in Worker, Continue(v), v # w
      PROVE  sid'[w] = sid[w]
  BY <1>2 DEF Continue
<1>3. ASSUME NEW r \in Request,
             (\E s \in Session : Arrive(r, s)) \/ ArriveNew(r) \/ Begin(r) \/ End(r)
      PROVE  sid'[w] = sid[w]
  <2>1. pc[r] # "briefing"
    BY <1>3 DEF Arrive, ArriveNew, Begin, End
  <2>2. r # w
    BY <2>1
  <2>3. sid' = sid \/ \E s \in Session \cup {None} : sid' = [sid EXCEPT ![r] = s]
    <3>1. CASE ArriveNew(r)
      BY <3>1, FreshIsUnused DEF ArriveNew, Create
    <3>2. QED
      BY <1>3, <3>1 DEF Arrive, BeginExtract, Begin, End, Return
  <2>4. QED
    BY <2>2, <2>3
<1>4. CASE Select \/ Restart \/ Picked \/ UNCHANGED vars
  <2>1. sid' = sid \/ sid'[w] \in {sid[w], None}
    BY <1>4 DEF Select, Restart, Picked, vars, worker
  <2>2. QED
    BY <2>1
<1>5. ASSUME NEW s \in Session, Delete(s) \/ EnsureHousehold(s)
      PROVE  sid' = sid
  BY <1>5 DEF Delete, EnsureHousehold, worker
<1>6. ASSUME NEW s \in Session, Pick(s)
      PROVE  sid'[w] = sid[w]
  BY <1>6 DEF Pick, BeginExtract
<1>7. QED
  BY <1>1, <1>2, <1>3, <1>4, <1>5, <1>6 DEF Next, RequestStep, CompactorStep

\* Whoever compacts a chat, by day or by night, its continuation goes to the
\* resident it belongs to, for any number of residents (maybe_compact,
\* _compact_stale).
THEOREM ContinuationsStayAtHome == Spec => StaysWithItsOwner
<1>1. ASSUME ChatInv, [Next]_vars
      PROVE  \A w \in Worker : pc[w] = "briefing" /\ sid'[w] \notin {sid[w], None} =>
                                 owner'[sid'[w]] = owner[sid[w]]
  <2> SUFFICES ASSUME NEW w \in Worker,
                      pc[w] = "briefing", sid'[w] \notin {sid[w], None}
               PROVE  owner'[sid'[w]] = owner[sid[w]]
    OBVIOUS
  <2>1. Continue(w)
    BY <1>1, OnlyContinueMoves
  <2>2. For(w) = owner[sid[w]]
    BY <1>1 DEF For, ChatInv, CompactsItsOwn, Compacting, Worker
  <2>3. Fresh \in Session
    BY <1>1, <2>1, FreshIsUnused DEF Continue, Create
  <2>4. sid'[w] = Fresh /\ owner'[Fresh] = For(w)
    BY <1>1, <2>1, <2>3 DEF Continue, Create, ChatInv, TypeOK
  <2>5. QED
    BY <2>2, <2>4
<1>2. QED
  BY <1>1, ChatIsInv, PTL DEF Spec, StaysWithItsOwner

-----------------------------------------------------------------------------
(* Conversations implements ChatLifecycle.                                 *)
(*                                                                         *)
(* A request or the compactor takes one step of the store at most: a       *)
(* question is put, a history is read, a continuation or a new chat is     *)
(* made, a chat is deleted or opened again, something is given up.  All    *)
(* else is a stutter.  Beside ChatInv one fact is needed: an id nobody has *)
(* had has no rows, so that a chat that begins holds what it is given.     *)

UnusedIsEmpty ==
  \A s \in Session : owner[s] = None => rows[s] = {} /\ brief[s] = {}

LEMMA EmptyStart == Init => UnusedIsEmpty
<1> SUFFICES ASSUME Init, NEW s \in Session, owner[s] = None
             PROVE  rows[s] = {} /\ brief[s] = {}
  BY DEF UnusedIsEmpty
<1>1. s \notin live
  <2>1. ChatInv
    BY ChatStart
  <2>2. QED
    BY <2>1 DEF ChatInv, Owned
<1>2. QED
  BY <1>1 DEF Init

\* What a worker that compacts changes of the store.
LEMMA CompactionOfStore ==
  ASSUME ChatInv, UnusedIsEmpty, NEW w \in Worker, CompactionStep(w)
  PROVE  UnusedIsEmpty' /\ [Store!Next]_(Store!vars)
<1> USE DEF ChatInv, TypeOK
<1>1. w = Night \/ w \in Request
  BY DEF Worker
<1>2. After(w) \in {"pick", "ready"}
  BY DEF After
<1>3. CASE Extracted(w)
  <2>1. pc' = [pc EXCEPT ![w] = "summarising"] \/ pc' = [pc EXCEPT ![w] = After(w)]
    BY <1>3 DEF Extracted
  <2>2. pc[w] = "extracting"
    BY <1>3 DEF Extracted
  <2>3. Spent' = Spent
    BY <1>2, <2>1, <2>2 DEF Spent, Worker
  <2>4. Notes' = Notes
    BY <1>2, <1>3, <2>1, <2>2 DEF Extracted, Notes
  <2>5. UNCHANGED <<live, owner, Holds>> /\ UnusedIsEmpty'
    BY <1>3 DEF Extracted, Holds, UnusedIsEmpty
  <2>6. QED
    BY <2>3, <2>4, <2>5 DEF Store!vars
<1>4. CASE ReadHistory(w)
  <2>1. /\ pc[w] = "summarising" /\ pc' = [pc EXCEPT ![w] = "briefing"]
        /\ read' = [read EXCEPT ![w] = rows[sid[w]] \cup brief[sid[w]]]
        /\ UNCHANGED <<live, owner, rows, brief, sid>>
    BY <1>4 DEF ReadHistory, sessions
  <2>2. sid[w] \in Session /\ owner[sid[w]] # None
    BY <2>1 DEF Owned, InFlight, Compacting
  <2>3. Spent' = Spent
    BY <2>1 DEF Spent, Worker
  <2>4. Holds' = Holds /\ Holds[sid[w]] = rows[sid[w]] \cup brief[sid[w]]
    BY <2>1, <2>2 DEF Holds
  <2>5. Notes' = Notes \cup {<<sid[w], Holds[sid[w]]>>}
    <3>1. ASSUME NEW v \in Worker, v # w
          PROVE  pc'[v] = pc[v] /\ read'[v] = read[v]
      BY <2>1, <3>1
    <3>2. pc'[w] = "briefing" /\ read'[w] = Holds[sid[w]] /\ pc[w] # "briefing"
      BY <2>1, <2>4
    <3>3. sid' = sid
      BY <2>1
    <3>4. PICK held : held = Holds[sid[w]]
      OBVIOUS
    <3>5. \A v \in Worker : pc'[v] = "briefing" <=> v = w \/ pc[v] = "briefing"
      BY <3>1, <3>2
    <3>6. Notes' \subseteq Notes \cup {<<sid[w], held>>}
      BY <3>1, <3>2, <3>3, <3>4, <3>5 DEF Notes
    <3>7. Notes \cup {<<sid[w], held>>} \subseteq Notes'
      BY <3>1, <3>2, <3>3, <3>4, <3>5 DEF Notes
    <3>8. QED
      BY <3>4, <3>6, <3>7
  <2>6. Store!Note(sid[w])
    BY <2>1, <2>2, <2>3, <2>4, <2>5 DEF Store!Note
  <2>7. UnusedIsEmpty'
    BY <2>1 DEF UnusedIsEmpty
  <2>8. QED
    BY <2>2, <2>6, <2>7 DEF Store!Next
<1>5. CASE Continue(w)
  <2> DEFINE note == <<sid[w], read[w]>>
  <2>1. /\ pc[w] = "briefing" /\ pc' = [pc EXCEPT ![w] = After(w)]
        /\ sid' = [sid EXCEPT ![w] = Fresh] /\ read' = [read EXCEPT ![w] = {}]
        /\ rows' = rows /\ Create(Fresh, For(w), read[w])
    BY <1>5 DEF Continue
  <2>2. Fresh \in Session \ Durable /\ owner[Fresh] = None
    BY <2>1, FreshIsUnused DEF Create
  <2>3. For(w) = owner[sid[w]]
    BY <1>1, <2>1 DEF For, CompactsItsOwn, Compacting
  <2>4. note \in Notes
    BY <2>1 DEF Notes
  <2>5. Notes' \in {Notes, Notes \ {note}}
    <3>1. ASSUME NEW v \in Worker, v # w
          PROVE  pc'[v] = pc[v] /\ read'[v] = read[v] /\ sid'[v] = sid[v]
      BY <2>1, <3>1
    <3>2. pc'[w] # "briefing"
      BY <1>2, <2>1
    <3>3. Notes' = {<<sid[v], read[v]>> : v \in {u \in Worker \ {w} : pc[u] = "briefing"}}
      BY <3>1, <3>2 DEF Notes
    <3>4. Notes = Notes' \cup {note}
      BY <2>1, <3>3 DEF Notes
    <3>5. QED
      BY <3>4
  <2>6. Spent' = Spent
    BY <1>2, <2>1 DEF Spent, Worker
  <2>7. Holds' = [Holds EXCEPT ![Fresh] = read[w]]
    <3>1. brief' = [brief EXCEPT ![Fresh] = read[w]] /\ rows[Fresh] = {}
      BY <2>1, <2>2 DEF Create, UnusedIsEmpty
    <3>2. QED
      BY <2>1, <2>2, <3>1 DEF Holds
  <2>8. Store!Continue(note, Fresh)
    <3>1. note[1] = sid[w] /\ note[2] = read[w]
      OBVIOUS
    <3> HIDE DEF note
    <3>2. QED
      BY <2>1, <2>2, <2>3, <2>4, <2>5, <2>6, <2>7, <3>1
      DEF Create, Store!Continue, Store!Appear
  <2>9. UnusedIsEmpty'
    <3>1. For(w) # None
      BY <2>1, <2>3 DEF Owned, InFlight, Compacting
    <3>2. QED
      BY <2>1, <2>2, <3>1 DEF Create, UnusedIsEmpty
  <2> HIDE DEF note
  <2>10. QED
    BY <2>2, <2>4, <2>8, <2>9 DEF Store!Next
<1>6. CASE GiveUp(w)
  <2>1. /\ pc[w] \in Compacting /\ pc' = [pc EXCEPT ![w] = After(w)]
        /\ read' = [read EXCEPT ![w] = {}]
        /\ UNCHANGED <<live, owner, rows, brief, sid>>
    BY <1>6 DEF GiveUp, sessions
  <2>2. Spent' = Spent \cup {}
    BY <1>2, <2>1 DEF Spent, Worker, Compacting
  <2>3. Notes' \in SUBSET Notes
    <3>1. ASSUME NEW v \in Worker, pc'[v] = "briefing"
          PROVE  v # w /\ pc[v] = "briefing" /\ read'[v] = read[v] /\ sid'[v] = sid[v]
      BY <1>2, <2>1, <3>1
    <3>2. QED
      BY <3>1 DEF Notes
  <2>4. Holds' = Holds /\ UnusedIsEmpty'
    BY <2>1 DEF Holds, UnusedIsEmpty
  <2>5. Store!GiveUp({})
    BY <2>1, <2>2, <2>3, <2>4 DEF Store!GiveUp
  <2>6. QED
    BY <2>4, <2>5 DEF Store!Next
<1>7. QED
  BY <1>3, <1>4, <1>5, <1>6 DEF CompactionStep

\* Steps after which the store holds what it held.
LEMMA StoreStands ==
  ASSUME UNCHANGED <<live, owner, rows, brief>>, Spent' = Spent, Notes' = Notes
  PROVE  UNCHANGED Store!vars
  BY DEF Holds, Store!vars

\* A worker that begins to compact, or is ready, has put no question and has
\* no summary.
LEMMA QuietMove ==
  ASSUME TypeOK, NEW w \in Worker, NEW to, NEW s,
         pc[w] \notin {"turn", "over", "briefing"},
         to \notin {"turn", "over", "briefing"},
         pc' = [pc EXCEPT ![w] = to], sid' = [sid EXCEPT ![w] = s], read' = read
  PROVE  Spent' = Spent /\ Notes' = Notes
<1>1. \A v \in Worker : pc'[v] = IF v = w THEN to ELSE pc[v]
  BY DEF TypeOK
<1>2. Spent' = Spent
  BY <1>1 DEF Spent, Worker
<1>3. \A v \in Worker : /\ pc'[v] = "briefing" <=> pc[v] = "briefing"
                        /\ pc[v] = "briefing" => sid'[v] = sid[v]
  BY <1>1 DEF TypeOK
<1>4. Notes' = Notes
  BY <1>3 DEF Notes
<1>5. QED
  BY <1>2, <1>4

\* What a request changes of the store outside its compaction.
LEMMA RequestOfStore ==
  ASSUME ChatInv, UnusedIsEmpty, NEW r \in Request,
         (\E s \in Session : Arrive(r, s)) \/ ArriveNew(r) \/ Begin(r) \/ End(r)
  PROVE  UnusedIsEmpty' /\ [Store!Next]_(Store!vars)
<1> USE DEF ChatInv, TypeOK
<1>0. r \in Worker
  BY DEF Worker
<1>1. ASSUME NEW s \in Session, Arrive(r, s)
      PROVE  UnusedIsEmpty' /\ UNCHANGED Store!vars
  <2>1. \E to \in {"extracting", "ready"} :
          pc' = [pc EXCEPT ![r] = to] /\ sid' = [sid EXCEPT ![r] = s]
    BY <1>1 DEF Arrive, BeginExtract
  <2>2. pc[r] = "new" /\ UNCHANGED <<live, owner, rows, brief, read>>
    BY <1>1 DEF Arrive
  <2>3. Spent' = Spent /\ Notes' = Notes
    BY <1>0, <2>1, <2>2, QuietMove
  <2>4. QED
    BY <2>2, <2>3, StoreStands DEF UnusedIsEmpty
<1>2. CASE ArriveNew(r)
  <2>1. /\ pc[r] = "new" /\ pc' = [pc EXCEPT ![r] = "ready"]
        /\ sid' = [sid EXCEPT ![r] = Fresh] /\ UNCHANGED <<rows, read>>
        /\ Create(Fresh, caller[r], {})
    BY <1>2 DEF ArriveNew
  <2>2. Fresh \in Session \ Durable /\ owner[Fresh] = None
    BY <2>1, FreshIsUnused DEF Create
  <2>3. caller[r] \in Resident /\ caller[r] # None
    BY Residents, ConversationsAssumption DEF ConversationsAssumption
  <2>4. Spent' = Spent /\ Notes' = Notes
    BY <1>0, <2>1, QuietMove
  <2>5. Holds' = [Holds EXCEPT ![Fresh] = {}]
    <3>1. brief' = [brief EXCEPT ![Fresh] = {}] /\ rows[Fresh] = {}
      BY <2>1, <2>2 DEF Create, UnusedIsEmpty
    <3>2. QED
      BY <2>1, <2>2, <3>1 DEF Holds
  <2>6. Store!Open(Fresh, caller[r])
    BY <2>1, <2>2, <2>4, <2>5 DEF Create, Store!Open, Store!Appear
  <2>7. UnusedIsEmpty'
    BY <2>1, <2>2, <2>3 DEF Create, UnusedIsEmpty
  <2>8. QED
    BY <2>2, <2>3, <2>6, <2>7 DEF Store!Next
<1>3. CASE Begin(r) /\ sid[r] \in live
  <2>1. /\ pc[r] = "ready" /\ pc' = [pc EXCEPT ![r] = "turn"]
        /\ rows' = [rows EXCEPT ![sid[r]] = @ \cup {r}]
        /\ UNCHANGED <<live, owner, brief, sid, read>>
    BY <1>3 DEF Begin
  <2>2. sid[r] \in Session /\ owner[sid[r]] # None
    BY <1>0, <2>1 DEF Owned, InFlight
  <2>3. r \in Question /\ r \notin Spent
    BY <2>1, ConversationsAssumption DEF Spent, Question, ConversationsAssumption
  <2>4. Spent' = Spent \cup {r}
    BY <1>0, <2>1 DEF Spent, Worker
  <2>5. Notes' = Notes
    <3>1. \A v \in Worker : pc'[v] = "briefing" <=> pc[v] = "briefing"
      BY <1>0, <2>1
    <3>2. QED
      BY <2>1, <3>1 DEF Notes
  <2>6. Holds' = [Holds EXCEPT ![sid[r]] = @ \cup {r}]
    BY <2>1, <2>2 DEF Holds
  <2>7. Store!Ask(sid[r], r)
    BY <1>3, <2>1, <2>3, <2>4, <2>5, <2>6 DEF Store!Ask
  <2>8. UnusedIsEmpty'
    BY <2>1, <2>2 DEF UnusedIsEmpty
  <2>9. QED
    BY <2>2, <2>3, <2>7, <2>8 DEF Store!Next
<1>4. CASE End(r) \/ (Begin(r) /\ sid[r] \notin live)
  <2>1. /\ pc[r] \in {"ready", "turn"} /\ pc' = [pc EXCEPT ![r] = "over"]
        /\ sid' = [sid EXCEPT ![r] = None]
        /\ UNCHANGED <<live, owner, rows, brief, read>>
    BY <1>4 DEF Begin, End, Return
  <2>2. Spent' = Spent \cup {r}
    BY <1>0, <2>1 DEF Spent, Worker
  <2>3. Notes' = Notes
    <3>1. \A v \in Worker : /\ pc'[v] = "briefing" <=> pc[v] = "briefing"
                            /\ pc[v] = "briefing" => sid'[v] = sid[v]
      BY <1>0, <2>1
    <3>2. QED
      BY <2>1, <3>1 DEF Notes
  <2>4. Store!GiveUp({r}) /\ UnusedIsEmpty'
    BY <2>1, <2>2, <2>3 DEF Store!GiveUp, Holds, UnusedIsEmpty
  <2>5. {r} \in SUBSET Question
    BY DEF Question
  <2>6. QED
    BY <2>4, <2>5 DEF Store!Next
<1>5. QED
  BY <1>1, <1>2, <1>3, <1>4

LEMMA StepOfStore ==
  ChatInv /\ UnusedIsEmpty /\ [Next]_vars => UnusedIsEmpty' /\ [Store!Next]_(Store!vars)
<1> SUFFICES ASSUME ChatInv, UnusedIsEmpty, [Next]_vars
             PROVE  UnusedIsEmpty' /\ [Store!Next]_(Store!vars)
  OBVIOUS
<1> USE DEF ChatInv, TypeOK
<1>1. ASSUME NEW s \in Session, Delete(s)
      PROVE  UnusedIsEmpty' /\ Store!Delete(s)
  <2>1. /\ s \in live /\ live' = live \ {s}
        /\ rows' = [rows EXCEPT ![s] = {}] /\ brief' = [brief EXCEPT ![s] = {}]
        /\ UNCHANGED <<owner, pc, sid, read>>
    BY <1>1 DEF Delete, worker
  <2>2. Spent' = Spent /\ Notes' = Notes
    BY <2>1 DEF Spent, Notes
  <2>3. Holds' = [Holds EXCEPT ![s] = {}]
    BY <2>1 DEF Holds
  <2>4. QED
    BY <2>1, <2>2, <2>3 DEF Store!Delete, UnusedIsEmpty
<1>2. ASSUME NEW s \in Session, EnsureHousehold(s)
      PROVE  UnusedIsEmpty' /\ Store!Reopen(s)
  BY <1>2 DEF EnsureHousehold, worker, Store!Reopen, Holds, Spent, Notes, UnusedIsEmpty
<1>3. CASE Select \/ Picked \/ \E s \in Session : Pick(s)
  <2>1. Night \in Worker /\ Night \notin Request
    BY ConversationsAssumption DEF Worker, ConversationsAssumption
  <2>2. /\ pc[Night] \in {"resting", "pick"}
        /\ UNCHANGED <<live, owner, rows, brief, read>>
    BY <1>3 DEF Select, Picked, Pick, sessions
  <2>3. \/ UNCHANGED <<pc, sid>>
        \/ \E to \in {"pick", "resting", "extracting"}, s \in Session \cup {None} :
             pc' = [pc EXCEPT ![Night] = to] /\ sid' = [sid EXCEPT ![Night] = s]
    <3>1. CASE Select
      <4>1. sid' = [sid EXCEPT ![Night] = sid[Night]]
        BY <3>1 DEF Select
      <4>2. QED
        BY <2>1, <3>1, <4>1 DEF Select
    <3>2. QED
      BY <1>3, <3>1 DEF Picked, Pick, BeginExtract
  <2>4. Spent' = Spent /\ Notes' = Notes
    <3>1. CASE UNCHANGED <<pc, sid>>
      BY <2>2, <3>1 DEF Spent, Notes
    <3>2. QED
      BY <2>1, <2>2, <2>3, <3>1, QuietMove
  <2>5. QED
    BY <2>2, <2>4, StoreStands DEF UnusedIsEmpty
<1>4. CASE Restart
  <2> DEFINE lost == {r \in Request : pc[r] \in InFlight}
  <2>1. Notes' = {}
    BY <1>4 DEF Restart, Notes
  <2>2. Spent' = Spent \cup lost
    BY <1>4, ConversationsAssumption
    DEF Restart, Spent, Worker, InFlight, Compacting, ConversationsAssumption
  <2>3. Store!GiveUp(lost) /\ UnusedIsEmpty'
    BY <1>4, <2>1, <2>2 DEF Restart, sessions, Store!GiveUp, Holds, UnusedIsEmpty
  <2>4. lost \in SUBSET Question
    BY DEF Question
  <2> HIDE DEF lost
  <2>5. QED
    BY <2>3, <2>4 DEF Store!Next
<1>5. CASE UNCHANGED vars
  <2>1. UNCHANGED <<live, owner, rows, brief>> /\ Spent' = Spent /\ Notes' = Notes
    BY <1>5 DEF vars, sessions, worker, Spent, Notes
  <2>2. QED
    BY <2>1, StoreStands DEF UnusedIsEmpty
<1>6. ASSUME NEW w \in Worker, CompactionStep(w)
      PROVE  UnusedIsEmpty' /\ [Store!Next]_(Store!vars)
  BY <1>6, CompactionOfStore
<1>7. ASSUME NEW r \in Request,
             (\E s \in Session : Arrive(r, s)) \/ ArriveNew(r) \/ RequestStep(r)
      PROVE  UnusedIsEmpty' /\ [Store!Next]_(Store!vars)
  BY <1>6, <1>7, RequestOfStore DEF RequestStep, Worker
<1>8. ASSUME CompactorStep
      PROVE  UnusedIsEmpty' /\ [Store!Next]_(Store!vars)
  BY <1>3, <1>6, <1>8 DEF CompactorStep, Worker
<1>9. ASSUME NEW s \in Session, Delete(s) \/ EnsureHousehold(s)
      PROVE  UnusedIsEmpty' /\ [Store!Next]_(Store!vars)
  BY <1>1, <1>2, <1>9 DEF Store!Next
<1>10. QED
  BY <1>3, <1>4, <1>5, <1>7, <1>8, <1>9 DEF Next

\* The sessions and their rows are a store of chats as ChatLifecycle has it: for
\* any number of requests, residents and sessions, every step of a request, of
\* the compactor, of a deletion or a restart is one step of that store or none
\* (engine/db.py, compaction.py, engine/client.py).
THEOREM ConversationsImplementChats == Spec => ImplementsChatLifecycle
<1>1. Init => Store!Init
  <2> SUFFICES ASSUME Init PROVE Store!Init
    OBVIOUS
  <2>1. ChatInv
    BY ChatStart
  <2>2. Spent = {Old} /\ Notes = {}
    <3>1. \A w \in Worker : pc[w] \in {"resting", "new"}
      BY DEF Init
    <3>2. QED
      BY <3>1 DEF Spent, Notes, Worker
  <2>3. Holds \in [Session -> SUBSET Question]
    BY <2>1 DEF ChatInv, TypeOK, Holds
  <2>4. \A s \in Session : Holds[s] \subseteq (IF s \in Durable THEN {Old} ELSE {})
    BY DEF Init, Holds
  <2>5. \A s \in Session : owner[s] = None <=> s \notin Durable
    BY <2>1 DEF Init, ChatInv, Owned
  <2>6. QED
    BY <2>1, <2>2, <2>3, <2>4, <2>5 DEF Init, ChatInv, TypeOK, Store!Init
<1>2. QED
  BY <1>1, EmptyStart, StepOfStore, ChatStart, ChatIsInv, PTL
  DEF Spec, ImplementsChatLifecycle, Store!Spec

-----------------------------------------------------------------------------
(* What the store promises, proved of ChatLifecycle alone.  Who knows of a *)
(* question asked since the start is told from the chats and the summaries *)
(* under way together: each feeds the other.                               *)

StoreTyped ==
  /\ owner \in [Session -> Resident \cup {None}]
  /\ Holds \in [Session -> SUBSET Question]
  /\ Notes \subseteq Session \X SUBSET Question
  /\ \A s \in live \cup Durable : s \in Session /\ owner[s] # None
  /\ \A n \in Notes : owner[n[1]] # None

\* Nobody knows a question before it is asked, and an id nobody has had knows
\* nothing.
StoreKnows ==
  /\ \A q \in Question : q \notin Spent => Store!Known(q) = {}
  /\ \A q \in Question : \A s \in Store!Known(q) : owner[s] # None

StoreInv == StoreTyped /\ StoreKnows /\ Store!StaysWithOneResident

LEMMA KnownMeans ==
  ASSUME NEW q, NEW s
  PROVE  /\ s \in Store!Known(q) <=>
              \/ s \in Session /\ q \in Holds[s]
              \/ \E n \in Notes : q \in n[2] /\ s = n[1]
         /\ s \in Store!Known(q)' <=>
              \/ s \in Session /\ q \in Holds'[s]
              \/ \E n \in Notes' : q \in n[2] /\ s = n[1]
  BY DEF Store!Known

\* Whom a step makes know a question: one who knew it, the continuation of one
\* who knew it, or, when it is asked, the chat it is put to.
LEMMA KnownAfter ==
  ASSUME StoreTyped, StoreKnows, Store!Next,
         NEW q \in Question, NEW s \in Store!Known(q)'
  PROVE  \/ s \in Store!Known(q) /\ owner'[s] = owner[s]
         \/ \E t \in Store!Known(q) : owner'[s] = owner[t] /\ owner'[t] = owner[t]
         \/ /\ q \notin Spent /\ q \in Spent' /\ owner'[s] # None
            /\ \A t \in Store!Known(q)' : t = s
<1> USE DEF StoreTyped
<1>1. \/ s \in Session /\ q \in Holds'[s]
      \/ \E n \in Notes' : q \in n[2] /\ s = n[1]
  BY KnownMeans
<1>2. CASE owner' = owner /\ Notes' \subseteq Notes /\ \A t \in Session : Holds'[t] \subseteq Holds[t]
  BY <1>1, <1>2, KnownMeans
<1>3. ASSUME NEW t \in Session, NEW uid, NEW had, Store!Appear(t, uid, had),
             Notes' \subseteq Notes
      PROVE  \/ s \in Store!Known(q) /\ owner'[s] = owner[s]
             \/ s = t /\ q \in had /\ owner'[s] = uid
  <2>1. /\ owner[t] = None /\ owner' = [owner EXCEPT ![t] = uid]
        /\ Holds' = [Holds EXCEPT ![t] = had]
    BY <1>3 DEF Store!Appear
  <2>2. t \notin Store!Known(q)
    BY <2>1 DEF StoreKnows
  <2>3. CASE s # t
    <3>1. owner'[s] = owner[s] /\ (s \in Session => Holds'[s] = Holds[s])
      BY <2>1, <2>3
    <3>2. QED
      BY <1>1, <1>3, <3>1, KnownMeans
  <2>4. CASE s = t
    <3>1. \A n \in Notes : q \in n[2] => n[1] # t
      BY <2>2, KnownMeans
    <3>2. QED
      BY <1>1, <1>3, <2>1, <2>4, <3>1
  <2>5. QED
    BY <2>3, <2>4
<1>4. ASSUME NEW t \in Session, NEW uid \in Resident, Store!Open(t, uid)
      PROVE  s \in Store!Known(q) /\ owner'[s] = owner[s]
  BY <1>3, <1>4 DEF Store!Open
<1>5. ASSUME NEW t \in Session, Store!Note(t)
      PROVE  s \in Store!Known(q) /\ owner'[s] = owner[s]
  <2>1. PICK text : text = Holds[t]
    OBVIOUS
  <2>2. Notes' = Notes \cup {<<t, text>>} /\ UNCHANGED <<owner, Holds>>
    BY <1>5, <2>1 DEF Store!Note
  <2>3. QED
    BY <1>1, <2>1, <2>2, KnownMeans
<1>6. ASSUME NEW t \in Session, NEW a \in Question, Store!Ask(t, a)
      PROVE  \/ s \in Store!Known(q) /\ owner'[s] = owner[s]
             \/ /\ q \notin Spent /\ q \in Spent' /\ owner'[s] # None
                /\ \A v \in Store!Known(q)' : v = s
  <2>1. /\ t \in live /\ a \notin Spent /\ UNCHANGED <<owner, Notes>>
        /\ Holds' = [Holds EXCEPT ![t] = @ \cup {a}]
    BY <1>6 DEF Store!Ask
  <2>2. \A v \in Session : Holds'[v] = IF v = t THEN Holds[v] \cup {a} ELSE Holds[v]
    BY <2>1
  <2>3. CASE q # a
    BY <1>1, <2>1, <2>2, <2>3, KnownMeans
  <2>4. CASE q = a
    <3>1. Store!Known(q) = {}
      BY <2>1, <2>4 DEF StoreKnows
    <3>2. \A v \in Store!Known(q)' : v = t
      BY <2>1, <2>2, <3>1, KnownMeans
    <3>3. owner'[t] # None /\ a \in Spent'
      BY <1>6, <2>1 DEF Store!Ask
    <3>4. QED
      BY <2>1, <2>4, <3>2, <3>3
  <2>5. QED
    BY <2>3, <2>4
<1>7. ASSUME NEW t \in Session, NEW n \in Notes, Store!Continue(n, t)
      PROVE  \/ s \in Store!Known(q) /\ owner'[s] = owner[s]
             \/ \E v \in Store!Known(q) : owner'[s] = owner[v] /\ owner'[v] = owner[v]
  <2>1. Notes' \subseteq Notes /\ Store!Appear(t, owner[n[1]], n[2])
    BY <1>7 DEF Store!Continue
  <2>2. CASE s = t /\ q \in n[2] /\ owner'[s] = owner[n[1]]
    <3>1. n[1] \in Store!Known(q)
      BY <2>2, KnownMeans
    <3>2. owner[n[1]] # None
      BY <3>1 DEF StoreKnows
    <3>3. owner[t] = None /\ owner' = [owner EXCEPT ![t] = owner[n[1]]]
      BY <2>1 DEF Store!Appear
    <3>4. owner'[n[1]] = owner[n[1]]
      BY <3>2, <3>3
    <3>5. QED
      BY <2>2, <3>1, <3>4
  <2>3. QED
    BY <1>3, <2>1, <2>2
<1>8. ASSUME NEW t \in Session, Store!Reopen(t) \/ Store!Delete(t)
      PROVE  s \in Store!Known(q) /\ owner'[s] = owner[s]
  BY <1>2, <1>8, KnownMeans, <1>1 DEF Store!Reopen, Store!Delete
<1>9. ASSUME NEW lost, Store!GiveUp(lost)
      PROVE  s \in Store!Known(q) /\ owner'[s] = owner[s]
  BY <1>1, <1>9, KnownMeans DEF Store!GiveUp
<1>10. QED
  BY <1>4, <1>5, <1>6, <1>7, <1>8, <1>9 DEF Store!Next

LEMMA StoreTypedStays == StoreTyped /\ Store!Next => StoreTyped'
<1> SUFFICES ASSUME StoreTyped, Store!Next PROVE StoreTyped'
  OBVIOUS
<1> USE DEF StoreTyped
<1>1. Durable' = Durable
  BY DEF Durable
<1>2. None \notin Resident
  BY ConversationsAssumption DEF ConversationsAssumption
<1>3. ASSUME NEW t \in Session, NEW uid \in Resident, NEW had \in SUBSET Question,
             Store!Appear(t, uid, had), Notes' \subseteq Notes
      PROVE  StoreTyped'
  BY <1>1, <1>2, <1>3 DEF Store!Appear
<1>4. ASSUME NEW t \in Session, NEW uid \in Resident, Store!Open(t, uid)
      PROVE  StoreTyped'
  BY <1>3, <1>4 DEF Store!Open
<1>5. ASSUME NEW t \in Session, Store!Note(t)
      PROVE  StoreTyped'
  <2>1. Holds[t] \in SUBSET Question
    OBVIOUS
  <2>2. PICK text \in SUBSET Question : text = Holds[t]
    BY <2>1
  <2>3. /\ Notes' = Notes \cup {<<t, text>>} /\ owner[t] # None
        /\ UNCHANGED <<live, owner, Holds>>
    BY <1>5, <2>2 DEF Store!Note
  <2>4. \A n \in Notes' : owner'[n[1]] # None
    BY <2>3
  <2>5. Notes' \subseteq Session \X SUBSET Question
    BY <2>2, <2>3
  <2>6. QED
    BY <1>1, <2>3, <2>4, <2>5
<1>6. ASSUME NEW t \in Session, NEW a \in Question, Store!Ask(t, a)
      PROVE  StoreTyped'
  BY <1>1, <1>6 DEF Store!Ask
<1>7. ASSUME NEW t \in Session, NEW n \in Notes, Store!Continue(n, t)
      PROVE  StoreTyped'
  BY <1>3, <1>7 DEF Store!Continue
<1>8. ASSUME NEW t \in Session, Store!Reopen(t) \/ Store!Delete(t)
      PROVE  StoreTyped'
  BY <1>1, <1>8 DEF Store!Reopen, Store!Delete
<1>9. ASSUME NEW lost, Store!GiveUp(lost)
      PROVE  StoreTyped'
  BY <1>1, <1>9 DEF Store!GiveUp
<1>10. QED
  BY <1>4, <1>5, <1>6, <1>7, <1>8, <1>9 DEF Store!Next

LEMMA StoreStep == StoreInv /\ [Store!Next]_(Store!vars) => StoreInv'
<1>1. ASSUME StoreInv, Store!Next PROVE StoreInv'
  <2> USE <1>1 DEF StoreInv
  <2>1. StoreTyped'
    BY StoreTypedStays
  <2>2. ASSUME NEW q \in Question, q \notin Spent'
        PROVE  Store!Known(q)' = {}
    <3> SUFFICES ASSUME NEW s \in Store!Known(q)' PROVE FALSE
      OBVIOUS
    <3>1. q \notin Spent
      BY <2>2 DEF Store!Next, Store!Open, Store!Reopen, Store!Note, Store!Delete, Store!Ask,
         Store!Continue, Store!Appear, Store!GiveUp
    <3>2. Store!Known(q) = {}
      BY <3>1 DEF StoreKnows
    <3>3. QED
      BY <2>2, <3>2, KnownAfter
  <2>3. ASSUME NEW q \in Question, NEW s \in Store!Known(q)'
        PROVE  owner'[s] # None
    BY KnownAfter DEF StoreKnows
  <2>4. ASSUME NEW q \in Question \ {Old},
               NEW s \in Store!Known(q)', NEW t \in Store!Known(q)'
        PROVE  owner'[s] = owner'[t]
    <3>1. CASE q \notin Spent
      <4>1. Store!Known(q) = {}
        BY <3>1 DEF StoreKnows
      <4>2. QED
        BY <4>1, KnownAfter
    <3>2. CASE q \in Spent
      <4>1. \E v \in Store!Known(q) : owner'[s] = owner[v]
        BY <3>2, KnownAfter
      <4>2. \E v \in Store!Known(q) : owner'[t] = owner[v]
        BY <3>2, KnownAfter
      <4>3. QED
        BY <4>1, <4>2 DEF Store!StaysWithOneResident
    <3>3. QED
      BY <3>1, <3>2
  <2>5. QED
    BY <2>1, <2>2, <2>3, <2>4 DEF StoreKnows, Store!StaysWithOneResident
<1>2. ASSUME StoreInv, UNCHANGED Store!vars PROVE StoreInv'
  BY <1>2 DEF StoreInv, StoreTyped, StoreKnows, Store!StaysWithOneResident, Store!Known,
     Store!vars, Durable
<1>3. QED
  BY <1>1, <1>2

LEMMA StoreIsInv == Store!Spec => []StoreInv
<1>1. Store!Init => StoreInv
  <2> SUFFICES ASSUME Store!Init PROVE StoreInv
    OBVIOUS
  <2> USE DEF Store!Init
  <2>1. Durable \subseteq Session
    BY ConversationsAssumption DEF ConversationsAssumption, Durable
  <2>2. StoreTyped
    BY <2>1 DEF StoreTyped
  <2>3. ASSUME NEW q \in Question, NEW s \in Store!Known(q)
        PROVE  q = Old /\ s \in Durable
    BY <2>3, KnownMeans
  <2>4. QED
    BY <2>2, <2>3 DEF StoreInv, StoreTyped, StoreKnows, Store!StaysWithOneResident
<1>2. QED
  BY <1>1, StoreStep, PTL DEF Store!Spec

\* A question asked since the start is known to the chats of one resident only,
\* whoever compacts them and however often: summaries carry it on, and none of
\* them begins another resident's chat (compaction.py: compact_session).
THEOREM QuestionsStayWithOneResident == Spec => []Store!StaysWithOneResident
<1>1. StoreInv => Store!StaysWithOneResident
  BY DEF StoreInv
<1>2. QED
  BY <1>1, ConversationsImplementChats, StoreIsInv, PTL DEF ImplementsChatLifecycle

\* Once no chat holds a question and no summary of it is under way, no turn and
\* no compaction brings it back, and it is not asked a second time
\* (server.py: delete_session; compaction.py: compact_session).
THEOREM DeletedQuestionsAreGone == Spec => Store!DeletedForGood
<1>1. ASSUME StoreInv, [Store!Next]_(Store!vars)
      PROVE  [\A q \in Spent : Store!Known(q) = {} => Store!Known(q)' = {}]_(Store!vars)
  <2>1. CASE UNCHANGED Store!vars
    BY <2>1
  <2>2. ASSUME Store!Next, NEW q \in Spent, Store!Known(q) = {}
        PROVE  Store!Known(q)' = {}
    <3>1. q \in Question
      BY DEF Spent, Question
    <3>2. QED
      BY <1>1, <2>2, <3>1, KnownAfter DEF StoreInv
  <2>3. QED
    BY <1>1, <2>1, <2>2
<1>2. QED
  BY <1>1, ConversationsImplementChats, StoreIsInv, PTL
  DEF ImplementsChatLifecycle, Store!Spec, Store!DeletedForGood

-----------------------------------------------------------------------------
(* Routing.                                                                *)
(*                                                                         *)
(* The pins are lost with the process, so what keeps a household chat fast *)
(* is on disk: it is the durable chat, or the resident's primary topic of  *)
(* it is the household.  Tags come only to chats there are.  The topics of *)
(* a chat that this process has seen begin are not needed: it is pinned.   *)

HouseholdTagged ==
  \A uc \in zuhause :
    \/ Durably(uc[1], uc[2])
    \/ tags[<<uc[2], HouseholdSlug>>] = <<uc[1], "primary">>

FreshPinned ==
  /\ pins \in [{"household", "admin", "deep"} -> SUBSET Chat]
  /\ fresh \subseteq User \X Chat
  /\ \A uc \in fresh : uc[2] \in pins["household"]

RoutingInv ==
  /\ FreshPinned
  /\ tags \in [Chat \X Slug -> Tag]
  /\ zuhause \subseteq User \X Chat
  /\ \A c \in Chat \ known, g \in Slug : tags[<<c, g>>] = Untagged
  /\ HouseholdTagged

LEMMA RoutingStart == RoutingInit => RoutingInv
  BY RoutingAssumption
  DEF RoutingAssumption, RoutingInit, RoutingInv, HouseholdTagged, FreshPinned, NoPins,
      Durably, Tag

\* Untagged is nobody's tag.
LEMMA ATagIsSomebodys ==
  \A u, role : Untagged # <<u, role>> /\ <<u, role>>[1] = u
  BY DEF Untagged

\* What may become of the tags of a chat when a resident makes a slug the primary
\* topic of it: the key is another resident's, and nothing changes, or the slug is
\* the resident's and no other resident's primary topic goes.
MadePrimary(after, c, slug, u) ==
  /\ after \in [Chat \X Slug -> Tag]
  /\ \A d \in Chat \ {c}, g \in Slug : after[<<d, g>>] = tags[<<d, g>>]
  /\ \A g \in Slug, v \in User \ {u} :
       tags[<<c, g>>] = <<v, "primary">> => after[<<c, g>>] = <<v, "primary">>
  /\ after = tags \/ after[<<c, slug>>] = <<u, "primary">>

LEMMA SetPrimaryGives ==
  ASSUME RoutingInv, NEW c \in Chat, NEW slug \in Slug, NEW u \in User
  PROVE  MadePrimary(SetPrimary(c, slug, u), c, slug, u)
<1> DEFINE Taken == tags[<<c, slug>>] # Untagged /\ tags[<<c, slug>>][1] # u
           new == [k \in Chat \X Slug |->
                     IF k = <<c, slug>> THEN <<u, "primary">>
                     ELSE IF k[1] = c /\ tags[k] = <<u, "primary">> THEN Untagged
                          ELSE tags[k]]
<1>1. CASE Taken
  BY <1>1 DEF SetPrimary, RoutingInv, MadePrimary
<1>2. CASE ~Taken
  <2>1. SetPrimary(c, slug, u) = new
    BY <1>2 DEF SetPrimary
  <2>2. \A k \in Chat \X Slug : new[k] \in Tag
    <3>1. <<u, "primary">> \in Tag /\ Untagged \in Tag
      BY DEF Tag
    <3>2. QED
      BY <3>1 DEF RoutingInv
  <2>3. new \in [Chat \X Slug -> Tag]
    BY <2>2
  <2>4. \A d \in Chat \ {c}, g \in Slug : new[<<d, g>>] = tags[<<d, g>>]
    OBVIOUS
  <2>5. ASSUME NEW g \in Slug, NEW v \in User \ {u}, tags[<<c, g>>] = <<v, "primary">>
        PROVE  new[<<c, g>>] = <<v, "primary">>
    <3>1. tags[<<c, g>>] # Untagged /\ tags[<<c, g>>][1] # u
          /\ tags[<<c, g>>] # <<u, "primary">>
      BY <2>5, ATagIsSomebodys
    <3>2. g # slug
      BY <1>2, <3>1
    <3>3. <<c, g>> # <<c, slug>>
      BY <3>2
    <3>4. QED
      BY <2>5, <3>1, <3>3
  <2>6. new[<<c, slug>>] = <<u, "primary">>
    OBVIOUS
  <2> HIDE DEF new
  <2>7. QED
    BY <2>1, <2>3, <2>4, <2>5, <2>6 DEF MadePrimary
<1>3. QED
  BY <1>1, <1>2

\* Pins only go with the process, and the memory of first turns with them.
LEMMA PinsStay == FreshPinned /\ [RoutingNext]_routingVars => FreshPinned'
<1> SUFFICES ASSUME FreshPinned, [RoutingNext]_routingVars PROVE FreshPinned'
  OBVIOUS
<1>1. ASSUME NEW u \in User, NEW c \in Chat, NEW p \in Persona, NEW g \in Slug \cup {NoSlug},
             FirstTurn(u, c, p, g)
      PROVE  FreshPinned'
  <2>1. /\ pins' = Pinned(c, FirstGateway(u, c, p, g), g)
        /\ fresh' = fresh \cup MadeHousehold(u, c, g)
    BY <1>1 DEF FirstTurn
  <2>2. DOMAIN pins = {"household", "admin", "deep"}
    BY DEF FreshPinned
  <2>3. /\ pins' \in [{"household", "admin", "deep"} -> SUBSET Chat]
        /\ pins["household"] \subseteq pins'["household"]
    BY <2>1, <2>2 DEF FreshPinned, Pinned
  <2>4. g = HouseholdSlug => c \in pins'["household"]
    BY <2>1, <2>2 DEF Pinned, FirstGateway
  <2>5. MadeHousehold(u, c, g) \subseteq {<<u, c>>}
        /\ (MadeHousehold(u, c, g) # {} => g = HouseholdSlug)
    BY DEF MadeHousehold
  <2>6. ASSUME NEW uc \in fresh' PROVE uc \in User \X Chat /\ uc[2] \in pins'["household"]
    <3>1. CASE uc \in fresh
      BY <2>3, <3>1 DEF FreshPinned
    <3>2. CASE uc \notin fresh
      <4>1. uc = <<u, c>> /\ g = HouseholdSlug
        BY <2>1, <2>5, <2>6, <3>2
      <4>2. QED
        BY <2>4, <4>1
    <3>3. QED
      BY <3>1, <3>2
  <2>7. QED
    BY <2>3, <2>6 DEF FreshPinned
<1>2. ASSUME NEW u \in User, NEW c \in Chat, NEW p \in Persona, CreateChat(u, c, p)
      PROVE  FreshPinned'
  BY <1>2 DEF CreateChat, FreshPinned
<1>3. CASE RoutingRestart
  BY <1>3 DEF RoutingRestart, FreshPinned, NoPins
<1>4. ASSUME UNCHANGED <<pins, fresh>> PROVE FreshPinned'
  BY <1>4 DEF FreshPinned
<1>5. QED
  BY <1>1, <1>2, <1>3, <1>4
  DEF RoutingNext, ContinueChat, Retag, AddSecondary, RemoveTopic, PutModel, routingVars

LEMMA RoutingStep == RoutingInv /\ [RoutingNext]_routingVars => RoutingInv'
<1> SUFFICES ASSUME RoutingInv, [RoutingNext]_routingVars PROVE RoutingInv'
  OBVIOUS
<1>0. HouseholdSlug \in Slug /\ NoSlug # HouseholdSlug
  BY RoutingAssumption DEF RoutingAssumption, Slug
<1>10. FreshPinned'
  BY PinsStay DEF RoutingInv
<1>1. ASSUME NEW u \in User, NEW c \in Chat, NEW p \in Persona, NEW g \in Slug \cup {NoSlug},
             FirstTurn(u, c, p, g)
      PROVE  RoutingInv'
  <2>1. /\ c \notin known /\ known' = known \cup {c}
        /\ tags' = tags \/ (g # NoSlug /\ tags' = SetPrimary(c, g, u))
        /\ zuhause' = zuhause \cup
             (IF g = HouseholdSlug /\ tags'[<<c, g>>] = <<u, "primary">> THEN {<<u, c>>} ELSE {})
    BY <1>1 DEF FirstTurn, MadeHousehold
  <2>2. \A k \in Slug : tags[<<c, k>>] = Untagged
    BY <2>1 DEF RoutingInv
  <2>3. /\ tags' \in [Chat \X Slug -> Tag]
        /\ \A d \in Chat \ {c}, k \in Slug : tags'[<<d, k>>] = tags[<<d, k>>]
    <3>1. CASE tags' = tags
      BY <3>1 DEF RoutingInv
    <3>2. CASE g # NoSlug /\ tags' = SetPrimary(c, g, u)
      <4>1. g \in Slug
        BY <3>2
      <4>2. MadePrimary(tags', c, g, u)
        BY <3>2, <4>1, SetPrimaryGives
      <4>3. QED
        BY <4>2 DEF MadePrimary
    <3>3. QED
      BY <2>1, <3>1, <3>2
  <2>4. \A d \in Chat \ known', k \in Slug : tags'[<<d, k>>] = Untagged
    BY <2>1, <2>3 DEF RoutingInv
  <2>5. HouseholdTagged'
    <3> SUFFICES ASSUME NEW uc \in zuhause'
                 PROVE  \/ Durably(uc[1], uc[2])
                        \/ tags'[<<uc[2], HouseholdSlug>>] = <<uc[1], "primary">>
      BY DEF HouseholdTagged, Durably
    <3>1. CASE uc \in zuhause
      <4>1. uc[1] \in User /\ uc[2] \in Chat
        BY <3>1 DEF RoutingInv
      <4>2. CASE Durably(uc[1], uc[2])
        BY <4>2
      <4>3. CASE tags[<<uc[2], HouseholdSlug>>] = <<uc[1], "primary">>
        <5>1. uc[2] # c
          BY <1>0, <2>2, <4>3, ATagIsSomebodys
        <5>2. QED
          BY <1>0, <2>3, <4>1, <4>3, <5>1
      <4>4. QED
        BY <3>1, <4>2, <4>3 DEF RoutingInv, HouseholdTagged
    <3>2. CASE uc \notin zuhause
      <4>1. g = HouseholdSlug /\ uc = <<u, c>> /\ tags'[<<c, g>>] = <<u, "primary">>
        BY <2>1, <3>2
      <4>2. QED
        BY <4>1
    <3>3. QED
      BY <3>1, <3>2
  <2>6. zuhause' \subseteq User \X Chat
    BY <2>1 DEF RoutingInv
  <2>7. QED
    BY <1>10, <2>3, <2>4, <2>5, <2>6 DEF RoutingInv
<1>2. ASSUME NEW u \in User, NEW c \in Chat, NEW p \in Persona, CreateChat(u, c, p)
      PROVE  RoutingInv'
  BY <1>2, <1>10 DEF CreateChat, RoutingInv, HouseholdTagged, Durably
<1>11. ASSUME NEW u \in User, NEW c \in Chat, NEW d \in Chat, ContinueChat(u, c, d)
       PROVE  RoutingInv'
  BY <1>11, <1>10 DEF ContinueChat, RoutingInv, HouseholdTagged, Durably
<1>3. ASSUME NEW u \in User, NEW c \in Chat, NEW g \in Slug, Retag(u, c, g)
      PROVE  RoutingInv'
  <2>1. c \in known /\ tags' = SetPrimary(c, g, u) /\ known' = known
    BY <1>3 DEF Retag
  <2>2. /\ tags' \in [Chat \X Slug -> Tag]
        /\ \A d \in Chat \ {c}, k \in Slug : tags'[<<d, k>>] = tags[<<d, k>>]
        /\ \A k \in Slug, v \in User \ {u} :
             tags[<<c, k>>] = <<v, "primary">> => tags'[<<c, k>>] = <<v, "primary">>
        /\ tags' = tags \/ tags'[<<c, g>>] = <<u, "primary">>
    <3>1. MadePrimary(tags', c, g, u)
      BY <2>1, SetPrimaryGives
    <3>2. QED
      BY <3>1 DEF MadePrimary
  <2>3. zuhause' = IF tags'[<<c, g>>] # <<u, "primary">> THEN zuhause
                   ELSE IF g = HouseholdSlug THEN zuhause \cup {<<u, c>>}
                   ELSE zuhause \
                     ({<<u, c>>} \ {<<v, DurableChat[v]>> : v \in DOMAIN DurableChat})
    BY <1>3 DEF Retag
  <2>4. ASSUME NEW d \in Chat \ known', NEW k \in Slug PROVE tags'[<<d, k>>] = Untagged
    <3>1. d \in Chat \ known /\ d # c
      BY <2>1
    <3>2. tags[<<d, k>>] = Untagged
      BY <3>1 DEF RoutingInv
    <3>3. QED
      BY <2>2, <3>1, <3>2
  <2>5. zuhause' \subseteq User \X Chat
    BY <2>3 DEF RoutingInv
  <2>6. HouseholdTagged'
    <3> SUFFICES ASSUME NEW uc \in zuhause'
                 PROVE  \/ Durably(uc[1], uc[2])
                        \/ tags'[<<uc[2], HouseholdSlug>>] = <<uc[1], "primary">>
      BY DEF HouseholdTagged, Durably
    <3>1. CASE uc \notin zuhause
      <4>1. uc = <<u, c>> /\ g = HouseholdSlug /\ tags'[<<c, g>>] = <<u, "primary">>
        BY <2>3, <3>1
      <4>2. QED
        BY <4>1
    <3>2. CASE uc \in zuhause /\ ~Durably(uc[1], uc[2])
      <4>1. /\ uc \in User \X Chat
            /\ tags[<<uc[2], HouseholdSlug>>] = <<uc[1], "primary">>
        BY <3>2 DEF RoutingInv, HouseholdTagged
      <4>2. CASE uc[2] # c \/ uc[1] # u
        BY <1>0, <2>2, <4>1, <4>2
      <4>3. CASE uc[2] = c /\ uc[1] = u
        <5>1. uc = <<u, c>>
          BY <4>1, <4>3
        <5>2. uc \notin {<<v, DurableChat[v]>> : v \in DOMAIN DurableChat}
          BY <3>2, <4>1, <4>3, <5>1 DEF Durably
        <5>3. tags'[<<c, g>>] # <<u, "primary">> \/ g = HouseholdSlug
          BY <2>3, <5>1, <5>2
        <5>4. tags'[<<c, HouseholdSlug>>] = <<u, "primary">>
          BY <2>2, <4>1, <4>3, <5>3
        <5>5. QED
          BY <4>3, <5>4
      <4>4. QED
        BY <4>2, <4>3
    <3>3. QED
      BY <3>1, <3>2
  <2>7. QED
    BY <1>10, <2>2, <2>4, <2>5, <2>6 DEF RoutingInv
<1>4. ASSUME NEW u \in User, NEW c \in Chat, NEW g \in Slug, AddSecondary(u, c, g)
      PROVE  RoutingInv'
  <2>1. /\ c \in known /\ tags[<<c, g>>] = Untagged
        /\ tags' = [tags EXCEPT ![<<c, g>>] = <<u, "secondary">>]
        /\ UNCHANGED <<known, zuhause>>
    BY <1>4 DEF AddSecondary
  <2>2. tags' \in [Chat \X Slug -> Tag]
    BY <2>1 DEF RoutingInv, Tag
  <2>3. \A k \in Chat \X Slug : k # <<c, g>> => tags'[k] = tags[k]
    BY <2>1 DEF RoutingInv
  <2>4. \A d \in Chat \ known', k \in Slug : tags'[<<d, k>>] = Untagged
    BY <2>1, <2>3 DEF RoutingInv
  <2>5. HouseholdTagged'
    <3> SUFFICES ASSUME NEW uc \in zuhause, ~Durably(uc[1], uc[2])
                 PROVE  tags'[<<uc[2], HouseholdSlug>>] = <<uc[1], "primary">>
      BY <2>1 DEF HouseholdTagged, Durably
    <3>1. uc[2] \in Chat /\ tags[<<uc[2], HouseholdSlug>>] = <<uc[1], "primary">>
      BY DEF RoutingInv, HouseholdTagged
    <3>2. <<uc[2], HouseholdSlug>> # <<c, g>>
      BY <2>1, <3>1, ATagIsSomebodys
    <3>3. QED
      BY <1>0, <2>3, <3>1, <3>2
  <2>6. QED
    BY <1>10, <2>1, <2>2, <2>4, <2>5 DEF RoutingInv
<1>5. ASSUME NEW u \in User, NEW c \in Chat, NEW g \in Slug, RemoveTopic(u, c, g)
      PROVE  RoutingInv'
  <2>1. /\ c \in known /\ tags[<<c, g>>][1] = u
        /\ tags' = [tags EXCEPT ![<<c, g>>] = Untagged]
        /\ known' = known
        /\ zuhause' = IF g # HouseholdSlug THEN zuhause
                      ELSE zuhause \
                     ({<<u, c>>} \ {<<v, DurableChat[v]>> : v \in DOMAIN DurableChat})
    BY <1>5 DEF RemoveTopic
  <2>2. tags' \in [Chat \X Slug -> Tag]
    BY <2>1 DEF RoutingInv, Tag
  <2>3. \A k \in Chat \X Slug : k # <<c, g>> => tags'[k] = tags[k]
    BY <2>1 DEF RoutingInv
  <2>4. \A d \in Chat \ known', k \in Slug : tags'[<<d, k>>] = Untagged
    BY <2>1, <2>3 DEF RoutingInv
  <2>5. HouseholdTagged'
    <3> SUFFICES ASSUME NEW uc \in zuhause', ~Durably(uc[1], uc[2])
                 PROVE  tags'[<<uc[2], HouseholdSlug>>] = <<uc[1], "primary">>
      BY DEF HouseholdTagged, Durably
    <3>1. uc \in zuhause /\ uc \in User \X Chat
      BY <2>1 DEF RoutingInv
    <3>2. tags[<<uc[2], HouseholdSlug>>] = <<uc[1], "primary">>
      BY <3>1 DEF RoutingInv, HouseholdTagged
    <3>3. <<uc[2], HouseholdSlug>> # <<c, g>>
      <4> SUFFICES ASSUME uc[2] = c, g = HouseholdSlug PROVE FALSE
        OBVIOUS
      <4>1. uc[1] = u
        BY <2>1, <3>2, ATagIsSomebodys
      <4>2. uc = <<u, c>>
        BY <3>1, <4>1
      <4>3. uc \notin {<<v, DurableChat[v]>> : v \in DOMAIN DurableChat}
        BY <3>1, <4>1, <4>2 DEF Durably
      <4>4. QED
        BY <2>1, <4>2, <4>3
    <3>4. QED
      BY <1>0, <2>3, <3>1, <3>2, <3>3
  <2>6. zuhause' \subseteq User \X Chat
    BY <2>1 DEF RoutingInv
  <2>7. QED
    BY <1>10, <2>2, <2>4, <2>5, <2>6 DEF RoutingInv
<1>6. ASSUME NEW v \in Choice, PutModel(v)
      PROVE  RoutingInv'
  BY <1>6, <1>10 DEF PutModel, RoutingInv, HouseholdTagged, Durably
<1>7. CASE RoutingRestart
  BY <1>7, <1>10 DEF RoutingRestart, RoutingInv, HouseholdTagged, Durably
<1>8. CASE UNCHANGED routingVars
  BY <1>8, <1>10 DEF routingVars, RoutingInv, HouseholdTagged, Durably
<1>9. QED
  BY <1>1, <1>2, <1>3, <1>4, <1>5, <1>6, <1>7, <1>8, <1>11 DEF RoutingNext

\* The pinned household chat is on the fast gateway, whatever persona a request
\* names, whoever else tags the chat, and however often the process has lost its
\* pins; with the topics out of reach it is still so of the durable chat and of
\* chats of this life of the process (gateway_for, is_household_chat).
THEOREM HouseholdChatsAreFast == RoutingSpec => []HouseholdStaysFast
<1>1. RoutingInv => HouseholdStaysFast
  <2> SUFFICES ASSUME RoutingInv, NEW uc \in zuhause, NEW p \in Persona,
                      NEW g \in Slug \cup {NoSlug}, NEW readable \in BOOLEAN,
                      readable \/ uc \in fresh \/ Durably(uc[1], uc[2])
               PROVE  Gateway(uc[1], uc[2], p, g, readable) = "household"
    BY DEF HouseholdStaysFast
  <2>1. \/ Durably(uc[1], uc[2])
        \/ HouseholdSlug \in Primary(uc[2], uc[1])
    BY DEF RoutingInv, HouseholdTagged, Primary, Slug
  <2>2. uc \in fresh => uc[2] \in pins["household"]
    BY DEF RoutingInv, FreshPinned
  <2>3. IsHousehold(uc[1], uc[2], g, readable)
    BY <2>1, <2>2 DEF IsHousehold
  <2>4. QED
    BY <2>3 DEF Gateway
<1>2. QED
  BY <1>1, RoutingStart, RoutingStep, PTL DEF RoutingSpec

-----------------------------------------------------------------------------
(* NightJobs.                                                              *)
(*                                                                         *)
(* OneRunPerSlot is not inductive: a slot that was run is not run again    *)
(* because it stays on record (RunIsOnRecord), and it stays there because  *)
(* what Baseline writes is never older than what it replaces (InOrder).    *)

NightTyped ==
  /\ clock \in [Job -> 1 .. MaxSlot]
  /\ nowSlot \in [Job -> 1 .. MaxSlot]
  /\ lastRun \in [Job -> 0 .. MaxSlot]
  /\ at \in 0 .. JobCount
  /\ fired \in [Job -> [1 .. MaxSlot -> 0 .. 2]]

\* The record lags behind the running tick, and the tick behind the clock.
InOrder == \A j \in Job : lastRun[j] <= nowSlot[j] /\ nowSlot[j] <= clock[j]

\* A slot that was run is not after the one on record.
RunIsOnRecord ==
  \A j \in Job, n \in 1 .. MaxSlot : fired[j][n] # 0 => n <= lastRun[j]

NightInv == NightTyped /\ InOrder /\ RunIsOnRecord /\ OneRunPerSlot

LEMMA NightStart == NightInit => NightInv
<1> SUFFICES ASSUME NightInit PROVE NightInv
  OBVIOUS
<1>1. 1 \in 1 .. MaxSlot /\ 0 \in 0 .. MaxSlot /\ 0 \in 0 .. JobCount
  BY NightJobsAssumption DEF NightJobsAssumption
<1>2. QED
  BY <1>1 DEF NightInit, NightInv, NightTyped, InOrder, RunIsOnRecord, OneRunPerSlot

LEMMA AdvanceStaysInTick ==
  ASSUME at \in 0 .. JobCount, at # 0, Advance
  PROVE  at' \in 0 .. JobCount
  BY NightJobsAssumption DEF NightJobsAssumption, Advance

\* Marking a slot keeps the record and what was run in step.
LEMMA MarkKeeps ==
  ASSUME NightInv, Mark, UNCHANGED <<clock, nowSlot>>
  PROVE  /\ lastRun' \in [Job -> 0 .. MaxSlot]
         /\ fired' \in [Job -> [1 .. MaxSlot -> 0 .. 2]]
         /\ InOrder' /\ RunIsOnRecord' /\ OneRunPerSlot'
<1>1. /\ at \in Job
      /\ nowSlot[at] \in 1 .. MaxSlot
      /\ lastRun[at] < nowSlot[at]
  BY NightJobsAssumption DEF NightJobsAssumption, Mark, NightInv, NightTyped, Job
<1>2. fired[at][nowSlot[at]] = 0
  BY <1>1 DEF NightInv, NightTyped, RunIsOnRecord
<1>3. fired' = [fired EXCEPT ![at][nowSlot[at]] = 1]
  BY <1>2 DEF Mark, Twice
<1>4. lastRun' = [lastRun EXCEPT ![at] = nowSlot[at]]
  BY DEF Mark
<1>5. /\ lastRun' \in [Job -> 0 .. MaxSlot]
      /\ InOrder'
  BY <1>1, <1>4, NightJobsAssumption
  DEF NightJobsAssumption, NightInv, NightTyped, InOrder
<1>6. \A j \in Job, n \in 1 .. MaxSlot :
        fired'[j][n] = IF j = at /\ n = nowSlot[at] THEN 1 ELSE fired[j][n]
  BY <1>1, <1>3 DEF NightInv, NightTyped
<1>7. fired' \in [Job -> [1 .. MaxSlot -> 0 .. 2]]
  BY <1>1, <1>3 DEF NightInv, NightTyped
<1>8. OneRunPerSlot'
  BY <1>6 DEF NightInv, OneRunPerSlot
<1>9. RunIsOnRecord'
  <2> SUFFICES ASSUME NEW j \in Job, NEW n \in 1 .. MaxSlot, fired'[j][n] # 0
               PROVE  n <= lastRun'[j]
    BY DEF RunIsOnRecord
  <2>1. CASE j = at /\ n = nowSlot[at]
    BY <1>1, <1>4, <2>1 DEF NightInv, NightTyped
  <2>2. CASE ~(j = at /\ n = nowSlot[at])
    <3>1. n <= lastRun[j]
      BY <1>6, <2>2 DEF NightInv, RunIsOnRecord
    <3>2. lastRun[j] <= lastRun'[j]
      BY <1>1, <1>4 DEF NightInv, NightTyped
    <3>3. lastRun[j] \in Nat /\ lastRun'[j] \in Nat
      BY <1>1, <1>4 DEF NightInv, NightTyped
    <3>4. QED
      BY <3>1, <3>2, <3>3
  <2>3. QED
    BY <2>1, <2>2
<1>10. QED
  BY <1>5, <1>7, <1>8, <1>9

LEMMA NightStays == NightInv /\ [NightNext]_nightVars => NightInv'
<1> SUFFICES ASSUME NightInv, [NightNext]_nightVars PROVE NightInv'
  OBVIOUS
<1> USE NightJobsAssumption DEF NightJobsAssumption
<1>1. CASE StartTick
  BY <1>1 DEF StartTick, NightInv, NightTyped, InOrder, RunIsOnRecord, OneRunPerSlot
<1>2. CASE SkipJob
  BY <1>2, AdvanceStaysInTick
  DEF SkipJob, NightInv, NightTyped, InOrder, RunIsOnRecord, OneRunPerSlot
<1>3. CASE Baseline
  <2>1. at \in Job /\ nowSlot[at] \in 1 .. MaxSlot /\ lastRun[at] <= nowSlot[at]
    BY <1>3 DEF Baseline, NightInv, NightTyped, InOrder, Job
  <2>2. lastRun' = [lastRun EXCEPT ![at] = nowSlot[at]]
    BY <1>3 DEF Baseline
  <2>3. lastRun' \in [Job -> 0 .. MaxSlot] /\ InOrder'
    BY <1>3, <2>1, <2>2 DEF Baseline, NightInv, NightTyped, InOrder
  <2>4. \A j \in Job : lastRun[j] <= lastRun'[j]
    BY <2>1, <2>2 DEF NightInv, NightTyped
  <2>5. RunIsOnRecord'
    BY <1>3, <2>3, <2>4 DEF Baseline, NightInv, NightTyped, RunIsOnRecord
  <2>6. at' \in 0 .. JobCount
    BY <1>3, AdvanceStaysInTick DEF Baseline, NightInv, NightTyped
  <2>7. QED
    BY <1>3, <2>3, <2>5, <2>6 DEF Baseline, NightInv, NightTyped, OneRunPerSlot
<1>4. CASE RunCode
  <2>1. at' \in 0 .. JobCount
    BY <1>4, AdvanceStaysInTick DEF RunCode, Mark, NightInv, NightTyped
  <2>2. QED
    BY <1>4, <2>1, MarkKeeps DEF RunCode, NightInv, NightTyped
<1>5. CASE RunAgent
  BY <1>5, MarkKeeps DEF RunAgent, NightInv, NightTyped
<1>6. CASE AgentEnds
  <2>1. at' \in 0 .. JobCount
    BY <1>6 DEF AgentEnds, Advance, NightInv, NightTyped
  <2>2. QED
    BY <1>6, <2>1
    DEF AgentEnds, NightInv, NightTyped, InOrder, RunIsOnRecord, OneRunPerSlot
<1>7. CASE NightRestart
  BY <1>7 DEF NightRestart, NightInv, NightTyped, InOrder, RunIsOnRecord, OneRunPerSlot
<1>8. ASSUME NEW j \in Job, SlotComes(j) PROVE NightInv'
  BY <1>8 DEF SlotComes, NightInv, NightTyped, InOrder, RunIsOnRecord, OneRunPerSlot
<1>9. CASE UNCHANGED nightVars
  BY <1>9 DEF nightVars, NightInv, NightTyped, InOrder, RunIsOnRecord, OneRunPerSlot
<1>10. QED
  BY <1>1, <1>2, <1>3, <1>4, <1>5, <1>6, <1>7, <1>8, <1>9 DEF NightNext, NightStep

\* However many jobs there are and however long they take, no slot of a job is
\* run twice, whenever the process dies and whatever the table of runs answers
\* (CronRunner._tick marks before it runs).
THEOREM SlotsRunOnce == NightSpec => []OneRunPerSlot
<1>1. NightInv => OneRunPerSlot
  BY DEF NightInv
<1>2. QED
  BY <1>1, NightStart, NightStays, PTL DEF NightSpec

-----------------------------------------------------------------------------

\* The sessions in the database are counted, and a turn that runs has one.
Counted ==
  /\ temps \in Nat /\ cut \in Nat
  /\ JobSessionsGo

LEMMA CountedNext == Counted /\ [NightNext]_nightVars => Counted'
<1> SUFFICES ASSUME Counted, [NightNext]_nightVars PROVE Counted'
  OBVIOUS
<1>1. CASE RunAgent
  <2>1. ~agent /\ agent'
    BY <1>1 DEF RunAgent, Mark
  <2>2. QED
    BY <1>1, <2>1 DEF RunAgent, Counted, JobSessionsGo
<1>2. CASE AgentEnds
  <2>1. agent /\ ~agent'
    BY <1>2 DEF AgentEnds
  <2>2. QED
    BY <1>2, <2>1 DEF AgentEnds, Counted, JobSessionsGo
<1>3. CASE NightRestart
  <2>1. ~agent'
    BY <1>3 DEF NightRestart
  <2>2. QED
    BY <1>3, <2>1 DEF NightRestart, Counted, JobSessionsGo
<1>4. CASE StartTick \/ SkipJob \/ Baseline \/ RunCode
  BY <1>4 DEF StartTick, SkipJob, Baseline, RunCode, Counted, JobSessionsGo
<1>5. ASSUME NEW j \in Job, SlotComes(j) PROVE Counted'
  BY <1>5 DEF SlotComes, Counted, JobSessionsGo
<1>6. CASE UNCHANGED nightVars
  BY <1>6 DEF nightVars, Counted, JobSessionsGo
<1>7. QED
  BY <1>1, <1>2, <1>3, <1>4, <1>5, <1>6 DEF NightNext, NightStep

\* An unattended run deletes its session however its turn ends; only one that a
\* restart cut off is left behind, for every number of jobs and restarts
\* (_run_agent_job's finally).
THEOREM SessionsGo == NightSpec => []JobSessionsGo
<1>1. NightInit => Counted
  <2>1. NightInit => ~agent
    BY DEF NightInit
  <2>2. QED
    BY <2>1 DEF NightInit, Counted, JobSessionsGo
<1>2. Counted => JobSessionsGo
  BY DEF Counted
<1>3. QED
  BY <1>1, <1>2, CountedNext, PTL DEF NightSpec

-----------------------------------------------------------------------------
(* HomeRegistry.                                                           *)
(*                                                                         *)
(* PromptIsRecent by itself is not inductive: how old a list gets before   *)
(* it is stored is known of the request under way, and how old it then     *)
(* stays of the block.  FetchInTime and BlockInTime say so.                *)

\* A request under way is within its timeout, and reads what was there when it was sent.
FetchInTime ==
  \A t \in Prompting : fetch[t].asked =>
    /\ fetch[t].at <= time /\ time - fetch[t].at <= TIMEOUT
    /\ fetch[t].list \in {fetch[t].at, NoList}

\* A list was stored within a timeout of the moment it was read.
BlockInTime ==
  block # NoList => fetchedAt <= time /\ fetchedAt - block <= TIMEOUT

RegistryInv == RegistryTypeOK /\ FetchInTime /\ BlockInTime /\ PromptIsRecent

LEMMA RegistryStart == RegistryInit => RegistryInv
  BY RegistryAssumption
  DEF RegistryAssumption, RegistryInit, RegistryInv, RegistryTypeOK, FetchInTime,
      BlockInTime, PromptIsRecent, Time, List, NoFetch, NoPrompt

\* A prompt that is given with a list young enough, or after a failure, keeps
\* every latest prompt recent.
LEMMA GiveIsRecent ==
  ASSUME RegistryInv, NEW t \in Prompting, NEW list \in List, NEW failed \in BOOLEAN,
         Give(t, list, failed),
         ~failed /\ list # NoList => time - list < TTL + TIMEOUT
  PROVE  /\ PromptIsRecent'
         /\ given' \in [Prompting -> [list : List, at : Time, failed : BOOLEAN]]
  BY DEF RegistryInv, RegistryTypeOK, PromptIsRecent, Give

LEMMA RegistryStays == RegistryInv /\ [RegistryNext]_registryVars => RegistryInv'
<1> SUFFICES ASSUME RegistryInv, [RegistryNext]_registryVars PROVE RegistryInv'
  OBVIOUS
<1> USE RegistryAssumption DEF RegistryAssumption
<1>a. TTL \in Nat /\ TIMEOUT \in Nat /\ TTL > 0
  OBVIOUS
<1>b. NoFetch \in [asked : BOOLEAN, at : Time, list : List] /\ ~NoFetch.asked
  BY DEF NoFetch, Time, List
<1>1. ASSUME NEW t \in Prompting, FromCache(t) PROVE RegistryInv'
  <2>1. time - block < TTL + TIMEOUT
    BY <1>1 DEF FromCache, Cached, RegistryInv, RegistryTypeOK, BlockInTime, List, Time
  <2>2. block \in List
    BY DEF RegistryInv, RegistryTypeOK
  <2>3. /\ PromptIsRecent'
        /\ given' \in [Prompting -> [list : List, at : Time, failed : BOOLEAN]]
    BY <1>1, <2>1, <2>2, GiveIsRecent DEF FromCache
  <2>4. QED
    BY <1>1, <2>3 DEF FromCache, RegistryInv, RegistryTypeOK, FetchInTime, BlockInTime
<1>2. ASSUME NEW t \in Prompting, FetchStates(t) PROVE RegistryInv'
  <2>1. FetchInTime'
    BY <1>2 DEF FetchStates, RegistryInv, RegistryTypeOK, FetchInTime, Time
  <2>2. RegistryTypeOK'
    BY <1>2 DEF FetchStates, RegistryInv, RegistryTypeOK, List, Time
  <2>3. QED
    BY <1>2, <2>1, <2>2 DEF FetchStates, RegistryInv, BlockInTime, PromptIsRecent
<1>3. ASSUME NEW t \in Prompting, Fetched(t) PROVE RegistryInv'
  <2>1. /\ fetch[t].list \in List /\ fetch[t].at \in Time
        /\ fetch[t].at <= time /\ time - fetch[t].at <= TIMEOUT
        /\ fetch[t].list \in {fetch[t].at, NoList}
    BY <1>3 DEF Fetched, RegistryInv, RegistryTypeOK, FetchInTime
  <2>2. fetch[t].list # NoList => time - fetch[t].list < TTL + TIMEOUT
    BY <1>a, <2>1 DEF RegistryInv, RegistryTypeOK, Time
  <2>3. /\ PromptIsRecent'
        /\ given' \in [Prompting -> [list : List, at : Time, failed : BOOLEAN]]
    BY <1>3, <2>1, <2>2, GiveIsRecent DEF Fetched
  <2>4. BlockInTime'
    BY <1>3, <2>1 DEF Fetched, BlockInTime, RegistryInv, RegistryTypeOK, Time
  <2>5. RegistryTypeOK'
    BY <1>3, <1>b, <2>1, <2>3 DEF Fetched, RegistryInv, RegistryTypeOK
  <2>6. FetchInTime'
    BY <1>3 DEF Fetched, RegistryInv, RegistryTypeOK, FetchInTime, NoFetch
  <2>7. QED
    BY <2>3, <2>4, <2>5, <2>6 DEF RegistryInv
<1>4. ASSUME NEW t \in Prompting, Unreachable(t) PROVE RegistryInv'
  <2>1. block \in List
    BY DEF RegistryInv, RegistryTypeOK
  <2>2. /\ PromptIsRecent'
        /\ given' \in [Prompting -> [list : List, at : Time, failed : BOOLEAN]]
    BY <1>4, <2>1, GiveIsRecent DEF Unreachable
  <2>3. RegistryTypeOK'
    BY <1>4, <1>b, <2>2 DEF Unreachable, RegistryInv, RegistryTypeOK
  <2>4. FetchInTime'
    BY <1>4 DEF Unreachable, RegistryInv, RegistryTypeOK, FetchInTime, NoFetch
  <2>5. QED
    BY <1>4, <2>2, <2>3, <2>4 DEF Unreachable, RegistryInv, BlockInTime
<1>5. CASE DevicesChange
  BY <1>5 DEF DevicesChange, RegistryInv, RegistryTypeOK, FetchInTime, BlockInTime,
         PromptIsRecent
<1>6. CASE RegistryTick
  <2>1. RegistryTypeOK'
    BY <1>6 DEF RegistryTick, RegistryInv, RegistryTypeOK, List, Time
  <2>2. FetchInTime'
    BY <1>6 DEF RegistryTick, RegistryInv, RegistryTypeOK, FetchInTime, Time
  <2>3. BlockInTime'
    BY <1>6 DEF RegistryTick, RegistryInv, RegistryTypeOK, BlockInTime, Time
  <2>4. QED
    BY <1>6, <2>1, <2>2, <2>3 DEF RegistryTick, RegistryInv, PromptIsRecent
<1>7. CASE UNCHANGED registryVars
  BY <1>7 DEF registryVars, RegistryInv, RegistryTypeOK, FetchInTime, BlockInTime,
         PromptIsRecent
<1>8. QED
  BY <1>1, <1>2, <1>3, <1>4, <1>5, <1>6, <1>7 DEF RegistryNext

\* The device list in a prompt is recent, for every number of turns and whatever the
\* times are (EntityRegistry.prompt_block).
THEOREM PromptsAreRecent == RegistrySpec => []PromptIsRecent
<1>1. RegistryInv => PromptIsRecent
  BY DEF RegistryInv
<1>2. QED
  BY <1>1, RegistryStart, RegistryStays, PTL DEF RegistrySpec

-----------------------------------------------------------------------------
(* HomeTools.                                                              *)
(*                                                                         *)
(* RunsWhatWasAsked speaks of what was started; what makes it so is known  *)
(* when the entity is found, and stays true of the names of that moment.   *)

\* What was found answers to what was asked, by the names there were then.
Answers(ref, id, name) ==
  \/ ref = id
  \/ name[id] = ref
  \/ <<ref, name[id]>> \in PartOf /\ \A other \in Ids : name[other] # ref

FoundInv ==
  /\ DOMAIN asked = Asking /\ DOMAIN found = Asking /\ started \subseteq Asking
  /\ \A c \in Asking :
       /\ asked[c] # NoEntity /\ found[c].id # NoEntity =>
            Answers(asked[c], found[c].id, found[c].names)
       /\ c \in started => asked[c] # NoEntity /\ found[c].id \in Runnable

LEMMA LeastNumber ==
  ASSUME NEW S \in SUBSET Nat, S # {}
  PROVE  Min(S) \in S /\ \A k \in S : Min(S) <= k
<1>1. \E m \in S : \A k \in S : ~(k < m)
  <2>1. \E m \in S : \A k \in S : ~(<<k, m>> \in OpToRel(<, Nat))
    BY NatLessThanWellFounded, WFMin
  <2>2. QED
    BY <2>1 DEF OpToRel
<1>2. \E m \in S : \A k \in S : m <= k
  BY <1>1
<1>3. QED
  BY <1>2 DEF Min

\* The first of some entities is one of them.
LEMMA FirstIsOne == ASSUME NEW ids \in SUBSET Ids, ids # {} PROVE First(ids) \in ids
<1> DEFINE places == {i \in DOMAIN Entities : Entities[i] \in ids}
<1>1. DOMAIN Entities = 1 .. Len(Entities) /\ Len(Entities) \in Nat
  BY HomeAssumption, LenProperties DEF HomeAssumption
<1>2. places \in SUBSET Nat
  BY <1>1
<1>3. places # {}
  BY DEF Ids, ToSet
<1> HIDE DEF places
<1>4. Min(places) \in places
  BY <1>2, <1>3, LeastNumber
<1>5. First(ids) = Entities[Min(places)]
  BY DEF First, places
<1>6. QED
  BY <1>4, <1>5 DEF places

\* What is found for a name or an id answers to it.
LEMMA FindAnswers ==
  ASSUME NEW ref PROVE Resolve(ref) # NoEntity => Answers(ref, Resolve(ref), friendly)
<1>1. CASE ref \in Ids
  BY <1>1 DEF Resolve, Answers
<1>2. CASE ref \notin Ids /\ Bearing(ref) # {}
  <2>1. Resolve(ref) \in Bearing(ref)
    BY <1>2, FirstIsOne DEF Resolve, Bearing
  <2>2. QED
    BY <2>1 DEF Bearing, Answers
<1>3. CASE ref \notin Ids /\ Bearing(ref) = {} /\ NamedLike(ref) # {}
  <2>1. Resolve(ref) \in NamedLike(ref)
    BY <1>3, FirstIsOne DEF Resolve, NamedLike
  <2>2. QED
    BY <1>3, <2>1 DEF NamedLike, Bearing, Answers
<1>4. CASE ref \notin Ids /\ Bearing(ref) = {} /\ NamedLike(ref) = {}
  BY <1>4 DEF Resolve, First
<1>5. QED
  BY <1>1, <1>2, <1>3, <1>4

LEMMA FoundStays == FoundInv /\ [HomeNext]_homeVars => FoundInv'
<1> SUFFICES ASSUME FoundInv, [HomeNext]_homeVars PROVE FoundInv'
  OBVIOUS
<1>1. ASSUME NEW c \in Asking, NEW ref \in Ids \cup Name, Find(c, ref) PROVE FoundInv'
  <2>1. /\ asked[c] = NoEntity /\ asked' = [asked EXCEPT ![c] = ref] /\ started' = started
        /\ found' = [found EXCEPT ![c] = [id |-> Resolve(ref), names |-> friendly]]
    BY <1>1 DEF Find
  <2>2. c \notin started
    BY <2>1 DEF FoundInv
  <2>3. asked'[c] = ref /\ found'[c] = [id |-> Resolve(ref), names |-> friendly]
    BY <2>1 DEF FoundInv
  <2>4. found'[c].id = Resolve(ref) /\ found'[c].names = friendly
    BY <2>3
  <2>5. found'[c].id # NoEntity => Answers(asked'[c], found'[c].id, found'[c].names)
    BY <2>3, <2>4, FindAnswers
  <2>6. ASSUME NEW d \in Asking, d # c
        PROVE  /\ asked'[d] # NoEntity /\ found'[d].id # NoEntity =>
                    Answers(asked'[d], found'[d].id, found'[d].names)
               /\ d \in started => asked'[d] # NoEntity /\ found'[d].id \in Runnable
    <3>1. asked'[d] = asked[d] /\ found'[d] = found[d]
      BY <2>1, <2>6 DEF FoundInv
    <3>2. QED
      BY <3>1 DEF FoundInv
  <2>7. DOMAIN asked' = Asking /\ DOMAIN found' = Asking
    BY <2>1 DEF FoundInv
  <2>8. QED
    BY <2>1, <2>2, <2>5, <2>6, <2>7 DEF FoundInv, Answers
<1>2. ASSUME NEW c \in Asking, RunRunnable(c) PROVE FoundInv'
  BY <1>2 DEF RunRunnable, FoundInv, Answers
<1>3. ASSUME UNCHANGED <<asked, found, started>> PROVE FoundInv'
  BY <1>3 DEF FoundInv, Answers
<1>4. QED
  BY <1>1, <1>2, <1>3 DEF HomeNext, RunNext, HistoryNext, Rename, NextDay, Write,
                          GetStateHistory, homeVars, runVars

\* Whatever is renamed, removed or added between the two, what run_runnable
\* starts is what was asked for, by the names at the moment it was looked for
\* (_resolve_entity_id, call_service).
THEOREM OnlyWhatWasAskedRuns == HomeSpec => []RunsWhatWasAsked
<1>1. HomeInit => FoundInv
  BY DEF HomeInit, FoundInv, Nothing
<1>2. FoundInv => RunsWhatWasAsked
  <2> SUFFICES ASSUME FoundInv, NEW c \in started
               PROVE  found[c].id \in Runnable
                      /\ Answers(asked[c], found[c].id, found[c].names)
    BY DEF RunsWhatWasAsked, Answers
  <2>1. c \in Asking /\ asked[c] # NoEntity /\ found[c].id \in Runnable
    BY DEF FoundInv
  <2>2. found[c].id # NoEntity
    BY <2>1, HomeAssumption DEF HomeAssumption
  <2>3. QED
    BY <2>1, <2>2 DEF FoundInv
<1>3. QED
  BY <1>1, <1>2, FoundStays, PTL DEF HomeSpec

-----------------------------------------------------------------------------
(* A history.  Its points are numbers of writes, which are in the order of *)
(* their times; between one change and the next all writes are of one      *)
(* state.                                                                  *)

WritesInv ==
  /\ today \in Nat
  /\ writes \in Seq([state : Switch, at : Nat])
  /\ writes # <<>> /\ writes[1].at = 0
  /\ \A i, j \in DOMAIN writes : i <= j => writes[i].at <= writes[j].at
  /\ \A i \in DOMAIN writes : writes[i].at <= today

HistoryInv ==
  /\ WritesInv
  /\ told.at \in Nat /\ told.at <= today
  /\ \A t \in told.transitions :
       t.since \in Int /\ t.duration \in Int /\ t.since + t.duration <= told.at
  /\ HistoryAsItWas

LEMMA Points ==
  ASSUME WritesInv
  PROVE  /\ Len(writes) \in Nat \ {0} /\ DOMAIN writes = 1 .. Len(writes)
         /\ \A i \in 1 .. Len(writes) : writes[i].at \in Nat /\ writes[i].at <= today
         /\ \A i, j \in 1 .. Len(writes) : i <= j => writes[i].at <= writes[j].at
         /\ \A from : Changes(Series(from)) \subseteq Series(from)
         /\ \A from : Series(from) \subseteq 1 .. Len(writes)
<1>1. Len(writes) \in Nat /\ DOMAIN writes = 1 .. Len(writes)
  BY LenProperties DEF WritesInv
<1>2. Len(writes) # 0
  BY EmptySeq DEF WritesInv
<1>3. \A i \in 1 .. Len(writes) : writes[i] \in [state : Switch, at : Nat]
  BY <1>1, ElementOfSeq DEF WritesInv
<1>4. \A i \in 1 .. Len(writes) : writes[i].at \in Nat
  BY <1>3
<1>5. QED
  BY <1>1, <1>2, <1>4 DEF WritesInv, Changes, Series

\* A point is as late as its write and no earlier than the start of the window.
LEMMA SincePoint ==
  ASSUME WritesInv, NEW from \in Int, from <= today, NEW i \in 1 .. Len(writes)
  PROVE  /\ Since(i, from) \in Int /\ Since(i, from) <= today
         /\ Since(i, from) >= from /\ Since(i, from) >= writes[i].at
         /\ Since(i, from) \in {from, writes[i].at}
  BY Points DEF Since, WritesInv

LEMMA SinceInOrder ==
  ASSUME WritesInv, NEW from \in Int, from <= today,
         NEW i \in 1 .. Len(writes), NEW j \in 1 .. Len(writes), i <= j
  PROVE  Since(i, from) <= Since(j, from)
  BY Points DEF Since

\* Whoever is in another state later has changed in between.
LEMMA ChangeBetween ==
  ASSUME WritesInv, NEW from \in Int, NEW i \in Changes(Series(from)),
         NEW k \in 1 .. Len(writes), k > i, writes[k].state # writes[i].state
  PROVE  \E c \in Changes(Series(from)) : i < c /\ c <= k
<1> DEFINE other == {j \in 1 .. Len(writes) : j > i /\ writes[j].state # writes[i].state}
<1>1. i \in Series(from) /\ i \in 1 .. Len(writes) /\ Len(writes) \in Nat
  BY Points
<1>2. k \in other /\ other \in SUBSET Nat
  BY <1>1
<1>3. PICK c \in other : \A j \in other : c <= j
  <2> HIDE DEF other
  <2>1. QED
    BY <1>2, LeastNumber
<1>4. c \in 1 .. Len(writes) /\ c > i /\ c <= k /\ writes[c].state # writes[i].state
  BY <1>2, <1>3
<1>5. writes[c - 1].state = writes[i].state
  <2>1. c - 1 \notin other
    BY <1>3, <1>4, <1>1
  <2>2. c - 1 \in 1 .. Len(writes) /\ c - 1 >= i
    BY <1>1, <1>4
  <2>3. QED
    BY <1>1, <2>1, <2>2
<1>6. c \in Series(from)
  BY <1>1, <1>4, Points DEF Series
<1>7. c \in Changes(Series(from))
  BY <1>4, <1>5, <1>6 DEF Changes
<1>8. QED
  BY <1>4, <1>7

LEMMA LeastLater ==
  ASSUME NEW C \in SUBSET Nat, NEW i \in Nat, \E c \in C : c > i,
         NEW d, d = Min({j \in C : j > i})
  PROVE  d \in C /\ d > i /\ \A k \in C : k > i => d <= k
<1>1. PICK later : later = {j \in C : j > i}
  OBVIOUS
<1>2. later \in SUBSET Nat /\ later # {}
  BY <1>1
<1>3. Min(later) \in later /\ \A k \in later : Min(later) <= k
  BY <1>2, LeastNumber
<1>4. QED
  BY <1>1, <1>3

\* A point lasts until the next change, or until now.
LEMMA UntilNext ==
  ASSUME WritesInv, NEW from \in Int, from <= today, NEW C,
         C = Changes(Series(from)), NEW i \in C
  PROVE  /\ Until(i, C, from) \in Int /\ Until(i, C, from) <= today
         /\ (\A c \in C : c <= i) => Until(i, C, from) = today
         /\ \A c \in C : c > i => Until(i, C, from) <= Since(c, from)
         /\ (\E c \in C : c > i) =>
              \E d \in C : /\ d > i /\ Until(i, C, from) = Since(d, from)
                           /\ \A c \in C : c > i => d <= c
<1>1. C \subseteq 1 .. Len(writes) /\ Len(writes) \in Nat
  BY Points
<1>2. i \in 1 .. Len(writes) /\ i \in Nat /\ C \in SUBSET Nat
  BY <1>1
<1>3. CASE ~ \E c \in C : c > i
  <2>1. {j \in C : j > i} = {}
    BY <1>3
  <2>2. Until(i, C, from) = today
    BY <2>1 DEF Until
  <2>3. QED
    BY <1>3, <2>2 DEF WritesInv
<1>4. CASE \E c \in C : c > i
  <2>1. PICK d : d = Min({j \in C : j > i})
    OBVIOUS
  <2>2. d \in C /\ d > i /\ \A c \in C : c > i => d <= c
    BY <1>2, <1>4, <2>1, LeastLater
  <2>3. {j \in C : j > i} # {}
    BY <1>4
  <2>4. Until(i, C, from) = Since(d, from)
    BY <2>1, <2>3 DEF Until
  <2>5. d \in 1 .. Len(writes)
    BY <1>1, <2>2
  <2>6. Since(d, from) \in Int /\ Since(d, from) <= today
    BY <2>5, SincePoint
  <2>7. \A c \in C : c > i => Since(d, from) <= Since(c, from)
    BY <1>1, <2>2, <2>5, SinceInOrder
  <2>8. ~ \A c \in C : c <= i
    BY <1>2, <2>2, <2>5
  <2>9. QED
    BY <2>2, <2>4, <2>6, <2>7, <2>8
<1>5. QED
  BY <1>3, <1>4

\* Between a change and the next the entity was in its state.
LEMMA Covered ==
  ASSUME WritesInv, NEW from \in Int, from <= today, NEW i \in Changes(Series(from)),
         NEW m \in Int, Since(i, from) <= m, m < Until(i, Changes(Series(from)), from)
  PROVE  /\ writes[i].at <= m
         /\ \A k \in i + 1 .. Len(writes) :
              writes[k].at <= m => writes[k].state = writes[i].state
<1>1. i \in 1 .. Len(writes) /\ Len(writes) \in Nat
  BY Points
<1>2. /\ Since(i, from) \in Int /\ Since(i, from) >= from
      /\ Since(i, from) >= writes[i].at /\ writes[i].at \in Nat
  BY <1>1, SincePoint, Points
<1>3. writes[i].at <= m
  BY <1>2
<1>4. ASSUME NEW k \in i + 1 .. Len(writes), writes[k].at <= m,
             writes[k].state # writes[i].state
      PROVE  FALSE
  <2>1. k \in 1 .. Len(writes) /\ k > i
    BY <1>1
  <2>2. PICK c \in Changes(Series(from)) : i < c /\ c <= k
    BY <1>4, <2>1, ChangeBetween
  <2>3. c \in 1 .. Len(writes)
    BY Points
  <2>4. /\ Until(i, Changes(Series(from)), from) <= Since(c, from)
        /\ Until(i, Changes(Series(from)), from) \in Int
    BY <2>2, <1>1, <2>3, UntilNext
  <2>5. Since(c, from) <= Since(k, from) /\ Since(c, from) \in Int
    BY <2>1, <2>2, <2>3, SinceInOrder, SincePoint
  <2>6. Since(k, from) \in {from, writes[k].at} /\ writes[k].at \in Nat
    BY <2>1, SincePoint, Points
  <2>7. Since(k, from) <= m
    BY <1>2, <1>4, <2>6
  <2>8. QED
    BY <2>4, <2>5, <2>6, <2>7
<1>5. QED
  BY <1>3, <1>4

\* The first change is the first point, at the start of the window or of all.
LEMMA Earliest ==
  ASSUME WritesInv, NEW from \in Int, from <= today
  PROVE  \E i \in Changes(Series(from)) :
           /\ Since(i, from) = (IF from < 0 THEN 0 ELSE from)
           /\ \A j \in Changes(Series(from)) : i <= j
<1>1. Len(writes) \in Nat \ {0} /\ Series(from) \subseteq 1 .. Len(writes)
  BY Points
<1>2. Len(writes) \in Series(from)
  BY <1>1, Points DEF Series
<1>3. PICK i \in Series(from) : \A j \in Series(from) : i <= j
  <2>1. PICK points : points = Series(from)
    OBVIOUS
  <2>2. points \in SUBSET Nat /\ points # {}
    BY <1>1, <1>2, <2>1
  <2>3. QED
    BY <2>1, <2>2, LeastNumber
<1>4. i \in 1 .. Len(writes)
  BY <1>1
<1>5. i - 1 \notin Series(from)
  BY <1>3, <1>4
<1>6. i \in Changes(Series(from)) /\ Changes(Series(from)) \subseteq Series(from)
  BY <1>5, Points DEF Changes
<1>7. Since(i, from) = (IF from < 0 THEN 0 ELSE from)
  <2>1. CASE i = 1
    BY <2>1 DEF Since, WritesInv
  <2>2. CASE i # 1
    <3>1. i - 1 \in 1 .. Len(writes)
      BY <2>2, <1>4
    <3>2. PICK j \in (i - 1) + 1 .. Len(writes) : ~(writes[j].at > from)
      BY <1>5, <3>1, Points DEF Series
    <3>3. j \in i .. Len(writes) /\ j \in 1 .. Len(writes)
      BY <1>1, <1>4, <3>2
    <3>4. j = i
      <4>1. \A k \in i + 1 .. Len(writes) : writes[k].at > from
        BY DEF Series
      <4>2. j \notin i + 1 .. Len(writes)
        BY <3>2, <4>1
      <4>3. QED
        BY <1>1, <1>4, <3>3, <4>2
    <3>5. writes[i].at \in Nat /\ writes[i].at <= from
      BY <1>4, <3>2, <3>4, Points
    <3>6. QED
      BY <3>5 DEF Since
  <2>3. QED
    BY <2>1, <2>2
<1>8. QED
  BY <1>3, <1>6, <1>7

\* The latest are those with few later ones; if they are few, none is dropped.
LEMMA RecentOnes ==
  ASSUME NEW D, IsFiniteSet(D), NEW n \in Nat, \A t \in D : t.nr \in 1 .. n
  PROVE  /\ Recent(D) \subseteq D
         /\ \A t \in Recent(D), u \in D : u.nr > t.nr => u \in Recent(D)
         /\ Cardinality(Recent(D)) < MaxTransitions => Recent(D) = D
<1> DEFINE after(t) == {u \in D : u.nr > t.nr}
<1>1. Recent(D) \subseteq D
  BY DEF Recent
<1>2. \A t \in D : IsFiniteSet(after(t)) /\ Cardinality(after(t)) \in Nat
  <2> TAKE t \in D
  <2>1. after(t) \in SUBSET D
    OBVIOUS
  <2>2. QED
    BY <2>1, FS_Subset, FS_CardinalityType
<1>3. MaxTransitions \in Nat
  BY HomeAssumption DEF HomeAssumption
<1>4. ASSUME NEW t \in Recent(D), NEW u \in D, u.nr > t.nr PROVE u \in Recent(D)
  <2>1. t \in D /\ Cardinality(after(t)) < MaxTransitions
    BY DEF Recent
  <2>2. after(u) \in SUBSET after(t)
    <3>1. \A v \in D : v.nr > u.nr => v.nr > t.nr
      BY <1>4, <2>1
    <3>2. QED
      BY <3>1
  <2>3. Cardinality(after(u)) <= Cardinality(after(t))
    BY <1>2, <2>1, <2>2, FS_Subset
  <2>4. Cardinality(after(u)) < MaxTransitions
    <3>1. PICK x, y : x = Cardinality(after(t)) /\ y = Cardinality(after(u))
      OBVIOUS
    <3>2. x \in Nat /\ y \in Nat
      BY <1>2, <2>1, <3>1
    <3>3. x < MaxTransitions /\ y <= x
      BY <2>1, <2>3, <3>1
    <3>4. y < MaxTransitions
      BY <1>3, <3>2, <3>3
    <3>5. QED
      BY <3>1, <3>4
  <2>5. QED
    BY <2>4 DEF Recent
<1>5. ASSUME NEW t \in D, t \notin Recent(D) PROVE Cardinality(Recent(D)) >= MaxTransitions
  <2>1. PICK dropped : dropped = D \ Recent(D)
    OBVIOUS
  <2>2. PICK places : places = {n - u.nr : u \in dropped}
    OBVIOUS
  <2>3. places \in SUBSET Nat /\ places # {}
    BY <1>5, <2>1, <2>2
  <2>4. Min(places) \in places /\ \A k \in places : Min(places) <= k
    BY <2>3, LeastNumber
  <2>5. PICK u \in dropped : Min(places) = n - u.nr
    BY <2>2, <2>4
  <2>6. \A v \in dropped : n - u.nr <= n - v.nr
    <3>1. \A v \in dropped : n - v.nr \in places
      BY <2>2
    <3>2. QED
      BY <2>4, <2>5, <3>1
  <2>7. \A v \in dropped : ~(v.nr > u.nr)
    <3>1. \A v \in dropped : v.nr \in Int /\ u.nr \in Int
      BY <2>1, <2>5
    <3>2. QED
      BY <2>6, <3>1
  <2>8. u \in D /\ after(u) \in SUBSET Recent(D)
    BY <2>1, <2>5, <2>7
  <2>9. ~(Cardinality(after(u)) < MaxTransitions)
    BY <2>1, <2>5 DEF Recent
  <2>10. IsFiniteSet(Recent(D)) /\ Cardinality(Recent(D)) \in Nat
    BY <1>1, FS_Subset, FS_CardinalityType
  <2>11. Cardinality(after(u)) <= Cardinality(Recent(D))
    BY <2>8, <2>10, FS_Subset
  <2>12. QED
    BY <1>2, <1>3, <2>8, <2>9, <2>10, <2>11
<1>6. IsFiniteSet(Recent(D)) /\ Cardinality(Recent(D)) \in Nat
  BY <1>1, FS_Subset, FS_CardinalityType
<1>7. QED
  BY <1>1, <1>3, <1>4, <1>5, <1>6

\* The transitions of a window are its changes, one for each.
LEMMA TransitionOfChange ==
  ASSUME WritesInv, NEW from \in Int, NEW C, C = Changes(Series(from)),
         NEW D, D = Durations(C, from)
  PROVE  /\ \A t \in D : /\ t.nr \in C /\ t.state = writes[t.nr].state
                         /\ t.since = Since(t.nr, from)
                         /\ t.duration = Until(t.nr, C, from) - Since(t.nr, from)
         /\ \A c \in C : \E t \in D : t.nr = c
         /\ \A t, u \in D : t.nr = u.nr => t = u
         /\ IsFiniteSet(D)
<1>1. \A t \in D : /\ t.nr \in C /\ t.state = writes[t.nr].state
                   /\ t.since = Since(t.nr, from)
                   /\ t.duration = Until(t.nr, C, from) - Since(t.nr, from)
  BY DEF Durations
<1> DEFINE entry(i) == [nr |-> i, state |-> writes[i].state, since |-> Since(i, from),
                        duration |-> Until(i, C, from) - Since(i, from)]
<1>2. \A c \in C : \E t \in D : t.nr = c
  <2> TAKE c \in C
  <2>1. entry(c) \in D
    BY DEF Durations
  <2>2. entry(c).nr = c
    OBVIOUS
  <2>3. QED
    BY <2>1, <2>2
<1>3. ASSUME NEW t \in D, NEW u \in D, t.nr = u.nr PROVE t = u
  <2>1. PICK i \in C : t = entry(i)
    BY DEF Durations
  <2>2. PICK j \in C : u = entry(j)
    BY DEF Durations
  <2>3. t.nr = i /\ u.nr = j
    BY <2>1, <2>2
  <2>4. QED
    BY <1>3, <2>1, <2>2, <2>3
<1>4. IsFiniteSet(D)
  <2>1. C \subseteq 1 .. Len(writes) /\ Len(writes) \in Int
    BY Points
  <2>2. PICK f : f = [t \in D |-> t.nr]
    OBVIOUS
  <2>3. f \in [D -> 1 .. Len(writes)] /\ \A t, u \in D : f[t] = f[u] => t = u
    BY <1>1, <1>3, <2>1, <2>2
  <2>4. f \in Injection(D, 1 .. Len(writes))
    BY <2>3 DEF Injection, IsInjective
  <2>5. QED
    BY <2>1, <2>4, FS_Interval, FS_Injection
<1>5. QED
  BY <1>1, <1>2, <1>3, <1>4

LEMMA WindowStart ==
  ASSUME today \in Nat, NEW days \in Window
  PROVE  Start(days) \in Int /\ Start(days) <= today
<1>1. days \in Int /\ MaxDays \in Nat /\ DefaultDays \in Nat
  BY HomeAssumption DEF HomeAssumption
<1>2. QED
  BY <1>1 DEF Start

\* What get_state_history answers is as it was.
LEMMA HistoryTells ==
  ASSUME WritesInv, NEW days \in Window, GetStateHistory(days)
  PROVE  HistoryInv'
<1>1. PICK from : from = Start(days)
  OBVIOUS
<1>2. from \in Int /\ from <= today /\ today \in Nat
  BY <1>1, WindowStart DEF WritesInv
<1>3. PICK C : C = Changes(Series(from))
  OBVIOUS
<1>4. PICK D : D = Durations(C, from)
  OBVIOUS
<1>5. PICK line : line = Recent(D)
  OBVIOUS
<1>6. told' = [at |-> today, from |-> from, transitions |-> line]
  BY <1>1, <1>3, <1>4, <1>5 DEF GetStateHistory
<1>7. today' = today /\ writes' = writes
  BY DEF GetStateHistory
<1>8. told'.at = today /\ told'.from = from /\ told'.transitions = line
  BY <1>6
<1>9. C \subseteq 1 .. Len(writes) /\ Len(writes) \in Nat
  BY <1>3, Points
<1>10. /\ \A t \in D : /\ t.nr \in C /\ t.state = writes[t.nr].state
                       /\ t.since = Since(t.nr, from)
                       /\ t.duration = Until(t.nr, C, from) - Since(t.nr, from)
       /\ \A c \in C : \E t \in D : t.nr = c
       /\ \A t, u \in D : t.nr = u.nr => t = u
       /\ IsFiniteSet(D)
  BY <1>2, <1>3, <1>4, TransitionOfChange
<1>11. /\ line \subseteq D
       /\ \A t \in line, u \in D : u.nr > t.nr => u \in line
       /\ Cardinality(line) < MaxTransitions => line = D
  <2>1. \A t \in D : t.nr \in 1 .. Len(writes)
    BY <1>9, <1>10
  <2>2. QED
    BY <1>5, <1>9, <1>10, <2>1, RecentOnes
<1>12. ASSUME NEW t \in line
       PROVE  /\ t.nr \in C /\ t.nr \in 1 .. Len(writes) /\ t.state = writes[t.nr].state
              /\ t.since = Since(t.nr, from) /\ t.since \in Int
              /\ t.duration \in Int /\ t.since + t.duration = Until(t.nr, C, from)
              /\ Until(t.nr, C, from) <= today
  <2>1. /\ t.nr \in C /\ t.nr \in 1 .. Len(writes) /\ t.state = writes[t.nr].state
        /\ t.since = Since(t.nr, from)
        /\ t.duration = Until(t.nr, C, from) - Since(t.nr, from)
    BY <1>9, <1>10, <1>11
  <2>2. Since(t.nr, from) \in Int
    BY <1>2, <2>1, SincePoint
  <2>3. Until(t.nr, C, from) \in Int /\ Until(t.nr, C, from) <= today
    BY <1>2, <1>3, <2>1, UntilNext
  <2>4. QED
    BY <2>1, <2>2, <2>3
\* A change after one of the line is in the line.
<1>13. ASSUME NEW t \in line, NEW c \in C, c > t.nr PROVE \E u \in line : u.nr = c
  BY <1>10, <1>11, <1>13
<1>14. ASSUME NEW t \in line, NEW m \in t.since .. ((t.since + t.duration) - 1)
       PROVE  \E j \in DOMAIN writes :
                /\ writes[j].at <= m /\ writes[j].state = t.state
                /\ \A k \in j + 1 .. Len(writes) :
                     writes[k].at <= m => writes[k].state = t.state
  <2>1. m \in Int /\ Since(t.nr, from) <= m /\ m < Until(t.nr, C, from)
    BY <1>12
  <2>2. t.nr \in C /\ t.nr \in DOMAIN writes /\ t.state = writes[t.nr].state
    BY <1>12, Points
  <2>3. /\ writes[t.nr].at <= m
        /\ \A k \in t.nr + 1 .. Len(writes) :
             writes[k].at <= m => writes[k].state = writes[t.nr].state
    BY <1>2, <1>3, <2>1, <2>2, Covered
  <2>4. QED
    BY <2>2, <2>3
<1>15. ASSUME NEW t \in line, \A u \in line : u.nr <= t.nr
       PROVE  t.since + t.duration = today
  <2>1. \A c \in C : c <= t.nr
    <3>1. \A c \in C : c \in Int /\ t.nr \in Int
      BY <1>9, <1>12
    <3>2. QED
      BY <1>13, <1>15, <3>1
  <2>2. Until(t.nr, C, from) = today
    BY <1>2, <1>3, <1>12, <2>1, UntilNext
  <2>3. QED
    BY <1>12, <2>2
<1>16. ASSUME NEW t \in line, NEW u \in line, t.nr < u.nr,
              ~ \E v \in line : t.nr < v.nr /\ v.nr < u.nr
       PROVE  t.since + t.duration = u.since /\ t.state # u.state
  <2>1. /\ t.nr \in C /\ u.nr \in C
        /\ t.nr \in 1 .. Len(writes) /\ u.nr \in 1 .. Len(writes)
    BY <1>12
  <2>2. ~ \E c \in C : t.nr < c /\ c < u.nr
    BY <1>13, <1>16
  <2>3. PICK d \in C : /\ d > t.nr /\ Until(t.nr, C, from) = Since(d, from)
                       /\ \A c \in C : c > t.nr => d <= c
    BY <1>2, <1>3, <1>16, <2>1, UntilNext
  <2>4. d = u.nr
    BY <1>9, <1>16, <2>1, <2>2, <2>3
  <2>5. t.state # u.state
    <3>1. u.nr \in Series(from) /\ t.nr \in Series(from)
      BY <1>3, <2>1, Points
    <3>2. u.nr - 1 \in 1 .. Len(writes) /\ u.nr - 1 >= t.nr
      BY <1>9, <1>16, <2>1
    <3>3. u.nr - 1 \in Series(from)
      <4>1. CASE u.nr - 1 = t.nr
        BY <3>1, <4>1
      <4>2. CASE u.nr - 1 > t.nr
        BY <1>9, <2>1, <3>1, <3>2, <4>2, Points DEF Series
      <4>3. QED
        BY <2>1, <3>2, <4>1, <4>2
    <3>4. writes[u.nr - 1].state # writes[u.nr].state
      BY <1>3, <2>1, <3>3 DEF Changes
    <3>5. writes[u.nr - 1].state = writes[t.nr].state
      <4>1. ASSUME u.nr - 1 > t.nr, writes[u.nr - 1].state # writes[t.nr].state
            PROVE  FALSE
        <5>1. PICK c \in C : t.nr < c /\ c <= u.nr - 1
          BY <1>2, <1>3, <2>1, <3>2, <4>1, ChangeBetween
        <5>2. c < u.nr
          BY <1>9, <2>1, <5>1
        <5>3. QED
          BY <2>2, <5>1, <5>2
      <4>2. u.nr - 1 = t.nr \/ u.nr - 1 > t.nr
        BY <1>9, <2>1, <3>2
      <4>3. QED
        BY <4>1, <4>2
    <3>6. QED
      BY <1>12, <3>4, <3>5
  <2>6. QED
    BY <1>12, <2>3, <2>4, <2>5
<1>17. ASSUME Cardinality(line) < MaxTransitions
       PROVE  \E t \in line : t.since = (IF from < 0 THEN 0 ELSE from)
  <2>1. PICK i \in C : Since(i, from) = (IF from < 0 THEN 0 ELSE from)
    BY <1>2, <1>3, Earliest
  <2>2. PICK t \in line : t.nr = i
    BY <1>10, <1>11, <1>17
  <2>3. QED
    BY <1>12, <2>1, <2>2
<1>18. HistoryAsItWas'
  BY <1>7, <1>8, <1>14, <1>15, <1>16, <1>17 DEF HistoryAsItWas
<1>19. WritesInv'
  BY <1>7 DEF WritesInv
<1>20. QED
  BY <1>2, <1>7, <1>8, <1>12, <1>18, <1>19 DEF HistoryInv

\* A new write is later than all a history covers.
LEMMA WriteAfter == ASSUME HistoryInv, NEW s \in Switch, Write(s) PROVE HistoryInv'
<1> DEFINE w == [state |-> s, at |-> today]
<1>1. writes' = Append(writes, w) /\ today' = today /\ told' = told
  BY DEF Write
<1>2. /\ WritesInv /\ Len(writes) \in Nat \ {0} /\ DOMAIN writes = 1 .. Len(writes)
      /\ today \in Nat /\ writes \in Seq([state : Switch, at : Nat])
  BY Points DEF HistoryInv, WritesInv
<1>3. w \in [state : Switch, at : Nat] /\ w.at = today
  BY <1>2
<1> HIDE DEF w
<1>4. /\ writes' \in Seq([state : Switch, at : Nat]) /\ Len(writes') = Len(writes) + 1
      /\ \A i \in 1 .. Len(writes) : writes'[i] = writes[i]
      /\ writes'[Len(writes) + 1] = w
  BY <1>1, <1>2, <1>3, AppendProperties
<1>5. DOMAIN writes' = 1 .. Len(writes) + 1
  BY <1>2, <1>4, LenProperties
<1>6. \A i \in 1 .. Len(writes) : writes[i].at \in Nat /\ writes[i].at <= today
  BY <1>2, Points
<1>7. WritesInv'
  <2>1. writes'[1].at = 0
    BY <1>2, <1>4 DEF WritesInv
  <2>2. \A i \in 1 .. Len(writes) + 1 : writes'[i].at \in Nat /\ writes'[i].at <= today
    BY <1>2, <1>3, <1>4, <1>6
  <2>3. ASSUME NEW i \in 1 .. Len(writes) + 1, NEW j \in 1 .. Len(writes) + 1, i <= j
        PROVE  writes'[i].at <= writes'[j].at
    <3>1. CASE j = Len(writes) + 1
      BY <1>3, <1>4, <2>2, <3>1
    <3>2. CASE j # Len(writes) + 1
      <4>1. i \in 1 .. Len(writes) /\ j \in 1 .. Len(writes)
        BY <1>2, <2>3, <3>2
      <4>2. writes[i].at <= writes[j].at
        BY <1>2, <2>3, <4>1, Points
      <4>3. QED
        BY <1>4, <4>1, <4>2
    <3>3. QED
      BY <3>1, <3>2
  <2>4. writes' # <<>>
    BY <1>2, <1>4, EmptySeq
  <2>5. QED
    BY <1>1, <1>2, <1>4, <1>5, <2>1, <2>2, <2>3, <2>4 DEF WritesInv
<1>8. ASSUME NEW t \in told.transitions, NEW m \in t.since .. ((t.since + t.duration) - 1)
      PROVE  \E j \in DOMAIN writes' :
               /\ writes'[j].at <= m /\ writes'[j].state = t.state
               /\ \A k \in j + 1 .. Len(writes') :
                    writes'[k].at <= m => writes'[k].state = t.state
  <2>1. PICK j \in DOMAIN writes :
          /\ writes[j].at <= m /\ writes[j].state = t.state
          /\ \A k \in j + 1 .. Len(writes) :
               writes[k].at <= m => writes[k].state = t.state
    BY DEF HistoryInv, HistoryAsItWas
  <2>2. m \in Int /\ m < today
    <3>1. /\ t.since \in Int /\ t.duration \in Int /\ t.since + t.duration <= told.at
          /\ told.at \in Nat /\ told.at <= today
      BY DEF HistoryInv
    <3>2. QED
      BY <1>2, <3>1
  <2>3. j \in 1 .. Len(writes) /\ j \in DOMAIN writes'
    BY <1>2, <1>5
  <2>4. writes'[j].at <= m /\ writes'[j].state = t.state
    BY <1>4, <2>1, <2>3
  <2>5. ASSUME NEW k \in j + 1 .. Len(writes'), writes'[k].at <= m
        PROVE  writes'[k].state = t.state
    <3>1. k # Len(writes) + 1
      BY <1>2, <1>3, <1>4, <2>2, <2>5
    <3>2. k \in 1 .. Len(writes) /\ k \in j + 1 .. Len(writes)
      BY <1>2, <1>4, <2>3, <3>1
    <3>3. QED
      BY <1>4, <2>1, <2>5, <3>2
  <2>6. QED
    BY <2>3, <2>4, <2>5
<1>9. HistoryAsItWas'
  <2>1. told' = told
    BY <1>1
  <2>2. QED
    BY <1>8, <2>1 DEF HistoryInv, HistoryAsItWas
<1>10. QED
  BY <1>1, <1>7, <1>9 DEF HistoryInv

LEMMA HistoryStays == HistoryInv /\ [HomeNext]_homeVars => HistoryInv'
<1> SUFFICES ASSUME HistoryInv, [HomeNext]_homeVars PROVE HistoryInv'
  OBVIOUS
<1>1. ASSUME NEW days \in Window, GetStateHistory(days) PROVE HistoryInv'
  BY <1>1, HistoryTells DEF HistoryInv
<1>2. ASSUME NEW s \in Switch, Write(s) PROVE HistoryInv'
  BY <1>2, WriteAfter
<1>3. CASE NextDay
  <2>1. today' = today + 1 /\ writes' = writes /\ told' = told
    BY <1>3 DEF NextDay
  <2>2. WritesInv'
    <3>1. WritesInv /\ \A i \in DOMAIN writes : writes[i].at \in Nat
      BY Points DEF HistoryInv
    <3>2. \A i \in DOMAIN writes : writes[i].at <= today + 1
      BY <3>1 DEF WritesInv
    <3>3. QED
      BY <2>1, <3>1, <3>2 DEF WritesInv
  <2>3. HistoryAsItWas'
    BY <2>1 DEF HistoryInv, HistoryAsItWas
  <2>4. told.at <= today + 1
    BY DEF HistoryInv, WritesInv
  <2>5. QED
    BY <2>1, <2>2, <2>3, <2>4 DEF HistoryInv
<1>4. ASSUME UNCHANGED historyVars PROVE HistoryInv'
  BY <1>4 DEF historyVars, HistoryInv, WritesInv, HistoryAsItWas
<1>5. QED
  BY <1>1, <1>2, <1>3, <1>4 DEF HomeNext, RunNext, HistoryNext, Rename, Find, RunRunnable,
                                homeVars

LEMMA HistoryStarts == HomeInit => HistoryInv
<1> SUFFICES ASSUME HomeInit PROVE HistoryInv
  OBVIOUS
<1>1. PICK s \in Switch : writes = <<[state |-> s, at |-> 0]>>
  BY DEF HomeInit
<1>2. today = 0 /\ told = [at |-> 0, from |-> 0, transitions |-> {}]
  BY DEF HomeInit
<1>3. WritesInv
  BY <1>1, <1>2 DEF WritesInv
<1>4. told.at = 0 /\ told.transitions = {}
  BY <1>2
<1>5. HistoryAsItWas
  BY <1>4 DEF HistoryAsItWas
<1>6. QED
  BY <1>2, <1>3, <1>4, <1>5 DEF HistoryInv

\* The tools of the house say and do what they are asked for: only what was asked
\* for is started, and a history of any length, taken of any window, tells the
\* states the entity was in, the latest without a gap, whatever is written
\* afterwards (run_runnable, get_state_history).
THEOREM HouseIsAnswered == HomeSpec => []AnswersForTheHouse
<1>1. HistoryInv => HistoryAsItWas
  BY DEF HistoryInv
<1>2. QED
  BY <1>1, HistoryStarts, HistoryStays, OnlyWhatWasAskedRuns, PTL
  DEF HomeSpec, AnswersForTheHouse

-----------------------------------------------------------------------------
(* Trace.                                                                  *)
(*                                                                         *)
(* TraceIsTheTurns speaks of the rows that are stored.  The invariant says *)
(* the same of the ring while a turn runs: the ids in it are consecutive,  *)
(* so what is pushed out is always the oldest, and with every step of a    *)
(* turn the ring has all the later ones.                                   *)

Rec  == [id : Nat, kind : {"llm", "tool"}, turn : TracedTurn, step : Nat, life : Nat]
Held == ToSet(traces)

\* The id of the oldest record in the ring.
Oldest == nextId - Len(traces)

RingInv ==
  /\ traces \in Seq(Rec) /\ details \in Seq(Rec)
  /\ nextId \in Nat /\ life \in Nat
  /\ Len(traces) <= Ring /\ Len(traces) <= nextId
  /\ Len(traces) < Ring => Len(traces) = nextId
  /\ \A i \in 1 .. Len(traces) : traces[i].id = Oldest + i - 1

TraceTyped ==
  /\ since \in [TracedTurn -> Nat] /\ taken \in [TracedTurn -> Nat]
  /\ going \in [TracedTurn -> {"idle", "running", "over"}]
  /\ saved \in [TracedTurn -> SUBSET Rec]
  /\ whole \subseteq TracedTurn

\* What the ring has of a turn that runs.
OnItsWay(t) ==
  /\ since[t] <= nextId
  /\ Oldest <= since[t] => \A s \in 1 .. taken[t] : \E r \in Own(t, Held) : r.step = s
  /\ \A r \in Own(t, Held) :
       /\ r.id >= since[t]
       /\ r.step <= taken[t]
       /\ \A s \in r.step .. taken[t] : \E q \in Own(t, Held) : q.step = s
       /\ \A q \in Own(t, Held) : q.id < r.id <=> q.step < r.step
  /\ \A u \in Running \ {t} : <<u, t>> \in overlap
  /\ \A r \in Held : r.id >= since[t] /\ r.turn # t => <<r.turn, t>> \in overlap

Unstarted(t) == taken[t] = 0 /\ Own(t, Held) = {}

\* The details of this life, and what leads to them.
DetailInv ==
  /\ \A d \in ToSet(details) : d.id < nextId
  /\ \A r \in Held : r.life = life
  /\ \A r \in Held, d \in ToSet(details) : r.id = d.id => r = d
  /\ \A t \in TracedTurn : \A r \in saved[t] :
       r.life <= life /\ (r.life = life => r.id < nextId)

TraceInv ==
  /\ RingInv /\ TraceTyped /\ DetailInv /\ TraceIsTheTurns
  /\ \A t \in Running : OnItsWay(t)
  /\ \A t \in TracedTurn : going[t] = "idle" => Unstarted(t)
  /\ \A t \in TracedTurn : going[t] # "over" => saved[t] = {} /\ t \notin whole

LEMMA Elements ==
  ASSUME NEW S, NEW s \in Seq(S)
  PROVE  ToSet(s) = {s[i] : i \in 1 .. Len(s)} /\ ToSet(s) \subseteq S
<1>1. DOMAIN s = 1 .. Len(s) /\ \A i \in 1 .. Len(s) : s[i] \in S
  BY LenProperties, ElementOfSeq
<1>2. QED
  BY <1>1 DEF ToSet

LEMMA NoElements == ASSUME NEW S, NEW s \in Seq(S), Len(s) = 0 PROVE ToSet(s) = {}
<1>1. ToSet(s) = {s[i] : i \in 1 .. Len(s)}
  BY Elements
<1>2. 1 .. Len(s) = {}
  OBVIOUS
<1>3. QED
  BY <1>1, <1>2

\* A ring of n after one more element: the elements it has, without the first
\* where there is no place.
RingAfter(after, n, s, x) ==
  /\ Len(after) = IF Len(s) = n THEN n ELSE Len(s) + 1
  /\ \A i \in 1 .. Len(after) :
       after[i] = IF i = Len(after) THEN x ELSE IF Len(s) = n THEN s[i + 1] ELSE s[i]

LEMMA KeptRing ==
  ASSUME NEW S, NEW n \in Nat \ {0}, NEW s \in Seq(S), NEW x \in S, Len(s) <= n
  PROVE  /\ Kept(n, Append(s, x)) \in Seq(S)
         /\ RingAfter(Kept(n, Append(s, x)), n, s, x)
<1> DEFINE long == Append(s, x)
<1>1. /\ long \in Seq(S) /\ Len(long) = Len(s) + 1 /\ Len(s) \in Nat
      /\ \A i \in 1 .. Len(s) : long[i] = s[i]
      /\ long[Len(s) + 1] = x
  BY AppendProperties
<1>2. long # <<>>
  BY <1>1, EmptySeq
<1>3. /\ Tail(long) \in Seq(S) /\ Len(Tail(long)) = Len(s)
      /\ \A i \in 1 .. Len(s) : Tail(long)[i] = long[i + 1]
  BY <1>1, <1>2, HeadTailProperties
<1> HIDE DEF long
<1>4. CASE Len(s) = n
  <2>1. Kept(n, long) = Tail(long)
    BY <1>1, <1>4 DEF Kept
  <2>2. \A i \in 1 .. n : Tail(long)[i] = IF i = n THEN x ELSE s[i + 1]
    BY <1>1, <1>3, <1>4
  <2>3. QED
    BY <1>3, <1>4, <2>1, <2>2 DEF long, RingAfter
<1>5. CASE Len(s) # n
  <2>1. Kept(n, long) = long
    BY <1>1, <1>5 DEF Kept
  <2>2. QED
    BY <1>1, <1>5, <2>1 DEF long, RingAfter
<1>6. QED
  BY <1>4, <1>5

\* Where the records stand in the ring.
LEMMA InTheRing ==
  ASSUME RingInv
  PROVE  /\ Held \subseteq Rec /\ Oldest \in Nat
         /\ \A r \in Held : r.id \in Oldest .. nextId - 1
         /\ \A q, r \in Held : q.id = r.id => q = r
<1>1. Len(traces) \in Nat /\ Held = {traces[i] : i \in 1 .. Len(traces)} /\ Held \subseteq Rec
  BY Elements, LenProperties DEF RingInv, Held
<1>2. Oldest \in Nat /\ Oldest + Len(traces) = nextId
  BY <1>1 DEF RingInv, Oldest
<1>3. ASSUME NEW i \in 1 .. Len(traces) PROVE traces[i].id = Oldest + i - 1
  BY DEF RingInv
<1>4. \A r \in Held : r.id \in Oldest .. nextId - 1
  BY <1>1, <1>2, <1>3
<1>5. \A i, j \in 1 .. Len(traces) : traces[i].id = traces[j].id => i = j
  BY <1>1, <1>2, <1>3
<1>6. QED
  BY <1>1, <1>2, <1>4, <1>5

\* One more record: of the others those go that are older than the ring.
LEMMA RecordedRing ==
  ASSUME RingInv, NEW x \in Rec, x.id = nextId, nextId' = nextId + 1,
         traces' = Kept(Ring, Append(traces, x)), details' \in Seq(Rec), life' = life
  PROVE  /\ RingInv' /\ Oldest <= Oldest' /\ Oldest' <= nextId
         /\ Held' = {r \in Held : r.id >= Oldest'} \cup {x}
<1>1. Ring \in Nat \ {0}
  BY TraceAssumption DEF TraceAssumption
<1>2. PICK old \in Nat : old = Oldest
  BY InTheRing
<1>3. traces \in Seq(Rec) /\ Len(traces) \in Nat /\ Len(traces) <= Ring /\ nextId \in Nat
      /\ old + Len(traces) = nextId /\ (Len(traces) < Ring => old = 0)
      /\ \A i \in 1 .. Len(traces) : traces[i].id = old + i - 1
  BY <1>2, LenProperties DEF RingInv, Oldest
<1>a. PICK after : after = Kept(Ring, Append(traces, x))
  OBVIOUS
<1>b. after \in Seq(Rec) /\ RingAfter(after, Ring, traces, x) /\ traces' = after
  BY <1>1, <1>3, <1>a, KeptRing
<1>c. PICK last \in Nat : last = Len(after)
  BY <1>b, LenProperties
<1>4. /\ last = IF Len(traces) = Ring THEN Ring ELSE Len(traces) + 1
      /\ \A i \in 1 .. last :
           after[i] = IF i = last THEN x
                      ELSE IF Len(traces) = Ring THEN traces[i + 1] ELSE traces[i]
  BY <1>b, <1>c DEF RingAfter
<1>d. Oldest' = nextId + 1 - last
  <2>1. Len(traces') = last
    BY <1>b, <1>c
  <2>2. nextId' = nextId + 1 /\ nextId' \in Nat
    BY <1>3
  <2>3. QED
    BY <1>3, <2>1, <2>2 DEF Oldest
<1>e. nextId + 1 - last = IF Len(traces) = Ring THEN old + 1 ELSE old
  <2>1. CASE Len(traces) = Ring
    <3>1. last = Ring /\ old + Ring = nextId
      BY <1>3, <1>4, <2>1
    <3>2. QED
      BY <1>1, <1>3, <2>1, <3>1
  <2>2. CASE Len(traces) # Ring
    <3>1. last = Len(traces) + 1
      BY <1>4, <2>2
    <3>2. \A n \in Nat : old + n = nextId => nextId + 1 - (n + 1) = old
      BY <1>3
    <3>3. nextId + 1 - last = old
      BY <1>3, <3>1, <3>2
    <3>4. QED
      BY <2>2, <3>3
  <2>3. QED
    BY <2>1, <2>2
<1>f. nextId + 1 - last \in Nat /\ (nextId + 1 - last) + last = nextId + 1
  BY <1>1, <1>3, <1>4
<1>6. PICK new \in Nat : new = Oldest' /\ new + last = nextId + 1
                         /\ new = IF Len(traces) = Ring THEN old + 1 ELSE old
  BY <1>d, <1>e, <1>f
<1>7. last \in Nat \ {0} /\ last <= Ring /\ last <= nextId + 1
      /\ (last < Ring => last = nextId + 1)
  BY <1>1, <1>3, <1>4
<1>8. ASSUME NEW i \in 1 .. last PROVE after[i].id = new + i - 1
  <2>1. CASE i = last
    <3>1. after[i] = x /\ x.id = nextId
      BY <1>4, <2>1
    <3>2. nextId = new + i - 1
      BY <1>3, <1>6, <2>1
    <3>3. QED
      BY <3>1, <3>2
  <2>2. CASE i # last /\ Len(traces) = Ring
    <3>1. i + 1 \in 1 .. Len(traces) /\ after[i] = traces[i + 1]
      BY <1>1, <1>4, <2>2
    <3>2. traces[i + 1].id = old + (i + 1) - 1
      BY <1>3, <3>1
    <3>3. QED
      BY <1>6, <2>2, <3>1, <3>2
  <2>3. CASE i # last /\ Len(traces) # Ring
    <3>1. i \in 1 .. Len(traces) /\ after[i] = traces[i]
      BY <1>3, <1>4, <2>3
    <3>2. QED
      BY <1>3, <1>6, <2>3, <3>1
  <2>4. QED
    BY <2>1, <2>2, <2>3
<1>9. RingInv'
  BY <1>3, <1>b, <1>c, <1>6, <1>7, <1>8 DEF RingInv
<1>10. old <= new /\ new <= nextId
  BY <1>1, <1>3, <1>6, <1>7
<1>11. Held = {traces[i] : i \in 1 .. Len(traces)} /\ Held' = {after[i] : i \in 1 .. last}
  <2>1. ToSet(after) = {after[i] : i \in 1 .. last}
    BY <1>b, <1>c, Elements
  <2>2. ToSet(traces) = {traces[i] : i \in 1 .. Len(traces)}
    BY <1>3, Elements
  <2>3. QED
    BY <1>b, <2>1, <2>2 DEF Held
<1>12. ASSUME NEW r \in Held' PROVE r = x \/ (r \in Held /\ r.id >= new)
  <2>1. PICK i \in 1 .. last : r = after[i]
    BY <1>11
  <2>2. CASE i = last
    BY <1>4, <2>1, <2>2, <1>7
  <2>3. CASE i # last
    <3>1. \E j \in 1 .. Len(traces) : after[i] = traces[j]
      <4>1. CASE Len(traces) = Ring
        <5>1. i + 1 \in 1 .. Len(traces) /\ after[i] = traces[i + 1]
          BY <1>1, <1>4, <2>3, <4>1
        <5>2. QED
          BY <5>1
      <4>2. CASE Len(traces) # Ring
        <5>1. i \in 1 .. Len(traces) /\ after[i] = traces[i]
          BY <1>3, <1>4, <2>3, <4>2
        <5>2. QED
          BY <5>1
      <4>3. QED
        BY <4>1, <4>2
    <3>2. after[i].id >= new
      BY <1>6, <1>8
    <3>3. QED
      BY <1>11, <2>1, <3>1, <3>2
  <2>4. QED
    BY <2>2, <2>3
<1>13. x \in Held'
  BY <1>4, <1>7, <1>11
<1>14. ASSUME NEW r \in Held, r.id >= new PROVE r \in Held'
  <2>1. PICK j \in 1 .. Len(traces) : r = traces[j]
    BY <1>11
  <2>2. r.id = old + j - 1
    BY <1>3, <2>1
  <2>3. CASE Len(traces) = Ring
    <3>1. j - 1 \in 1 .. last /\ j - 1 # last
      BY <1>1, <1>4, <1>6, <1>14, <2>2, <2>3
    <3>2. after[j - 1] = traces[j - 1 + 1] /\ j - 1 + 1 = j
      BY <1>4, <2>3, <3>1
    <3>3. QED
      BY <1>11, <2>1, <3>1, <3>2
  <2>4. CASE Len(traces) # Ring
    <3>1. j \in 1 .. last /\ j # last
      BY <1>3, <1>4, <2>4
    <3>2. QED
      BY <1>4, <1>11, <2>1, <2>4, <3>1
  <2>5. QED
    BY <2>3, <2>4
<1>15. QED
  BY <1>2, <1>6, <1>9, <1>10, <1>12, <1>13, <1>14

\* What leaves the ring of details is gone, and only the new one comes.
LEMMA KeptDetails ==
  ASSUME NEW n, NEW s \in Seq(Rec), NEW x \in Rec
  PROVE  /\ Kept(n, Append(s, x)) \in Seq(Rec)
         /\ ToSet(Kept(n, Append(s, x))) \subseteq ToSet(s) \cup {x}
<1> DEFINE long == Append(s, x)
<1>1. /\ long \in Seq(Rec) /\ Len(long) = Len(s) + 1 /\ Len(s) \in Nat
      /\ \A i \in 1 .. Len(s) : long[i] = s[i]
      /\ long[Len(s) + 1] = x
  BY AppendProperties
<1>2. long # <<>>
  BY <1>1, EmptySeq
<1>3. /\ Tail(long) \in Seq(Rec) /\ Len(Tail(long)) = Len(s)
      /\ \A i \in 1 .. Len(s) : Tail(long)[i] = long[i + 1]
  BY <1>1, <1>2, HeadTailProperties
<1>4. ToSet(s) = {s[i] : i \in 1 .. Len(s)}
  BY Elements
<1> HIDE DEF long
<1>5. ToSet(long) = {long[i] : i \in 1 .. Len(s) + 1}
  BY <1>1, Elements
<1>6. ToSet(long) \subseteq ToSet(s) \cup {x}
  <2> SUFFICES ASSUME NEW i \in 1 .. Len(s) + 1 PROVE long[i] \in ToSet(s) \cup {x}
    BY <1>5
  <2>1. i \in 1 .. Len(s) \/ i = Len(s) + 1
    BY <1>1
  <2>2. QED
    BY <1>1, <1>4, <2>1
<1>7. ToSet(Tail(long)) = {Tail(long)[i] : i \in 1 .. Len(s)}
  BY <1>3, Elements
<1>8. ToSet(Tail(long)) \subseteq ToSet(long)
  <2> SUFFICES ASSUME NEW i \in 1 .. Len(s) PROVE Tail(long)[i] \in ToSet(long)
    BY <1>7
  <2>1. i + 1 \in 1 .. Len(s) + 1 /\ Tail(long)[i] = long[i + 1]
    BY <1>1, <1>3
  <2>2. QED
    BY <1>5, <2>1
<1>9. Kept(n, long) \in {long, Tail(long)}
  BY DEF Kept
<1>10. QED
  BY <1>1, <1>3, <1>6, <1>8, <1>9 DEF long

LEMMA TraceStart == TraceInit => TraceInv
<1> SUFFICES ASSUME TraceInit PROVE TraceInv
  OBVIOUS
<1>1. traces \in Seq(Rec) /\ Len(traces) = 0 /\ details \in Seq(Rec) /\ Len(details) = 0
  BY EmptySeq DEF TraceInit
<1>2. Held = {} /\ ToSet(details) = {}
  <2>1. ToSet(traces) = {} /\ ToSet(details) = {}
    BY <1>1, NoElements
  <2>2. QED
    BY <2>1 DEF Held
<1>3. RingInv
  BY <1>1, TraceAssumption DEF TraceAssumption, RingInv, TraceInit, Oldest
<1>4. TraceTyped
  BY DEF TraceTyped, TraceInit
<1>5. DetailInv
  BY <1>2 DEF DetailInv, TraceInit
<1>6. TraceIsTheTurns
  BY <1>2 DEF TraceIsTheTurns, StepsAreTheTurns, DetailsAreTheSteps, DetailOf, Own, TraceInit
<1>7. Running = {} /\ \A t \in TracedTurn : Unstarted(t)
  BY <1>2 DEF Running, Unstarted, Own, TraceInit
<1>8. \A t \in TracedTurn : saved[t] = {} /\ t \notin whole
  BY DEF TraceInit
<1>9. QED
  BY <1>3, <1>4, <1>5, <1>6, <1>7, <1>8 DEF TraceInv

\* One more step: of what a turn has on its way the ring keeps the latest.
LEMMA RecordStep ==
  ASSUME TraceInv, NEW t \in TracedTurn, NEW kind \in {"llm", "tool"}, Recorded(t, kind),
         details' \in Seq(Rec), ToSet(details') \subseteq ToSet(details) \cup {Step(t, kind)},
         UNCHANGED <<since, going, saved, overlap, whole, life>>
  PROVE  TraceInv'
<1>a. RingInv /\ TraceTyped /\ DetailInv /\ TraceIsTheTurns
  BY DEF TraceInv
<1>b. t \in Running /\ going[t] = "running" /\ OnItsWay(t)
  BY DEF Recorded, Running, TraceInv
<1>c. nextId \in Nat /\ life \in Nat /\ taken[t] \in Nat /\ nextId' = nextId + 1
      /\ taken' = [taken EXCEPT ![t] = @ + 1]
      /\ taken' \in [TracedTurn -> Nat]
  BY <1>a DEF RingInv, TraceTyped, Recorded
<1>d. PICK x \in Rec : x = Step(t, kind) /\ x.id = nextId /\ x.turn = t
                       /\ x.step = taken[t] + 1 /\ x.life = life
  <2>1. Step(t, kind) \in Rec
    BY <1>c DEF Step, Rec
  <2>2. QED
    BY <2>1 DEF Step
<1>e. /\ RingInv' /\ Oldest <= Oldest' /\ Oldest' <= nextId
      /\ Held' = {r \in Held : r.id >= Oldest'} \cup {x}
  <2>1. traces' = Kept(Ring, Append(traces, x))
    BY <1>d DEF Recorded
  <2>2. QED
    BY <1>a, <1>c, <1>d, <2>1, RecordedRing
<1>f. /\ Held \subseteq Rec /\ Held' \subseteq Rec /\ Oldest \in Nat /\ Oldest' \in Nat
      /\ \A r \in Held : r.id \in Oldest .. nextId - 1
  <2>1. Held \subseteq Rec /\ Oldest \in Nat /\ \A r \in Held : r.id \in Oldest .. nextId - 1
    BY <1>a, InTheRing
  <2>2. Oldest' \in Nat
    <3>1. Len(traces') \in Nat
      BY <1>e, LenProperties DEF RingInv
    <3>2. QED
      BY <1>e, <3>1 DEF RingInv, Oldest
  <2>3. QED
    BY <1>d, <1>e, <2>1, <2>2
<1>g. PICK new \in Nat : new = Oldest'
  BY <1>f
<1>h. \A u \in TracedTurn : taken'[u] = IF u = t THEN taken[u] + 1 ELSE taken[u]
  BY <1>c, <1>a DEF TraceTyped
<1>i. Running' = Running
  BY DEF Running
<1>1. TraceTyped'
  BY <1>a, <1>c DEF TraceTyped
<1>2. ASSUME NEW u \in Running PROVE OnItsWay(u)'
  <2>a. u \in TracedTurn /\ OnItsWay(u) /\ since[u] \in Nat /\ taken[u] \in Nat
    BY <1>a DEF Running, TraceTyped, TraceInv
  <2>b. ASSUME NEW r \in Own(u, Held)'
        PROVE  r \in Rec /\ r.turn = u
               /\ (r = x \/ (r # x /\ r \in Own(u, Held) /\ r.id >= new /\ r.id < nextId))
    <3>1. r \in Held' /\ r.turn = u
      BY DEF Own
    <3>2. r = x \/ (r \in Held /\ r.id >= new)
      BY <1>e, <1>g, <3>1
    <3>3. r \in Held => r.id < nextId
      BY <1>c, <1>f
    <3>4. QED
      BY <1>c, <1>d, <1>f, <3>1, <3>2, <3>3 DEF Own
  <2>c. x \in Own(u, Held)' <=> u = t
    BY <1>d, <1>e DEF Own
  <2>d. ASSUME NEW r \in Own(u, Held), r.id >= new PROVE r \in Own(u, Held)'
    BY <1>e, <1>g, <2>d DEF Own
  <2>1. since'[u] <= nextId'
    BY <1>c, <2>a DEF OnItsWay
  <2>2. ASSUME Oldest' <= since'[u], NEW s \in 1 .. taken'[u]
        PROVE  \E r \in Own(u, Held)' : r.step = s
    <3>1. CASE u = t /\ s = taken[t] + 1
      BY <1>d, <2>c, <3>1
    <3>2. CASE ~(u = t /\ s = taken[t] + 1)
      <4>1. s \in 1 .. taken[u]
        BY <1>h, <2>a, <3>2
      <4>2. Oldest <= since[u] /\ new <= since[u]
        BY <1>e, <1>f, <1>g, <2>2, <2>a
      <4>3. PICK r \in Own(u, Held) : r.step = s
        BY <2>a, <4>1, <4>2 DEF OnItsWay
      <4>4. r.id >= since[u] /\ r.id \in Nat
        BY <1>f, <2>a, <4>3 DEF OnItsWay, Own, Rec
      <4>5. QED
        BY <2>a, <2>d, <4>2, <4>3, <4>4
    <3>3. QED
      BY <3>1, <3>2
  <2>3. ASSUME NEW r \in Own(u, Held)' PROVE r.id >= since'[u] /\ r.step <= taken'[u]
    <3>1. CASE r = x
      <4>1. u = t
        BY <2>c, <3>1
      <4>2. QED
        BY <1>c, <1>d, <1>h, <2>a, <3>1, <4>1 DEF OnItsWay
    <3>2. CASE r # x
      <4>1. r \in Own(u, Held) /\ r \in Rec
        BY <2>b, <3>2
      <4>2. r.id >= since[u] /\ r.step <= taken[u] /\ r.step \in Nat
        BY <2>a, <4>1 DEF OnItsWay, Rec
      <4>3. taken[u] <= taken'[u] /\ taken'[u] \in Nat
        BY <1>h, <2>a
      <4>4. QED
        BY <2>a, <4>2, <4>3
    <3>3. QED
      BY <3>1, <3>2
  <2>4. ASSUME NEW r \in Own(u, Held)', NEW s \in r.step .. taken'[u]
        PROVE  \E q \in Own(u, Held)' : q.step = s
    <3>0. r \in Rec
      BY <2>b
    <3>1. CASE u = t /\ s = taken[t] + 1
      BY <1>d, <2>c, <3>1
    <3>2. CASE ~(u = t /\ s = taken[t] + 1)
      <4>1. r.step \in Nat /\ s \in r.step .. taken[u]
        <5>1. r.step \in Nat /\ s \in Nat /\ s >= r.step /\ s <= taken'[u]
          BY <1>h, <2>a, <3>0 DEF Rec
        <5>2. s <= taken[u]
          BY <1>h, <2>a, <3>2, <5>1
        <5>3. QED
          BY <2>a, <5>1, <5>2
      <4>2. r # x
        BY <1>d, <2>a, <2>b, <4>1, <2>c
      <4>3. r \in Own(u, Held) /\ r.id >= new /\ r.id \in Nat
        BY <2>b, <4>2, <3>0 DEF Rec
      <4>4. PICK q \in Own(u, Held) : q.step = s
        BY <2>a, <4>1, <4>3 DEF OnItsWay
      <4>5. q.id < r.id <=> q.step < r.step
        BY <2>a, <4>3, <4>4 DEF OnItsWay
      <4>6. q.id \in Nat
        BY <1>f, <4>4 DEF Own, Rec
      <4>7. q.id >= new
        BY <4>1, <4>3, <4>4, <4>5, <4>6
      <4>8. QED
        BY <2>d, <4>4, <4>7
    <3>3. QED
      BY <3>1, <3>2
  <2>5. ASSUME NEW r \in Own(u, Held)', NEW q \in Own(u, Held)'
        PROVE  q.id < r.id <=> q.step < r.step
    <3>1. CASE r # x /\ q # x
      <4>1. r \in Own(u, Held) /\ q \in Own(u, Held)
        BY <2>b, <3>1
      <4>2. QED
        BY <2>a, <4>1 DEF OnItsWay
    <3>2. CASE r = x /\ q = x
      BY <1>c, <1>d, <3>2
    <3>3. CASE r = x /\ q # x
      <4>1. q \in Own(u, Held) /\ q.id < nextId /\ u = t
        BY <2>b, <2>c, <3>3
      <4>2. q.step <= taken[u] /\ q.step \in Nat
        BY <2>a, <2>b, <4>1 DEF OnItsWay, Rec
      <4>3. q.step < taken[t] + 1
        BY <1>c, <4>1, <4>2
      <4>4. QED
        BY <1>d, <3>3, <4>1, <4>3
    <3>4. CASE r # x /\ q = x
      <4>1. r \in Own(u, Held) /\ r.id < nextId /\ u = t /\ r.id \in Nat
        BY <2>b, <2>c, <3>4 DEF Rec
      <4>2. r.step <= taken[u] /\ r.step \in Nat
        BY <2>a, <2>b, <4>1 DEF OnItsWay, Rec
      <4>3. ~(taken[t] + 1 < r.step) /\ ~(nextId < r.id)
        BY <1>c, <4>1, <4>2
      <4>4. QED
        BY <1>d, <3>4, <4>3
    <3>5. QED
      BY <3>1, <3>2, <3>3, <3>4
  <2>6. \A v \in Running' \ {u} : <<v, u>> \in overlap'
    BY <1>i, <2>a DEF OnItsWay
  <2>7. ASSUME NEW r \in Held', r.id >= since'[u], r.turn # u
        PROVE  <<r.turn, u>> \in overlap'
    <3>1. CASE r = x
      BY <1>b, <1>d, <2>7, <2>a, <3>1 DEF OnItsWay
    <3>2. CASE r # x
      <4>1. r \in Held
        BY <1>e, <3>2
      <4>2. QED
        BY <2>7, <2>a, <4>1 DEF OnItsWay
    <3>3. QED
      BY <3>1, <3>2
  <2>8. QED
    BY <2>1, <2>2, <2>3, <2>4, <2>5, <2>6, <2>7 DEF OnItsWay
<1>3. ASSUME NEW u \in TracedTurn, going'[u] = "idle" PROVE Unstarted(u)'
  <2>1. Unstarted(u) /\ u # t
    BY <1>3, <1>b DEF TraceInv
  <2>2. taken'[u] = 0
    BY <1>h, <2>1 DEF Unstarted
  <2>3. Own(u, Held)' = {}
    BY <1>d, <1>e, <2>1 DEF Unstarted, Own
  <2>4. QED
    BY <2>2, <2>3 DEF Unstarted
<1>4. \A u \in TracedTurn : going'[u] # "over" => saved'[u] = {} /\ u \notin whole'
  BY DEF TraceInv
<1>5. saved[t] = {} /\ t \notin whole
  BY <1>b DEF TraceInv
<1>6. StepsAreTheTurns'
  <2>1. ASSUME NEW u \in TracedTurn
        PROVE  /\ u \in whole => \A s \in 1 .. taken'[u] : \E r \in Own(u, saved[u]) : r.step = s
               /\ \A r \in Own(u, saved[u]) :
                    /\ r.step <= taken'[u]
                    /\ \A s \in r.step .. taken'[u] : \E q \in Own(u, saved[u]) : q.step = s
                    /\ \A q \in Own(u, saved[u]) : q.id < r.id <=> q.step < r.step
               /\ \A r \in saved[u] :
                    r.turn # u => <<r.turn, u>> \in overlap /\ ChatOf[r.turn] = ChatOf[u]
    <3>1. CASE u = t
      BY <1>5, <3>1 DEF Own
    <3>2. CASE u # t
      <4>1. taken'[u] = taken[u]
        BY <1>h, <3>2
      <4>2. QED
        BY <1>a, <4>1 DEF TraceIsTheTurns, StepsAreTheTurns
    <3>3. QED
      BY <3>1, <3>2
  <2>2. QED
    BY <2>1 DEF StepsAreTheTurns, Own
<1>7. ASSUME NEW u \in TracedTurn, NEW r \in saved[u], NEW d \in ToSet(details'),
             d.id = r.id, r.life = life
      PROVE  Whose(d) = Whose(r) /\ d \in ToSet(details)
  <2>1. r.id < nextId
    BY <1>7, <1>a DEF DetailInv
  <2>2. d # x
    <3>1. r \in Rec /\ r.id \in Nat
      BY <1>a DEF TraceTyped, Rec
    <3>2. QED
      BY <1>7, <1>c, <1>d, <2>1, <3>1
  <2>3. d \in ToSet(details)
    BY <1>d, <2>2
  <2>4. QED
    BY <1>7, <1>a, <2>3 DEF TraceIsTheTurns, DetailsAreTheSteps, DetailOf
<1>8. DetailsAreTheSteps'
  BY <1>7 DEF DetailsAreTheSteps, DetailOf
<1>9. DetailInv'
  <2>0. ToSet(details) \subseteq Rec
    BY <1>a, Elements DEF RingInv
  <2>1. ASSUME NEW d \in ToSet(details') PROVE d.id < nextId'
    <3>1. CASE d = x
      BY <1>c, <1>d, <3>1
    <3>2. CASE d # x
      <4>1. d \in ToSet(details) /\ d.id \in Nat /\ d.id < nextId
        BY <1>a, <1>d, <2>0, <3>2 DEF DetailInv, Rec
      <4>2. QED
        BY <1>c, <4>1
    <3>3. QED
      BY <3>1, <3>2
  <2>2. \A r \in Held' : r.life = life'
    BY <1>a, <1>d, <1>e DEF DetailInv
  <2>3. ASSUME NEW r \in Held', NEW d \in ToSet(details'), r.id = d.id PROVE r = d
    <3>1. (r = x \/ r \in Held) /\ (d = x \/ d \in ToSet(details))
      BY <1>d, <1>e
    <3>2. r \in Held => r.id < nextId /\ r.id \in Nat
      BY <1>c, <1>f DEF Rec
    <3>3. d \in ToSet(details) => d.id < nextId /\ d.id \in Nat
      BY <1>a, <2>0 DEF DetailInv, Rec
    <3>4. r \in Held /\ d \in ToSet(details) => r = d
      BY <1>a, <2>3 DEF DetailInv
    <3>5. QED
      BY <1>c, <1>d, <2>3, <3>1, <3>2, <3>3, <3>4
  <2>4. ASSUME NEW u \in TracedTurn, NEW r \in saved[u]
        PROVE  r.life <= life /\ (r.life = life => r.id < nextId')
    <3>1. r \in Rec /\ r.id \in Nat
      BY <1>a DEF TraceTyped, Rec
    <3>2. r.life <= life /\ (r.life = life => r.id < nextId)
      BY <1>a DEF DetailInv
    <3>3. QED
      BY <1>c, <3>1, <3>2
  <2>5. QED
    BY <2>1, <2>2, <2>3, <2>4 DEF DetailInv
<1>10. QED
  BY <1>1, <1>2, <1>3, <1>4, <1>6, <1>8, <1>9, <1>e, <1>i DEF TraceInv, TraceIsTheTurns

\* A turn begins with nothing of its own in the ring.
LEMMA BeginStep ==
  ASSUME TraceInv, NEW t \in TracedTurn, BeginTraced(t) PROVE TraceInv'
<1>1. RingInv /\ TraceTyped /\ DetailInv /\ StepsAreTheTurns /\ DetailsAreTheSteps
      /\ Unstarted(t) /\ nextId \in Nat
  BY DEF TraceInv, TraceIsTheTurns, BeginTraced, RingInv
<1>2. UNCHANGED <<traces, details, nextId, taken, saved, whole, life>>
  BY DEF BeginTraced
<1>3. Held' = Held /\ Oldest' = Oldest
  BY <1>2 DEF Held, Oldest
<1>4. RingInv'
  BY <1>1, <1>2, <1>3 DEF RingInv
<1>5. TraceTyped' /\ Running' = Running \cup {t}
  BY <1>1, <1>2 DEF TraceTyped, Running, BeginTraced
<1>6. /\ overlap \subseteq overlap'
      /\ \A u \in Running : <<u, t>> \in overlap' /\ <<t, u>> \in overlap'
  BY DEF BeginTraced
<1>7. DetailInv'
  BY <1>1, <1>2, <1>3 DEF DetailInv
<1>8. StepsAreTheTurns'
  BY <1>1, <1>2, <1>6 DEF StepsAreTheTurns, Own
<1>9. DetailsAreTheSteps'
  BY <1>1, <1>2 DEF DetailsAreTheSteps, DetailOf
<1>10. ASSUME NEW u \in Running' PROVE OnItsWay(u)'
  <2>1. CASE u = t
    <3>1. since'[t] = nextId /\ taken[t] = 0 /\ Own(t, Held) = {}
      BY <1>1 DEF BeginTraced, TraceTyped, Unstarted
    <3>2. ASSUME NEW r \in Held PROVE ~(r.id >= nextId)
      <4>1. r.id \in Oldest .. nextId - 1 /\ Oldest \in Nat
        BY <1>1, InTheRing
      <4>2. QED
        BY <1>1, <4>1
    <3>3. taken'[t] = 0 /\ Own(t, Held)' = {} /\ since'[t] = nextId'
      BY <1>2, <1>3, <3>1 DEF Own
    <3>4. \A s \in 1 .. taken'[t] : FALSE
      BY <3>3
    <3>5. \A v \in Running' \ {t} : <<v, t>> \in overlap'
      BY <1>5, <1>6
    <3>6. \A r \in Held' : ~(r.id >= since'[t])
      BY <1>2, <1>3, <3>2, <3>3
    <3>7. nextId' \in Nat
      BY <1>1, <1>2
    <3>8. OnItsWay(t)'
      BY <3>3, <3>4, <3>5, <3>6, <3>7 DEF OnItsWay
    <3>9. QED
      BY <2>1, <3>8
  <2>2. CASE u # t
    <3>1. u \in Running /\ OnItsWay(u) /\ since'[u] = since[u]
      BY <1>1, <1>5, <2>2 DEF TraceInv, BeginTraced, TraceTyped
    <3>2. QED
      BY <1>2, <1>3, <1>5, <1>6, <2>2, <3>1 DEF OnItsWay, Own
  <2>3. QED
    BY <2>1, <2>2
<1>11. \A u \in TracedTurn : going'[u] = "idle" => Unstarted(u)'
  <2>1. \A u \in TracedTurn : going'[u] = "idle" => going[u] = "idle"
    BY <1>1 DEF TraceTyped, BeginTraced
  <2>2. QED
    BY <1>2, <1>3, <2>1 DEF TraceInv, Unstarted, Own
<1>12. \A u \in TracedTurn : going'[u] # "over" => saved'[u] = {} /\ u \notin whole'
  <2>1. \A u \in TracedTurn : going'[u] # "over" => going[u] # "over"
    BY <1>1 DEF TraceTyped, BeginTraced
  <2>2. QED
    BY <1>2, <2>1 DEF TraceInv
<1>13. QED
  BY <1>4, <1>5, <1>7, <1>8, <1>9, <1>10, <1>11, <1>12 DEF TraceInv, TraceIsTheTurns

\* A turn that is over leaves the rings and the others as they are.
LEMMA OverStep ==
  ASSUME TraceInv, NEW t \in TracedTurn, going[t] = "running",
         going' = [going EXCEPT ![t] = "over"],
         UNCHANGED <<traces, details, nextId, since, taken, overlap, life>>
  PROVE  /\ RingInv' /\ going' \in [TracedTurn -> {"idle", "running", "over"}]
         /\ \A u \in Running' : OnItsWay(u)'
         /\ \A u \in TracedTurn : going'[u] = "idle" => Unstarted(u)'
         /\ \A u \in TracedTurn : going'[u] # "over" => u # t /\ saved[u] = {} /\ u \notin whole
<1>1. RingInv /\ TraceTyped
  BY DEF TraceInv
<1>2. Held' = Held /\ Oldest' = Oldest
  BY DEF Held, Oldest
<1>3. RingInv'
  BY <1>1, <1>2 DEF RingInv
<1>4. going' \in [TracedTurn -> {"idle", "running", "over"}]
      /\ Running' = Running \ {t} /\ \A u \in TracedTurn \ {t} : going'[u] = going[u]
      /\ going'[t] = "over"
  BY <1>1 DEF TraceTyped, Running
<1>5. \A u \in Running' : OnItsWay(u)'
  BY <1>2, <1>4 DEF TraceInv, OnItsWay, Own
<1>6. \A u \in TracedTurn : going'[u] = "idle" => Unstarted(u)'
  BY <1>2, <1>4 DEF TraceInv, Unstarted, Own
<1>7. \A u \in TracedTurn : going'[u] # "over" => u # t /\ saved[u] = {} /\ u \notin whole
  BY <1>4 DEF TraceInv
<1>8. QED
  BY <1>3, <1>4, <1>5, <1>6, <1>7

\* What is stored is what the ring has of the turn.
LEMMA PersistStep ==
  ASSUME TraceInv, NEW t \in TracedTurn, Persist(t) PROVE TraceInv'
<1>1. RingInv /\ TraceTyped /\ DetailInv /\ StepsAreTheTurns /\ DetailsAreTheSteps
      /\ nextId \in Nat /\ t \in Running /\ OnItsWay(t) /\ since[t] \in Nat
  BY DEF TraceInv, TraceIsTheTurns, Persist, RingInv, Running, TraceTyped
<1>2. /\ RingInv' /\ going' \in [TracedTurn -> {"idle", "running", "over"}]
      /\ \A u \in Running' : OnItsWay(u)'
      /\ \A u \in TracedTurn : going'[u] = "idle" => Unstarted(u)'
      /\ \A u \in TracedTurn : going'[u] # "over" => u # t /\ saved[u] = {} /\ u \notin whole
  <2>1. going[t] = "running" /\ going' = [going EXCEPT ![t] = "over"]
        /\ UNCHANGED <<traces, details, nextId, since, taken, overlap, life>>
    BY DEF Persist
  <2>2. QED
    BY <2>1, OverStep
<1>3. /\ UNCHANGED <<traces, details, nextId, since, taken, overlap, life>>
      /\ saved' = [saved EXCEPT ![t] = ForSession(t)]
      /\ whole' = IF nextId - since[t] <= Ring THEN whole \cup {t} ELSE whole
  BY DEF Persist
<1>4. ForSession(t) = {r \in Held : ChatOf[r.turn] = ChatOf[t] /\ r.id >= since[t]}
  BY DEF ForSession, Held
<1>5. Held \subseteq Rec /\ Held' = Held
  BY <1>1, <1>3, InTheRing DEF Held
<1>6. saved'[t] = ForSession(t) /\ \A u \in TracedTurn \ {t} : saved'[u] = saved[u]
  BY <1>1, <1>3 DEF TraceTyped
<1>7. TraceTyped'
  <2>1. saved' \in [TracedTurn -> SUBSET Rec]
    BY <1>1, <1>3, <1>4, <1>5 DEF TraceTyped
  <2>2. whole' \subseteq TracedTurn
    BY <1>1, <1>3 DEF TraceTyped
  <2>3. QED
    BY <1>1, <1>2, <1>3, <2>1, <2>2 DEF TraceTyped
<1>8. Own(t, ForSession(t)) = Own(t, Held)
  BY <1>1, <1>4 DEF Own, OnItsWay
<1>9. t \in whole' => Oldest <= since[t]
  <2>1. going[t] # "over"
    BY DEF Persist
  <2>2. t \notin whole
    BY <2>1 DEF TraceInv
  <2>3. ASSUME nextId - since[t] <= Ring PROVE Oldest <= since[t]
    <3>1. Len(traces) \in Nat /\ Len(traces) <= Ring /\ (Len(traces) < Ring => Len(traces) = nextId)
          /\ Ring \in Nat
      BY <1>1, LenProperties, TraceAssumption DEF RingInv, TraceAssumption
    <3>2. Oldest = nextId - Len(traces)
      BY DEF Oldest
    <3>3. QED
      BY <1>1, <2>3, <3>1, <3>2
  <2>4. QED
    BY <1>3, <2>2, <2>3
<1>10. StepsAreTheTurns'
  <2>1. ASSUME NEW u \in TracedTurn
        PROVE  /\ u \in whole' =>
                    \A s \in 1 .. taken[u] : \E r \in Own(u, saved'[u]) : r.step = s
               /\ \A r \in Own(u, saved'[u]) :
                    /\ r.step <= taken[u]
                    /\ \A s \in r.step .. taken[u] : \E q \in Own(u, saved'[u]) : q.step = s
                    /\ \A q \in Own(u, saved'[u]) : q.id < r.id <=> q.step < r.step
               /\ \A r \in saved'[u] :
                    r.turn # u => <<r.turn, u>> \in overlap /\ ChatOf[r.turn] = ChatOf[u]
    <3>1. CASE u = t
      <4>1. Own(u, saved'[u]) = Own(t, Held)
        BY <1>6, <1>8, <3>1
      <4>2. \A r \in saved'[u] :
                    r.turn # u => <<r.turn, u>> \in overlap /\ ChatOf[r.turn] = ChatOf[u]
        BY <1>1, <1>4, <1>6, <3>1 DEF OnItsWay
      <4>3. QED
        BY <1>1, <1>9, <3>1, <4>1, <4>2 DEF OnItsWay
    <3>2. CASE u # t
      <4>1. saved'[u] = saved[u] /\ (u \in whole' => u \in whole)
        BY <1>3, <1>6, <3>2
      <4>2. QED
        BY <1>1, <4>1 DEF StepsAreTheTurns
    <3>3. QED
      BY <3>1, <3>2
  <2>2. QED
    BY <1>3, <2>1 DEF StepsAreTheTurns, Own
<1>11. DetailsAreTheSteps'
  <2>1. ASSUME NEW u \in TracedTurn, NEW r \in saved'[u], NEW d \in ToSet(details),
               d.id = r.id, r.life = life
        PROVE  Whose(d) = Whose(r)
    <3>1. CASE u = t
      <4>1. r \in Held
        BY <1>4, <1>6, <3>1
      <4>2. d = r
        BY <1>1, <2>1, <4>1 DEF DetailInv
      <4>3. QED
        BY <4>2
    <3>2. CASE u # t
      BY <1>1, <1>6, <2>1, <3>2 DEF DetailsAreTheSteps, DetailOf
    <3>3. QED
      BY <3>1, <3>2
  <2>2. QED
    BY <1>3, <2>1 DEF DetailsAreTheSteps, DetailOf, Whose
<1>12. DetailInv'
  <2>1. ASSUME NEW u \in TracedTurn, NEW r \in saved'[u]
        PROVE  r.life <= life /\ (r.life = life => r.id < nextId)
    <3>1. CASE u = t
      <4>1. r \in Held /\ r \in Rec
        BY <1>4, <1>5, <1>6, <3>1
      <4>2. r.id \in Oldest .. nextId - 1 /\ Oldest \in Nat
        BY <1>1, <4>1, InTheRing
      <4>3. r.life = life /\ life \in Nat
        BY <1>1, <4>1 DEF DetailInv, RingInv
      <4>4. QED
        BY <1>1, <4>2, <4>3
    <3>2. CASE u # t
      BY <1>1, <1>6, <3>2 DEF DetailInv
    <3>3. QED
      BY <3>1, <3>2
  <2>2. QED
    BY <1>1, <1>3, <1>5, <2>1 DEF DetailInv
<1>13. \A u \in TracedTurn : going'[u] # "over" => saved'[u] = {} /\ u \notin whole'
  BY <1>2, <1>3, <1>6
<1>14. QED
  BY <1>2, <1>7, <1>10, <1>11, <1>12, <1>13 DEF TraceInv, TraceIsTheTurns

LEMMA EndStep ==
  ASSUME TraceInv, NEW t \in TracedTurn, EndUntraced(t) PROVE TraceInv'
<1>1. UNCHANGED <<traces, details, nextId, since, taken, saved, overlap, whole, life>>
      /\ going[t] = "running" /\ going' = [going EXCEPT ![t] = "over"]
  BY DEF EndUntraced
<1>2. /\ RingInv' /\ going' \in [TracedTurn -> {"idle", "running", "over"}]
      /\ \A u \in Running' : OnItsWay(u)'
      /\ \A u \in TracedTurn : going'[u] = "idle" => Unstarted(u)'
      /\ \A u \in TracedTurn : going'[u] # "over" => u # t /\ saved[u] = {} /\ u \notin whole
  BY <1>1, OverStep
<1>3. TraceTyped' /\ Held' = Held
  BY <1>1, <1>2 DEF TraceInv, TraceTyped, Held
<1>4. DetailInv' /\ StepsAreTheTurns' /\ DetailsAreTheSteps'
  BY <1>1, <1>3 DEF TraceInv, TraceIsTheTurns, DetailInv, StepsAreTheTurns, DetailsAreTheSteps,
                    DetailOf, Own
<1>5. QED
  BY <1>1, <1>2, <1>3, <1>4 DEF TraceInv, TraceIsTheTurns

\* A new life has empty rings and its ids are told from those before.
LEMMA RestartStep == ASSUME TraceInv, TraceRestart PROVE TraceInv'
<1>1. RingInv /\ TraceTyped /\ DetailInv /\ StepsAreTheTurns /\ life \in Nat
  BY DEF TraceInv, TraceIsTheTurns, RingInv
<1>2. /\ life' = life + 1 /\ nextId' = 0
      /\ going' = [u \in TracedTurn |-> IF going[u] = "running" THEN "over" ELSE going[u]]
      /\ UNCHANGED <<since, taken, saved, overlap, whole>>
  BY DEF TraceRestart
<1>3. /\ traces' \in Seq(Rec) /\ Len(traces') = 0
      /\ details' \in Seq(Rec) /\ Len(details') = 0
  BY EmptySeq DEF TraceRestart
<1>4. Held' = {} /\ ToSet(details') = {}
  <2>1. ToSet(traces') = {} /\ ToSet(details') = {}
    BY <1>3, NoElements
  <2>2. QED
    BY <2>1 DEF Held
<1>5. RingInv'
  <2>1. \A i \in 1 .. 0 : FALSE
    OBVIOUS
  <2>2. Ring \in Nat \ {0}
    BY TraceAssumption DEF TraceAssumption
  <2>3. QED
    BY <1>1, <1>2, <1>3, <2>1, <2>2 DEF RingInv
<1>6. TraceTyped'
  BY <1>1, <1>2 DEF TraceTyped
<1>7. DetailInv'
  <2>1. ASSUME NEW u \in TracedTurn, NEW r \in saved[u]
        PROVE  r.life <= life + 1 /\ r.life # life + 1
    <3>1. r.life \in Nat /\ r.life <= life
      BY <1>1 DEF TraceTyped, Rec, DetailInv
    <3>2. QED
      BY <1>1, <3>1
  <2>2. QED
    BY <1>2, <1>4, <2>1 DEF DetailInv
<1>8. StepsAreTheTurns'
  BY <1>1, <1>2 DEF StepsAreTheTurns, Own
<1>9. DetailsAreTheSteps'
  BY <1>4 DEF DetailsAreTheSteps, DetailOf
<1>10. Running' = {} /\ \A u \in TracedTurn : /\ going'[u] = "idle" => going[u] = "idle"
                                              /\ going'[u] # "over" => going[u] # "over"
  BY <1>1, <1>2 DEF Running, TraceTyped
<1>11. \A u \in TracedTurn : going'[u] = "idle" => Unstarted(u)'
  BY <1>2, <1>4, <1>10 DEF TraceInv, Unstarted, Own
<1>12. \A u \in TracedTurn : going'[u] # "over" => saved'[u] = {} /\ u \notin whole'
  BY <1>2, <1>10 DEF TraceInv
<1>13. QED
  BY <1>5, <1>6, <1>7, <1>8, <1>9, <1>10, <1>11, <1>12 DEF TraceInv, TraceIsTheTurns

LEMMA TraceStep == TraceInv /\ [TraceNext]_traceVars => TraceInv'
<1> SUFFICES ASSUME TraceInv, [TraceNext]_traceVars PROVE TraceInv'
  OBVIOUS
<1>1. details \in Seq(Rec)
  BY DEF TraceInv, RingInv
<1>2. ASSUME NEW t \in TracedTurn, RecordLlm(t) PROVE TraceInv'
  <2>1. Recorded(t, "llm") /\ UNCHANGED <<since, going, saved, overlap, whole, life>>
        /\ details' = Kept(DetailRing, Append(details, Step(t, "llm")))
    BY <1>2 DEF RecordLlm
  <2>2. Step(t, "llm") \in Rec
    BY DEF Step, Rec, TraceInv, RingInv, TraceTyped
  <2>3. details' \in Seq(Rec) /\ ToSet(details') \subseteq ToSet(details) \cup {Step(t, "llm")}
    BY <1>1, <2>1, <2>2, KeptDetails
  <2>4. QED
    BY <2>1, <2>3, RecordStep
<1>3. ASSUME NEW t \in TracedTurn, RecordTool(t) PROVE TraceInv'
  <2>1. Recorded(t, "tool") /\ UNCHANGED <<since, going, saved, overlap, whole, life, details>>
    BY <1>3 DEF RecordTool
  <2>2. QED
    BY <1>1, <2>1, RecordStep
<1>4. ASSUME UNCHANGED traceVars PROVE TraceInv'
  <2>1. UNCHANGED <<traces, details, nextId, since, going, taken, saved, overlap, whole, life>>
    BY <1>4 DEF traceVars
  <2>2. Held' = Held /\ Oldest' = Oldest /\ Running' = Running
    BY <2>1 DEF Held, Oldest, Running
  <2>3. RingInv' /\ TraceTyped' /\ DetailInv'
    BY <2>1, <2>2 DEF TraceInv, RingInv, TraceTyped, DetailInv
  <2>4. StepsAreTheTurns' /\ DetailsAreTheSteps'
    BY <2>1 DEF TraceInv, TraceIsTheTurns, StepsAreTheTurns, DetailsAreTheSteps, DetailOf, Own
  <2>5. \A u \in Running' : OnItsWay(u)'
    BY <2>1, <2>2 DEF TraceInv, OnItsWay, Own
  <2>6. \A u \in TracedTurn : going'[u] = "idle" => Unstarted(u)'
    BY <2>1, <2>2 DEF TraceInv, Unstarted, Own
  <2>7. \A u \in TracedTurn : going'[u] # "over" => saved'[u] = {} /\ u \notin whole'
    BY <2>1 DEF TraceInv
  <2>8. QED
    BY <2>3, <2>4, <2>5, <2>6, <2>7 DEF TraceInv, TraceIsTheTurns
<1>5. QED
  BY <1>2, <1>3, <1>4, BeginStep, PersistStep, EndStep, RestartStep DEF TraceNext

\* However many turns overlap, and however short the rings are, the rows that
\* persist_turn_trace stores are the steps the turn took, in their order and
\* with only the first ones missing, and a row leads to its own call or to none
\* (for_session, trace_detail).
THEOREM TracesTellTheTurn == TraceSpec => []TraceIsTheTurns
<1>1. TraceInv => TraceIsTheTurns
  BY DEF TraceInv
<1>2. QED
  BY <1>1, TraceStart, TraceStep, PTL DEF TraceSpec

-----------------------------------------------------------------------------
(* Types.  Those of Conversations and HomeRegistry are parts of the        *)
(* invariants above.                                                       *)

LEMMA RoutingTypesStart == RoutingInit => RoutingTypeOK
  BY RoutingAssumption
  DEF RoutingAssumption, RoutingInit, RoutingTypeOK, NoPins, Default, Choice, Tag

LEMMA RoutingTypesStay ==
  RoutingInv /\ RoutingInv' /\ RoutingTypeOK /\ [RoutingNext]_routingVars => RoutingTypeOK'
<1> SUFFICES ASSUME RoutingInv', RoutingTypeOK, [RoutingNext]_routingVars
             PROVE  RoutingTypeOK'
  OBVIOUS
<1> DEFINE Rest == /\ known' \subseteq Chat
                   /\ pref' \in Choice /\ settings' \in Choice
<1>1. Rest => RoutingTypeOK'
  BY DEF RoutingInv, FreshPinned, RoutingTypeOK
<1>2. ASSUME NEW u \in User, NEW c \in Chat, NEW p \in Persona, NEW g \in Slug \cup {NoSlug},
             FirstTurn(u, c, p, g)
      PROVE  Rest
  BY <1>2 DEF FirstTurn, RoutingTypeOK
<1>3. ASSUME NEW u \in User, NEW c \in Chat, NEW p \in Persona, CreateChat(u, c, p)
      PROVE  Rest
  BY <1>3 DEF CreateChat, RoutingTypeOK
<1>8. ASSUME NEW u \in User, NEW c \in Chat, NEW d \in Chat, ContinueChat(u, c, d) PROVE Rest
  BY <1>8 DEF ContinueChat, RoutingTypeOK
<1>4. ASSUME NEW v \in Choice, PutModel(v) PROVE Rest
  BY <1>4 DEF PutModel, Written, RoutingTypeOK, Default, Choice
<1>5. CASE RoutingRestart
  BY <1>5 DEF RoutingRestart, RoutingTypeOK, NoPins, Default, Choice
<1>6. ASSUME UNCHANGED <<known, pins, pref, settings>> PROVE Rest
  BY <1>6 DEF RoutingTypeOK
<1> HIDE DEF Rest
<1>7. QED
  BY <1>1, <1>2, <1>3, <1>4, <1>5, <1>6, <1>8
  DEF RoutingNext, Retag, AddSecondary, RemoveTopic, routingVars

LEMMA NightTypesStart == NightInit => Counted /\ NightTypeOK
<1> SUFFICES ASSUME NightInit PROVE Counted /\ NightTypeOK
  OBVIOUS
<1>1. NightTyped
  BY NightStart DEF NightInv
<1>2. ~agent /\ agent \in BOOLEAN
  BY DEF NightInit
<1>3. 0 \in 0 .. MaxCuts /\ 0 \in 0 .. MaxCuts + 1
  BY NightJobsAssumption DEF NightJobsAssumption
<1>4. QED
  BY <1>1, <1>2, <1>3 DEF NightInit, NightTypeOK, NightTyped, Counted, JobSessionsGo

\* No more turns are cut off than the process restarts.
NightBounds == cut <= restarts /\ NightTypeOK

LEMMA NightTypesStay ==
  NightInv /\ NightInv' /\ Counted /\ Counted' /\ NightBounds /\ [NightNext]_nightVars
    => NightBounds'
<1> SUFFICES ASSUME NightInv', Counted, Counted', NightBounds, [NightNext]_nightVars
             PROVE  NightBounds'
  OBVIOUS
<1>1. agent' \in BOOLEAN
  <2>1. agent \in BOOLEAN
    BY DEF NightBounds, NightTypeOK
  <2>2. QED
    BY <2>1 DEF NightNext, NightStep, StartTick, SkipJob, Baseline, RunCode, RunAgent,
                AgentEnds, NightRestart, SlotComes, nightVars
<1>2. cut' <= restarts' /\ cut' \in 0 .. MaxCuts /\ restarts' \in 0 .. MaxCuts
  <2>1. cut <= restarts /\ cut \in 0 .. MaxCuts /\ restarts \in 0 .. MaxCuts
    BY DEF NightBounds, NightTypeOK
  <2>2. CASE NightRestart
    <3>1. /\ restarts < MaxCuts /\ restarts' = restarts + 1
          /\ cut' = cut + 1 \/ cut' = cut
      BY <2>2 DEF NightRestart
    <3>2. QED
      BY <2>1, <3>1, NightJobsAssumption DEF NightJobsAssumption
  <2>3. CASE UNCHANGED <<cut, restarts>>
    BY <2>1, <2>3
  <2>4. QED
    BY <2>2, <2>3 DEF NightNext, NightStep, StartTick, SkipJob, Baseline, RunCode, RunAgent,
                      Mark, AgentEnds, SlotComes, nightVars
<1>3. temps' \in 0 .. MaxCuts + 1
  <2>1. cut' \in 0 .. MaxCuts
    BY <1>2
  <2>2. temps' = cut' + (IF agent' THEN 1 ELSE 0)
    BY DEF Counted, JobSessionsGo
  <2>3. PICK one : one = (IF agent' THEN 1 ELSE 0)
    OBVIOUS
  <2>4. one = 1 \/ one = 0
    <3>1. CASE agent'
      BY <2>3, <3>1, Zenon
    <3>2. CASE ~agent'
      BY <2>3, <3>2, Zenon
    <3>3. QED
      BY <3>1, <3>2, Zenon
  <2>5. temps' = cut' + one
    BY <2>2, <2>3, Zenon
  <2>6. QED
    BY <2>1, <2>4, <2>5, NightJobsAssumption DEF NightJobsAssumption
<1>4. QED
  BY <1>1, <1>2, <1>3 DEF NightBounds, NightTypeOK, NightInv, NightTyped

HomeTyped == HomeTypeOK /\ Len(writes) <= MaxWrites /\ DOMAIN found = Asking

LEMMA HomeTypesStart == HomeInit => HomeTyped
<1> SUFFICES ASSUME HomeInit PROVE HomeTyped
  OBVIOUS
<1>1. PICK s \in Switch : writes = <<[state |-> s, at |-> 0]>>
  BY DEF HomeInit
<1>2. Len(writes) = 1 /\ DOMAIN writes = 1 .. 1 /\ writes[1].state = s /\ writes[1].at = 0
  BY <1>1
<1>3. found = [c \in Asking |-> Nothing] /\ Nothing.id = NoEntity
  BY DEF HomeInit, Nothing
<1>4. 1 <= MaxWrites /\ 0 \in 0 .. MaxDay
  BY HomeAssumption DEF HomeAssumption
<1>5. told.transitions = {} /\ today = 0
  BY DEF HomeInit
<1>6. /\ friendly \in [Ids -> Name \cup {NoEntity}] /\ started = {}
      /\ asked \in [Asking -> Ids \cup Name \cup {NoEntity}]
  BY DEF HomeInit
<1>7. \A i \in DOMAIN writes : writes[i].state \in Switch /\ writes[i].at \in 0 .. today
  BY <1>2, <1>5
<1>8. QED
  BY <1>2, <1>3, <1>4, <1>5, <1>6, <1>7 DEF HomeTyped, HomeTypeOK

LEMMA ResolveGivesAnId ==
  ASSUME NEW ref PROVE Resolve(ref) \in Ids \cup {NoEntity}
<1>1. Bearing(ref) \in SUBSET Ids /\ NamedLike(ref) \in SUBSET Ids
  BY DEF Bearing, NamedLike
<1>2. \A ids \in SUBSET Ids : First(ids) \in Ids \cup {NoEntity}
  <2> TAKE ids \in SUBSET Ids
  <2>1. CASE ids = {}
    BY <2>1 DEF First
  <2>2. CASE ids # {}
    BY <2>2, FirstIsOne
  <2>3. QED
    BY <2>1, <2>2
<1>3. QED
  BY <1>1, <1>2 DEF Resolve

\* A transition begins in the window and lasts no less than nothing.
LEMMA TransitionTypes ==
  ASSUME WritesInv, Len(writes) <= MaxWrites, NEW from \in Int, from <= today, NEW C,
         C = Changes(Series(from)), NEW t \in Durations(C, from)
  PROVE  t \in Transition
<1>1. PICK i \in C : t = [nr |-> i, state |-> writes[i].state, since |-> Since(i, from),
                          duration |-> Until(i, C, from) - Since(i, from)]
  BY DEF Durations
<1>2. i \in 1 .. Len(writes) /\ Len(writes) \in Nat /\ C \subseteq 1 .. Len(writes)
  BY Points
<1>3. writes[i] \in [state : Switch, at : Nat]
  BY <1>2, ElementOfSeq, Points DEF WritesInv
<1>4. writes[i].state \in Switch /\ writes[i].at \in Nat
  BY <1>3
<1>5. Since(i, from) \in Nat
  <2>1. Since(i, from) \in Int /\ Since(i, from) >= writes[i].at
    BY <1>2, SincePoint
  <2>2. QED
    BY <1>4, <2>1
<1>6. Until(i, C, from) \in Int /\ Until(i, C, from) >= Since(i, from)
  <2>1. Until(i, C, from) \in Int
    BY UntilNext
  <2>2. CASE \E c \in C : c > i
    <3>1. PICK d \in C : d > i /\ Until(i, C, from) = Since(d, from)
      BY <2>2, UntilNext
    <3>2. d \in 1 .. Len(writes) /\ i <= d
      BY <1>2, <3>1
    <3>3. Since(i, from) <= Since(d, from)
      BY <1>2, <3>2, SinceInOrder
    <3>4. QED
      BY <1>2, <2>1, <3>1, <3>2, <3>3, SincePoint
  <2>3. CASE ~ \E c \in C : c > i
    <3>1. \A c \in C : c <= i
      BY <1>2, <2>3
    <3>2. Until(i, C, from) = today
      BY <3>1, UntilNext
    <3>3. Since(i, from) <= today /\ Since(i, from) \in Int
      BY <1>2, SincePoint
    <3>4. QED
      BY <2>1, <3>2, <3>3
  <2>4. QED
    BY <2>2, <2>3
<1>7. Until(i, C, from) - Since(i, from) \in Nat
  BY <1>5, <1>6
<1>8. i \in 1 .. MaxWrites
  BY <1>2, HomeAssumption DEF HomeAssumption
<1>9. QED
  BY <1>1, <1>4, <1>5, <1>7, <1>8 DEF Transition

LEMMA HomeTypesStay ==
  HistoryInv /\ HistoryInv' /\ HomeTyped /\ [HomeNext]_homeVars => HomeTyped'
<1> SUFFICES ASSUME HistoryInv, HistoryInv', HomeTyped, [HomeNext]_homeVars
             PROVE  HomeTyped'
  OBVIOUS
<1>1. ASSUME NEW c \in Asking, NEW ref \in Ids \cup Name, Find(c, ref) PROVE HomeTyped'
  <2>1. /\ found' = [found EXCEPT ![c] = [id |-> Resolve(ref), names |-> friendly]]
        /\ asked' = [asked EXCEPT ![c] = ref] /\ UNCHANGED <<friendly, started, historyVars>>
    BY <1>1 DEF Find
  <2>2. [id |-> Resolve(ref), names |-> friendly].id \in Ids \cup {NoEntity}
    BY ResolveGivesAnId
  <2>3. DOMAIN found' = Asking /\ \A d \in Asking : found'[d].id \in Ids \cup {NoEntity}
    BY <2>1, <2>2 DEF HomeTyped, HomeTypeOK
  <2>4. QED
    BY <2>1, <2>3 DEF HomeTyped, HomeTypeOK, historyVars
<1>2. ASSUME NEW c \in Asking, RunRunnable(c) PROVE HomeTyped'
  BY <1>2 DEF RunRunnable, HomeTyped, HomeTypeOK, historyVars
<1>3. ASSUME NEW id \in Ids, NEW n \in Name \cup {NoEntity}, Rename(id, n) PROVE HomeTyped'
  BY <1>3 DEF Rename, HomeTyped, HomeTypeOK, historyVars
<1>4. ASSUME NEW s \in Switch, Write(s) PROVE HomeTyped'
  <2> DEFINE w == [state |-> s, at |-> today]
  <2>1. writes' = Append(writes, w) /\ UNCHANGED <<runVars, today, told>>
        /\ Len(writes) < MaxWrites
    BY <1>4 DEF Write
  <2>2. /\ Len(writes) \in Nat /\ today \in Nat /\ writes \in Seq([state : Switch, at : Nat])
        /\ today \in 0 .. MaxDay
    BY Points DEF HistoryInv, WritesInv, HomeTyped, HomeTypeOK
  <2>3. w.state = s /\ w.at = today /\ w \in [state : Switch, at : Nat]
    BY <2>2
  <2> HIDE DEF w
  <2>4. /\ Len(writes') = Len(writes) + 1 /\ DOMAIN writes' = 1 .. Len(writes) + 1
        /\ \A i \in 1 .. Len(writes) : writes'[i] = writes[i]
        /\ writes'[Len(writes) + 1] = w
    BY <2>1, <2>2, <2>3, AppendProperties
  <2>5. \A i \in 1 .. Len(writes) : writes[i].state \in Switch /\ writes[i].at \in 0 .. today
    BY Points DEF HistoryInv, HomeTyped, HomeTypeOK
  <2>6. ASSUME NEW i \in DOMAIN writes'
        PROVE  writes'[i].state \in Switch /\ writes'[i].at \in 0 .. today
    BY <2>2, <2>3, <2>4, <2>5
  <2>7. Len(writes') <= MaxWrites
    BY <2>1, <2>2, <2>4, HomeAssumption DEF HomeAssumption
  <2>8. QED
    BY <2>1, <2>6, <2>7 DEF HomeTyped, HomeTypeOK, runVars
<1>5. ASSUME NEW days \in Window, GetStateHistory(days) PROVE HomeTyped'
  <2>1. PICK from : from = Start(days)
    OBVIOUS
  <2>2. from \in Int /\ from <= today
    BY <2>1, WindowStart DEF HistoryInv, WritesInv
  <2>3. PICK C : C = Changes(Series(from))
    OBVIOUS
  <2>4. told' = [at |-> today, from |-> from, transitions |-> Recent(Durations(C, from))]
    BY <1>5, <2>1, <2>3 DEF GetStateHistory
  <2>5. Recent(Durations(C, from)) \subseteq Transition
    <3>1. Durations(C, from) \subseteq Transition
      BY <2>2, <2>3, TransitionTypes DEF HistoryInv, HomeTyped
    <3>2. QED
      BY <3>1 DEF Recent
  <2>6. told'.transitions \subseteq Transition
    BY <2>4, <2>5
  <2>7. UNCHANGED <<runVars, today, writes>>
    BY <1>5 DEF GetStateHistory
  <2>8. QED
    BY <2>6, <2>7 DEF HomeTyped, HomeTypeOK, runVars
<1>6. CASE NextDay
  <2>1. today < MaxDay /\ today' = today + 1 /\ UNCHANGED <<runVars, writes, told>>
    BY <1>6 DEF NextDay
  <2>2. today \in 0 .. MaxDay /\ MaxDay \in Nat
    BY HomeAssumption DEF HomeAssumption, HomeTyped, HomeTypeOK
  <2>3. today' \in 0 .. MaxDay
    BY <2>1, <2>2
  <2>4. \A i \in DOMAIN writes : writes[i].state \in Switch /\ writes[i].at \in 0 .. today + 1
    BY <2>2 DEF HomeTyped, HomeTypeOK
  <2>5. QED
    BY <2>1, <2>3, <2>4 DEF HomeTyped, HomeTypeOK, runVars
<1>7. CASE UNCHANGED homeVars
  BY <1>7 DEF homeVars, runVars, historyVars, HomeTyped, HomeTypeOK
<1>8. QED
  BY <1>1, <1>2, <1>3, <1>4, <1>5, <1>6, <1>7 DEF HomeNext, RunNext, HistoryNext

\* The steps all turns have taken: as many as there have been ids, at least.
StepsTaken == {p \in TracedTurn \X (1 .. MaxSteps) : p[2] <= taken[p[1]]}

TraceTypes == TraceTypeOK /\ nextId <= Cardinality(StepsTaken)

LEMMA FewerThanIds ==
  ASSUME NEW P \in SUBSET (TracedTurn \X (1 .. MaxSteps))
  PROVE  /\ IsFiniteSet(P) /\ Cardinality(P) \in Nat
         /\ Cardinality(P) <= MaxId /\ MaxId \in Nat
<1> DEFINE all == TracedTurn \X (1 .. MaxSteps)
<1>1. IsFiniteSet(TracedTurn) /\ MaxSteps \in Nat
  BY TraceAssumption DEF TraceAssumption
<1>2. IsFiniteSet(1 .. MaxSteps) /\ Cardinality(1 .. MaxSteps) = MaxSteps
  BY <1>1, FS_Interval
<1>3. IsFiniteSet(all) /\ Cardinality(all) = MaxId
  BY <1>1, <1>2, FS_Product DEF MaxId
<1> HIDE DEF all
<1>4. P \in SUBSET all
  BY DEF all
<1>5. QED
  BY <1>3, <1>4, FS_Subset, FS_CardinalityType

LEMMA MostIds ==
  /\ IsFiniteSet(StepsTaken) /\ Cardinality(StepsTaken) \in Nat
  /\ Cardinality(StepsTaken) <= MaxId /\ MaxId \in Nat
<1>1. StepsTaken \in SUBSET (TracedTurn \X (1 .. MaxSteps))
  BY DEF StepsTaken
<1>2. QED
  BY <1>1, FewerThanIds

LEMMA KeptTyped ==
  ASSUME NEW S, NEW n \in Nat \ {0}, NEW s \in Seq(S), Len(s) <= n, NEW x \in S
  PROVE  Kept(n, Append(s, x)) \in Seq(S) /\ Len(Kept(n, Append(s, x))) <= n
<1>1. /\ Append(s, x) \in Seq(S) /\ Len(Append(s, x)) = Len(s) + 1 /\ Len(s) \in Nat
      /\ Append(s, x) # <<>>
  BY AppendProperties, LenProperties
<1>2. Tail(Append(s, x)) \in Seq(S) /\ Len(Tail(Append(s, x))) = Len(Append(s, x)) - 1
  BY <1>1, HeadTailProperties
<1>3. QED
  BY <1>1, <1>2 DEF Kept

LEMMA TraceTypesStart == TraceInit => TraceTypes
<1> SUFFICES ASSUME TraceInit PROVE TraceTypes
  OBVIOUS
<1>1. /\ 0 \in 0 .. MaxId /\ 0 \in 0 .. MaxSteps /\ 1 \in 1 .. MaxLives
      /\ 0 <= Ring /\ 0 <= DetailRing
  BY MostIds, TraceAssumption DEF TraceAssumption
<1>2. <<>> \in Seq(Record) /\ Len(<<>>) = 0
  BY EmptySeq
<1>3. nextId <= Cardinality(StepsTaken)
  BY MostIds DEF TraceInit
<1>4. TraceTypeOK
  BY <1>1, <1>2 DEF TraceInit, TraceTypeOK
<1>5. QED
  BY <1>3, <1>4 DEF TraceTypes

\* A record takes an id, and is a step that was not taken before.
LEMMA RecordedTypes ==
  ASSUME TraceTypes, NEW t \in TracedTurn, NEW kind \in {"llm", "tool"}, Recorded(t, kind)
  PROVE  /\ Step(t, kind) \in Record
         /\ traces' \in Seq(Record) /\ Len(traces') <= Ring
         /\ nextId' \in 0 .. MaxId /\ taken' \in [TracedTurn -> 0 .. MaxSteps]
         /\ nextId' <= Cardinality(StepsTaken')
<1>1. /\ nextId \in 0 .. MaxId /\ taken \in [TracedTurn -> 0 .. MaxSteps]
      /\ life \in 1 .. MaxLives /\ traces \in Seq(Record) /\ Len(traces) <= Ring
      /\ nextId <= Cardinality(StepsTaken)
  BY DEF TraceTypes, TraceTypeOK
<1>2. /\ taken[t] < MaxSteps /\ nextId' = nextId + 1
      /\ taken' = [taken EXCEPT ![t] = @ + 1]
      /\ traces' = Kept(Ring, Append(traces, Step(t, kind)))
  BY DEF Recorded
<1>3. MaxSteps \in Nat /\ Ring \in Nat \ {0}
  BY TraceAssumption DEF TraceAssumption
<1>4. taken[t] + 1 \in 1 .. MaxSteps
  BY <1>1, <1>2, <1>3
<1>5. Step(t, kind) \in Record
  BY <1>1, <1>4 DEF Step, Record
<1>6. traces' \in Seq(Record) /\ Len(traces') <= Ring
  BY <1>1, <1>2, <1>3, <1>5, KeptTyped
<1>7. taken' \in [TracedTurn -> 0 .. MaxSteps]
  BY <1>1, <1>2, <1>4, <1>3
<1>8. nextId' <= Cardinality(StepsTaken')
  <2>1. StepsTaken' = StepsTaken \cup {<<t, taken[t] + 1>>}
    <3>1. ASSUME NEW u \in TracedTurn, NEW s \in 1 .. MaxSteps
          PROVE  s <= taken'[u] <=> s <= taken[u] \/ (u = t /\ s = taken[t] + 1)
      BY <1>1, <1>2, <1>4
    <3>2. QED
      BY <1>4, <3>1 DEF StepsTaken
  <2>2. <<t, taken[t] + 1>> \notin StepsTaken
    BY <1>1 DEF StepsTaken
  <2>3. Cardinality(StepsTaken') = Cardinality(StepsTaken) + 1
    BY <2>1, <2>2, MostIds, FS_AddElement
  <2>4. QED
    BY <1>1, <1>2, <2>3, MostIds
<1>9. nextId' \in 0 .. MaxId
  <2>1. Cardinality(StepsTaken') <= MaxId /\ Cardinality(StepsTaken') \in Nat
    <3>1. StepsTaken' \in SUBSET (TracedTurn \X (1 .. MaxSteps))
      BY DEF StepsTaken
    <3>2. QED
      BY <3>1, FewerThanIds
  <2>2. QED
    BY <1>1, <1>2, <1>8, <2>1, MostIds
<1>10. QED
  BY <1>5, <1>6, <1>7, <1>8, <1>9

LEMMA TraceTypesStay == TraceTypes /\ [TraceNext]_traceVars => TraceTypes'
<1> SUFFICES ASSUME TraceTypes, [TraceNext]_traceVars PROVE TraceTypes'
  OBVIOUS
<1>1. ASSUME NEW t \in TracedTurn, BeginTraced(t) PROVE TraceTypes'
  <2>1. StepsTaken' = StepsTaken
    BY <1>1 DEF BeginTraced, StepsTaken
  <2>2. QED
    BY <1>1, <2>1 DEF BeginTraced, TraceTypes, TraceTypeOK, Running
<1>2. ASSUME NEW t \in TracedTurn, RecordLlm(t) PROVE TraceTypes'
  <2>1. Recorded(t, "llm") /\ UNCHANGED <<since, going, saved, overlap, whole, life>>
        /\ details' = Kept(DetailRing, Append(details, Step(t, "llm")))
    BY <1>2 DEF RecordLlm
  <2>2. details' \in Seq(Record) /\ Len(details') <= DetailRing
    <3>1. DetailRing \in Nat \ {0} /\ details \in Seq(Record) /\ Len(details) <= DetailRing
      BY TraceAssumption DEF TraceAssumption, TraceTypes, TraceTypeOK
    <3>2. QED
      BY <2>1, <3>1, RecordedTypes, KeptTyped
  <2>3. QED
    BY <2>1, <2>2, RecordedTypes DEF TraceTypes, TraceTypeOK
<1>3. ASSUME NEW t \in TracedTurn, RecordTool(t) PROVE TraceTypes'
  <2>1. Recorded(t, "tool") /\ UNCHANGED <<details, since, going, saved, overlap, whole, life>>
    BY <1>3 DEF RecordTool
  <2>2. QED
    BY <2>1, RecordedTypes DEF TraceTypes, TraceTypeOK
<1>4. ASSUME NEW t \in TracedTurn, Persist(t) PROVE TraceTypes'
  <2>1. StepsTaken' = StepsTaken
    BY <1>4 DEF Persist, StepsTaken
  <2>2. ForSession(t) \subseteq Record
    <3>1. \A i \in 1 .. Len(traces) : traces[i] \in Record
      BY ElementOfSeq DEF TraceTypes, TraceTypeOK
    <3>2. DOMAIN traces = 1 .. Len(traces)
      BY LenProperties DEF TraceTypes, TraceTypeOK
    <3>3. QED
      BY <3>1, <3>2 DEF ForSession, ToSet
  <2>3. saved' \in [TracedTurn -> SUBSET Record] /\ whole' \subseteq TracedTurn
    BY <1>4, <2>2 DEF Persist, TraceTypes, TraceTypeOK
  <2>4. QED
    BY <1>4, <2>1, <2>3 DEF Persist, TraceTypes, TraceTypeOK
<1>5. ASSUME NEW t \in TracedTurn, EndUntraced(t) PROVE TraceTypes'
  <2>1. StepsTaken' = StepsTaken
    BY <1>5 DEF EndUntraced, StepsTaken
  <2>2. QED
    BY <1>5, <2>1 DEF EndUntraced, TraceTypes, TraceTypeOK
<1>6. CASE TraceRestart
  <2>1. StepsTaken' = StepsTaken
    BY <1>6 DEF TraceRestart, StepsTaken
  <2>2. nextId' = 0 /\ 0 \in 0 .. MaxId /\ nextId' <= Cardinality(StepsTaken)
    BY <1>6, MostIds DEF TraceRestart
  <2>3. traces' = <<>> /\ details' = <<>> /\ <<>> \in Seq(Record) /\ Len(<<>>) = 0
    BY <1>6, EmptySeq DEF TraceRestart
  <2>4. 0 <= Ring /\ 0 <= DetailRing /\ life' \in 1 .. MaxLives
    BY <1>6, TraceAssumption DEF TraceAssumption, TraceRestart, TraceTypes, TraceTypeOK
  <2>5. going' \in [TracedTurn -> {"idle", "running", "over"}]
    BY <1>6 DEF TraceRestart, TraceTypes, TraceTypeOK
  <2>6. QED
    BY <1>6, <2>1, <2>2, <2>3, <2>4, <2>5 DEF TraceRestart, TraceTypes, TraceTypeOK
<1>7. CASE UNCHANGED traceVars
  <2>1. StepsTaken' = StepsTaken
    BY <1>7 DEF traceVars, StepsTaken
  <2>2. QED
    BY <1>7, <2>1 DEF traceVars, TraceTypes, TraceTypeOK
<1>8. QED
  BY <1>1, <1>2, <1>3, <1>4, <1>5, <1>6, <1>7 DEF TraceNext

-----------------------------------------------------------------------------
(* All parts side by side.                                                 *)

PartsInv ==
  /\ part \in {"conversations", "routing", "nights", "registry", "runs", "history", "trace"}
  /\ ChatInv
  /\ RoutingInv /\ RoutingTypeOK
  /\ NightInv /\ Counted /\ NightBounds
  /\ RegistryInv
  /\ HistoryInv /\ HomeTyped
  /\ TraceTypes

LEMMA PartsStart == MCInit => PartsInv
<1> SUFFICES ASSUME MCInit PROVE PartsInv
  OBVIOUS
<1>1. NightBounds
  <2>1. cut = 0 /\ restarts = 0
    BY DEF MCInit, NightInit
  <2>2. NightTypeOK
    BY NightTypesStart DEF MCInit
  <2>3. QED
    BY <2>1, <2>2 DEF NightBounds
<1>2. QED
  BY <1>1, ChatStart, RoutingStart, RoutingTypesStart, NightStart, NightTypesStart,
     RegistryStart, HistoryStarts, HomeTypesStart, TraceTypesStart DEF MCInit, PartsInv

LEMMA PartsMove ==
  [MCNext]_mcVars =>
    /\ [Next]_vars /\ [RoutingNext]_routingVars /\ [NightNext]_nightVars
    /\ [RegistryNext]_registryVars /\ [HomeNext]_homeVars /\ [TraceNext]_traceVars
<1> SUFFICES ASSUME [MCNext]_mcVars
             PROVE  /\ [Next]_vars /\ [RoutingNext]_routingVars /\ [NightNext]_nightVars
                    /\ [RegistryNext]_registryVars /\ [HomeNext]_homeVars
                    /\ [TraceNext]_traceVars
  OBVIOUS
<1>1. [Next]_vars
  BY DEF MCNext, mcVars, chatVars, Converse, Route, RunNight, Prompt, Run, Recall, Traces, Move
<1>2. [RoutingNext]_routingVars
  BY DEF MCNext, mcVars, chatVars, Converse, Route, RunNight, Prompt, Run, Recall, Traces, Move
<1>3. [NightNext]_nightVars
  BY DEF MCNext, mcVars, chatVars, Converse, Route, RunNight, Prompt, Run, Recall, Traces, Move
<1>4. [RegistryNext]_registryVars
  BY DEF MCNext, mcVars, chatVars, Converse, Route, RunNight, Prompt, Run, Recall, Traces, Move
<1>5. [HomeNext]_homeVars
  BY DEF MCNext, mcVars, chatVars, Converse, Route, RunNight, Prompt, Run, Recall, Traces, Move,
         HomeNext
<1>6. [TraceNext]_traceVars
  BY DEF MCNext, mcVars, chatVars, Converse, Route, RunNight, Prompt, Run, Recall, Traces, Move
<1>7. QED
  BY <1>1, <1>2, <1>3, <1>4, <1>5, <1>6

LEMMA PartsStay == PartsInv /\ [MCNext]_mcVars => PartsInv'
<1> SUFFICES ASSUME PartsInv, [MCNext]_mcVars PROVE PartsInv'
  OBVIOUS
<1>1. /\ [Next]_vars /\ [RoutingNext]_routingVars /\ [NightNext]_nightVars
      /\ [RegistryNext]_registryVars /\ [HomeNext]_homeVars /\ [TraceNext]_traceVars
  BY PartsMove
<1>2. part' = part
  BY DEF MCNext, mcVars, Converse, Route, RunNight, Prompt, Run, Recall, Traces, Move
<1>3. ChatInv'
  BY <1>1, ChatStep DEF PartsInv
<1>4. RoutingInv' /\ RoutingTypeOK'
  BY <1>1, RoutingStep, RoutingTypesStay DEF PartsInv
<1>5. NightInv' /\ Counted' /\ NightBounds'
  BY <1>1, NightStays, CountedNext, NightTypesStay DEF PartsInv
<1>6. RegistryInv'
  BY <1>1, RegistryStays DEF PartsInv
<1>7. HistoryInv' /\ HomeTyped'
  BY <1>1, HistoryStays, HomeTypesStay DEF PartsInv
<1>8. TraceTypes'
  BY <1>1, TraceTypesStay DEF PartsInv
<1>9. QED
  BY <1>2, <1>3, <1>4, <1>5, <1>6, <1>7, <1>8 DEF PartsInv

\* What the run of the parts side by side checks is each part by itself: a
\* behaviour of MCSpec is one of every part's own specification, so all that is
\* proved of a part holds there (the models share no variable).
THEOREM PartsAreTheirSpecifications ==
  MCSpec => Spec /\ RoutingSpec /\ NightSpec /\ RegistrySpec /\ HomeSpec /\ TraceSpec
<1>1. MCInit => Init /\ RoutingInit /\ NightInit /\ RegistryInit /\ HomeInit /\ TraceInit
  BY DEF MCInit
<1>2. [MCNext]_mcVars => /\ [Next]_vars /\ [RoutingNext]_routingVars /\ [NightNext]_nightVars
                         /\ [RegistryNext]_registryVars /\ [HomeNext]_homeVars
                         /\ [TraceNext]_traceVars
  BY PartsMove
<1>3. QED
  BY <1>1, <1>2, PTL
  DEF MCSpec, Spec, RoutingSpec, NightSpec, RegistrySpec, HomeSpec, TraceSpec

\* The properties of all parts, of the specification the run checks.
THEOREM ChatsAreInOrder ==
  MCSpec =>
    /\ ImplementsChatLifecycle
    /\ [](NothingForgotten /\ HouseholdStaysFast /\ OneRunPerSlot /\ JobSessionsGo
          /\ PromptIsRecent /\ AnswersForTheHouse /\ TraceIsTheTurns)
BY PartsAreTheirSpecifications, ConversationsImplementChats, NothingIsForgotten,
   HouseholdChatsAreFast, SlotsRunOnce, SessionsGo, PromptsAreRecent, HouseIsAnswered,
   TracesTellTheTurn, PTL

\* Every reachable state of every part is well typed: chats, routing, the cron
\* runner, the device list, the tools of the house and the trace.
THEOREM TypesCorrect == MCSpec => []TypesOK
<1>1. PartsInv => TypesOK
  BY DEF PartsInv, TypesOK, ChatInv, NightBounds, RegistryInv, HomeTyped, TraceTypes
<1>2. QED
  BY <1>1, PartsStart, PartsStay, PTL DEF MCSpec
=============================================================================
