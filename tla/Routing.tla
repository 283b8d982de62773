------------------------------- MODULE Routing -------------------------------
(***************************************************************************)
(* Which gateway answers a turn.  Every resident's pinned "Zuhause" chat   *)
(* is answered by the fast household gateway; any other chat follows the   *)
(* model preference, the persona the request names, and what the server    *)
(* remembers of the chat's creation.                                       *)
(*                                                                         *)
(* What it remembers it keeps in three sets in memory; the topics of the   *)
(* chats and the settings are on disk.  Routing a turn is a function of    *)
(* both, so a turn on a chat that exists is no step of this module.        *)
(***************************************************************************)
CONSTANTS
  User,          \* uids
  Operator,      \* those in the admin group of the identity provider
  Chat,          \* session ids
  DurableChat,   \* household_session_id, of the residents who speak
  HouseholdSlug, \* HOUSEHOLD_TOPIC
  OtherSlug,     \* any other topic
  NoSlug         \* no topic

ASSUME RoutingAssumption ==
  /\ Operator \subseteq User
  /\ DOMAIN DurableChat \subseteq User
  /\ \A u \in DOMAIN DurableChat : DurableChat[u] \in Chat
  /\ HouseholdSlug # OtherSlug /\ NoSlug \notin {HouseholdSlug, OtherSlug}

Slug    == {HouseholdSlug, OtherSlug}
Persona == {"none", "deep", "maintenance"}
Choice  == {"fast", "thorough"}

VARIABLES
  known,    \* ids of the chats that have been created
  pins,     \* household_sessions, admin_sessions, deep_sessions
  tags,     \* session_topics: for each chat and slug, <<owner, role>> or none
  pref,     \* other_model_pref, cached in memory
  settings, \* the preference in app_settings.json
  zuhause,  \* history: <<u, c>> where u has made c a household chat
  fresh     \* history: those whose first turn did so in this life of the process

routingVars == <<known, pins, tags, pref, settings, zuhause, fresh>>

-----------------------------------------------------------------------------
(* The topics of a chat.  The key of session_topics is the chat and the    *)
(* slug: a slug of a chat belongs to one resident at a time.               *)

Untagged == <<>>
Tag      == {Untagged} \cup (User \X {"primary", "secondary"})

Primary(c, u) == {g \in Slug : tags[c, g] = <<u, "primary">>}

\* set_primary: the resident's old primary, and the slug's own row, go first.
\* If another resident holds the slug the INSERT violates the key, and the
\* transaction is rolled back.
SetPrimary(c, slug, u) ==
  IF tags[c, slug] # Untagged /\ tags[c, slug][1] # u
  THEN tags
  ELSE [k \in Chat \X Slug |->
          IF k = <<c, slug>> THEN <<u, "primary">>
          ELSE IF k[1] = c /\ tags[k] = <<u, "primary">> THEN Untagged ELSE tags[k]]

-----------------------------------------------------------------------------
(* The gateway of a turn.                                                  *)

Durably(u, c) == u \in DOMAIN DurableChat /\ DurableChat[u] = c

\* is_household_chat.  A read of session_topics that fails (the database is
\* locked) is answered as "no topics".
IsHousehold(u, c, slug, readable) ==
  \/ slug = HouseholdSlug
  \/ Durably(u, c)
  \/ c \in pins["household"]
  \/ readable /\ HouseholdSlug \in Primary(c, u)

\* gateway_for, once the household chats are out of the way.
OtherGateway(u, c, persona) ==
  IF u \in Operator /\ (c \in pins["admin"] \/ persona = "maintenance") THEN "admin"
  ELSE IF c \in pins["deep"] \/ persona = "deep" \/ pref = "thorough" THEN "deep"
  ELSE "household"

Gateway(u, c, persona, slug, readable) ==
  IF IsHousehold(u, c, slug, readable) THEN "household" ELSE OtherGateway(u, c, persona)

-----------------------------------------------------------------------------
(* Types.                                                                  *)

Default == "thorough"

RoutingTypeOK ==
  /\ known \subseteq Chat
  /\ pins \in [{"household", "admin", "deep"} -> SUBSET Chat]
  /\ tags \in [Chat \X Slug -> Tag]
  /\ pref \in Choice
  /\ settings \in Choice
  /\ zuhause \subseteq User \X Chat
  /\ fresh \subseteq User \X Chat

NoPins == [g \in {"household", "admin", "deep"} |-> {}]

RoutingInit ==
  /\ known = {DurableChat[u] : u \in DOMAIN DurableChat}
  /\ pins = NoPins
  /\ tags = [k \in Chat \X Slug |-> Untagged]
  /\ pref = Default
  /\ settings = Default
  /\ zuhause = {<<u, DurableChat[u]>> : u \in DOMAIN DurableChat}
  /\ fresh = {}

-----------------------------------------------------------------------------
(* New chats.                                                              *)

\* Where the first turn of a chat is routed to, and what that pins.
FirstGateway(u, c, persona, slug) ==
  IF slug = HouseholdSlug THEN "household" ELSE OtherGateway(u, c, persona)

Pinned(c, gw, slug) ==
  [g \in DOMAIN pins |->
     IF g = gw /\ (g = "household" => slug = HouseholdSlug) THEN pins[g] \cup {c} ELSE pins[g]]

\* u's first turn has made c a household chat, on disk too.
MadeHousehold(u, c, slug) ==
  IF slug = HouseholdSlug /\ tags'[c, slug] = <<u, "primary">> THEN {<<u, c>>} ELSE {}

\* Mutant of FirstTurn: a household chat is not pinned.
FirstTurnUnpinned(u, c, persona, slug) ==
  /\ c \in Chat \ known
  /\ known' = known \cup {c}
  /\ pins' = IF slug = HouseholdSlug THEN pins
             ELSE Pinned(c, FirstGateway(u, c, persona, slug), slug)
  /\ tags' \in IF slug = NoSlug THEN {tags} ELSE {tags, SetPrimary(c, slug, u)}
  /\ zuhause' = zuhause \cup MadeHousehold(u, c, slug)
  /\ fresh' = fresh \cup MadeHousehold(u, c, slug)
  /\ UNCHANGED <<pref, settings>>

\* create_turn_session: the chat is pinned where its first turn is routed to,
\* if that is not what an unknown chat gets anyway, and its topic is stored.
\* If that raises, the pinned chat is left without its topic.
FirstTurn(u, c, persona, slug) ==
  /\ c \in Chat \ known
  /\ known' = known \cup {c}
  /\ pins' = Pinned(c, FirstGateway(u, c, persona, slug), slug)
  /\ tags' \in IF slug = NoSlug THEN {tags} ELSE {tags, SetPrimary(c, slug, u)}
  /\ zuhause' = zuhause \cup MadeHousehold(u, c, slug)
  /\ fresh' = fresh \cup MadeHousehold(u, c, slug)
  /\ UNCHANGED <<pref, settings>>

\* POST /api/sessions: a chat without a turn, a maintenance chat for operators.
\* With no persona it is also the first turn of an incognito chat, which is
\* neither pinned nor tagged.
CreateChat(u, c, persona) ==
  /\ c \in Chat \ known
  /\ persona = "maintenance" => u \in Operator
  /\ known' = known \cup {c}
  /\ pins' = IF persona = "maintenance" THEN [pins EXCEPT !["admin"] = @ \cup {c}]
             ELSE pins
  /\ UNCHANGED <<tags, pref, settings, zuhause, fresh>>

\* maybe_compact: a turn on c, once c is too long, goes on in a chat of its own,
\* d, which takes over neither the pins nor the topics of c.
ContinueChat(u, c, d) ==
  /\ c \in known
  /\ d \in Chat \ known
  /\ known' = known \cup {d}
  /\ UNCHANGED <<pins, tags, pref, settings, zuhause, fresh>>

-----------------------------------------------------------------------------
(* POST /api/sessions/{id}/topics, by whichever resident.                  *)

Retag(u, c, slug) ==
  /\ c \in known
  /\ tags' = SetPrimary(c, slug, u)
  /\ zuhause' = IF tags'[c, slug] # <<u, "primary">> THEN zuhause
                ELSE IF slug = HouseholdSlug THEN zuhause \cup {<<u, c>>}
                ELSE zuhause \ ({<<u, c>>} \ {<<v, DurableChat[v]>> : v \in DOMAIN DurableChat})
  /\ UNCHANGED <<known, pins, pref, settings, fresh>>

\* add_secondary: nothing if the chat has the slug already.
AddSecondary(u, c, slug) ==
  /\ c \in known
  /\ tags[c, slug] = Untagged
  /\ tags' = [tags EXCEPT ![<<c, slug>>] = <<u, "secondary">>]
  /\ UNCHANGED <<known, pins, pref, settings, zuhause, fresh>>

\* remove_topic: only a row of the resident's own.
RemoveTopic(u, c, slug) ==
  /\ c \in known
  /\ tags[c, slug] # Untagged /\ tags[c, slug][1] = u
  /\ tags' = [tags EXCEPT ![<<c, slug>>] = Untagged]
  /\ zuhause' = IF slug # HouseholdSlug THEN zuhause
                ELSE zuhause \ ({<<u, c>>} \ {<<v, DurableChat[v]>> : v \in DOMAIN DurableChat})
  /\ UNCHANGED <<known, pins, pref, settings, fresh>>

-----------------------------------------------------------------------------
(* PUT /api/model: the preference is cached, and stored.                   *)

\* What app_settings.json says after a write of v: v, or, the write refused,
\* what it said, or, truncated and not written, nothing.
Written(v) == {v, settings, Default}

PutModel(v) ==
  /\ pref' = v
  /\ settings' \in Written(v)
  /\ UNCHANGED <<known, pins, tags, zuhause, fresh>>

-----------------------------------------------------------------------------
(* The process dies and comes back: the pins are gone.                     *)

\* If it dies while app_settings.json, truncated, is being written, _read takes
\* the file for empty.
RoutingRestart ==
  /\ settings' \in {settings, Default}
  /\ pref' = settings'
  /\ pins' = NoPins
  /\ fresh' = {}
  /\ UNCHANGED <<known, tags, zuhause>>

-----------------------------------------------------------------------------

RoutingNext ==
  \/ \E u \in User, c \in Chat :
       \/ \E p \in Persona, g \in Slug \cup {NoSlug} : FirstTurn(u, c, p, g)
       \/ \E p \in Persona : CreateChat(u, c, p)
       \/ \E d \in Chat : ContinueChat(u, c, d)
       \/ \E g \in Slug : Retag(u, c, g) \/ AddSecondary(u, c, g) \/ RemoveTopic(u, c, g)
  \/ \E v \in Choice : PutModel(v)
  \/ RoutingRestart

RoutingSpec == RoutingInit /\ [][RoutingNext]_routingVars

-----------------------------------------------------------------------------
(* Safety.                                                                 *)

\* "The pinned household chat is ALWAYS the fast gateway": whatever persona a
\* request names, whoever tags the chat besides, whatever happens to the
\* settings and however often the process restarts.  While session_topics
\* cannot be read it still holds of the durable chat, and of a chat whose
\* first turn this process has seen.
HouseholdStaysFast ==
  \A uc \in zuhause, p \in Persona, g \in Slug \cup {NoSlug}, readable \in BOOLEAN :
    readable \/ uc \in fresh \/ Durably(uc[1], uc[2]) =>
      Gateway(uc[1], uc[2], p, g, readable) = "household"
=============================================================================
