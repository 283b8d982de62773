----------------------------- MODULE VoiceWiring -----------------------------
(***************************************************************************)
(* The part of the solilos post-deploy script that wires Sol into Home     *)
(* Assistant: a wyoming entry per speech service, an ollama entry with a   *)
(* conversation agent, and the preferred Assist pipeline over them.        *)
(*                                                                         *)
(* The script runs on every deploy and is to be idempotent.  Each call to  *)
(* Home Assistant may fail, or succeed with its reply lost; what is new    *)
(* there registers its entities some time later; the script may die        *)
(* between two calls; and the operator turns speaker identification on and *)
(* off and picks a voice between two deploys.                              *)
(***************************************************************************)
EXTENDS Naturals, Sequences

CONSTANTS
  MaxBlind \* bound: how often the script fails to see what is there

ASSUME VoiceWiringAssumption == MaxBlind \in Nat

Label  == {"whisper", "piper", "openai", "gatekeeper"}
Thing  == Label \cup {"agent"}
Voice  == {"martin", "other"}
NoneYet == "none"
AnyWyoming == "wyoming" \* an entity of that name that is none of the labels

VARIABLES
  wpc,       \* where the script is; "done" after a full pass
  queue,     \* the wyoming entries it has still to ensure, in this order
  chosen,    \* the engines it has found for the pipeline
  speaker,   \* SOLILOS_SPEAKER_ID_ENABLED
  bridge,    \* whether the Martin bridge listens (GPU boxes)
  voice,     \* the voice in app_settings.json
  entries,   \* Home Assistant: wyoming entries, and conversation subentries
  ollama,    \* whether it has the ollama entry
  visible,   \* the entities it has registered
  pipeline,  \* the "Sol" pipeline
  preferred, \* whether it is the preferred one
  blind,     \* history: how often something that is there was not seen
  clean      \* history: nothing has failed in the running pass

ha      == <<entries, ollama, visible, pipeline, preferred>>
choices == <<speaker, bridge, voice>>
wiringVars == <<wpc, queue, chosen, choices, ha, blind, clean>>

Engines == [stt : Label \cup {AnyWyoming}, tts : Label \cup {AnyWyoming},
            voice : Voice \cup {NoneYet}]
Nothing == [stt |-> NoneYet, tts |-> NoneYet, voice |-> NoneYet]

WiringTypeOK ==
  /\ wpc \in {"idle", "entries", "facade", "ollama", "find", "subentry", "poll",
              "engines", "pipeline", "prefer", "done"}
  /\ queue \in Seq(Label)
  /\ chosen \in Engines \cup {Nothing}
  /\ speaker \in BOOLEAN /\ bridge \in BOOLEAN /\ voice \in Voice
  /\ entries \in [Thing -> 0 .. MaxBlind + 1]
  /\ ollama \in BOOLEAN
  /\ visible \subseteq Thing
  /\ pipeline \in Engines \cup {Nothing}
  /\ preferred \in BOOLEAN
  /\ blind \in [Thing -> 0 .. MaxBlind]
  /\ clean \in BOOLEAN

WiringInit ==
  /\ wpc = "idle" /\ queue = <<>> /\ chosen = Nothing
  /\ speaker \in BOOLEAN /\ bridge \in BOOLEAN /\ voice = "martin"
  /\ entries = [t \in Thing |-> 0]
  /\ ollama = FALSE /\ visible = {} /\ pipeline = Nothing /\ preferred = FALSE
  /\ blind = [t \in Thing |-> 0]
  /\ clean = FALSE

-----------------------------------------------------------------------------
(* Between two deploys, and around them.                                   *)

\* wire_voice_pipeline: the entries this box has services for.
StartWiring ==
  /\ wpc \in {"idle", "done"}
  /\ wpc' = "entries"
  /\ queue' = <<"whisper", "piper">> \o (IF bridge THEN <<"openai">> ELSE <<>>)
                                     \o (IF speaker THEN <<"gatekeeper">> ELSE <<>>)
  /\ chosen' = Nothing
  /\ clean' = TRUE
  /\ UNCHANGED <<choices, ha, blind>>

\* The operator changes a setting, or installs a GPU.
Reconfigure ==
  /\ wpc \in {"idle", "done"}
  /\ wpc' = "idle"
  /\ \/ speaker' = ~speaker /\ UNCHANGED <<bridge, voice>>
     \/ bridge' = TRUE /\ UNCHANGED <<speaker, voice>>
     \/ voice' \in Voice /\ UNCHANGED <<speaker, bridge>>
  /\ clean' = FALSE
  /\ UNCHANGED <<queue, chosen, ha, blind>>

\* Home Assistant registers the entity of an entry.
Register(t) ==
  /\ entries[t] > 0
  /\ visible' = visible \cup {t}
  /\ UNCHANGED <<wpc, queue, chosen, choices, entries, ollama, pipeline, preferred,
                 blind, clean>>

StopWiring == wpc' = "idle" /\ queue' = <<>> /\ chosen' = Nothing /\ clean' = FALSE

\* The script returns early, or dies.
GiveUpWiring ==
  /\ wpc \notin {"idle", "done"}
  /\ StopWiring
  /\ UNCHANGED <<choices, ha, blind>>

-----------------------------------------------------------------------------
(* Entries.                                                                *)

\* A thing is created though it may be there already.
CreateBlindly(t) ==
  /\ entries[t] > 0 => blind[t] < MaxBlind
  /\ entries' = [entries EXCEPT ![t] = @ + 1]
  /\ blind' = IF entries[t] > 0 THEN [blind EXCEPT ![t] = @ + 1] ELSE blind

NextEntry == queue' = Tail(queue) /\ wpc' = IF Len(queue) = 1 THEN "facade" ELSE "entries"

\* Mutant of EnsureEntry: no look at the list, the flow being taken to know.
EnsureEntryUnlooked ==
  /\ wpc = "entries"
  /\ NextEntry
  /\ entries[Head(queue)] <= MaxBlind
  /\ entries' = [entries EXCEPT ![Head(queue)] = @ + 1]
  /\ UNCHANGED <<chosen, choices, ollama, visible, pipeline, preferred, blind, clean>>

\* ensure_wyoming_entry: the entry is in the list; or it is not, and the flow
\* creates it or fails; or there is no list, and the flow is run all the same.
EnsureEntry ==
  /\ wpc = "entries"
  /\ NextEntry
  /\ \/ /\ entries[Head(queue)] > 0
        /\ UNCHANGED <<entries, blind, clean>>
     \/ /\ entries[Head(queue)] = 0
        /\ entries' = [entries EXCEPT ![Head(queue)] = 1]
        /\ UNCHANGED <<blind, clean>>
     \/ /\ clean' = FALSE
        /\ UNCHANGED <<entries, blind>>
     \/ /\ clean' = FALSE
        /\ CreateBlindly(Head(queue))
  /\ UNCHANGED <<chosen, choices, ollama, visible, pipeline, preferred>>

\* wait_for_chat.
FacadeUp ==
  /\ wpc = "facade"
  /\ wpc' = "ollama"
  /\ UNCHANGED <<queue, chosen, choices, ha, blind, clean>>

\* The ollama flow knows its entries by their URL: created, or already there.
EnsureOllama ==
  /\ wpc = "ollama"
  /\ ollama' = TRUE
  /\ wpc' = "find"
  /\ UNCHANGED <<queue, chosen, choices, entries, visible, pipeline, preferred,
                 blind, clean>>

\* _find_entity sees the conversation entity; or it is not registered, or the
\* call has failed, and none is seen.
FindAgent ==
  /\ wpc = "find"
  /\ \/ "agent" \in visible /\ wpc' = "engines" /\ UNCHANGED clean
     \/ wpc' = "subentry" /\ clean' = (clean /\ "agent" \notin visible)
  /\ UNCHANGED <<queue, chosen, choices, ha, blind>>

\* The subentry is created, if its entry is loaded by the fifth attempt.
CreateAgent ==
  /\ wpc = "subentry"
  /\ CreateBlindly("agent")
  /\ wpc' = "poll" \/ wpc' = "idle"
  /\ clean' = (clean /\ wpc' = "poll")
  /\ UNCHANGED <<queue, chosen, choices, ollama, visible, pipeline, preferred>>

\* The entity turns up within the twenty seconds the script looks for it.
PollAgent ==
  /\ wpc = "poll"
  /\ "agent" \in visible
  /\ wpc' = "engines"
  /\ UNCHANGED <<queue, chosen, choices, ha, blind, clean>>

-----------------------------------------------------------------------------
(* The pipeline.                                                           *)

\* The gatekeeper if speakers are to be told apart and it is there, else
\* whisper; the Martin bridge if it is there, else piper.
Stt == IF speaker /\ "gatekeeper" \in visible THEN "gatekeeper" ELSE "whisper"
Tts == IF "openai" \in visible THEN "openai" ELSE "piper"

\* What a look may find, the call for a better one having failed: any wyoming
\* entity stands in for whisper, without a gatekeeper, and for piper.
SttFound == IF speaker THEN visible \cap {"gatekeeper", "whisper"}
            ELSE (visible \cap {"whisper"}) \cup {AnyWyoming}
TtsFound == (visible \cap {"openai", "piper"}) \cup {AnyWyoming}

\* selected_tts_voice: the default if the chat container cannot be asked; it is
\* asked for only with the bridge.
SelectedVoice(tts) == IF tts = "openai" THEN {voice, "martin"} ELSE {NoneYet}

\* The first of ten looks that sees an STT and a TTS entity settles both.
FindEngines ==
  /\ wpc = "engines"
  /\ \E s \in SttFound, t \in TtsFound : \E v \in SelectedVoice(t) :
       /\ chosen' = [stt |-> s, tts |-> t, voice |-> v]
       /\ clean' = (/\ clean /\ s = Stt /\ t = Tts /\ v \in {voice, NoneYet}
                    /\ \A l \in Label : entries[l] > 0 => l \in visible)
  /\ wpc' = "pipeline"
  /\ UNCHANGED <<queue, choices, ha, blind>>

\* Mutant of SavePipeline: an existing pipeline converges on the TTS only.
SavePipelineTts ==
  /\ wpc = "pipeline"
  /\ pipeline' = IF pipeline = Nothing THEN chosen
                 ELSE [chosen EXCEPT !.stt = IF pipeline.tts # chosen.tts THEN @
                                             ELSE pipeline.stt]
  /\ wpc' = "prefer"
  /\ UNCHANGED <<queue, chosen, choices, entries, ollama, visible, preferred, blind, clean>>

\* ensure_assist_pipeline: create, or update what differs.
SavePipeline ==
  /\ wpc = "pipeline"
  /\ pipeline' = chosen
  /\ wpc' = "prefer"
  /\ UNCHANGED <<queue, chosen, choices, entries, ollama, visible, preferred, blind, clean>>

\* set_preferred; the selects of the Voice PE follow.
Prefer ==
  /\ wpc = "prefer"
  /\ preferred' = TRUE
  /\ wpc' = "done" /\ chosen' = Nothing
  /\ UNCHANGED <<queue, choices, entries, ollama, visible, pipeline, blind, clean>>

-----------------------------------------------------------------------------

WiringNext ==
  \/ StartWiring \/ Reconfigure \/ GiveUpWiring
  \/ \E t \in Thing : Register(t)
  \/ EnsureEntry \/ FacadeUp \/ EnsureOllama \/ FindAgent \/ CreateAgent \/ PollAgent
  \/ FindEngines \/ SavePipeline \/ Prefer

WiringSpec == WiringInit /\ [][WiringNext]_wiringVars

-----------------------------------------------------------------------------
(* Safety.                                                                 *)

\* However deploys are cut short and repeated, there is one entry per service
\* and one agent, except where the script failed to see what was there
\* (ensure_wyoming_entry: idempotency is a title check).
NoDuplicates == \A t \in Thing : entries[t] <= 1 + blind[t]

\* A pass in which nothing fails leaves the preferred pipeline on the engines
\* the operator's settings call for, whatever earlier passes have left there
\* (ensure_assist_pipeline: converge on the preferred TTS and STT).
CleanPassConverges ==
  wpc = "done" /\ clean =>
    /\ preferred
    /\ pipeline.stt = IF speaker THEN "gatekeeper" ELSE "whisper"
    /\ bridge => pipeline.tts = "openai" /\ pipeline.voice = voice
=============================================================================
