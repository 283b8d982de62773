------------------------------- MODULE MCHouse -------------------------------
(* What surrounds the chats: who speaks, who becomes a resident, what is   *)
(* seen and heard of a turn elsewhere, and the scripts that deploy it all. *)
(* They share no variable here, so a behaviour is one of the eight that    *)
(* its initial state selects, and the others stand still.                  *)
EXTENDS SpokenTurn, Approval, Mirror, Speech, Numerals,
        VoiceWiring, SolilosDeploy, OllamaDeploy

VARIABLE part

talkVars == <<spokenVars, approvalVars>>
heardVars == <<speechVars, numeralVars>>
scriptVars == <<wiringVars, deployVars, ollamaVars>>

mcVars == <<talkVars, mirrorVars, heardVars, scriptVars, part>>

\* Everybody says the same.
SameWords == [t \in Utterance |-> "licht an"]

\* A text that is no sentence, one with a sentence of signs, and a longer one.
Replies == {<<"letter">>, <<"sentence", "signs">>,
            <<"letter", "sentence", "sentence">>}

MCInit ==
  /\ part \in {"spoken", "approval", "wiring", "deploy", "ollama",
               "mirror", "speech", "numerals"}
  /\ SpokenInit /\ ApprovalInit /\ WiringInit /\ DeployInit /\ OllamaInit
  /\ MirrorInit /\ SpeechInit /\ NumeralsInit
  /\ part # "wiring" => ~speaker /\ ~bridge
  /\ part # "deploy" => haToken = 0
  /\ part # "speech" => workers = 1
  /\ part # "numerals" => number = 0 /\ form = "cardinal"

Still(p, vs) == part = p /\ UNCHANGED <<vs, part>>

Spoken   == /\ Still("spoken", <<approvalVars, mirrorVars, heardVars, scriptVars>>)
            /\ SpokenNext
Approves == /\ Still("approval", <<spokenVars, mirrorVars, heardVars, scriptVars>>)
            /\ ApprovalNext
Mirrors  == /\ Still("mirror", <<talkVars, heardVars, scriptVars>>)
            /\ MirrorNext
Speaks   == /\ Still("speech", <<talkVars, mirrorVars, numeralVars, scriptVars>>)
            /\ SpeechNext
Counts   == /\ Still("numerals", <<talkVars, mirrorVars, speechVars, scriptVars>>)
            /\ NumeralsNext
Wires    == /\ Still("wiring", <<talkVars, mirrorVars, heardVars, deployVars, ollamaVars>>)
            /\ WiringNext
Deploys  == /\ Still("deploy", <<talkVars, mirrorVars, heardVars, wiringVars, ollamaVars>>)
            /\ DeployNext
Serves   == /\ Still("ollama", <<talkVars, mirrorVars, heardVars, wiringVars, deployVars>>)
            /\ OllamaNext

MCNext == \/ Spoken \/ Approves \/ Mirrors \/ Speaks \/ Counts
          \/ Wires \/ Deploys \/ Serves

MCSpec == MCInit /\ [][MCNext]_mcVars

\* The types of the part that moves; the others stand where it has found them.
TypesOK ==
  CASE part = "spoken"   -> SpokenTypeOK
    [] part = "approval" -> ApprovalTypeOK
    [] part = "mirror"   -> MirrorTypeOK
    [] part = "speech"   -> SpeechTypeOK
    [] part = "numerals" -> NumeralsTypeOK
    [] part = "wiring"   -> WiringTypeOK
    [] part = "deploy"   -> DeployTypeOK
    [] part = "ollama"   -> OllamaTypeOK
=============================================================================
