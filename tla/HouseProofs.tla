------------------------------ MODULE HouseProofs ------------------------------
(***************************************************************************)
(* Proofs about the deploy scripts, for any number of deploys and of       *)
(* scripts cut short: what VoiceWiring, SolilosDeploy and OllamaDeploy     *)
(* leave behind, whatever earlier passes have left there.  At the end, the *)
(* numerals, which read back as what was written, and the types of         *)
(* everything that surrounds the chats.                                    *)
(***************************************************************************)
EXTENDS MCHouse, VoiceProofs, MirrorProofs, SequenceTheorems, TLAPS

-----------------------------------------------------------------------------
(* VoiceWiring.                                                            *)

\* What a clean pass ensures, once it is past the wyoming entries.
Needed == (IF speaker THEN {"gatekeeper"} ELSE {}) \cup (IF bridge THEN {"openai"} ELSE {})

InQueue(l) == \E i \in DOMAIN queue : queue[i] = l

\* The pass that runs has found or created what the settings call for, or has
\* it still in its queue.
EntriesInv ==
  /\ wpc = "entries" => queue \in Seq(Label) /\ queue # <<>>
  /\ clean => wpc # "idle"
  /\ clean => \A l \in Needed : entries[l] > 0 \/ (wpc = "entries" /\ InQueue(l))

\* What the settings call for.
Right(p) ==
  /\ p.stt = IF speaker THEN "gatekeeper" ELSE "whisper"
  /\ bridge => p.tts = "openai" /\ p.voice = voice

EnginesInv ==
  clean => /\ wpc = "pipeline" => Right(chosen)
           /\ wpc \in {"prefer", "done"} => Right(pipeline)
           /\ wpc = "done" => preferred

WiringInv ==
  /\ entries \in [Thing -> Nat] /\ blind \in [Thing -> Nat]
  /\ speaker \in BOOLEAN /\ bridge \in BOOLEAN /\ clean \in BOOLEAN
  /\ NoDuplicates /\ EntriesInv /\ EnginesInv

LEMMA WiringStart == WiringInit => WiringInv
<1> SUFFICES ASSUME WiringInit PROVE WiringInv
  OBVIOUS
<1>1. /\ entries = [t \in Thing |-> 0] /\ blind = [t \in Thing |-> 0]
      /\ clean = FALSE /\ wpc = "idle" /\ speaker \in BOOLEAN /\ bridge \in BOOLEAN
  BY DEF WiringInit
<1>2. entries \in [Thing -> Nat] /\ blind \in [Thing -> Nat] /\ NoDuplicates
  BY <1>1 DEF NoDuplicates
<1>3. EntriesInv /\ EnginesInv
  BY <1>1 DEF EntriesInv, EnginesInv
<1> QED
  BY <1>1, <1>2, <1>3 DEF WiringInv

\* The queue of a pass: no entry is left out that the settings call for.
Services(b, s) == <<"whisper", "piper">> \o (IF b THEN <<"openai">> ELSE <<>>)
                                         \o (IF s THEN <<"gatekeeper">> ELSE <<>>)

LEMMA QueueIsComplete ==
  ASSUME NEW b \in BOOLEAN, NEW s \in BOOLEAN
  PROVE  /\ Services(b, s) \in Seq(Label) /\ Services(b, s) # <<>>
         /\ b => \E i \in DOMAIN Services(b, s) : Services(b, s)[i] = "openai"
         /\ s => \E i \in DOMAIN Services(b, s) : Services(b, s)[i] = "gatekeeper"
<1> DEFINE w == <<"whisper", "piper">>
           x == IF b THEN <<"openai">> ELSE <<>>
           y == IF s THEN <<"gatekeeper">> ELSE <<>>
           p == w \o x
<1>1. w \in Seq(Label) /\ Len(w) = 2
  BY DEF Label
<1>2. x \in Seq(Label) /\ Len(x) \in Nat /\ (b => Len(x) = 1 /\ x[1] = "openai")
  <2>1. CASE b
    BY <2>1 DEF Label
  <2>2. CASE ~b
    BY <2>2
  <2> QED
    BY <2>1, <2>2
<1>3. y \in Seq(Label) /\ Len(y) \in Nat /\ (s => Len(y) = 1 /\ y[1] = "gatekeeper")
  <2>1. CASE s
    BY <2>1 DEF Label
  <2>2. CASE ~s
    BY <2>2
  <2> QED
    BY <2>1, <2>2
<1> HIDE DEF w, x, y
<1>4. p \in Seq(Label) /\ Len(p) = 2 + Len(x) /\ (b => p[3] = "openai")
  <2>1. /\ w \o x \in Seq(Label) /\ Len(w \o x) = Len(w) + Len(x)
        /\ \A i \in 1 .. Len(w) + Len(x) :
             (w \o x)[i] = IF i <= Len(w) THEN w[i] ELSE x[i - Len(w)]
    <3> HIDE DEF p
    <3> QED
      BY <1>1, <1>2, ConcatProperties
  <2>2. ASSUME b PROVE (w \o x)[3] = "openai"
    <3>1. Len(x) = 1 /\ x[1] = "openai" /\ Len(w) = 2
      BY <1>1, <1>2, <2>2
    <3>2. 3 \in 1 .. Len(w) + Len(x) /\ ~(3 <= Len(w)) /\ 3 - Len(w) = 1
      BY <3>1
    <3> QED
      BY <2>1, <3>1, <3>2
  <2> QED
    BY <1>1, <2>1, <2>2
<1> HIDE DEF p
<1>5. /\ p \o y \in Seq(Label) /\ Len(p \o y) = Len(p) + Len(y)
      /\ b => (p \o y)[3] = "openai"
      /\ s => (p \o y)[Len(p) + 1] = "gatekeeper"
  BY <1>2, <1>3, <1>4
<1>6. p \o y # <<>>
  BY <1>2, <1>3, <1>4, <1>5
<1>7. /\ b => 3 \in DOMAIN (p \o y)
      /\ s => Len(p) + 1 \in DOMAIN (p \o y)
  BY <1>2, <1>3, <1>4, <1>5
<1>8. /\ b => \E i \in DOMAIN (p \o y) : (p \o y)[i] = "openai"
      /\ s => \E i \in DOMAIN (p \o y) : (p \o y)[i] = "gatekeeper"
  BY <1>5, <1>7
<1> QED
  BY <1>5, <1>6, <1>8 DEF p, w, x, y, Services

\* Entries are only added: one where none is seen, a second where one is not seen.
LEMMA CreatedBlindly ==
  ASSUME WiringInv, NEW t, CreateBlindly(t), t \in Thing
  PROVE  /\ entries' \in [Thing -> Nat] /\ blind' \in [Thing -> Nat] /\ NoDuplicates'
         /\ \A l \in Thing : entries'[l] >= entries[l]
<1>0. /\ entries \in [Thing -> Nat] /\ blind \in [Thing -> Nat]
      /\ \A l \in Thing : entries[l] <= 1 + blind[l]
  BY DEF WiringInv, NoDuplicates
<1>1. entries' \in [Thing -> Nat] /\ blind' \in [Thing -> Nat]
  BY <1>0 DEF CreateBlindly
<1>2. ASSUME NEW l \in Thing PROVE entries'[l] <= 1 + blind'[l] /\ entries'[l] >= entries[l]
  <2>1. CASE l = t
    BY <1>0, <2>1 DEF CreateBlindly
  <2>2. CASE l # t
    BY <1>0, <2>2 DEF CreateBlindly
  <2> QED
    BY <2>1, <2>2
<1> QED
  BY <1>1, <1>2 DEF NoDuplicates

LEMMA WiringStep == WiringInv /\ [WiringNext]_wiringVars => WiringInv'
<1> SUFFICES ASSUME WiringInv, [WiringNext]_wiringVars PROVE WiringInv'
  OBVIOUS
<1>t. /\ entries \in [Thing -> Nat] /\ blind \in [Thing -> Nat]
      /\ speaker \in BOOLEAN /\ bridge \in BOOLEAN /\ clean \in BOOLEAN
      /\ NoDuplicates /\ EntriesInv /\ EnginesInv
  BY DEF WiringInv
<1>l. Label \subseteq Thing /\ Needed \subseteq Label /\ "agent" \in Thing /\ "agent" \notin Label
  BY DEF Thing, Label, Needed
<1>1. CASE StartWiring
  <2>1. /\ wpc' = "entries" /\ clean' = TRUE
        /\ UNCHANGED <<speaker, bridge, entries, blind>>
        /\ queue' = <<"whisper", "piper">> \o (IF bridge THEN <<"openai">> ELSE <<>>)
                                           \o (IF speaker THEN <<"gatekeeper">> ELSE <<>>)
    BY <1>1 DEF StartWiring, choices, ha
  <2>2. /\ queue' \in Seq(Label) /\ queue' # <<>>
        /\ bridge => InQueue("openai")'
        /\ speaker => InQueue("gatekeeper")'
    <3> DEFINE q == Services(bridge, speaker)
    <3>1. /\ q \in Seq(Label) /\ q # <<>>
          /\ bridge => \E i \in DOMAIN q : q[i] = "openai"
          /\ speaker => \E i \in DOMAIN q : q[i] = "gatekeeper"
      BY <1>t, QueueIsComplete
    <3>2. queue' = q
      BY <2>1 DEF Services
    <3> HIDE DEF q
    <3> QED
      BY <3>1, <3>2 DEF InQueue
  <2>3. \A l \in Needed' : InQueue(l)'
    BY <2>1, <2>2 DEF Needed
  <2> QED
    BY <1>t, <2>1, <2>2, <2>3 DEF WiringInv, NoDuplicates, EntriesInv, EnginesInv
<1>2. CASE Reconfigure \/ GiveUpWiring
  <2>1. /\ wpc' = "idle" /\ clean' = FALSE /\ UNCHANGED <<entries, blind>>
        /\ speaker' \in BOOLEAN /\ bridge' \in BOOLEAN
    BY <1>2, <1>t DEF Reconfigure, GiveUpWiring, StopWiring, choices, ha
  <2> QED
    BY <1>t, <2>1 DEF WiringInv, NoDuplicates, EntriesInv, EnginesInv
<1>3. ASSUME NEW t \in Thing, Register(t) PROVE WiringInv'
  BY <1>3, <1>t
  DEF Register, choices, WiringInv, NoDuplicates, EntriesInv, EnginesInv, Needed, InQueue, Right
<1>4. CASE EnsureEntry
  <2> DEFINE h == Head(queue)
  <2>1. /\ wpc = "entries" /\ queue \in Seq(Label) /\ queue # <<>> /\ h \in Label /\ h \in Thing
        /\ queue' = Tail(queue) /\ wpc' = IF Len(queue) = 1 THEN "facade" ELSE "entries"
        /\ UNCHANGED <<speaker, bridge, voice, chosen, pipeline, preferred>>
    BY <1>4, <1>t, <1>l DEF EnsureEntry, NextEntry, EntriesInv, choices
  <2> HIDE DEF h
  \* Whatever happens to the entry of the head, it is there if the pass stays clean.
  <2>2. /\ entries' \in [Thing -> Nat] /\ blind' \in [Thing -> Nat] /\ NoDuplicates'
        /\ \A l \in Thing : entries'[l] >= entries[l]
        /\ clean' \in BOOLEAN /\ (clean' => clean /\ entries'[h] > 0)
    <3>1. CASE entries[h] > 0 /\ UNCHANGED <<entries, blind, clean>>
      BY <1>t, <2>1, <3>1 DEF NoDuplicates
    <3>2. CASE /\ entries[h] = 0 /\ entries' = [entries EXCEPT ![h] = 1]
               /\ UNCHANGED <<blind, clean>>
      <4>1. /\ entries' \in [Thing -> Nat] /\ entries'[h] = 1
            /\ \A l \in Thing \ {h} : entries'[l] = entries[l]
        BY <1>t, <2>1, <3>2
      <4>2. blind[h] >= 0
        BY <1>t, <2>1
      <4> QED
        BY <1>t, <2>1, <3>2, <4>1, <4>2 DEF NoDuplicates
    <3>3. CASE clean' = FALSE /\ UNCHANGED <<entries, blind>>
      <4>1. /\ entries' = entries /\ blind' = blind
            /\ \A l \in Thing : entries[l] \in Nat
        BY <1>t, <3>3
      <4>2. /\ entries' \in [Thing -> Nat] /\ blind' \in [Thing -> Nat] /\ NoDuplicates'
            /\ \A l \in Thing : entries'[l] >= entries[l]
        BY <1>t, <4>1 DEF NoDuplicates
      <4>3. clean' = FALSE
        BY <3>3
      <4> QED
        BY <4>2, <4>3
    <3>4. CASE clean' = FALSE /\ CreateBlindly(h)
      BY <2>1, <3>4, CreatedBlindly
    <3> QED
      BY <1>4, <3>1, <3>2, <3>3, <3>4 DEF EnsureEntry, h
  <2>3. wpc' = "entries" => queue' \in Seq(Label) /\ queue' # <<>>
    <3>1. ASSUME Len(queue) # 1 PROVE Tail(queue) \in Seq(Label) /\ Tail(queue) # <<>>
      <4>1. Len(queue) \in Nat /\ Len(queue) # 0
        BY <2>1
      <4>2. Tail(queue) \in Seq(Label) /\ Len(Tail(queue)) = Len(queue) - 1
        BY <2>1
      <4>3. Len(Tail(queue)) # 0
        BY <3>1, <4>1, <4>2
      <4>4. Len(<<>>) = 0
        OBVIOUS
      <4>5. Tail(queue) # <<>>
        BY <4>3, <4>4
      <4> QED
        BY <4>2, <4>5
    <3> QED
      BY <2>1, <3>1
  <2>4. ASSUME clean', NEW l \in Needed PROVE entries'[l] > 0 \/ (wpc' = "entries" /\ InQueue(l)')
    <3>1. entries[l] \in Nat /\ entries'[l] \in Nat /\ entries'[l] >= entries[l]
      BY <1>l, <1>t, <2>2
    <3>2. CASE entries[l] > 0
      BY <3>1, <3>2
    <3>3. CASE InQueue(l) /\ l # h
      <4>1. PICK i \in DOMAIN queue : queue[i] = l
        BY <3>3 DEF InQueue
      <4>2. i # 1 /\ i \in 1 .. Len(queue) /\ Len(queue) \in Nat
        BY <2>1, <3>3, <4>1 DEF h
      <4>3. i - 1 \in DOMAIN Tail(queue) /\ Tail(queue)[i - 1] = l
        BY <2>1, <4>1, <4>2
      <4>4. Len(queue) # 1
        BY <4>2
      <4> QED
        BY <2>1, <4>3, <4>4 DEF InQueue
    <3> QED
      BY <1>t, <2>2, <2>4, <3>2, <3>3 DEF EntriesInv
  <2>5. Needed' = Needed
    BY <2>1 DEF Needed
  <2> QED
    BY <1>t, <2>1, <2>2, <2>3, <2>4, <2>5 DEF WiringInv, EntriesInv, EnginesInv
\* A step of the pass behind the entries, that leaves them or adds an agent.
<1>b. ASSUME wpc \notin {"idle", "entries", "done"}, wpc' \notin {"entries"},
             clean' \in BOOLEAN, clean' => clean /\ wpc' # "idle",
             UNCHANGED <<speaker, bridge, voice>>,
             entries' \in [Thing -> Nat], blind' \in [Thing -> Nat], NoDuplicates',
             \A l \in Thing : entries'[l] >= entries[l],
             EnginesInv'
      PROVE  WiringInv'
  <2>1. ASSUME clean', NEW l \in Needed PROVE entries'[l] > 0
    <3>1. entries[l] \in Nat /\ entries'[l] \in Nat /\ entries'[l] >= entries[l] /\ entries[l] > 0
      BY <1>b, <1>l, <1>t, <2>1 DEF EntriesInv
    <3> QED
      BY <3>1
  <2>2. Needed' = Needed
    BY <1>b DEF Needed
  <2> QED
    BY <1>b, <1>t, <2>1, <2>2 DEF WiringInv, EntriesInv
<1>s. entries' = entries /\ blind' = blind =>
        /\ entries' \in [Thing -> Nat] /\ blind' \in [Thing -> Nat] /\ NoDuplicates'
        /\ \A l \in Thing : entries'[l] >= entries[l]
  BY <1>t DEF NoDuplicates
<1>5. CASE FacadeUp \/ EnsureOllama \/ FindAgent \/ PollAgent
  <2>1. /\ wpc \in {"facade", "ollama", "find", "poll"}
        /\ wpc' \in {"ollama", "find", "engines", "subentry"}
        /\ clean' \in BOOLEAN /\ (clean' => clean)
        /\ UNCHANGED <<speaker, bridge, voice, entries, blind>>
    <3>1. CASE FindAgent
      <4>1. clean' = clean \/ clean' = (clean /\ "agent" \notin visible)
        BY <3>1 DEF FindAgent
      <4>2. CASE clean' = clean
        BY <1>t, <3>1, <4>2 DEF FindAgent, choices, ha
      <4>3. ASSUME clean' = (clean /\ "agent" \notin visible)
            PROVE  clean' \in BOOLEAN /\ (clean' => clean)
        BY <4>3
      <4> QED
        BY <3>1, <4>1, <4>2, <4>3 DEF FindAgent, choices, ha
    <3>2. CASE FacadeUp
      BY <3>2, <1>t DEF FacadeUp, choices, ha
    <3>3. CASE EnsureOllama
      BY <3>3, <1>t DEF EnsureOllama, choices
    <3>4. CASE PollAgent
      BY <3>4, <1>t DEF PollAgent, choices, ha
    <3> QED
      BY <1>5, <3>1, <3>2, <3>3, <3>4
  <2>2. EnginesInv'
    BY <2>1 DEF EnginesInv
  <2> QED
    BY <1>b, <1>s, <2>1, <2>2
<1>6. CASE CreateAgent
  <2>1. /\ wpc = "subentry" /\ wpc' \in {"poll", "idle"} /\ clean' = (clean /\ wpc' = "poll")
        /\ UNCHANGED <<speaker, bridge, voice>> /\ CreateBlindly("agent")
    BY <1>6 DEF CreateAgent, choices
  <2>2. EnginesInv'
    BY <2>1 DEF EnginesInv
  <2>3. /\ entries' \in [Thing -> Nat] /\ blind' \in [Thing -> Nat] /\ NoDuplicates'
        /\ \A l \in Thing : entries'[l] >= entries[l]
    BY <1>l, <2>1, CreatedBlindly
  <2> QED
    BY <1>b, <1>t, <2>1, <2>2, <2>3
<1>7. CASE FindEngines
  <2>1. /\ wpc = "engines" /\ wpc' = "pipeline"
        /\ UNCHANGED <<speaker, bridge, voice, entries, blind>>
    BY <1>7 DEF FindEngines, choices, ha
  <2>2. PICK s \in SttFound, t \in TtsFound : \E v \in SelectedVoice(t) :
          /\ chosen' = [stt |-> s, tts |-> t, voice |-> v]
          /\ clean' = (/\ clean /\ s = Stt /\ t = Tts /\ v \in {voice, NoneYet}
                       /\ \A l \in Label : entries[l] > 0 => l \in visible)
    BY <1>7 DEF FindEngines
  <2>v. PICK v \in SelectedVoice(t) :
          /\ chosen' = [stt |-> s, tts |-> t, voice |-> v]
          /\ clean' = (/\ clean /\ s = Stt /\ t = Tts /\ v \in {voice, NoneYet}
                       /\ \A l \in Label : entries[l] > 0 => l \in visible)
    BY <2>2
  <2>3. clean' => Right(chosen)'
    <3> SUFFICES ASSUME clean' PROVE Right(chosen)'
      OBVIOUS
    <3>1. /\ clean /\ s = Stt /\ t = Tts /\ v \in {voice, NoneYet}
          /\ \A l \in Label : entries[l] > 0 => l \in visible
      BY <2>v
    <3>2. Needed \subseteq visible
      BY <1>l, <1>t, <2>1, <3>1 DEF EntriesInv
    <3>3. Stt = IF speaker THEN "gatekeeper" ELSE "whisper"
      BY <3>2 DEF Stt, Needed
    <3>4. bridge => Tts = "openai"
      BY <3>2 DEF Tts, Needed
    <3>5. Tts = "openai" => v = voice
      BY <3>1 DEF SelectedVoice, NoneYet
    <3>6. chosen'.stt = Stt /\ chosen'.tts = Tts /\ (Tts = "openai" => chosen'.voice = voice)
      BY <2>v, <3>1, <3>5
    <3> QED
      BY <2>1, <3>3, <3>4, <3>6 DEF Right
  <2>4. EnginesInv'
    BY <2>1, <2>3 DEF EnginesInv
  <2>5. clean' \in BOOLEAN /\ (clean' => clean)
    BY <2>v
  <2> QED
    BY <1>b, <1>s, <2>1, <2>4, <2>5
<1>8. CASE SavePipeline \/ Prefer
  <2>1. /\ \/ wpc = "pipeline" /\ wpc' = "prefer" /\ pipeline' = chosen
           \/ wpc = "prefer" /\ wpc' = "done" /\ pipeline' = pipeline /\ preferred' = TRUE
        /\ UNCHANGED <<speaker, bridge, voice, entries, blind, clean>>
    BY <1>8 DEF SavePipeline, Prefer, choices
  <2>2. EnginesInv'
    BY <1>t, <2>1 DEF EnginesInv, Right
  <2> QED
    BY <1>b, <1>s, <1>t, <2>1, <2>2
<1>9. CASE UNCHANGED wiringVars
  BY <1>9, <1>t
  DEF wiringVars, choices, ha, WiringInv, NoDuplicates, EntriesInv, EnginesInv, Needed, InQueue, Right
<1> QED
  BY <1>1, <1>2, <1>3, <1>4, <1>5, <1>6, <1>7, <1>8, <1>9 DEF WiringNext

LEMMA WiringIsInv == WiringSpec => []WiringInv
BY WiringStart, WiringStep, PTL DEF WiringSpec

\* However often the script runs and dies, a service has a second entry only
\* for each time it was not seen (ensure_wyoming_entry, ensure_conversation_agent).
THEOREM EntriesAreUnique == WiringSpec => []NoDuplicates
<1>1. WiringInv => NoDuplicates
  BY DEF WiringInv
<1> QED
  BY <1>1, WiringIsInv, PTL

\* A clean pass ends on the engines the settings call for, whatever pipeline
\* and entries it has found (ensure_assist_pipeline).
THEOREM CleanPassesConverge == WiringSpec => []CleanPassConverges
<1>1. WiringInv => CleanPassConverges
  BY DEF WiringInv, EnginesInv, Right, CleanPassConverges
<1> QED
  BY <1>1, WiringIsInv, PTL


-----------------------------------------------------------------------------
(* SolilosDeploy.                                                          *)

\* Every admin token is in the file, about to be written, or lost.
AdminInv ==
  /\ minted \in Nat /\ lost \in Nat
  /\ minted <= lost + (IF adminFile = "live" \/ dpc = "write" THEN 1 ELSE 0)

\* What a pass without a failure has delivered, from step to step.
DeliveredInv ==
  flawless =>
    /\ dpc \in {"admin", "write", "restart", "idle"} => haToken = 0 \/ manifest = haToken
    /\ dpc \in {"restart", "idle"} => adminFile = "live"
    /\ dpc = "idle" => haToken = 0 \/ running = haToken

\* Once it has marked a soul the script knows it again, and has not read an
\* operator's for one of its own.
MarkedInv ==
  /\ marked => marker \in Pack /\ soul \in {marker, Edited}
  /\ dpc = "marker" => soul \in {shipped, Edited} /\ ~marked
  /\ dpc = "install" /\ marked /\ flawless => existing # Edited

DeployInv ==
  /\ shipped \in Pack /\ marked \in BOOLEAN /\ flawless \in BOOLEAN
  /\ AdminInv /\ DeliveredInv /\ MarkedInv

LEMMA DeployStart == DeployInit => DeployInv
<1> SUFFICES ASSUME DeployInit PROVE DeployInv
  OBVIOUS
<1>1. /\ dpc = "idle" /\ flawless = FALSE /\ marked = FALSE
      /\ shipped = 1 /\ minted = 0 /\ lost = 0 /\ adminFile = "none"
  BY DEF DeployInit
<1>2. shipped \in Pack
  BY <1>1, SolilosDeployAssumption DEF Pack
<1>3. AdminInv
  BY <1>1 DEF AdminInv
<1>4. DeliveredInv /\ MarkedInv
  BY <1>1 DEF DeliveredInv, MarkedInv
<1> QED
  BY <1>1, <1>2, <1>3, <1>4 DEF DeployInv

\* The tokens of a mint: those for nobody are lost, the last one may be written.
LEMMA MintedOnce ==
  ASSUME AdminInv, NEW unread \in {0, 1}, Mint(unread),
         adminFile = "live" => unread = 1, UNCHANGED adminFile, dpc = "admin"
  PROVE  /\ AdminInv'
         /\ \/ dpc' = "write" /\ flawless' = flawless
            \/ dpc' = "restart" /\ flawless' = FALSE
<1>1. CASE \E n \in 0 .. Attempts - 1 :
             /\ minted' = minted + n + 1 /\ lost' = lost + n + unread
             /\ dpc' = "write" /\ UNCHANGED flawless
  <2>1. PICK n \in Nat : /\ minted' = minted + n + 1 /\ lost' = lost + n + unread
                         /\ dpc' = "write" /\ UNCHANGED flawless
    BY <1>1 DEF Attempts
  <2>2. minted \in Nat /\ lost \in Nat /\ unread \in Nat
        /\ minted <= lost + unread
    <3>1. CASE adminFile = "live"
      BY <3>1 DEF AdminInv
    <3>2. CASE adminFile # "live"
      BY <3>2 DEF AdminInv
    <3> QED
      BY <3>1, <3>2
  <2> QED
    BY <2>1, <2>2 DEF AdminInv
<1>2. CASE \E n \in 0 .. Attempts :
             /\ minted' = minted + n /\ lost' = lost + n
             /\ dpc' = "restart" /\ flawless' = FALSE
  <2>1. PICK n \in Nat : /\ minted' = minted + n /\ lost' = lost + n
                         /\ dpc' = "restart" /\ flawless' = FALSE
    BY <1>2 DEF Attempts
  <2> QED
    BY <2>1 DEF AdminInv
<1> QED
  BY <1>1, <1>2 DEF Mint

LEMMA DeployStep == DeployInv /\ [DeployNext]_deployVars => DeployInv'
<1> SUFFICES ASSUME DeployInv, [DeployNext]_deployVars PROVE DeployInv'
  OBVIOUS
<1> USE DEF soulVars, haVars, adminVars
<1>t. /\ shipped \in Pack /\ 0 \notin Pack /\ Edited \notin Pack /\ Torn \notin Pack
      /\ Edited # 0 /\ Torn # 0 /\ Edited # Torn
      /\ marked \in BOOLEAN /\ flawless \in BOOLEAN
      /\ AdminInv /\ DeliveredInv /\ MarkedInv
  BY SolilosDeployAssumption DEF DeployInv, Pack, Edited, Torn
<1>1. CASE Deploy
  BY <1>1, <1>t DEF Deploy, DeployInv, AdminInv, DeliveredInv, MarkedInv
<1>2. CASE OperatorEdits
  BY <1>2, <1>t DEF OperatorEdits, DeployInv, AdminInv, DeliveredInv, MarkedInv
<1>3. CASE HaSetUp
  BY <1>3, <1>t DEF HaSetUp, BeforeHa, DeployInv, AdminInv, DeliveredInv, MarkedInv
<1>4. CASE Revoke
  <2>1. /\ adminFile = "live" /\ adminFile' = "stale" /\ lost' = lost + 1
        /\ flawless' = (flawless /\ dpc \in BeforeAdmin)
        /\ UNCHANGED <<dpc, soulVars, haVars, minted>>
    BY <1>4 DEF Revoke
  <2>2. AdminInv'
    BY <1>t, <2>1 DEF AdminInv
  <2>3. flawless' \in BOOLEAN /\ (flawless' => flawless /\ dpc \in BeforeAdmin)
    BY <2>1
  <2>4. DeliveredInv'
    BY <1>t, <2>1, <2>3 DEF DeliveredInv, BeforeAdmin, BeforeHa
  <2>5. MarkedInv'
    BY <1>t, <2>1, <2>3 DEF MarkedInv
  <2> QED
    BY <1>t, <2>1, <2>2, <2>3, <2>4, <2>5 DEF DeployInv
<1>5. CASE Die
  <2>1. AdminInv'
    BY <1>5, <1>t DEF Die, AdminInv
  <2>2. flawless' = FALSE /\ dpc' = "idle" /\ shipped' = shipped
        /\ marked' = (marked /\ soul' = soul) /\ marker' \in {marker, 0, Torn}
        /\ (dpc # "marker" => marker' = marker)
    BY <1>5 DEF Die, CutOff
  <2>3. DeliveredInv'
    BY <2>2 DEF DeliveredInv
  <2>4. MarkedInv'
    BY <1>t, <2>2 DEF MarkedInv
  <2> QED
    BY <1>t, <2>1, <2>2, <2>3, <2>4 DEF DeployInv
<1>6. CASE ReadSoul
  <2>1. /\ dpc = "soul" /\ UNCHANGED <<shipped, soul, marker, marked>>
        /\ UNCHANGED <<haToken, manifest, running, adminFile, minted, lost>>
    BY <1>6 DEF ReadSoul
  <2>2. CASE dpc' = "adopt" /\ flawless' = FALSE
    BY <1>t, <2>1, <2>2 DEF DeployInv, AdminInv, DeliveredInv, MarkedInv
  <2>3. ASSUME NEW found \in {soul, 0}, NEW recorded \in {marker, 0},
               IF found = shipped \/ IsOperators(found, recorded)
               THEN dpc' = "adopt" /\ UNCHANGED existing
               ELSE dpc' = "install" /\ existing' = found,
               flawless' = (flawless /\ found = soul /\ recorded = marker)
        PROVE  DeployInv'
    <3>1. dpc' \in {"adopt", "install"} /\ flawless' \in BOOLEAN
      BY <2>3
    <3>2. ASSUME dpc' = "install", marked', flawless' PROVE existing' # Edited
      BY <1>t, <2>1, <2>3, <3>2 DEF MarkedInv, IsOperators
    <3> QED
      BY <1>t, <2>1, <3>1, <3>2 DEF DeployInv, AdminInv, DeliveredInv, MarkedInv
  <2> QED
    BY <1>6, <2>2, <2>3 DEF ReadSoul
<1>7. CASE WriteSoul
  <2>1. /\ dpc = "install" /\ UNCHANGED <<shipped, marker>>
        /\ UNCHANGED <<haToken, manifest, running, adminFile, minted, lost>>
        /\ \/ dpc' = "marker" /\ soul' = shipped /\ marked' = FALSE /\ UNCHANGED flawless
           \/ dpc' = "adopt" /\ marked' = (marked /\ soul' = soul) /\ flawless' = FALSE
    BY <1>7 DEF WriteSoul
  <2>2. /\ dpc' \in {"marker", "adopt"} /\ flawless' \in BOOLEAN /\ marked' \in BOOLEAN
        /\ marked' => marked /\ soul' = soul
        /\ dpc' = "marker" => soul' = shipped /\ marked' = FALSE
    BY <1>t, <2>1
  <2>3. AdminInv'
    BY <1>t, <2>1, <2>2 DEF AdminInv
  <2>4. DeliveredInv'
    BY <2>2 DEF DeliveredInv
  <2>5. MarkedInv'
    BY <1>t, <2>1, <2>2 DEF MarkedInv
  <2> QED
    BY <1>t, <2>1, <2>2, <2>3, <2>4, <2>5 DEF DeployInv
<1>8. CASE WriteMarker
  <2>1. /\ dpc = "marker" /\ dpc' = "adopt" /\ UNCHANGED <<shipped, soul>>
        /\ UNCHANGED <<haToken, manifest, running, adminFile, minted, lost>>
        /\ \/ marker' = shipped /\ marked' = TRUE /\ UNCHANGED flawless
           \/ flawless' = FALSE /\ UNCHANGED marked
    BY <1>8 DEF WriteMarker
  <2>2. AdminInv'
    BY <1>t, <2>1 DEF AdminInv
  <2>3. DeliveredInv'
    BY <2>1 DEF DeliveredInv
  <2>4. MarkedInv'
    BY <1>t, <2>1 DEF MarkedInv
  <2>5. marked' \in BOOLEAN /\ flawless' \in BOOLEAN
    BY <1>t, <2>1
  <2> QED
    BY <1>t, <2>1, <2>2, <2>3, <2>4, <2>5 DEF DeployInv
<1>9. CASE AdoptToken
  BY <1>9, <1>t DEF AdoptToken, SeenToken, DeployInv, AdminInv, DeliveredInv, MarkedInv
<1>10. CASE EnsureAdminToken
  <2>1. /\ dpc = "admin" /\ UNCHANGED <<soulVars, haVars, adminFile>>
    BY <1>10 DEF EnsureAdminToken
  <2>2. AdminInv' /\ \/ dpc' = "write" /\ flawless' = flawless
                     \/ dpc' = "restart" /\ flawless' = FALSE
                     \/ dpc' = "restart" /\ flawless' = (flawless /\ adminFile = "live")
    <3>1. CASE KeepToken
      BY <1>t, <2>1, <3>1 DEF KeepToken, AdminInv
    <3>2. CASE Mint(IF adminFile = "live" THEN 1 ELSE 0)
      <4> DEFINE u == IF adminFile = "live" THEN 1 ELSE 0
      <4>1. u \in {0, 1} /\ (adminFile = "live" => u = 1) /\ Mint(u)
        BY <3>2
      <4> HIDE DEF u
      <4> QED
        BY <1>t, <2>1, <4>1, MintedOnce
    <3> QED
      BY <1>10, <3>1, <3>2 DEF EnsureAdminToken
  <2>3. /\ dpc' \in {"write", "restart"} /\ flawless' \in BOOLEAN
        /\ flawless' => flawless /\ (dpc' = "restart" => adminFile = "live")
    <3>1. CASE dpc' = "write" /\ flawless' = flawless
      BY <1>t, <3>1
    <3>2. CASE dpc' = "restart" /\ flawless' = FALSE
      BY <3>2
    <3>3. CASE dpc' = "restart" /\ flawless' = (flawless /\ adminFile = "live")
      BY <3>3, Zenon
    <3> QED
      BY <2>2, <3>1, <3>2, <3>3
  <2>4. DeliveredInv'
    BY <1>t, <2>1, <2>3 DEF DeliveredInv
  <2>5. MarkedInv'
    BY <1>t, <2>1, <2>3 DEF MarkedInv
  <2> QED
    BY <1>t, <2>1, <2>2, <2>3, <2>4, <2>5 DEF DeployInv
<1>11. CASE WriteAdminToken
  <2>1. /\ dpc = "write" /\ dpc' = "restart" /\ UNCHANGED <<soulVars, haVars, minted>>
        /\ \/ adminFile' = "live" /\ lost' = lost /\ flawless' = flawless
           \/ lost' = lost + 1 /\ flawless' = FALSE
    BY <1>11 DEF WriteAdminToken
  <2>2. AdminInv'
    BY <1>t, <2>1 DEF AdminInv
  <2>3. DeliveredInv'
    BY <1>t, <2>1 DEF DeliveredInv
  <2>4. MarkedInv'
    BY <1>t, <2>1 DEF MarkedInv
  <2> QED
    BY <1>t, <2>1, <2>2, <2>3, <2>4 DEF DeployInv
<1>12. CASE RestartChat
  <2>1. /\ dpc = "restart" /\ dpc' = "idle"
        /\ UNCHANGED <<soulVars, haToken, manifest, adminVars>>
        /\ \/ running' = manifest /\ flawless' = flawless
           \/ flawless' = FALSE
    BY <1>12 DEF RestartChat
  <2>2. AdminInv'
    BY <1>t, <2>1 DEF AdminInv
  <2>3. DeliveredInv'
    BY <1>t, <2>1 DEF DeliveredInv
  <2>4. MarkedInv'
    BY <1>t, <2>1 DEF MarkedInv
  <2> QED
    BY <1>t, <2>1, <2>2, <2>3, <2>4 DEF DeployInv
<1>13. CASE UNCHANGED deployVars
  BY <1>13, <1>t DEF deployVars, DeployInv, AdminInv, DeliveredInv, MarkedInv
<1> QED
  BY <1>1, <1>2, <1>3, <1>4, <1>5, <1>6, <1>7, <1>8, <1>9, <1>10, <1>11, <1>12, <1>13
  DEF DeployNext

LEMMA DeployIsInv == DeploySpec => []DeployInv
BY DeployStart, DeployStep, PTL DEF DeploySpec

\* A pass in which nothing fails leaves the chat on Home Assistant's token and a
\* live admin token in its file, whatever passes before it have left; and admin
\* tokens do not pile up in ServiceBay, except those that were lost or unread
\* (adopt_ha_long_lived_token, restart_solilos, ensure_admin_token_file).
THEOREM TokensArrive == DeploySpec => []TokensDelivered
<1>1. DeployInv => TokensDelivered
  BY DEF DeployInv, AdminInv, DeliveredInv, TokensDelivered
<1> QED
  BY <1>1, DeployIsInv, PTL

\* Once a soul has been marked, a pass in which nothing fails writes over no
\* edited soul it has read, and leaves one nobody has edited current
\* (write_engine_soul), whatever writes have failed in passes before it.
THEOREM SoulsKeptOrCurrent == DeploySpec => SoulKeptOrCurrent
<1> DEFINE Kept ==
      /\ soul = Edited /\ soul' # Edited => existing # Edited \/ ~marked \/ ~flawless
      /\ dpc' = "adopt" /\ dpc # "adopt" /\ marked' /\ flawless' =>
           soul' \in {shipped', Edited}
<1>1. DeployInv /\ [DeployNext]_deployVars => [Kept]_deployVars
  <2> SUFFICES ASSUME DeployInv, DeployNext PROVE Kept
    OBVIOUS
  <2> USE DEF soulVars, haVars, adminVars
  <2>t. /\ shipped \in Pack /\ 0 \notin Pack /\ Edited \notin Pack
        /\ marked \in BOOLEAN /\ MarkedInv
    BY SolilosDeployAssumption DEF DeployInv, Pack, Edited
  <2>1. CASE ReadSoul
    <3>1. dpc = "soul" /\ UNCHANGED <<shipped, soul, marker, marked>>
      BY <2>1 DEF ReadSoul
    <3>2. ASSUME dpc' = "adopt", marked', flawless' PROVE soul' \in {shipped', Edited}
      <4>1. soul = shipped \/ IsOperators(soul, marker)
        BY <2>1, <3>2 DEF ReadSoul
      <4> QED
        BY <2>t, <3>1, <3>2, <4>1 DEF MarkedInv, IsOperators
    <3> QED
      BY <3>1, <3>2
  <2>2. CASE WriteSoul
    <3>1. /\ dpc = "install"
          /\ dpc' = "marker" \/ flawless' = FALSE
      BY <2>2 DEF WriteSoul
    <3>2. existing # Edited \/ ~marked \/ ~flawless
      BY <2>t, <3>1 DEF MarkedInv
    <3> QED
      BY <3>1, <3>2
  <2>3. CASE WriteMarker
    BY <2>3, <2>t DEF WriteMarker, MarkedInv
  <2>4. CASE OperatorEdits
    BY <2>4 DEF OperatorEdits
  <2>5. CASE Die
    <3>1. dpc' = "idle" /\ (dpc # "install" => soul' = soul)
      BY <2>5 DEF Die
    <3>2. dpc = "install" => existing # Edited \/ ~marked \/ ~flawless
      BY <2>t DEF MarkedInv
    <3> QED
      BY <3>1, <3>2
  <2>6. CASE Deploy \/ HaSetUp \/ Revoke
    BY <2>6 DEF Deploy, HaSetUp, Revoke
  <2>7. CASE AdoptToken \/ EnsureAdminToken \/ WriteAdminToken \/ RestartChat
    BY <2>7 DEF AdoptToken, EnsureAdminToken, KeepToken, Mint, WriteAdminToken, RestartChat
  <2> QED
    BY <2>1, <2>2, <2>3, <2>4, <2>5, <2>6, <2>7 DEF DeployNext
<1> QED
  BY <1>1, DeployIsInv, PTL DEF DeploySpec, SoulKeptOrCurrent

-----------------------------------------------------------------------------
(* OllamaDeploy.                                                           *)

\* Where the service computes is where it was generated from, or it is down.
ServiceInv ==
  /\ service \in {"down", "cpu", "gpu"}
  /\ source = "container" => service # "cpu"

\* In a smooth pass: the fixup leaves no source that could win but the GPU's,
\* and nothing behind it runs on the CPU.
GpuInv ==
  smooth =>
    /\ opc \in {"unit", "reload"} => ~kube
    /\ opc = "reload" => unit = "current"
    /\ opc = "ready" /\ ~misled => service # "cpu"
    /\ opc \in {"warm", "done"} /\ ~misled => service = "gpu"

\* The small model first: as long as it is to be warmed nothing has been, and
\* what has been warmed since is resident.
WarmInv ==
  /\ resident \subseteq installed
  /\ smooth /\ opc \in {"warm", "done"} =>
       /\ toWarm \subseteq installed
       /\ SmallModel \in toWarm => toWarm = installed
       /\ installed \ toWarm \subseteq resident
       /\ opc = "done" => toWarm = {}

OllamaInv ==
  /\ kube \in BOOLEAN /\ smooth \in BOOLEAN /\ misled \in BOOLEAN
  /\ installed \subseteq Model /\ (opc = "warm" => toWarm \subseteq installed)
  /\ ServiceInv /\ GpuInv /\ WarmInv

LEMMA StartsWhereItMay ==
  ASSUME NEW src \in {"kube", "container"}, StartFrom(src)
  PROVE  ServiceInv' /\ resident' = {} /\ (src = "container" => service' = "gpu")
BY DEF StartFrom, ServiceInv

LEMMA OllamaStart == OllamaInit => OllamaInv
BY DEF OllamaInit, OllamaInv, ServiceInv, GpuInv, WarmInv

LEMMA OllamaStep == OllamaInv /\ [OllamaNext]_ollamaVars => OllamaInv'
<1> SUFFICES ASSUME OllamaInv, [OllamaNext]_ollamaVars PROVE OllamaInv'
  OBVIOUS
<1>t. /\ kube \in BOOLEAN /\ smooth \in BOOLEAN /\ misled \in BOOLEAN
      /\ installed \subseteq Model /\ (opc = "warm" => toWarm \subseteq installed)
      /\ ServiceInv /\ GpuInv /\ WarmInv
      /\ Sources \subseteq {"kube", "container"}
  BY DEF OllamaInv, Sources
<1>1. CASE JournalAges
  BY <1>1, <1>t DEF JournalAges, OllamaInv, ServiceInv, GpuInv, WarmInv
<1>2. CASE Reboot
  <2>1. ServiceInv' /\ resident' = {}
    BY <1>2, <1>t, StartsWhereItMay DEF Reboot, ServiceInv
  <2> QED
    BY <1>2, <1>t, <2>1 DEF Reboot, OllamaInv, GpuInv, WarmInv
<1>3. CASE Drift
  BY <1>3, <1>t DEF Drift, OllamaInv, ServiceInv, GpuInv, WarmInv
<1>4. CASE StartPass
  <2>1. ServiceInv' /\ resident' \subseteq installed
    BY <1>4, <1>t, StartsWhereItMay DEF StartPass, ServiceInv, WarmInv
  <2> QED
    BY <1>4, <1>t, <2>1 DEF StartPass, OllamaInv, GpuInv, WarmInv
<1>5. CASE EndEarly
  BY <1>5, <1>t DEF EndEarly, OllamaInv, ServiceInv, GpuInv, WarmInv
<1>6. CASE Probe
  BY <1>6, <1>t DEF Probe, OllamaInv, ServiceInv, GpuInv, WarmInv
<1>7. CASE Fix
  BY <1>7, <1>t DEF Fix, LiveSource, OllamaInv, ServiceInv, GpuInv, WarmInv
<1>8. CASE Unkube
  BY <1>8, <1>t DEF Unkube, OllamaInv, ServiceInv, GpuInv, WarmInv
<1>9. CASE WriteUnit
  <2>1. CASE unit' = "current" /\ opc' = "reload" /\ smooth' = smooth
    BY <1>9, <1>t, <2>1 DEF WriteUnit, OllamaInv, ServiceInv, GpuInv, WarmInv
  <2>2. CASE opc' = "ready" /\ smooth' = FALSE
    BY <1>9, <1>t, <2>2 DEF WriteUnit, OllamaInv, ServiceInv, GpuInv, WarmInv
  <2> QED
    BY <1>9, <2>1, <2>2 DEF WriteUnit
<1>10. CASE Reload
  <2>1. ServiceInv' /\ resident' \subseteq installed
    BY <1>10, <1>t, StartsWhereItMay DEF Reload, ServiceInv, WarmInv
  <2>2. smooth' => service' = "gpu"
    <3> SUFFICES ASSUME smooth' PROVE service' = "gpu"
      OBVIOUS
    <3>1. smooth /\ \E src \in Sources : StartFrom(src)
      BY <1>10 DEF Reload
    <3>2. Sources = {"container"}
      BY <1>10, <1>t, <3>1 DEF Reload, GpuInv, Sources
    <3> QED
      BY <3>1, <3>2, StartsWhereItMay
  <2> QED
    BY <1>10, <1>t, <2>1, <2>2 DEF Reload, OllamaInv, GpuInv, WarmInv
<1>11. CASE Pull
  <2>1. /\ opc = "ready" /\ opc' = "warm" /\ service # "down"
        /\ UNCHANGED <<kube, unit, source, service, resident, misled>>
        /\ installed \subseteq installed' /\ installed' \subseteq Model
        /\ toWarm' \subseteq installed'
    BY <1>11, <1>t DEF Pull, Ready, LocalChatTags
  <2>2. smooth' \in BOOLEAN /\ (smooth' => smooth /\ toWarm' = installed')
    <3>1. CASE toWarm' = installed' /\ smooth' = smooth
      BY <1>t, <3>1
    <3>2. CASE smooth' = FALSE
      BY <3>2
    <3> QED
      BY <1>11, <3>1, <3>2 DEF Pull, LocalChatTags
  <2>3. ServiceInv' /\ GpuInv'
    BY <1>t, <2>1, <2>2 DEF ServiceInv, GpuInv
  <2>4. WarmInv'
    BY <1>t, <2>1, <2>2 DEF WarmInv
  <2> QED
    BY <1>t, <2>1, <2>2, <2>3, <2>4 DEF OllamaInv
<1>12. ASSUME NEW m \in Model, Warm(m) PROVE OllamaInv'
  <2>1. /\ opc = "warm" /\ opc' = "warm" /\ m \in toWarm /\ (m = SmallModel \/ SmallModel \notin toWarm)
        /\ toWarm' = toWarm \ {m} /\ toWarm \subseteq installed
        /\ UNCHANGED <<kube, unit, source, service, installed, misled>>
        /\ \/ /\ resident' = IF m = SmallModel /\ m \notin resident THEN {m} ELSE resident \cup {m}
              /\ UNCHANGED smooth
           \/ smooth' = FALSE /\ UNCHANGED resident
    BY <1>12, <1>t DEF Warm
  <2>2. smooth' \in BOOLEAN /\ (smooth' => smooth)
    <3>1. CASE smooth' = smooth
      BY <1>t, <3>1
    <3>2. CASE smooth' = FALSE
      BY <3>2
    <3> QED
      BY <2>1, <3>1, <3>2
  <2>3. resident' \subseteq installed
    BY <1>t, <2>1 DEF WarmInv
  <2>4. smooth' => installed \ toWarm' \subseteq resident'
    <3> SUFFICES ASSUME smooth' PROVE installed \ toWarm' \subseteq resident'
      OBVIOUS
    <3>1. /\ smooth /\ (SmallModel \in toWarm => toWarm = installed) /\ installed \ toWarm \subseteq resident
          /\ resident' = IF m = SmallModel /\ m \notin resident THEN {m} ELSE resident \cup {m}
      BY <1>t, <2>1, <2>2 DEF WarmInv
    <3>2. CASE m = SmallModel
      BY <2>1, <3>1, <3>2
    <3>3. CASE m # SmallModel
      BY <2>1, <3>1, <3>3
    <3> QED
      BY <3>2, <3>3
  <2>5. smooth' => SmallModel \notin toWarm'
    BY <2>1
  <2>6. WarmInv'
    BY <2>1, <2>3, <2>4, <2>5 DEF WarmInv
  <2> QED
    BY <1>t, <2>1, <2>2, <2>6 DEF OllamaInv, ServiceInv, GpuInv
<1>13. CASE Finish
  BY <1>13, <1>t DEF Finish, OllamaInv, ServiceInv, GpuInv, WarmInv
<1>14. CASE UNCHANGED ollamaVars
  BY <1>14, <1>t DEF ollamaVars, OllamaInv, ServiceInv, GpuInv, WarmInv
<1> QED
  BY <1>1, <1>2, <1>3, <1>4, <1>5, <1>6, <1>7, <1>8, <1>9, <1>10, <1>11, <1>12, <1>13, <1>14
  DEF OllamaNext

\* A smooth pass that was not misled by an old line of the journal ends on the
\* GPU with every chat model resident, whatever it has found (main, #1026).
THEOREM PassesEndWarm == OllamaSpec => []EndsWarmOnGpu
<1>1. OllamaInv => EndsWarmOnGpu
  BY DEF OllamaInv, GpuInv, WarmInv, EndsWarmOnGpu
<1> QED
  BY <1>1, OllamaStart, OllamaStep, PTL DEF OllamaSpec

-----------------------------------------------------------------------------
(* Types of the scripts.  The bounds on what is counted hold for a reason: *)
(* an entry there twice was not seen once, and a token that is lost is one *)
(* that was minted.                                                        *)

LEMMA WiringTypeStart == WiringInit => WiringTypeOK
<1> SUFFICES ASSUME WiringInit PROVE WiringTypeOK
  OBVIOUS
<1>1. 0 \in 0 .. MaxBlind + 1 /\ 0 \in 0 .. MaxBlind
  BY VoiceWiringAssumption
<1>2. <<>> \in Seq(Label)
  BY EmptySeq
<1> QED
  BY <1>1, <1>2 DEF WiringInit, WiringTypeOK, Voice

LEMMA WiringTypeStep == WiringInv /\ WiringTypeOK /\ [WiringNext]_wiringVars => WiringTypeOK'
<1> SUFFICES ASSUME WiringInv, WiringTypeOK, [WiringNext]_wiringVars PROVE WiringTypeOK'
  OBVIOUS
<1> USE DEF choices, ha
<1>t. /\ entries \in [Thing -> 0 .. MaxBlind + 1] /\ blind \in [Thing -> 0 .. MaxBlind]
      /\ queue \in Seq(Label) /\ MaxBlind \in Nat
  BY VoiceWiringAssumption DEF WiringTypeOK
<1>l. Label \subseteq Thing /\ "agent" \in Thing /\ <<>> \in Seq(Label)
  BY EmptySeq DEF Thing, Label
<1>1. CASE StartWiring
  <2>1. queue' = Services(bridge, speaker)
    BY <1>1 DEF StartWiring, Services
  <2>2. queue' \in Seq(Label)
    BY <2>1, QueueIsComplete DEF WiringTypeOK
  <2> QED
    BY <1>1, <2>2 DEF StartWiring, WiringTypeOK
<1>2. CASE Reconfigure
  BY <1>2 DEF Reconfigure, WiringTypeOK
<1>3. ASSUME NEW t \in Thing, Register(t) PROVE WiringTypeOK'
  BY <1>3 DEF Register, WiringTypeOK
<1>4. CASE GiveUpWiring
  BY <1>4, <1>l DEF GiveUpWiring, StopWiring, WiringTypeOK
<1>5. ASSUME NEW t \in Thing, CreateBlindly(t)
      PROVE  entries' \in [Thing -> 0 .. MaxBlind + 1] /\ blind' \in [Thing -> 0 .. MaxBlind]
  <2>1. entries[t] \in Nat /\ blind[t] \in 0 .. MaxBlind /\ entries[t] <= 1 + blind[t]
    BY <1>t DEF WiringInv, NoDuplicates
  <2>2. CASE entries[t] > 0
    <3>1. blind[t] < MaxBlind /\ entries' = [entries EXCEPT ![t] = @ + 1]
          /\ blind' = [blind EXCEPT ![t] = @ + 1]
      BY <1>5, <2>2 DEF CreateBlindly
    <3>2. entries[t] + 1 \in 0 .. MaxBlind + 1 /\ blind[t] + 1 \in 0 .. MaxBlind
      BY <1>t, <2>1, <3>1
    <3> QED
      BY <1>t, <3>1, <3>2
  <2>3. CASE ~(entries[t] > 0)
    <3>1. entries' = [entries EXCEPT ![t] = @ + 1] /\ blind' = blind
      BY <1>5, <2>3 DEF CreateBlindly
    <3>2. entries[t] + 1 \in 0 .. MaxBlind + 1
      BY <1>t, <2>1, <2>3
    <3> QED
      BY <1>t, <3>1, <3>2
  <2> QED
    BY <2>2, <2>3
<1>6. CASE EnsureEntry
  <2>1. queue # <<>>
    BY <1>6 DEF EnsureEntry, WiringInv, EntriesInv
  <2>2. Head(queue) \in Thing /\ Tail(queue) \in Seq(Label)
    BY <1>t, <1>l, <2>1
  <2>3. 1 \in 0 .. MaxBlind + 1
    BY <1>t
  <2>4. entries' \in [Thing -> 0 .. MaxBlind + 1] /\ blind' \in [Thing -> 0 .. MaxBlind]
    BY <1>t, <1>5, <1>6, <2>2, <2>3 DEF EnsureEntry
  <2>5. clean' \in BOOLEAN /\ queue' \in Seq(Label)
        /\ wpc' \in {"facade", "entries"}
        /\ UNCHANGED <<chosen, choices, ollama, visible, pipeline, preferred>>
    BY <1>6, <2>2 DEF EnsureEntry, NextEntry, WiringTypeOK
  <2> QED
    BY <2>4, <2>5 DEF WiringTypeOK
<1>7. CASE FindAgent
  <2>1. clean' \in BOOLEAN
    BY <1>7 DEF FindAgent, WiringTypeOK
  <2>2. wpc' \in {"engines", "subentry"} /\ UNCHANGED <<queue, chosen, choices, ha, blind>>
    BY <1>7 DEF FindAgent
  <2> QED
    BY <2>1, <2>2 DEF WiringTypeOK
<1>8. CASE CreateAgent
  <2>1. clean' = (clean /\ wpc' = "poll")
    BY <1>8 DEF CreateAgent
  <2>2. clean' \in BOOLEAN
    BY <2>1
  <2>3. entries' \in [Thing -> 0 .. MaxBlind + 1] /\ blind' \in [Thing -> 0 .. MaxBlind]
    BY <1>5, <1>8, <1>l DEF CreateAgent
  <2>4. wpc' \in {"poll", "idle"}
        /\ UNCHANGED <<queue, chosen, choices, ollama, visible, pipeline, preferred>>
    BY <1>8 DEF CreateAgent
  <2> QED
    BY <2>2, <2>3, <2>4 DEF WiringTypeOK
<1>9. CASE FindEngines
  <2>1. PICK s \in SttFound, t \in TtsFound : \E v \in SelectedVoice(t) :
          /\ chosen' = [stt |-> s, tts |-> t, voice |-> v]
          /\ clean' = (/\ clean /\ s = Stt /\ t = Tts /\ v \in {voice, NoneYet}
                       /\ \A l \in Label : entries[l] > 0 => l \in visible)
    BY <1>9 DEF FindEngines
  <2>v. PICK v \in SelectedVoice(t) :
          /\ chosen' = [stt |-> s, tts |-> t, voice |-> v]
          /\ clean' = (/\ clean /\ s = Stt /\ t = Tts /\ v \in {voice, NoneYet}
                       /\ \A l \in Label : entries[l] > 0 => l \in visible)
    BY <2>1
  <2>2. clean' \in BOOLEAN
    BY <2>v
  <2>3. /\ s \in Label \cup {AnyWyoming} /\ t \in Label \cup {AnyWyoming}
        /\ v \in Voice \cup {NoneYet}
    <3>1. s \in Label \cup {AnyWyoming} /\ t \in Label \cup {AnyWyoming}
      BY DEF SttFound, TtsFound, Label
    <3>2. v \in Voice \cup {NoneYet}
      BY DEF SelectedVoice, Voice, WiringTypeOK
    <3> QED
      BY <3>1, <3>2
  <2>4. chosen' \in Engines
    BY <2>v, <2>3 DEF Engines
  <2>5. wpc' = "pipeline" /\ UNCHANGED <<queue, choices, ha, blind>>
    BY <1>9 DEF FindEngines
  <2> QED
    BY <2>2, <2>4, <2>5 DEF WiringTypeOK
<1>10. CASE FacadeUp \/ EnsureOllama \/ PollAgent \/ SavePipeline \/ Prefer \/ UNCHANGED wiringVars
  BY <1>10 DEF FacadeUp, EnsureOllama, PollAgent, SavePipeline, Prefer, wiringVars, WiringTypeOK
<1> QED
  BY <1>1, <1>2, <1>3, <1>4, <1>6, <1>7, <1>8, <1>9, <1>10 DEF WiringNext

LEMMA DeployTypeStart == DeployInit => DeployTypeOK
<1> SUFFICES ASSUME DeployInit PROVE DeployTypeOK
  OBVIOUS
<1>1. 1 \in Pack /\ 0 \in 0 .. Torn /\ 0 \in 0 .. CutShort /\ 0 \in 0 .. MaxTokens
  BY SolilosDeployAssumption DEF Pack, Torn, CutShort
<1> QED
  BY <1>1 DEF DeployInit, DeployTypeOK

LEMMA DeployTypeStep == DeployInv /\ DeployTypeOK /\ [DeployNext]_deployVars => DeployTypeOK'
<1> SUFFICES ASSUME DeployInv, DeployTypeOK, [DeployNext]_deployVars PROVE DeployTypeOK'
  OBVIOUS
<1> USE DEF soulVars, haVars, adminVars
<1>t. /\ Pack \subseteq 0 .. Torn /\ 0 \in 0 .. Torn /\ Edited \in 0 .. Torn /\ Torn \in 0 .. Torn
      /\ 0 .. MaxHa \subseteq 0 .. CutShort /\ 0 \in 0 .. CutShort /\ CutShort \in 0 .. CutShort
  BY SolilosDeployAssumption DEF Pack, Edited, Torn, CutShort
<1>b. marked' \in BOOLEAN /\ flawless' \in BOOLEAN
  BY DeployStep DEF DeployInv
<1>1. CASE Deploy \/ OperatorEdits
  BY <1>1, <1>t, <1>b DEF Deploy, OperatorEdits, DeployTypeOK
<1>2. CASE HaSetUp
  BY <1>2, <1>t, <1>b, SolilosDeployAssumption DEF HaSetUp, DeployTypeOK
<1>3. CASE Revoke
  BY <1>3, <1>t, <1>b DEF Revoke, DeployTypeOK
<1>4. CASE Die
  BY <1>4, <1>t, <1>b DEF Die, CutOff, DeployTypeOK
<1>5. CASE ReadSoul
  BY <1>5, <1>t, <1>b DEF ReadSoul, DeployTypeOK
<1>6. CASE WriteSoul \/ WriteMarker
  BY <1>6, <1>t, <1>b DEF WriteSoul, WriteMarker, CutOff, DeployTypeOK
<1>7. CASE AdoptToken
  BY <1>7, <1>t, <1>b DEF AdoptToken, SeenToken, DeployTypeOK
<1>8. CASE EnsureAdminToken
  <2>1. /\ dpc' \in {"write", "restart"} /\ UNCHANGED <<soulVars, haVars, adminFile>>
        /\ minted' <= MaxTokens
    BY <1>8, SolilosDeployAssumption DEF EnsureAdminToken, KeepToken, Mint, DeployTypeOK
  <2>2. minted' \in Nat /\ lost' \in Nat
    BY DeployStep DEF DeployInv, AdminInv
  <2> QED
    BY <1>b, <2>1, <2>2, SolilosDeployAssumption DEF DeployTypeOK
<1>9. CASE WriteAdminToken \/ RestartChat
  BY <1>9, <1>t, <1>b DEF WriteAdminToken, RestartChat, DeployTypeOK
<1>10. CASE UNCHANGED deployVars
  BY <1>10 DEF deployVars, DeployTypeOK
<1> QED
  BY <1>1, <1>2, <1>3, <1>4, <1>5, <1>6, <1>7, <1>8, <1>9, <1>10 DEF DeployNext

LEMMA OllamaTypeStart == OllamaInit => OllamaTypeOK
BY DEF OllamaInit, OllamaTypeOK

LEMMA OllamaTypeStep == OllamaTypeOK /\ [OllamaNext]_ollamaVars => OllamaTypeOK'
<1> SUFFICES ASSUME OllamaTypeOK, [OllamaNext]_ollamaVars PROVE OllamaTypeOK'
  OBVIOUS
<1> USE DEF OllamaTypeOK
<1>1. ASSUME NEW src \in {"kube", "container"}, StartFrom(src)
      PROVE  /\ source' \in {"kube", "container"} /\ service' \in {"down", "cpu", "gpu"}
             /\ journal' \subseteq {"cpu", "gpu"} /\ resident' \subseteq Model
  BY <1>1 DEF StartFrom
<1>2. Sources \subseteq {"kube", "container"}
  BY DEF Sources
<1>3. CASE Reboot
  BY <1>1, <1>2, <1>3 DEF Reboot
<1>4. CASE StartPass
  BY <1>1, <1>4 DEF StartPass
<1>5. CASE Reload
  BY <1>1, <1>2, <1>5 DEF Reload
<1>6. CASE Pull
  <2>1. installed' \subseteq Model /\ toWarm' \subseteq Model /\ smooth' \in BOOLEAN
    BY <1>6 DEF Pull, LocalChatTags
  <2>2. QED
    BY <1>6, <2>1 DEF Pull
<1>7. ASSUME NEW m \in Model, Warm(m) PROVE OllamaTypeOK'
  BY <1>7 DEF Warm
<1>8. CASE Probe
  <2>1. misled' \in BOOLEAN
    BY <1>8 DEF Probe
  <2>2. QED
    BY <1>8, <2>1 DEF Probe
<1>9. CASE ~(Reboot \/ StartPass \/ Reload \/ Pull \/ Probe \/ \E m \in Model : Warm(m))
  BY <1>9 DEF OllamaNext, JournalAges, Drift, EndEarly, Fix, Unkube, WriteUnit,
              Finish, ollamaVars
<1> QED
  BY <1>3, <1>4, <1>5, <1>6, <1>7, <1>8, <1>9

-----------------------------------------------------------------------------
(* Types of the numerals.                                                  *)

\* What is tried: the ten numbers from one on that ends in a zero.
Bases == {b \in 0 .. 1001 * MaxNumber : b % 10 = 0}
NumeralsInv ==
  /\ form \in {"cardinal", "ordinal", "decimal", "euro"}
  /\ \E b \in Bases : number \in b .. b + 9
  /\ digits \in Seq(Digit) /\ Len(digits) \in 1 .. 2

LEMMA NumeralsTyped == NumeralsInv => NumeralsTypeOK
<1> SUFFICES ASSUME NumeralsInv PROVE NumeralsTypeOK
  OBVIOUS
<1>1. PICK max \in 1 .. 999 : max = MaxNumber
  BY NumeralsAssumption
<1>2. PICK b \in 0 .. 1001 * max : number \in b .. b + 9
  BY <1>1 DEF NumeralsInv, Bases
<1>3. number \in 0 .. (1001 * max + 9)
  BY <1>2
<1> QED
  BY <1>1, <1>3 DEF NumeralsInv, NumeralsTypeOK

LEMMA NumeralsStart == NumeralsInit => NumeralsInv
<1> SUFFICES ASSUME NumeralsInit PROVE NumeralsInv
  OBVIOUS
<1>1. PICK max \in 1 .. 999 : max = MaxNumber
  BY NumeralsAssumption
<1>2. PICK n \in Ten : number \in {n, 1000 + n, 1000 * n, 1001 * n}
  BY DEF NumeralsInit
<1>3. PICK m \in 0 .. 999 : m = n /\ m <= max /\ m % 10 = 0
  BY <1>1, <1>2 DEF Ten
<1>4. PICK k \in Nat : m = 10 * k
  BY <1>3
<1>5. number \in {n, 1000 + n, 1000 * n, 1001 * n} /\ n = 10 * k /\ 10 * k <= max
  BY <1>2, <1>3, <1>4
<1>6. number \in Bases
  <2>1. CASE number = n
    BY <1>1, <1>5, <2>1 DEF Bases
  <2>2. CASE number = 1000 + n
    BY <1>1, <1>5, <2>2 DEF Bases
  <2>3. CASE number = 1000 * n
    BY <1>1, <1>5, <2>3 DEF Bases
  <2>4. CASE number = 1001 * n
    BY <1>1, <1>5, <2>4 DEF Bases
  <2> QED
    BY <1>5, <2>1, <2>2, <2>3, <2>4
<1>9. number \in number .. number + 9
  BY <1>6 DEF Bases
<1>7. digits = <<0>> /\ form \in {"cardinal", "ordinal", "decimal", "euro"}
  BY DEF NumeralsInit
<1>8. digits \in Seq(Digit) /\ Len(digits) = 1
  BY <1>7 DEF Digit
<1> QED
  BY <1>6, <1>7, <1>8, <1>9 DEF NumeralsInv

LEMMA NumeralsStep == NumeralsInv /\ [NumeralsNext]_numeralVars => NumeralsInv'
<1> SUFFICES ASSUME NumeralsInv, [NumeralsNext]_numeralVars PROVE NumeralsInv'
  OBVIOUS
<1>1. CASE NextNumber
  <2>1. PICK b \in Bases : number \in b .. b + 9
    BY DEF NumeralsInv
  <2>2. b \in Nat /\ b % 10 = 0
    BY NumeralsAssumption, <2>1 DEF Bases
  <2>3. number' = number + 1 /\ number % 10 # 9 /\ form' = form
    BY <1>1 DEF NextNumber
  <2>4. number # b + 9
    BY <2>2, <2>3
  <2>5. number' \in b .. b + 9
    BY <2>1, <2>2, <2>3, <2>4
  <2>6. number' % 10 \in Digit /\ (number' \div 10) % 10 \in Digit
    <3>1. \A n \in Nat : n % 10 \in Digit /\ n \div 10 \in Nat
      BY DEF Digit
    <3>2. number' \in Nat
      BY <2>2, <2>5
    <3> QED
      BY <3>1, <3>2
  <2>7. digits' \in {<<number' % 10>>, <<number' % 10, (number' \div 10) % 10>>}
    BY <1>1 DEF NextNumber
  <2>8. ASSUME NEW x \in Digit, NEW y \in Digit
        PROVE  /\ <<x>> \in Seq(Digit) /\ Len(<<x>>) = 1
               /\ <<x, y>> \in Seq(Digit) /\ Len(<<x, y>>) = 2
    OBVIOUS
  <2>9. digits' \in Seq(Digit) /\ Len(digits') \in 1 .. 2
    <3>1. CASE digits' = <<number' % 10>>
      BY <2>6, <2>8, <3>1
    <3>2. CASE digits' = <<number' % 10, (number' \div 10) % 10>>
      BY <2>6, <2>8, <3>2
    <3> QED
      BY <2>7, <3>1, <3>2
  <2> QED
    BY <2>1, <2>3, <2>5, <2>9 DEF NumeralsInv
<1>2. CASE UNCHANGED numeralVars
  BY <1>2 DEF numeralVars, NumeralsInv
<1> QED
  BY <1>1, <1>2 DEF NumeralsNext

-----------------------------------------------------------------------------
(* What is read out is what was written.                                   *)
(*                                                                         *)
(* A word is a stem, down to its hundreds, and what is said below them.    *)
(* Read looks for the first "tausend" and the first "hundert", so each is  *)
(* shown to stand in one place only.                                       *)

Morpheme == {"num", "ord", "ein", "und", "hundert", "tausend", "ster"} \X Nat
Word  == Seq(Morpheme)

Without(p, w) == \A i \in DOMAIN w : w[i] # p

\* A word below a hundred, as far as its parts show.
Low(w) == w \in Word /\ Without(Hundert, w) /\ Without(Tausend, w)

Ord(n) == <<"ord", n>>

Small(p) == p \in Morpheme /\ p # Hundert /\ p # Tausend

\* One word behind another.
Cat(a, b) == a \o b

LEMMA CatWord ==
  ASSUME NEW a \in Word, NEW b \in Word
  PROVE  /\ Cat(a, b) \in Word
         /\ \A c \in Word : Cat(Cat(a, b), c) = Cat(a, Cat(b, c))
  BY SMT DEF Word, Cat

LEMMA CatEmpty ==
  /\ << >> \in Word
  /\ \A a \in Word : Cat(<< >>, a) = a /\ Cat(a, << >>) = a
  BY SMT DEF Word, Cat

LEMMA Pieces ==
  /\ Hundert \in Morpheme /\ Tausend \in Morpheme /\ Hundert # Tausend
  /\ Small(Und) /\ Und[2] = 0
  /\ Small(Ein) /\ Ein[2] = 1
  /\ Small(Ster) /\ Ster[2] = 0
  /\ \A n \in Nat : Small(Num(n)) /\ Num(n)[2] = n
  /\ \A n \in Nat : Small(Ord(n)) /\ Ord(n)[2] = n
<1>1. Hundert[1] = "hundert" /\ Tausend[1] = "tausend"
  BY DEF Hundert, Tausend
<1>2. ASSUME NEW k \in {"num", "ord", "ein", "und", "ster"}, NEW n \in Nat, NEW p, p = <<k, n>>
      PROVE  Small(p) /\ p[2] = n
  <2>1. p \in Morpheme /\ p[1] = k /\ p[2] = n
    BY <1>2 DEF Morpheme
  <2>2. QED
    BY <1>1, <2>1 DEF Small
<1>3. Hundert \in Morpheme /\ Tausend \in Morpheme /\ Hundert # Tausend
  BY <1>1 DEF Morpheme, Hundert, Tausend
<1>4. QED
  BY <1>2, <1>3 DEF Und, Ein, Ster, Num, Ord

LEMMA MarksAreWords == <<Hundert>> \in Word /\ <<Tausend>> \in Word /\ <<Ster>> \in Word
  BY Pieces, SMT DEF Word, Small

\* Where a part is missing there is nothing before it.
LEMMA Absent ==
  ASSUME NEW w \in Word, NEW p, Without(p, w)
  PROVE  At(p, w) = 0 /\ Behind(0, w) = w
<1>1. At(p, w) = 0
  BY DEF At, Without
<1>2. Behind(0, w) = w
  BY SMT DEF Behind, Word
<1>3. QED
  BY <1>1, <1>2

\* Where it stands once, the word falls into two.
Around(a, p, b) == Cat(Cat(a, <<p>>), b)

LEMMA Parted ==
  ASSUME NEW a \in Word, NEW b \in Word, NEW p \in Morpheme, Without(p, a), Without(p, b),
         NEW w, w = Around(a, p, b)
  PROVE  /\ At(p, w) # 0
         /\ Before(At(p, w), w) = a
         /\ Behind(At(p, w), w) = b
<1>1. /\ w \in Word /\ Len(w) = Len(a) + 1 + Len(b)
      /\ \A i \in DOMAIN w : w[i] = IF i <= Len(a) THEN a[i]
                                    ELSE IF i = Len(a) + 1 THEN p ELSE b[i - Len(a) - 1]
  BY SMT DEF Word, Around, Cat
<1>2. Len(a) + 1 \in DOMAIN w /\ w[Len(a) + 1] = p
  BY <1>1, SMT DEF Word
<1>3. \A i \in DOMAIN w : w[i] = p => i = Len(a) + 1
  BY <1>1, SMT DEF Word, Without
<1>4. At(p, w) = Len(a) + 1
  BY <1>2, <1>3 DEF At
<1>5. SubSeq(w, 1, Len(a)) = a
  BY SMT DEF Word, Around, Cat
<1>6. SubSeq(w, Len(a) + 2, Len(w)) = b
  BY <1>1, SMT DEF Word, Around, Cat
<1>7. Len(a) \in Nat /\ (Len(a) + 1) - 1 = Len(a) /\ (Len(a) + 1) + 1 = Len(a) + 2
  BY SMT DEF Word, Around, Cat
<1>8. Before(Len(a) + 1, w) = a /\ Behind(Len(a) + 1, w) = b
  BY <1>5, <1>6, <1>7 DEF Before, Behind
<1>9. Len(a) + 1 # 0
  BY <1>7
<1>10. QED
  BY <1>4, <1>8, <1>9

LEMMA LowPieces ==
  ASSUME NEW a, NEW b, Low(a), Low(b)
  PROVE  Low(Cat(a, b))
<1>1. Cat(a, b) \in Word
  BY DEF Low, Word, Cat
<1>2. \A i \in DOMAIN Cat(a, b) : Cat(a, b)[i] = IF i <= Len(a) THEN a[i] ELSE b[i - Len(a)]
  BY SMT DEF Low, Word, Cat
<1>3. ASSUME NEW i \in DOMAIN Cat(a, b)
      PROVE  Cat(a, b)[i] # Hundert /\ Cat(a, b)[i] # Tausend
  <2>1. CASE i <= Len(a)
    BY <1>2, <2>1, SMT DEF Low, Word, Without, Cat
  <2>2. CASE ~(i <= Len(a))
    BY <1>2, <2>2, SMT DEF Low, Word, Without, Cat
  <2>3. QED
    BY <2>1, <2>2
<1>4. QED
  BY <1>1, <1>3 DEF Low, Without

LEMMA LowReads == ASSUME NEW w, Low(w) PROVE ReadHundreds(w) = ReadTens(w)
<1>1. At(Hundert, w) = 0 /\ Behind(0, w) = w
  BY Absent DEF Low
<1>2. ReadTens(w) \in Int
  <2>1. \A i : Value(i, w) \in Int
    BY SMT DEF Value, Low, Word, Morpheme
  <2>2. QED
    BY <2>1 DEF ReadTens
<1>3. QED
  BY <1>1, <1>2 DEF ReadHundreds

LEMMA TensRead == ASSUME NEW w, Low(w) PROVE ReadTens(w) \in Int
<1>1. \A i : Value(i, w) \in Int
  BY SMT DEF Value, Low, Word, Morpheme
<1>2. QED
  BY <1>1 DEF ReadTens

LEMMA HighReads ==
  ASSUME NEW a, NEW b, Low(a), Low(b)
  PROVE  /\ ReadHundreds(Around(a, Hundert, b)) = 100 * ReadTens(a) + ReadTens(b)
         /\ Around(a, Hundert, b) \in Word
         /\ Without(Tausend, Around(a, Hundert, b))
<1>0. PICK w : w = Around(a, Hundert, b)
  OBVIOUS
<1>1. At(Hundert, w) # 0 /\ Before(At(Hundert, w), w) = a /\ Behind(At(Hundert, w), w) = b
  BY <1>0, Parted, Pieces DEF Low
<1>2. ReadHundreds(w) = 100 * ReadTens(a) + ReadTens(b)
  BY <1>1 DEF ReadHundreds
<1>3. w \in Word /\ Len(w) = Len(a) + 1 + Len(b) /\ \A i \in DOMAIN w : w[i] = IF i <= Len(a) THEN a[i]
                       ELSE IF i = Len(a) + 1 THEN Hundert ELSE b[i - Len(a) - 1]
  BY <1>0, Pieces, SMT DEF Low, Word, Around, Cat
<1>4. Without(Tausend, w)
  <2>1. ASSUME NEW i \in DOMAIN w PROVE w[i] # Tausend
    <3>1. CASE i <= Len(a)
      BY <1>3, <3>1, SMT DEF Low, Word, Without
    <3>2. CASE i = Len(a) + 1
      BY <1>3, <3>2, Pieces, SMT DEF Low, Word
    <3>3. CASE ~(i <= Len(a)) /\ i # Len(a) + 1
      BY <1>3, <3>3, SMT DEF Low, Word, Without, Around, Cat
    <3>4. QED
      BY <3>1, <3>2, <3>3
  <2>2. QED
    BY <2>1 DEF Without
<1>5. QED
  BY <1>0, <1>2, <1>3, <1>4

\* Words without a thousand.
LEMMA ReadsBelow ==
  ASSUME NEW w \in Word, Without(Tausend, w), ReadHundreds(w) \in Int
  PROVE  Read(w) = ReadHundreds(w)
  BY Absent DEF Read

LEMMA ReadsAbove ==
  ASSUME NEW a \in Word, NEW b \in Word, Without(Tausend, a), Without(Tausend, b)
  PROVE  Read(Around(a, Tausend, b)) = 1000 * ReadHundreds(a) + ReadHundreds(b)
<1>0. PICK w : w = Around(a, Tausend, b)
  OBVIOUS
<1>1. At(Tausend, w) # 0 /\ Before(At(Tausend, w), w) = a /\ Behind(At(Tausend, w), w) = b
  BY <1>0, Parted, Pieces
<1>2. QED
  BY <1>0, <1>1 DEF Read

\* Below a hundred, cardinals and ordinals.
LEMMA TensLow ==
  ASSUME NEW n \in 0 .. 99
  PROVE  Low(Tens(n)) /\ Len(Tens(n)) \in 1 .. 3 /\ ReadTens(Tens(n)) = n
<1>1. CASE n \in NUM_TO_WORD
  <2>1. Tens(n) = <<Num(n)>>
    BY <1>1 DEF Tens
  <2>2. Small(Num(n)) /\ Num(n)[2] = n
    BY Pieces
  <2>3. Low(<<Num(n)>>)
    BY <2>2, SMT DEF Small, Low, Word, Without
  <2>4. ReadTens(<<Num(n)>>) = n
    BY <2>2, SMT DEF ReadTens, Value
  <2>5. QED
    BY <2>1, <2>3, <2>4
<1>2. CASE n \notin NUM_TO_WORD
  <2>1. PICK one \in Morpheme : /\ one = IF n % 10 = 1 THEN Ein ELSE Num(n % 10)
                             /\ one[2] = n % 10 /\ Small(one)
    <3>1. n % 10 \in 0 .. 9
      BY SMT
    <3>2. CASE n % 10 = 1
      BY <3>2, Pieces DEF Small
    <3>3. CASE n % 10 # 1
      BY <3>1, <3>3, Pieces DEF Small
    <3>4. QED
      BY <3>2, <3>3
  <2>2. PICK ten \in Morpheme : /\ ten = Num(n - (n % 10))
                             /\ ten[2] = n - (n % 10) /\ Small(ten)
    <3>1. n - (n % 10) \in Nat
      BY SMT
    <3>2. QED
      BY <3>1, Pieces DEF Small
  <2>3. Tens(n) = <<one, Und, ten>>
    BY <1>2, <2>1, <2>2 DEF Tens
  <2>4. Small(Und) /\ Und[2] = 0
    BY Pieces
  <2>5. Low(<<one, Und, ten>>)
    BY <2>1, <2>2, <2>4, SMT DEF Small, Low, Word, Without
  <2>6. ReadTens(<<one, Und, ten>>) = (n % 10) + (n - (n % 10))
    BY <2>1, <2>2, <2>4, SMT DEF ReadTens, Value
  <2>7. (n % 10) + (n - (n % 10)) = n
    BY SMT
  <2>8. QED
    BY <2>3, <2>5, <2>6, <2>7
<1>3. QED
  BY <1>1, <1>2

LEMMA SterLow ==
  /\ Low(<<Ster>>) /\ ReadTens(<<Ster>>) = 0
  /\ Low(<<Ein>>) /\ ReadTens(<<Ein>>) = 1
  /\ Low(<< >>) /\ ReadTens(<< >>) = 0
<1>1. Small(Ster) /\ Ster[2] = 0 /\ Small(Ein) /\ Ein[2] = 1
  BY Pieces
<1>2. Low(<<Ster>>) /\ Low(<<Ein>>)
  BY <1>1, SMT DEF Small, Low, Word, Without
<1>3. ReadTens(<<Ster>>) = 0 /\ ReadTens(<<Ein>>) = 1
  BY <1>1, SMT DEF ReadTens, Value
<1>4. Low(<< >>) /\ ReadTens(<< >>) = 0
  BY SMT DEF Low, Word, Without, ReadTens, Value
<1>5. QED
  BY <1>2, <1>3, <1>4

LEMMA OrdinalLow ==
  ASSUME NEW n \in 0 .. 99
  PROVE  /\ Low(OrdinalTens(n)) /\ Len(OrdinalTens(n)) >= 1
         /\ ReadTens(OrdinalTens(n)) = n
         /\ Last(OrdinalTens(n)) = IF n \in ORDINAL_TO_WORD THEN <<"ord", n>> ELSE Ster
<1>1. CASE n \in ORDINAL_TO_WORD
  <2>1. PICK p \in Morpheme : p = Ord(n) /\ p[2] = n /\ Small(p)
    BY Pieces DEF Small
  <2>2. OrdinalTens(n) = <<p>>
    BY <1>1, <2>1 DEF OrdinalTens, Ord
  <2>3. Low(<<p>>) /\ ReadTens(<<p>>) = n
    BY <2>1, SMT DEF Small, Low, Word, Without, ReadTens, Value
  <2>4. Last(<<p>>) = p
    BY SMT DEF Last
  <2>5. Len(<<p>>) >= 1
    OBVIOUS
  <2>6. QED
    BY <1>1, <2>1, <2>2, <2>3, <2>4, <2>5 DEF Ord
<1>2. CASE n \notin ORDINAL_TO_WORD
  <2>1. PICK w : w = Tens(n) /\ Low(w) /\ Len(w) \in 1 .. 3 /\ ReadTens(w) = n
    BY TensLow
  <2>2. OrdinalTens(n) = Cat(w, <<Ster>>)
    BY <1>2, <2>1 DEF OrdinalTens, Cat
  <2>3. Low(Cat(w, <<Ster>>))
    BY <2>1, LowPieces, SterLow
  <2>4. /\ Len(Cat(w, <<Ster>>)) = Len(w) + 1
        /\ \A i \in DOMAIN Cat(w, <<Ster>>) :
             Cat(w, <<Ster>>)[i] = IF i <= Len(w) THEN w[i] ELSE Ster
    BY <2>1, Pieces, SMT DEF Small, Low, Word, Cat
  <2>5. Last(Cat(w, <<Ster>>)) = Ster
    BY <2>1, <2>3, <2>4, SMT DEF Last, Low, Word
  <2>6. Ster[2] = 0
    BY DEF Ster
  <2>7. ReadTens(Cat(w, <<Ster>>)) = ReadTens(w)
    <3>1. PICK v \in Word : v = Cat(w, <<Ster>>)
      BY <2>3 DEF Low
    <3>2. \A i \in 1 .. 4 : Value(i, v) = Value(i, w)
      BY <2>1, <2>4, <2>6, <3>1, SMT DEF Value, Low, Word
    <3>3. Len(v) <= 4 /\ Len(w) <= 4
      BY <2>1, <2>4, <3>1, SMT DEF Low, Word
    <3>4. QED
      BY <3>1, <3>2, <3>3 DEF ReadTens
  <2>8. Len(w) + 1 >= 1
    BY <2>1
  <2>9. QED
    BY <1>2, <2>1, <2>2, <2>3, <2>4, <2>5, <2>7, <2>8
<1>3. QED
  BY <1>1, <1>2

-----------------------------------------------------------------------------
(* The stem of a number: all that is said before its last two digits.      *)

\* One in front of a hundred or a thousand is "ein".
Count(k, word) == IF k = 1 THEN <<Ein>> ELSE word

HundredStem(n) ==
  IF n < 100 THEN << >> ELSE Cat(Count(n \div 100, Tens(n \div 100)), <<Hundert>>)

Stem(n) ==
  IF n < 1000 THEN HundredStem(n)
  ELSE Cat(Cat(Count(n \div 1000, Hundreds(n \div 1000)), <<Tausend>>), HundredStem(n % 1000))

BelowThousand == 0 .. 999
Million == 1000 * 1000

LEMMA DigitsBelowThousand ==
  ASSUME NEW n \in BelowThousand
  PROVE  /\ n \div 100 \in 0 .. 9 /\ n % 100 \in 0 .. 99
         /\ n - (n % 100) = 100 * (n \div 100)
  BY SMT DEF BelowThousand

LEMMA DigitsBelowMillion ==
  ASSUME NEW n \in Nat, n < Million
  PROVE  /\ n \div 1000 \in BelowThousand /\ n % 1000 \in BelowThousand
         /\ n % 100 \in 0 .. 99 /\ (n % 1000) % 100 = n % 100
         /\ n - (n % 100) = 1000 * (n \div 1000) + ((n % 1000) - (n % 100))
  BY SMT DEF BelowThousand, Million

\* Below a thousand, whatever low word follows.
LEMMA HundredsRead ==
  ASSUME NEW n \in BelowThousand, NEW w, Low(w)
  PROVE  /\ HundredStem(n) \in Word
         /\ Cat(HundredStem(n), w) \in Word
         /\ Without(Tausend, Cat(HundredStem(n), w))
         /\ ReadHundreds(Cat(HundredStem(n), w)) = (n - (n % 100)) + ReadTens(w)
<1>0. w \in Word /\ ReadTens(w) \in Int
  BY TensRead DEF Low
<1>1. CASE n < 100
  <2>1. HundredStem(n) = << >>
    BY <1>1 DEF HundredStem
  <2>2. << >> \in Word /\ Cat(<< >>, w) = w
    BY <1>0, CatEmpty
  <2>3. ReadHundreds(w) = ReadTens(w)
    BY LowReads
  <2>4. n - (n % 100) = 0
    BY <1>1, SMT DEF BelowThousand
  <2>5. QED
    BY <1>0, <2>1, <2>2, <2>3, <2>4 DEF Low
<1>2. CASE ~(n < 100)
  <2>1. PICK k \in 0 .. 9 : k = n \div 100 /\ n - (n % 100) = 100 * k
    BY DigitsBelowThousand
  <2>2. PICK a : a = Count(k, Tens(k)) /\ Low(a) /\ ReadTens(a) = k
    <3>1. CASE k = 1
      BY <3>1, SterLow DEF Count
    <3>2. CASE k # 1
      BY <3>2, TensLow DEF Count
    <3>3. QED
      BY <3>1, <3>2
  <2>3. HundredStem(n) = Cat(a, <<Hundert>>)
    BY <1>2, <2>1, <2>2 DEF HundredStem
  <2>4. Cat(HundredStem(n), w) = Around(a, Hundert, w)
    BY <2>3 DEF Around
  <2>5. HundredStem(n) \in Word
    BY <2>2, <2>3, CatWord, MarksAreWords DEF Low
  <2>6. QED
    BY <2>1, <2>2, <2>4, <2>5, HighReads
<1>3. QED
  BY <1>1, <1>2

\* What follows the stem of a cardinal.
LowTail(n) == IF n >= 100 /\ n % 100 = 0 THEN << >> ELSE Tens(n % 100)

LEMMA TailLow ==
  ASSUME NEW n \in Nat
  PROVE  Low(LowTail(n)) /\ ReadTens(LowTail(n)) = n % 100
<1>1. PICK m \in 0 .. 99 : m = n % 100
  BY SMT
<1>2. CASE n >= 100 /\ m = 0
  BY <1>1, <1>2, SterLow DEF LowTail
<1>3. CASE ~(n >= 100 /\ m = 0)
  BY <1>1, <1>3, TensLow DEF LowTail
<1>4. QED
  BY <1>2, <1>3

LEMMA HundredsWord ==
  ASSUME NEW n \in BelowThousand
  PROVE  Hundreds(n) = Cat(HundredStem(n), LowTail(n))
<1>1. CASE n < 100
  <2>1. n % 100 = n
    BY <1>1, SMT DEF BelowThousand
  <2>2. HundredStem(n) = << >> /\ Hundreds(n) = Tens(n) /\ LowTail(n) = Tens(n)
    BY <1>1, <2>1 DEF HundredStem, Hundreds, LowTail
  <2>3. n \in 0 .. 99
    BY <1>1, SMT DEF BelowThousand
  <2>4. Cat(<< >>, Tens(n)) = Tens(n)
    BY <2>3, TensLow, CatEmpty DEF Low
  <2>5. QED
    BY <2>2, <2>4
<1>2. CASE ~(n < 100)
  <2>1. LowTail(n) = Rest(Tens(n % 100), n % 100)
    BY <1>2, SMT DEF LowTail, Rest, BelowThousand
  <2>2. HundredStem(n) = Cat(Count(n \div 100, Tens(n \div 100)), <<Hundert>>)
    BY <1>2 DEF HundredStem
  <2>3. Hundreds(n) = Cat(Cat(Count(n \div 100, Tens(n \div 100)), <<Hundert>>),
                          Rest(Tens(n % 100), n % 100))
    BY <1>2 DEF Hundreds, Cat, Count
  <2>4. QED
    BY <2>1, <2>2, <2>3
<1>3. QED
  BY <1>1, <1>2

LEMMA HundredsReadBack ==
  ASSUME NEW n \in BelowThousand
  PROVE  /\ Hundreds(n) \in Word /\ Without(Tausend, Hundreds(n))
         /\ ReadHundreds(Hundreds(n)) = n
<1>0. n \in Nat
  BY SMT DEF BelowThousand
<1>1. Low(LowTail(n)) /\ ReadTens(LowTail(n)) = n % 100 /\ (n - (n % 100)) + (n % 100) = n
  BY <1>0, TailLow, SMT
<1>2. PICK t : t = LowTail(n) /\ Low(t) /\ ReadTens(t) = n % 100
  BY <1>1
<1>3. PICK v : v = Cat(HundredStem(n), t)
  OBVIOUS
<1>4. v \in Word /\ Without(Tausend, v) /\ ReadHundreds(v) = (n - (n % 100)) + (n % 100)
  BY <1>2, <1>3, HundredsRead
<1>5. Hundreds(n) = v
  BY <1>2, <1>3, HundredsWord
<1>6. QED
  BY <1>1, <1>4, <1>5

\* Below a million, whatever low word follows the stem.
LEMMA StemReads ==
  ASSUME NEW n \in Nat, n < Million, NEW w, Low(w)
  PROVE  /\ Stem(n) \in Word
         /\ Read(Cat(Stem(n), w)) = (n - (n % 100)) + ReadTens(w)
<1>0. w \in Word /\ ReadTens(w) \in Int
  BY TensRead DEF Low
<1>1. CASE n < 1000
  <2>1. n \in BelowThousand /\ Stem(n) = HundredStem(n)
    BY <1>1, SMT DEF Stem, BelowThousand
  <2>2. PICK v \in Word : /\ v = Cat(HundredStem(n), w) /\ Without(Tausend, v)
                          /\ ReadHundreds(v) = (n - (n % 100)) + ReadTens(w)
    BY <2>1, HundredsRead
  <2>3. (n - (n % 100)) + ReadTens(w) \in Int
    BY <1>0, <2>1, SMT DEF BelowThousand
  <2>4. Read(v) = ReadHundreds(v)
    BY <2>2, <2>3, ReadsBelow
  <2>5. HundredStem(n) \in Word
    BY <2>1, HundredsRead
  <2>6. QED
    BY <2>1, <2>2, <2>4, <2>5
<1>2. CASE ~(n < 1000)
  <2>1. PICK k \in BelowThousand : k = n \div 1000
    BY DigitsBelowMillion
  <2>2. PICK m \in BelowThousand : m = n % 1000
    BY DigitsBelowMillion
  <2>3. m % 100 = n % 100 /\ n - (n % 100) = 1000 * k + (m - (m % 100))
    BY <2>1, <2>2, DigitsBelowMillion
  <2>4. PICK a \in Word : /\ a = Count(k, Hundreds(k))
                          /\ Without(Tausend, a) /\ ReadHundreds(a) = k
    <3>1. CASE k = 1
      BY <3>1, SterLow, LowReads DEF Low, Count
    <3>2. CASE k # 1
      <4>1. /\ Hundreds(k) \in Word /\ Without(Tausend, Hundreds(k))
            /\ ReadHundreds(Hundreds(k)) = k
        BY HundredsReadBack
      <4>2. PICK a : a = Hundreds(k) /\ a \in Word /\ Without(Tausend, a) /\ ReadHundreds(a) = k
        BY <4>1
      <4>3. Count(k, a) = a
        BY <3>2 DEF Count
      <4>4. QED
        BY <4>2, <4>3
    <3>3. QED
      BY <3>1, <3>2
  <2>5. PICK h \in Word : h = HundredStem(m)
    BY HundredsRead
  <2>6. PICK b \in Word : /\ b = Cat(h, w) /\ Without(Tausend, b)
                          /\ ReadHundreds(b) = (m - (m % 100)) + ReadTens(w)
    BY <2>5, HundredsRead
  <2>7. Stem(n) = Cat(Cat(a, <<Tausend>>), h)
    BY <1>2, <2>1, <2>2, <2>4, <2>5 DEF Stem
  <2>8. PICK head \in Word : head = Cat(a, <<Tausend>>)
    BY CatWord, MarksAreWords
  <2>9. Stem(n) \in Word /\ Cat(Stem(n), w) = Cat(head, b)
    BY <1>0, <2>6, <2>7, <2>8, CatWord
  <2>10. Read(Cat(Stem(n), w)) = 1000 * k + ((m - (m % 100)) + ReadTens(w))
    BY <2>4, <2>6, <2>8, <2>9, ReadsAbove DEF Around
  <2>11. k \in Int /\ m - (m % 100) \in Int
    BY SMT DEF BelowThousand
  <2>12. QED
    BY <1>0, <2>3, <2>9, <2>10, <2>11
<1>3. QED
  BY <1>1, <1>2

-----------------------------------------------------------------------------
(* Whole words.                                                            *)

LEMMA CardinalWord ==
  ASSUME NEW n \in Nat, n < Million
  PROVE  Cardinal(n) = Cat(Stem(n), LowTail(n))
<1>1. CASE n < 1000
  <2>1. n \in BelowThousand
    BY <1>1, SMT DEF BelowThousand
  <2>2. Cardinal(n) = Hundreds(n) /\ Stem(n) = HundredStem(n)
    BY <1>1 DEF Cardinal, Stem
  <2>3. QED
    BY <2>1, <2>2, HundredsWord
<1>2. CASE ~(n < 1000)
  <2>1. PICK k \in BelowThousand : k = n \div 1000
    BY DigitsBelowMillion
  <2>2. PICK m \in BelowThousand : m = n % 1000 /\ m % 100 = n % 100
    BY DigitsBelowMillion
  <2>3. k # 0
    BY <1>2, <2>1, SMT
  <2>4. PICK a \in Word : a = Count(k, Hundreds(k))
    <3>1. <<Ein>> \in Word
      BY SterLow DEF Low
    <3>2. Hundreds(k) \in Word
      BY HundredsReadBack
    <3>3. QED
      BY <3>1, <3>2 DEF Count
  <2>5. PICK head \in Word : head = Cat(a, <<Tausend>>)
    BY CatWord, MarksAreWords
  <2>6. PICK h \in Word : h = HundredStem(m)
    BY SterLow, HundredsRead
  <2>7. PICK t \in Word : t = LowTail(n)
    BY TailLow DEF Low
  <2>8. Cardinal(n) = Cat(head, Rest(Hundreds(m), m))
    <3>1. Cardinal(n) = Cat(Cat(Count(n \div 1000, Hundreds(n \div 1000)), <<Tausend>>),
                            Rest(Hundreds(n % 1000), n % 1000))
      BY <1>2, ZenonT(100) DEF Cardinal, Count, Cat
    <3>2. QED
      BY <2>1, <2>2, <2>4, <2>5, <3>1
  <2>9. Cat(Stem(n), t) = Cat(head, Cat(h, t))
    BY <1>2, <2>1, <2>2, <2>4, <2>5, <2>6, CatWord DEF Stem
  <2>10. Rest(Hundreds(m), m) = Cat(h, t)
    <3>1. CASE m = 0
      <4>1. h = << >> /\ m % 100 = 0
        BY <2>6, <3>1, SMT DEF HundredStem
      <4>2. n >= 100
        BY <1>2, SMT
      <4>3. t = << >>
        BY <2>2, <2>7, <4>1, <4>2 DEF LowTail
      <4>4. Rest(Hundreds(m), m) = << >>
        BY <3>1 DEF Rest
      <4>5. QED
        BY <4>1, <4>3, <4>4, CatEmpty
    <3>2. CASE m # 0
      <4>1. LowTail(m) = LowTail(n)
        BY <1>2, <2>2, <3>2, SMT DEF LowTail, BelowThousand
      <4>2. Hundreds(m) = Cat(h, t)
        BY <2>6, <2>7, <4>1, HundredsWord
      <4>3. QED
        BY <3>2, <4>2 DEF Rest
    <3>3. QED
      BY <3>1, <3>2
  <2>11. QED
    BY <2>7, <2>8, <2>9, <2>10
<1>3. QED
  BY <1>1, <1>2

LEMMA SplitAtHundred ==
  ASSUME NEW n \in Nat
  PROVE  /\ n % 100 \in 0 .. 99
         /\ (n - (n % 100)) + (n % 100) = n
         /\ n % 100 = 0 => (n - (n % 100)) + 0 = n
  BY SMT

\* Any number below a million, read out as a cardinal.
LEMMA CardinalReadsBack ==
  ASSUME NEW n \in Nat, n < Million
  PROVE  Read(Cardinal(n)) = n
<1>1. PICK t : t = LowTail(n) /\ Low(t) /\ ReadTens(t) = n % 100
  BY TailLow
<1>2. Read(Cat(Stem(n), t)) = (n - (n % 100)) + (n % 100)
  BY <1>1, StemReads
<1>3. QED
  BY <1>1, <1>2, CardinalWord, SplitAtHundred

LEMMA Backwards ==
  ASSUME NEW a \in Word
  PROVE  /\ Reverse(a) \in Word /\ Len(Reverse(a)) = Len(a)
         /\ \A i \in 1 .. Len(a) : Reverse(a)[i] = a[(Len(a) - i) + 1]
<1>1. Len(a) \in Nat /\ \A i \in 1 .. Len(a) : a[i] \in Morpheme
  BY SMT DEF Word
<1>2. \A i \in 1 .. Len(a) : (Len(a) - i) + 1 \in 1 .. Len(a)
  BY <1>1, SMT
<1>3. Reverse(a) \in [1 .. Len(a) -> Morpheme]
  BY <1>1, <1>2 DEF Reverse
<1>4. Reverse(a) \in Word /\ Len(Reverse(a)) = Len(a)
  BY <1>1, <1>3, SMT DEF Word
<1>5. QED
  BY <1>4 DEF Reverse

\* The end of a word is a suffix of it.
LEMMA EndIsSuffix ==
  ASSUME NEW a \in Word, NEW b \in Word
  PROVE  /\ IsSuffix(b, Cat(a, b))
         /\ SubSeq(Cat(a, b), 1, Len(Cat(a, b)) - Len(b)) = a
         /\ Len(b) >= 1 => Last(Cat(a, b)) = Last(b)
<1>0. /\ Cat(a, b) \in Word /\ Len(Cat(a, b)) = Len(a) + Len(b)
      /\ \A i \in DOMAIN Cat(a, b) : Cat(a, b)[i] = IF i <= Len(a) THEN a[i] ELSE b[i - Len(a)]
  BY SMT DEF Word, Cat
<1>1. PICK v \in Word : /\ v = Cat(a, b) /\ Len(v) = Len(a) + Len(b)
                        /\ \A i \in DOMAIN v : v[i] = IF i <= Len(a) THEN a[i] ELSE b[i - Len(a)]
  BY <1>0
<1>2. Len(a) \in Nat /\ Len(b) \in Nat /\ DOMAIN b = 1 .. Len(b) /\ DOMAIN v = 1 .. Len(v)
  BY SMT DEF Word
<1>3. IsSuffix(b, v)
  <2>1. PICK rb \in Word : /\ rb = Reverse(b) /\ Len(rb) = Len(b)
                           /\ \A i \in 1 .. Len(b) : rb[i] = b[(Len(b) - i) + 1]
    BY Backwards
  <2>2. PICK rv \in Word : /\ rv = Reverse(v) /\ Len(rv) = Len(v)
                           /\ \A i \in 1 .. Len(v) : rv[i] = v[(Len(v) - i) + 1]
    BY Backwards
  <2>3. ASSUME NEW i \in 1 .. Len(b)
        PROVE  rv[i] = rb[i]
    <3>1. PICK j : j = (Len(v) - i) + 1
      OBVIOUS
    <3>2. j \in DOMAIN v /\ ~(j <= Len(a)) /\ j - Len(a) = (Len(b) - i) + 1
      BY <1>1, <1>2, <3>1, SMT
    <3>3. i \in 1 .. Len(v)
      BY <1>1, <1>2, SMT
    <3>4. v[j] = b[(Len(b) - i) + 1]
      BY <1>1, <3>2
    <3>5. QED
      BY <2>1, <2>2, <3>1, <3>3, <3>4
  <2>4. SubSeq(rb, 1, Len(rb)) = SubSeq(rv, 1, Len(rb))
    BY <1>1, <1>2, <2>1, <2>2, <2>3, SMT DEF Word
  <2>5. QED
    BY <1>1, <1>2, <2>1, <2>2, <2>4 DEF IsSuffix, IsPrefix
<1>4. SubSeq(v, 1, Len(a)) = a
  BY <1>1, SMT DEF Word, Cat
<1>5. Len(v) - Len(b) = Len(a)
  BY <1>1, <1>2
<1>6. Len(b) >= 1 => Last(v) = Last(b)
  BY <1>1, <1>2, SMT DEF Last
<1>7. QED
  BY <1>1, <1>3, <1>4, <1>5, <1>6

\* Any number below a million, read out as an ordinal.
LEMMA OrdinalReadsBack ==
  ASSUME NEW n \in Nat, n < Million
  PROVE  Read(Ordinal(n)) = n /\ EndsAsOrdinal(Ordinal(n), n)
<1>1. PICK d \in 0 .. 99 : d = n % 100
  BY SplitAtHundred
<1>2. PICK o : /\ o = OrdinalTens(d) /\ Low(o) /\ Len(o) >= 1 /\ ReadTens(o) = d
               /\ Last(o) = IF d \in ORDINAL_TO_WORD THEN <<"ord", d>> ELSE Ster
  BY OrdinalLow
<1>3. PICK s : s = Stem(n) /\ s \in Word /\ \A w : Low(w) => Read(Cat(s, w)) = (n - d) + ReadTens(w)
  BY <1>1, StemReads, SterLow
<1>4. CASE n < 100
  <2>1. s = << >> /\ d = n
    BY <1>1, <1>3, <1>4, SMT DEF Stem, HundredStem
  <2>2. Ordinal(n) = Cat(s, o) /\ Cat(s, o) = o
    BY <1>2, <1>4, <2>1, CatEmpty DEF Ordinal, Low
  <2>3. Read(Cat(s, o)) = (n - d) + d
    BY <1>2, <1>3
  <2>4. QED
    BY <1>1, <1>2, <2>1, <2>2, <2>3, SplitAtHundred DEF EndsAsOrdinal
<1>5. CASE ~(n < 100) /\ d = 0
  <2>1. n >= 100
    BY <1>5, SMT
  <2>2. LowTail(n) = << >>
    BY <1>1, <1>5, <2>1 DEF LowTail
  <2>3. Cardinal(n) = s
    BY <1>3, <2>2, CardinalWord, CatEmpty
  <2>4. Ordinal(n) = Cat(s, <<Ster>>)
    BY <1>1, <1>5, <2>3 DEF Ordinal, Cat
  <2>5. Read(Cat(s, <<Ster>>)) = (n - d) + 0
    BY <1>3, SterLow
  <2>6. Last(Cat(s, <<Ster>>)) = Last(<<Ster>>)
    <3>1. PICK e \in Word : e = <<Ster>> /\ Len(e) >= 1
      BY MarksAreWords, SMT
    <3>2. QED
      BY <1>3, <3>1, EndIsSuffix
  <2>7. Last(<<Ster>>) = Ster
    BY SMT DEF Last
  <2>8. d \notin ORDINAL_TO_WORD
    BY <1>5 DEF ORDINAL_TO_WORD
  <2>9. QED
    BY <1>1, <1>5, <2>4, <2>5, <2>6, <2>7, <2>8, SplitAtHundred DEF EndsAsOrdinal
<1>6. CASE ~(n < 100) /\ d # 0
  <2>1. PICK t \in Word : t = Tens(d)
    BY TensLow DEF Low
  <2>2. LowTail(n) = t
    BY <1>1, <1>6, <2>1 DEF LowTail
  <2>3. PICK c \in Word : c = Cat(s, t)
    BY <1>3, CatWord
  <2>4. Cardinal(n) = c
    BY <1>3, <2>2, <2>3, CardinalWord
  <2>5. IsSuffix(t, c) /\ SubSeq(c, 1, Len(c) - Len(t)) = s
    BY <1>3, <2>3, EndIsSuffix
  <2>6. Ordinal(n) = Cat(s, o)
    BY <1>1, <1>2, <1>6, <2>1, <2>4, <2>5 DEF Ordinal, Cat
  <2>7. Read(Cat(s, o)) = (n - d) + d
    BY <1>2, <1>3
  <2>8. Last(Cat(s, o)) = Last(o)
    BY <1>2, <1>3, EndIsSuffix DEF Low
  <2>9. QED
    BY <1>1, <1>2, <2>6, <2>7, <2>8, SplitAtHundred DEF EndsAsOrdinal
<1>7. QED
  BY <1>4, <1>5, <1>6

LEMMA LowReadsBack ==
  ASSUME NEW w, Low(w)
  PROVE  Read(w) = ReadTens(w)
<1>1. ReadHundreds(w) = ReadTens(w) /\ ReadTens(w) \in Int
  BY LowReads, TensRead
<1>2. QED
  BY <1>1, ReadsBelow DEF Low

\* Before a unit, and below it.
LEMMA EuroReadsBack ==
  ASSUME NEW n \in Nat, n < Million, NEW ds \in Seq(Digit), Len(ds) \in 1 .. 2
  PROVE  /\ Read(Euro(n, ds)[1]) = n
         /\ Read(Euro(n, ds)[2]) = Cents(ds)
         /\ Cents(ds) = IF Len(ds) = 1 THEN 10 * ds[1] ELSE 10 * ds[1] + ds[2]
<1>1. Cents(ds) \in 0 .. 99 /\ Cents(ds) = IF Len(ds) = 1 THEN 10 * ds[1] ELSE 10 * ds[1] + ds[2]
  <2>1. ds[1] \in 0 .. 9 /\ (Len(ds) # 1 => ds[2] \in 0 .. 9)
    BY SMT DEF Digit
  <2>0. PICK x \in 0 .. 9 : x = ds[1]
    BY <2>1
  <2>2. CASE Len(ds) = 1
    <3>1. Cents(ds) = 10 * x + 0
      BY <2>0, <2>2 DEF Cents
    <3>2. 10 * x + 0 \in 0 .. 99 /\ 10 * x + 0 = 10 * x
      BY SMT
    <3>3. QED
      BY <2>0, <2>2, <3>1, <3>2
  <2>3. CASE Len(ds) # 1
    <3>1. PICK y \in 0 .. 9 : y = ds[2]
      BY <2>1, <2>3
    <3>2. Cents(ds) = 10 * x + y
      BY <2>0, <2>3, <3>1 DEF Cents
    <3>3. 10 * x + y \in 0 .. 99
      BY SMT
    <3>4. QED
      BY <2>0, <2>3, <3>1, <3>2, <3>3
  <2>4. QED
    BY <2>2, <2>3
<1>2. Read(NumberWord(n)) = n
  <2>1. CASE n = 1
    BY <2>1, SterLow, LowReadsBack DEF NumberWord
  <2>2. CASE n # 1
    BY <2>2, CardinalReadsBack DEF NumberWord
  <2>3. QED
    BY <2>1, <2>2
<1>3. PICK c \in 0 .. 99 : c = Cents(ds)
  BY <1>1
<1>4. Read(IF c = 0 THEN << >> ELSE Cardinal(c)) = c
  <2>1. CASE c = 0
    BY <2>1, SterLow, LowReadsBack
  <2>2. CASE c # 0
    <3>1. c \in Nat /\ c < Million
      BY SMT DEF Million
    <3>2. QED
      BY <2>2, <3>1, CardinalReadsBack
  <2>3. QED
    BY <2>1, <2>2
<1>5. QED
  BY <1>1, <1>2, <1>3, <1>4 DEF Euro

LEMMA DigitsReadBack ==
  ASSUME NEW n \in Nat, n < Million, NEW ds \in Seq(Digit), NEW i \in DOMAIN ds
  PROVE  /\ Read(Decimal(n, ds)[1]) = n
         /\ Read(Decimal(n, ds)[2][i]) = ds[i]
<1>0. ds[i] \in 0 .. 9
  BY SMT DEF Digit
<1>1. PICK d \in 0 .. 99 : d = ds[i]
  BY <1>0, SMT
<1>2. Read(Tens(d)) = d
  BY TensLow, LowReadsBack
<1>3. QED
  BY <1>1, <1>2, CardinalReadsBack DEF Decimal

LEMMA NumbersBelowMillion == NumeralsInv => number \in Nat /\ number < Million
<1> SUFFICES ASSUME NumeralsInv PROVE number \in Nat /\ number < Million
  OBVIOUS
<1>1. PICK max \in 1 .. 999 : max = MaxNumber
  BY NumeralsAssumption
<1>2. PICK b \in 0 .. 1001 * max : number \in b .. b + 9 /\ b % 10 = 0
  BY <1>1 DEF NumeralsInv, Bases
<1>3. QED
  BY <1>1, <1>2, SMT DEF Million

\* What is read out is the number that was written: every cardinal, ordinal,
\* decimal and amount the numerals try, for any MaxNumber, reads back as what
\* it was made from, and an ordinal ends as one (number_to_words,
\* ordinal_to_words, decimal_to_words, _normalize_euro_amounts).
THEOREM NumbersReadBack == NumeralsSpec => []ReadsBack
<1>1. NumeralsInv => ReadsBack
  <2> SUFFICES ASSUME NumeralsInv PROVE ReadsBack
    OBVIOUS
  <2>1. number \in Nat /\ number < Million
    BY NumbersBelowMillion
  <2>2. digits \in Seq(Digit) /\ Len(digits) \in 1 .. 2
    BY DEF NumeralsInv
  <2>3. Read(Cardinal(number)) = number
    BY <2>1, CardinalReadsBack
  <2>4. Read(Ordinal(number)) = number /\ EndsAsOrdinal(Ordinal(number), number)
    BY <2>1, OrdinalReadsBack
  <2>5. /\ 1 \in DOMAIN digits
        /\ \A i \in DOMAIN digits : /\ Read(Decimal(number, digits)[1]) = number
                                    /\ Read(Decimal(number, digits)[2][i]) = digits[i]
    <3>1. 1 \in DOMAIN digits
      BY <2>2
    <3>2. QED
      BY <2>1, <2>2, <3>1, DigitsReadBack
  <2>6. /\ Read(Euro(number, digits)[1]) = number
        /\ Read(Euro(number, digits)[2])
             = IF Len(digits) = 1 THEN 10 * digits[1] ELSE 10 * digits[1] + digits[2]
    BY <2>1, <2>2, EuroReadsBack
  <2>7. QED
    BY <2>3, <2>4, <2>5, <2>6 DEF ReadsBack
<1>2. QED
  BY <1>1, NumeralsStart, NumeralsStep, PTL DEF NumeralsSpec

-----------------------------------------------------------------------------
(* All parts side by side.                                                 *)

HouseInv ==
  /\ part \in {"spoken", "approval", "wiring", "deploy", "ollama",
              "mirror", "speech", "numerals"}
  /\ SpokenTypeOK /\ ApprovalInv /\ MirrorTypeOK /\ SpeechTyped /\ NumeralsInv
  /\ WiringInv /\ WiringTypeOK /\ DeployInv /\ DeployTypeOK /\ OllamaTypeOK

LEMMA HouseStart == MCInit => HouseInv
BY SpokenTypeStart, ApprovalStart, MirrorStart, SpeechTypedStart, NumeralsStart,
   WiringStart, WiringTypeStart, DeployStart, DeployTypeStart, OllamaTypeStart
DEF MCInit, HouseInv, MirrorInv

LEMMA PartsOfTheHouse ==
  [MCNext]_mcVars =>
    /\ [SpokenNext]_spokenVars /\ [ApprovalNext]_approvalVars /\ [MirrorNext]_mirrorVars
    /\ [SpeechNext]_speechVars /\ [NumeralsNext]_numeralVars /\ [WiringNext]_wiringVars
    /\ [DeployNext]_deployVars /\ [OllamaNext]_ollamaVars
    /\ part' = part
BY DEF MCNext, mcVars, talkVars, heardVars, scriptVars, Still, Spoken, Approves, Mirrors,
       Speaks, Counts, Wires, Deploys, Serves

LEMMA HouseStep == HouseInv /\ [MCNext]_mcVars => HouseInv'
<1> SUFFICES ASSUME HouseInv, [MCNext]_mcVars PROVE HouseInv'
  OBVIOUS
<1>1. /\ [SpokenNext]_spokenVars /\ [ApprovalNext]_approvalVars /\ [MirrorNext]_mirrorVars
      /\ [SpeechNext]_speechVars /\ [NumeralsNext]_numeralVars /\ [WiringNext]_wiringVars
      /\ [DeployNext]_deployVars /\ [OllamaNext]_ollamaVars
      /\ part' = part
  BY PartsOfTheHouse
<1>2. SpokenTypeOK' /\ ApprovalInv'
  BY <1>1, SpokenTypeStep, ApprovalStep DEF HouseInv
<1>3. MirrorTypeOK' /\ SpeechTyped' /\ NumeralsInv'
  BY <1>1, MirrorTypeStep, SpeechTypedStep, NumeralsStep DEF HouseInv
<1>4. WiringInv' /\ WiringTypeOK'
  BY <1>1, WiringStep, WiringTypeStep DEF HouseInv
<1>5. DeployInv' /\ DeployTypeOK' /\ OllamaTypeOK'
  BY <1>1, DeployStep, DeployTypeStep, OllamaTypeStep DEF HouseInv
<1> QED
  BY <1>1, <1>2, <1>3, <1>4, <1>5 DEF HouseInv

\* What the run of the parts side by side checks is each part by itself, as in
\* ChatsProofs: a behaviour of MCSpec is one of every part's own specification.
THEOREM PartsAreTheirSpecifications ==
  MCSpec => /\ SpokenSpec /\ ApprovalSpec /\ MirrorSpec /\ SpeechSpec /\ NumeralsSpec
            /\ WiringSpec /\ DeploySpec /\ OllamaSpec
<1>1. MCInit => /\ SpokenInit /\ ApprovalInit /\ MirrorInit /\ SpeechInit /\ NumeralsInit
                /\ WiringInit /\ DeployInit /\ OllamaInit
  BY DEF MCInit
<1> QED
  BY <1>1, PartsOfTheHouse, PTL
  DEF MCSpec, SpokenSpec, ApprovalSpec, MirrorSpec, SpeechSpec, NumeralsSpec,
      WiringSpec, DeploySpec, OllamaSpec

\* The properties of all parts, of the specification the run checks.
THEOREM TheHouseIsInOrder ==
  MCSpec =>
    /\ SoulKeptOrCurrent
    /\ [](AttributedOnce /\ FollowUpsPaired /\ OnlyAdminApproves /\ DenialDropsVoice
          /\ MirroredOnce /\ SpokenInOrder /\ ReadsBack /\ NoDuplicates
          /\ CleanPassConverges /\ TokensDelivered /\ EndsWarmOnGpu)
BY PartsAreTheirSpecifications, UidsAttributeOnce, FollowUpsArePaired, OnlyTheAdminApproves,
   DenialDropsTheVoice, WatchedTurnsShownOnce, AnswersAreSpokenInOrder, NumbersReadBack,
   EntriesAreUnique, CleanPassesConverge, TokensArrive, SoulsKeptOrCurrent, PassesEndWarm, PTL

\* Every reachable state of every part is well typed: spoken turns, approvals,
\* the mirror, the speech service, the numerals and the deploy scripts.
THEOREM TypesCorrect == MCSpec => []TypesOK
<1>1. HouseInv => TypesOK
  BY SpeechTypedIsOK, NumeralsTyped DEF HouseInv, TypesOK, ApprovalInv
<1> QED
  BY <1>1, HouseStart, HouseStep, PTL DEF MCSpec
===============================================================================
