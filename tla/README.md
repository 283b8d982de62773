# Solbay in TLA+

Specifications of Solilos/Solbay, the household assistant in this repository: the
turns of the chat server and what surrounds them, from timers, enrolment, routing and
compaction to the speech service and the deploy scripts.  An action is the body of a
handler between two suspension points; `PROJECT.json` maps each definition to the
lines it stands for.

Paths: `SC` is `src/solilos-chat/src/solilos_chat`, `GK` is
`src/voice-gatekeeper/src/gatekeeper`.

## 1. Inventory

Solilos chat is one asyncio process (aiohttp), the gatekeeper another (Wyoming).
They share one SQLite file, `solilos.db`, and call Home Assistant, Ollama, MCP
servers and ServiceBay over HTTP.  Nothing is multi-threaded except `to_thread`
calls of the gatekeeper; all interleaving is at `await` and `yield`.

| component | state | operations | talks to |
|---|---|---|---|
| Turn engine (`SC/engine/client.py`, `store.py`, `ollama.py`) | `engine_sessions`, `engine_messages`; locals of each turn's generator | `chat_stream`, `respond_session`, `respond`, `_loop` | Ollama, toolbox, store, mirror, trace |
| Chat server (`SC/server.py`) | `cancels`, routing sets, model preference | `chat`, `chat_stream`, `cancel_chat`, `delete_session`, topics, settings, approvals | browser, engine |
| Timer scheduler (`SC/engine/scheduler.py`, `tools/timers.py`) | `engine_timers`; the round in progress | `timer_set`, `timer_cancel`, `_fire_due` | Home Assistant's announce |
| Live-voice enrolment (`SC/engine/tools/register.py`, `enroll_requests_store.py`, `GK/enroll_stash.py`, `GK/handler.py`) | `enroll_requests`, `voice_embeddings`, `pending_residents`; the gatekeeper's dict of samples | `start_voice_enrollment`, `register_pending_resident`, `_capture_enrollment` | the two processes, through the table |
| Resident approval (`SC/engine/tools/onboarding_approval.py`) | `pending_residents`, `voice_embeddings` | file, check, approve, deny | ServiceBay, gatekeeper |
| Voice identity (`GK/uid_stash.py`, `GK/sol.py`, `SC/voice_uid_stash.py`, `SC/engine/facade.py`) | `voice_uid_stash`, the gatekeeper's histories | stash, consume, spoken turn, converse | gatekeeper, Home Assistant, engine |
| Compaction (`SC/compaction.py`) | sessions, transcripts, overlays | `maybe_compact`, `compact_session`, `_compact_stale` | engine |
| Routing (`gateway_for`, `SC/topics_store.py`, `SC/settings_store.py`) | three sets in memory, `session_topics`, a JSON sidecar | first turn, topics, preference | server |
| Night jobs (`SC/engine/crons.py`) | `engine_cron_runs` | the tick, jobs | engine, compaction |
| Mirror (`SC/engine/bus.py`, `session_events`, the page) | subscriber queues, the tab's bubble | publish, subscribe, draw | browser tabs |
| Tracing (`SC/engine/trace.py`, `SC/trace_store.py`) | two rings, `session_traces` | record, persist, detail | server, panel |
| Home tools (`SC/engine/registry.py`, `SC/engine/tools/ha.py`) | the cached device list | prompt block, run, history | Home Assistant |
| Martin TTS (`src/tts-martin`) | a pool of worker processes | speech requests, text rules | speakers |
| Deploy scripts (`src/templates/*/post-deploy.py`) | files, systemd units, Home Assistant's entries | every deploy, repeated | ServiceBay, podman, Home Assistant |
| Other tools, MCP client, attachments, skills, mentions, speaker identification, migrations, rendering | TTL caches at most | one read or write each | — |

What is hard here:

* **Interleaving at awaits.**  Two turns may run on one session (two tabs, or a
  tab and the voice), each appending rows between the other's awaits; one
  `cancels` entry serves them both; a deletion tells no running turn.
* **Acting before recording.**  A tool acts before its output is stored, a
  speaker rings before the row is updated, a request is cleared before the
  resident is inserted.
* **Two processes, one table, one dict.**  The engine resets a row; the samples
  are in the other process's memory.
* **Restarts** at any point; `solilos.db` survives, everything else does not.
* **Promises over time.**  Turns end, timers ring, captures return.

`PROJECT.json` lists each hazard at its line and the properties aimed at it.

What makes each modelled component correct:

* *Turns*: the transcript of a turn is well ordered whatever else the session
  collects; what acted on the house was asked for on disk first; at most one
  output is lost; what is reported done is stored; a cancel is effective; a
  deletion is final for questions; turns end.
* *Timers*: never early, never overlooked, one ring per timer unless a round
  dies, settled means over, due means settled in the end.
* *Enrolment*: samples belong to one candidate and one profile write, a profile
  stands on as many as the target says, and every resident filed on an enrolment.
* *Approval*: only the admin approves, and only the row that was filed; a denial
  leaves no voice behind.
* *Spoken turns*: a recognised speaker is credited once, and never for other words;
  what the model is shown of earlier turns are questions with their answers.
* *Compaction and routing*: nothing a chat held is forgotten, a continuation stays
  with its owner, and the household chat stays on the fast gateway.
* *Night jobs*: a slot is run at most once, passed over or run in the end, and
  leaves no session behind.
* *Mirror and trace*: what is shown of a turn is what that turn did, once.
* *Home tools*: the prompt's devices are recent, what is started is what was asked
  for, and a history is what was.
* *Speech*: the sentences of a text in their order, the numbers as written.
* *Deploys*: cut short and repeated, they converge, duplicate nothing and keep what
  the operator changed.

## 2. Modules

| module | models | proofs |
|---|---|---|
| `TurnEngine` | turns on one chat process: arrival, loop, store, cancel, delete, restart | `TurnEngineProofs`, `TranscriptProofs` |
| `TurnLifecycle` | abstract: what one turn promises | implemented by `TurnEngine`: `TurnEngineProofs` |
| `Timers` | tools, scheduler task, Home Assistant's answer, restart | `TimersProofs` |
| `TimerLifecycle` | abstract: what a timer promises | implemented by `Timers`: `TimersProofs` |
| `Enrollment` | both tools, the capture coroutine, restart of the gatekeeper | `EnrollmentProofs` |
| `SampleLifecycle` | abstract: what enrolment promises of a voice sample | implemented by `Enrollment`: `EnrollmentProofs` |
| `Conversations` | compaction by requests and by night, deletion, restart | `ChatsProofs` |
| `ChatLifecycle` | abstract: what the store of chats promises | implemented by `Conversations`: `ChatsProofs` |
| `Routing` | the gateway of a turn, pins, topics, preference, restart | `ChatsProofs` |
| `NightJobs` | the cron runner | `ChatsProofs` |
| `HomeRegistry` | the device list of the prompt | `ChatsProofs` |
| `HomeTools` | `ha_run_scene_script`, `ha_state_history` | `ChatsProofs` |
| `Trace` | the rings, stored rows, details | `ChatsProofs` |
| `SpokenTurn` | gatekeeper, uid stash, facade, the satellite's history | `VoiceProofs` |
| `Approval` | filing, polling, approving, denying a resident | `VoiceProofs` |
| `Speech` | Martin: requests and workers | `VoiceProofs` |
| `Numerals` | Martin: how numbers are read | `HouseProofs` |
| `Mirror` | publishing, the subscription, the tab | `MirrorProofs` |
| `VoiceWiring`, `SolilosDeploy` | the solilos post-deploy script: wiring; soul, tokens, restart | `HouseProofs` |
| `OllamaDeploy` | the ollama post-deploy script on a GPU host | `HouseProofs` |
| `MCTurnEngine`, `MCTimers`, `MCEnrollment`, `MCChats`, `MCHouse` | instances for TLC | types of the last two: `ChatsProofs`, `HouseProofs` |

`MCChats` and `MCHouse` put modules side by side that share no variable in the models.
A variable `part`, fixed by the initial state, says which of them moves; the others
keep their initial value.  A run over them is the union of the runs of their parts,
not a product.

Each component's module stands for its own process or its own tables.  Where
components meet, one side is the other's environment: `TurnEngine` has compaction as
`Compacted`, and `Conversations` has a turn as two steps; `Approval` has enrolment as
`EnrolVoice`; `Routing` has a continuation as `ContinueChat`.

### TurnEngine

`live` and `used` are the rows of `engine_sessions` and the ids ever handed out;
`log[s]` is `engine_messages` of `s` by `seq`; `cancels` and `cancelled` are the
server's dict and the set asyncio events.  A row keeps its turn, its role, the
pass, and how many calls it announces or which of them it answers; texts are left
out, except that an answer may be a device *claim* (the regular expression of
client.py:108).

`pc[t]` is where the coroutine of a turn is suspended:

| `pc` | suspended at |
|---|---|
| `arrived` | `await maybe_compact` (server.py) |
| `open` | sending the `session` event, attachments, mentions |
| `prompt` | `await _system_prompt`, `await toolbox.prepare` |
| `model` | Ollama's stream |
| `stepped`, `started`, `returned`, `completed` | the yields of `llm.step`, `tool.started`, `tool.completed`, `run.completed` |
| `tool` | `await toolbox.dispatch` |

A streamed turn's events go through `_heartbeat` and the `async for` of
`chat_stream`, which polls the cancel event once per event, before forwarding it:
`polled[t]` says whether it has.  The generator goes on only when the consumer
asks for the next event (`Resumes`).  A drained turn (`POST /api/chat`, a night
job, a compaction prompt) and a spoken one have no such consumer.

`Abort` is a browser that hung up (the next `_send_event` raises) and every
exception that is not an `EngineError`; `ModelFails` is the `OllamaError` path.
Both run the `finally` that pops `cancels`.  `Restart` kills every turn.

Compaction enters as its effect on a turn: between arrival and registration the
turn may find itself on a fresh session (`Compacted`).  Its prompts are drained
turns of the old session.  Titles, usage totals, overlays, and the text of
prompts are left out; so is the guest's stateless `respond`, which runs the same
loop with `persist=False`.

### Timers

`due` is the instant whose UTC digits the stored text has, `meant` the instant the
resident asked for; they differ for local digits (`SetAt` with `local`).  `batch`
and `current` are the rows `_fire_due` holds.  `Ring` is Home Assistant taking the
announcement, `Record` the return of `_announce` plus the UPDATE: Home Assistant's
reply may be lost after the ring, then the outcome is `failed`.  `Forget` covers
both a process restart and a round that raised (`_run` logs it and polls again).
`rung`, `unrecorded` and `restarts` are history.

`TimerLifecycle` has no table, task or round, only timers that each go their own way.
`Hold` maps a round to it: a timer is taken up while the round holds it, and has
rung once its announcement was taken.  A poll that fetches several rows, or a crash
that drops them, is a step of each of these timers at once.

### Enrollment

A capture is the coroutine of one spoken turn of the gatekeeper, suspended at each
`to_thread` call: `claimed` (extracting), `held` (counting the sample), `counted`
is the one point that does not suspend in the code, kept apart because the model
then shows the empty take; `taken` (averaging, upserting), `enrolled` and
`failing` (writing the result).  `bucket` is `_pending_embeddings`.  A request's
result text and the number `collected`, which only the dialog reports, are left
out.  One instant of the model's clock is a whole window.

`Claim` comes after the awaits for transcription, speaker and stash (handler.py:206-234),
so the window it looks at is the claim's and not that of the speech: a capture may
bring words spoken before its request was opened, and no property says otherwise.
`RegisterDone` also has the DELETE whose error `clear_request` swallows: the resident is
filed, the request stays `done`, and `uncleared` counts it.  `overtaken` are the
captures that met the target and whose samples another one took before they did.

`SampleLifecycle` has only samples, which go from the microphone to one candidate's
bucket, batch and profile and may be dropped anywhere.  `Place` maps a state to it as
the *set* of all places a sample is in, whatever suspended the captures; that it has
one member at most is part of what is shown.  A take or an enrolment moves all samples
of a batch at once, and a new profile drops those of the one before.

### Conversations

`rows[s]` are the questions in a transcript, `brief[s]` those its system prompt
summarises; both together are what the next turn can know.  `pc` of a request, or of
the night compactor, is one of `extracting`, `summarising`, `briefing` during a
compaction.  `seen` remembers what the chat held when a request was sent, less what is
deleted since.  `usage` only matters against the two thresholds: it is cumulative in
the code (store.py:228), so a turn may raise it to anything up to the cap.

`ChatLifecycle` is the same store without requests, turns, usage or the compactor: a
chat `holds` questions, and a summary under way is a `note`, a chat with what it held.
The mapping takes `rows` and `brief` together for what a chat holds, a worker that has
read a history (`briefing`) for a note, and for `spent` the questions whose turn has
begun or whose request is over.  Everything else a request does is a stutter.

### Routing

`pins` are `household_sessions`, `admin_sessions` and `deep_sessions`, lost in a
restart; `tags` is `session_topics` with its key, under which one slug of a chat
belongs to one resident.  `Gateway` is a function of the state, so an ordinary turn is
no step.  It is asked with `readable`, whether session_topics could be read: a read that
fails is "no topics" (topics_store.py:76-77).  The history `zuhause` is what
residents have made household chats by a first turn or a topic, and not unmade; `fresh`
are those whose first turn this process has seen.  `ContinueChat` is the chat a
compaction goes on in, with no pins and no topics.  `Written` and `RoutingRestart` have
the settings file refused, truncated, or left truncated by a crash.

### NightJobs

A job's slots are numbered; `nowSlot` is frozen at the `now` of the tick while `clock`
goes on.  `Baseline` covers both a job with no row and a table that cannot be read,
which `_last_run` does not tell apart.  `fired` counts the runs of each slot.

### HomeRegistry and HomeTools

A device list is the time at which it was read.  Fetches overlap and answer in any
order within their timeout; `given[t]` is what the last prompt of a turn got.

A tool call resolves a reference against the names of one moment (`Find`) and starts
the entity in a later step.  A history is taken of one entity's writes, in whole days:
`Series` and `Changes` are sets of numbers of writes, and a transition has as `nr` the
number of the write that began it, so that the order of the list is the order of `nr`.
Zero days are `DefaultDays`, as `days or 7` has it (ha.py:157); less is one day.

### SpokenTurn and Approval

An utterance goes from the gatekeeper through Home Assistant, or directly from a
satellite, to the facade.  `heardAs` is the speaker told, `credit` the utterance whose
row the facade found, `runAs` the uid of the turn.  `expired` stands for the age of a
row.

`Approval` is about one candidate; rows are kept in a sequence as they are never
deleted.  `tool[c]` holds what a suspended run of a tool has in its locals.  `missed`
records a deletion that failed at the gatekeeper and was closed all the same.

### Mirror and Trace

`Mirror` is one tab on one session.  `disturbed` are the turns the tab did not watch
quietly: those that overlap another, that it subscribed in the middle of, or that came
while a turn of its own was in flight.

In `Trace` time is the number of the next record.  A turn's trace is selected when it
ends well, and stored as a set of records, whose ids are their order; the rings begin
again, ids included, with each life of the process.

### Speech and Numerals

A text is a sequence of segments of three kinds: sentences, single characters (dropped
by the splitter) and signs (no samples).  With one worker a request is one step, since
it holds the event loop; with several its sentences are tasks of the pool.

`Numerals` has the functions of tts_normalizer.py as operators on words, a word being
the sequence of its parts.  `Read` is the reference: it is defined from the grammar and
not from those functions.  It adds up at most four parts below a hundred, as many as
there are; a longer word is no number.

### VoiceWiring, SolilosDeploy, OllamaDeploy

Each has a program counter for the step of the script that comes next.  Every call
may fail, or succeed with its reply lost; the script may die anywhere and is run again.
`blind`, `clean`, `cut`, `smooth` and `misled` are histories of what went wrong, and
the properties say what holds as long as it did not.  `VoiceWiring` looks engines up
as the code does, with any wyoming entity to fall back on when a look-up fails.

`SolilosDeploy` takes no file for written.  Each is opened for writing, and so emptied,
and then filled; a write that fails or is cut leaves the old text, none, or a part of
the new (`CutOff`).  A file that cannot be read counts as empty: an unreadable SOUL.md is
written over, and for an unreadable token file a token is minted next to the live one.
`Mint` is the four attempts in one step, each of which may have minted a token whose
reply was lost.  `Deploy` renders the manifest anew, without a token, and may start the
chat with it.  `flawless` is a pass in which nothing has failed so far and nothing the
script had read was changed; `marked` says that the script has marked the soul it last
wrote; `lost` counts the admin tokens revoked, lost on their way, or replaced unread.
Shipping the alarm sound, a copy repeated on each deploy, is left out.

## 3. Runs

All runs state `CHECK_DEADLOCK FALSE`: a household may stop asking, and a job, a clock
or a script may be through.

| run | instance | shows |
|---|---|---|
| `TurnMixed` | a stream and another turn that is spoken or drained, an ordinary and a household session, 2 passes, fairness | liveness, cancel, refinement of `TurnLifecycle` |
| `TurnStreams` | two streams, one session, 1 pass, 2 calls | cancel registry, transcript order, tools on record, deletion, cancel |
| `TurnCancelLost` | two streams | *violated*: `StreamsStayCancellable` |
| `TimersDelivery` | two timers, two residents, 1 restart or failed round, offset 1 | the timer properties, the refinement of `TimerLifecycle` and `DueIsSettled` |
| `TimersCancelRings` | one resident | *violated*: `CancelledStaysSilent` |
| `TimersLocal` | offset 1 | *violated*: `NoneOverlooked` |
| `EnrollCaptures` | two candidates, three captures, target 2, one failed DELETE each | the enrolment properties, the refinement of `SampleLifecycle` and `EveryCaptureReturns` |
| `EnrollStale` | one candidate | *violated*: `ProfileOfOneRequest` |
| `EnrollTimeout` | one candidate | *violated*: `NoTimeoutInFlight` |
| `Chats` | see below, fairness of the cron runner | the properties of `Conversations`, its refinement of `ChatLifecycle`, those of `Routing`, `NightJobs`, `HomeRegistry`, `HomeTools`, `Trace` |
| `House` | see below | the properties of the other eight modules |
| `SpokenCollision` | two residents | *violated*: `NeverAnothersTurn` |

The violated properties are sentences of the repository (a comment, a docstring or
a tool description) that the code does not keep; `findings` quotes each.

| part of `Chats` | instance | properties |
|---|---|---|
| conversations | two requests of one resident or of two, the night compactor, three sessions of which one is durable | `NothingForgotten`, `ImplementsChatLifecycle` |
| routing | two residents, one an operator, two chats, two topics, session_topics readable or not | `HouseholdStaysFast` |
| nights | three jobs, two with an agent, three slots each, one restart in a tick | `OneRunPerSlot`, `JobSessionsGo`, `SlotsSettled` |
| registry | two turns, TTL 2, timeout 1, times 0 to 5 | `PromptIsRecent` |
| runs | a lamp and two scripts, two names of which one is part of the other, one call | `AnswersForTheHouse` (`RunsWhatWasAsked`) |
| history | four writes of two states in four days, windows -1, 0 (the default, 2) and 4, at most 3 transitions | `AnswersForTheHouse` (`HistoryAsItWas`) |
| trace | two turns of one session, one of another, two steps each, rings of 3 and 2, two lives | `TraceIsTheTurns` |

| part of `House` | instance | properties |
|---|---|---|
| spoken | two utterances in the pipeline, one of a satellite, one of a satellite in a room, all of the same words; a history of one pair | `AttributedOnce`, `FollowUpsPaired` |
| approval | two runs of the tools, two rows, two requests | `OnlyAdminApproves`, `DenialDropsVoice` |
| mirror | two turns from elsewhere, one typed in the tab, at most one delta each | `MirroredOnce` |
| speech | two requests, three texts, one or two workers | `SpokenInOrder` |
| numerals | every number n up to 999, 1000 + n, 1000 n and 1001 n, in four forms | `ReadsBack` |
| wiring | four services, speaker identification and bridge on and off, one blind spot per thing | `NoDuplicates`, `CleanPassConverges` |
| deploy | three packs, two Home Assistant tokens, five admin tokens, four attempts to mint one | `TokensDelivered`, `SoulKeptOrCurrent` |
| ollama | two models | `EndsWarmOnGpu` |

`TypesOK` is the type invariant of the part that moves.

Why the bounds are enough.  The code treats turns, sessions, timers, candidates, rows
and requests alike, and every property relates at most two of each; two of a kind,
plus the one session, word, row or ring where they meet, give every pair of
interleavings.  `MaxPasses` is 6 in the code; with 2, a run has a first and a last
pass and a correction on either.  `MaxCalls` 2 has a first and a last call.  Two timers
make a round with a row waiting behind the one announced.  Three captures with a target
of two let one capture push a bucket past its target while another takes it.
They show the capture that comes too late and finds no sample; one that finds too few
takes a fourth capture, and is left to the theorem.  `MaxUncleared` 1 lets a resident be
filed twice for one enrolment.  Five admin tokens are one more than the attempts of one
pass, so a pass that mints meets a token minted before.  Three sessions give a
compaction of a continuation.  Three jobs put an agent job and a job in code behind one
that fails or takes days.  Rings, histories and cuts are shorter than what a behaviour
can put into them.  Times in the registry go past twice the TTL.  The numbers cover every
combination of what a rule looks at: the last two digits, the hundreds, and whether
thousands come before them.

### Fairness

* A turn: weak fairness of `TurnStep(t) \/ Abort(t)`.  The event loop resumes every
  coroutine that can run, and each await ends, if not with its result then with an
  exception: Ollama (300 s, ollama.py:40), the tools' HTTP clients (15 to 30 s),
  SQLite (10 s), a hung-up browser at the next keepalive (10 s).  Nobody is forced
  to ask, cancel or delete.
* The scheduler: weak fairness of polling and of returning from `_announce` (15 s,
  scheduler.py:157).  `Ring` is not fair: the speakers need not answer.
* A capture: weak fairness of its steps; `to_thread` calls work on a finite
  recording or give up on a lock.  Nobody is forced to speak or to register.
* The cron runner: weak fairness of `NightStep`.  `_run` catches what a tick raises and
  ticks again, an agent turn ends with its client, and a restart starts the task.  No
  slot is forced to come.

`Conversations`, `SpokenTurn` and the others are checked for safety only: the life of a
single turn is in `TurnEngine`, and whoever starts these steps is a person, Home
Assistant or an operator.

## 4. Theorems

TLAPS checks each of these for every value of the constants, under the assumption its
module names on them.  The assumptions say that a bound is a number, that a sentinel
is none of the values it stands beside, and how the environment is wired (which chat
is durable, which utterance comes from a satellite).  These say more:

* `TimersAssumption`: `UtcOffset \in Nat`, the house is not behind UTC; `NoEarlyRing`
  rests on it.
* `EnrollmentAssumption`, `TraceAssumption`: finitely many captures, and finitely many
  traced turns.  The second is used for one conjunct of a type invariant, the bound on
  ids, and by no other theorem.
* `SpokenAssumption`: `_MAX_HISTORY` is even, as in the code (12).
* `HomeAssumption`: every name is part of itself.

Where no argument is given, the property is inductive with the type invariant.

**The turn engine**

| theorem | property | argument |
|---|---|---|
| `TurnEngineProofs!TypeCorrect` | `TypeOK` | `EngineInv` adds where a turn stands in its loop (`LoopInv`): without it a pass or call index could leave its range |
| `EntriesAreLive` | `NoStaleCancel` | with `EngineInv`; each ending pops its session's entry |
| `CancelBounds` | `CancelStopsTools` | `LateInv`: after a late handler a turn sits where only a stop can follow |
| `DeletionHolds` | `DeletedQuestionsStayDeleted` | `RowsInv` (a row is in its turn's session and its question was asked) and `WipedInv` (a running turn that was not wiped has its session) |
| `EngineImplementsLifecycle` | `ImplementsLifecycle` | `OrderInv` (tools run in slot order) and a step of `TurnLifecycle` or a stutter for each action; a running tool is a phase of its own, so a call run again is not a stutter |
| `TranscriptProofs!TranscriptAccounts` | `ToolsOnRecord` | `RecordInv`, turn by turn: the turn's last row is where its loop stands (`Placed`), no output is of a tool that has not run (`OutputsRan`), and only the output awaited now, or when the turn broke off, is missing (`Accounted`) |
| `RowsInOrder` | `TranscriptInOrder` | each append, against the rows `RecordInv` says are there |

`RecordInv` speaks of the *set* of a turn's rows, not of the sequence of a session's:
what other turns put between them, and what a deletion takes away, then does not
matter, and the position of a row is needed only for the order of the last two.

**Timers and enrolment**

| theorem | property | argument |
|---|---|---|
| `TimersProofs!TypeCorrect` | types | inductive alone |
| `NoEarlyRing` | `NeverEarly` | `RoundInv` (a fetched row is due) and `DigitsInv` (digits are never before the instant meant) |
| `RingsAreAccountedFor` | `RingAccounting` | `RingInv`: rings and records differ only between a ring and its UPDATE, or for good |
| `TimersImplementLifecycle` | `ImplementsTimerLifecycle` | `SchedulerInv`; each action, timer by timer: a round between two polls holds nothing (`RoundInv`), so what a poll fetches was free |
| `TimersRingOnce`, `TimersThatAreOverRest` | `Lifecycle!RingsOnce`, `Lifecycle!OverIsOver` | by the refinement, from an invariant of `TimerLifecycle` alone (`LifeInv`) |
| `SettledIsFinal` | `Timers!SettledStays` | the second of these, in terms of the table |
| `EnrollmentProofs!TypeCorrect` | types | `ClaimInv`: a capture past `new` works for a uid |
| `SamplesApart` | `SamplesStayApart` | `ApartInv`: samples in use are of captures that have brought theirs, so a new one is in no bucket, batch or profile yet |
| `SamplesImplementLifecycle` | `ImplementsSampleLifecycle` | `UsedInv` (what is in a profile is in no bucket and no batch in use) makes a place one place (`InOnePlaceOnly`); each action, sample by sample (`GoesOn`) |
| `SamplesInOnePlace`, `SamplesUsedOnce` | `Samples!InOnePlace`, `Samples!NeverTwice` | by the refinement, from `SampleLifecycle` alone (`HeardInv`: no candidate before it is heard) |
| `ProfilesAreComplete` | `ProfilesComplete` | `CompleteInv`: a capture that met the target and was not overtaken still has at least the target in its bucket, whoever else captures and whatever is reset; with `ApartInv` |
| `ResidentsAreEnrolled` | `EachResidentEnrolled` | with `ClaimInv`; the count of owed results by finite-set lemmas, failed DELETEs included |

**Chats** (`ChatsProofs`)

| theorem | property | argument |
|---|---|---|
| `NothingIsForgotten` | `NothingForgotten` | `ChatInv`: during a compaction what the chat held is in the old session, in what was read of it, or in the overlay (`Carried`), and nobody else gets the id of a session that is in use (`Owned`) |
| `ContinuationsStayAtHome` | `Conversations!StaysWithItsOwner` | `CompactsItsOwn`: a request compacts its own resident's chats only |
| `ConversationsImplementChats` | `ImplementsChatLifecycle` | `ChatInv`, and that an id nobody has had holds nothing (`UnusedIsEmpty`); each step is one of the store's or a stutter, a restart gives up several summaries at once |
| `QuestionsStayWithOneResident` | `Store!StaysWithOneResident` | by the refinement, from an invariant of `ChatLifecycle` alone (`StoreInv`): chats and summaries under way feed each other, so who knows a question is told from both |
| `DeletedQuestionsAreGone` | `Store!DeletedForGood` | by the refinement and `KnownAfter`, what a step of the store does to those who know a question |
| `HouseholdChatsAreFast` | `HouseholdStaysFast` | `HouseholdTagged`: the pins go with the process, but a household chat is durable or primarily tagged on disk; a slug taken by another resident changes nothing.  While the tags cannot be read: `FreshPinned`, what this process made a household chat is pinned, and `PinsStay` until it ends |
| `SlotsRunOnce` | `OneRunPerSlot` | `InOrder` (stamp, the tick's `now` and the clock are in this order) and `RunIsOnRecord` (a slot that was run is not behind the stamp) |
| `SessionsGo` | `JobSessionsGo` | `Counted`, with the bounds of the counters |
| `PromptsAreRecent` | `PromptIsRecent` | `FetchInTime` (no fetch is older than its timeout) and `BlockInTime` (the list was read at most a timeout before `fetchedAt`) |
| `OnlyWhatWasAskedRuns` | `RunsWhatWasAsked` | `FoundInv`: what was found answers to what was asked by the names of that moment, whatever they are later |
| `HouseIsAnswered` | `AnswersForTheHouse` | adds `HistoryInv`: times only grow (`WritesInv`), so between two changes all writes are of one state (`ChangeBetween`, by the least-number principle), and what is written after the answer is after all it tells |
| `TracesTellTheTurn` | `TraceIsTheTurns` | `TraceInv`: the ids in the ring are consecutive (`RingInv`), so with a step of a running turn the ring has all its later ones (`OnItsWay`); ids are unique within a life (`DetailInv`) |
| `TypesCorrect` | `MCChats!TypesOK` | `PartsInv`, the invariants above side by side; the bounds on ids, stamps and restarts are counted |

**Voice, approval, speech** (`VoiceProofs`)

| theorem | property | argument |
|---|---|---|
| `UidsAttributeOnce` | `AttributedOnce` | `StashInv` (a row is of an utterance of its words that has attributed no turn) and `CreditInv` |
| `UidsStayWithTheirWords` | – | `RunInv`: a turn runs as the household, as its satellite's speaker, or as the speaker of an utterance of the same words |
| `NoCollisionNoLeak` | – | from the last: if no two utterances have the same words, `NeverAnothersTurn` holds.  So the run `SpokenCollision` shows the only way it fails |
| `FollowUpsArePaired` | `FollowUpsPaired` | the history has even length, and the latest messages of one that is paired are paired |
| `OnlyTheAdminApproves` | `OnlyAdminApproves` | `HeldInv` (what a suspended tool holds) and `FiledInv` (rows and requests point at each other; an approved request is one the admin approved) |
| `DenialDropsTheVoice` | `DenialDropsVoice` | `KeptInv`: a profile that is not lost is kept by an open row no tool is about to close |
| `AnswersAreSpokenInOrder` | `SpokenInOrder` | `SpeechInv`: each sentence is on its way under its own number, and what has come back stands in its place |

**The page** (`MirrorProofs`)

| theorem | property | argument |
|---|---|---|
| `WatchedTurnsShownOnce` | `MirroredOnce` | `MirrorInv`: of the events of a watched turn the first n are drawn (`Drawn`) and the others are in the queue in one piece (`Queued`), as no other turn ran meanwhile |

**Deploys, and what surrounds the chats** (`HouseProofs`)

| theorem | property | argument |
|---|---|---|
| `EntriesAreUnique` | `NoDuplicates` | with `WiringInv` |
| `CleanPassesConverge` | `CleanPassConverges` | `EntriesInv` (what the settings call for is there or still in the queue) and `EnginesInv` (so the engines chosen are the right ones) |
| `TokensArrive` | `TokensDelivered` | `AdminInv`: every admin token is in the file, about to be written, or counted as lost, through four attempts (`MintedOnce`); `DeliveredInv`: in a pass without a failure, what has been read is what is there, step by step |
| `SoulsKeptOrCurrent` | `SoulKeptOrCurrent` | `MarkedInv`: as long as `marked` holds, the marker is of the soul that is there, or of the one that was edited; so a pass in which nothing fails has read no edited soul as its own |
| `PassesEndWarm` | `EndsWarmOnGpu` | `GpuInv` (in a smooth pass no source is left that could win but the GPU's) and `WarmInv` (the small model first, so nothing is evicted) |
| `NumbersReadBack` | `ReadsBack` | a word is a stem, down to its hundreds, and what is said below them; "tausend" and "hundert" stand in it at most once (`Parted`), so `StemReads` tells what the stem counts for, whatever follows; below a hundred, by cases (`TensLow`, `OrdinalLow`).  An ordinal ends in the word of its last two digits (`EndIsSuffix`), so only that is replaced |
| `TypesCorrect` | `MCHouse!TypesOK` | `HouseInv`; the pool never has more at work than it has workers, entries beyond the first were each overlooked once, a number tried stays within the ten it began in |

`TypesCorrect` is a theorem of the specifications the runs `Chats` and `House` check,
in which one part moves; the others are theorems of each module's own specification.
The two meet in `PartsAreTheirSpecifications`: a behaviour the runs check is one of
every part's own specification.  So `ChatsProofs!ChatsAreInOrder` and
`HouseProofs!TheHouseIsInOrder` state all properties of these runs but liveness of the
specifications the runs check.

`StaysWithItsOwner`, `SettledStays`, `SamplesStayApart` and the properties of
`ChatLifecycle`, `TimerLifecycle` and `SampleLifecycle` are in no run: the runs check the
refinements, and the theorems say what follows.

Only model-checked: the liveness properties (`EveryTurnEnds`, `CancelWins`,
`DueIsSettled`, `EveryCaptureReturns`, `SlotsSettled`), since the prover does not
handle fairness (ENABLED).  Every other property of a passing run is a theorem.  No module
declares a RECURSIVE operator.

## 5. Divergences met while modelling

`findings` has those a run exhibits.  The models also had to follow the code, not its
comments, here; the properties leave these cases out, by a history variable or a
premise:

* *Enrollment.*  A DELETE that fails does so silently (enroll_requests_store.py:103-108),
  and register.py:90-93 files the resident again at the next call.  A turn spoken before
  a request was opened may be captured for it (handler.py:206-234), where
  enroll_stash.py:15-18 has only turns inside the window; no property covers this.  Of
  two captures that met the target at once, the second averages what the first left.
* *Trace.*  Detail ids begin at 0 with each process (engine/trace.py:32) while stored
  rows keep theirs, so after a restart the panel may open another call's text, where
  server.py:594-595 expects a 404.  A stored trace holds the steps of a turn that
  overlapped it in the session, where trace.py:7-8 says "an exact filter".
* *Mirror.*  `streamed` (server.py:567) is the subscription's, so of two overlapping
  turns one answer may be dropped or doubled; a turn that fails or is cancelled
  publishes no end, and its bubble stays open.
* *Approval.*  A denial whose deletion fails at the gatekeeper closes the row and keeps
  the profile, where onboarding_approval.py:165-168 calls the re-poll safe: there is
  no pending row left to poll.
* *SpokenTurn.*  The gatekeeper's history is keyed by uid (sol.py:62), and all guests
  have one uid: one guest's words are in the next guest's prompt.
* *Conversations.*  Usage only grows (store.py:228), so a chat once at the cap is
  compacted again at every visit.
* *Routing.*  A topic slug another resident holds on the same chat makes the INSERT
  fail (topics_store.py:226) and the request with it.  "ALWAYS the fast gateway"
  (server.py:311-315) has two exceptions.  After a restart a chat that is household by its
  tag alone follows the model preference while its topics cannot be read
  (topics_store.py:76-77): `readable` is a premise of the property for such chats.  And
  the continuation of a compacted household chat is pinned and tagged nowhere, so from
  its second turn on it is an ordinary chat: it is no member of `zuhause`.  Incognito
  chats and a settings file that is lost are outside the property as well.
* *HomeTools.*  A lamp with exactly the name of a script hides it: the first exact match
  of any domain wins, and the tool answers that it is none of its domains.
* *Speech.*  A worker that dies breaks the pool until the service restarts
  (tts-martin/main.py:180-198).
* *SolilosDeploy.*  A script cut within the soul, or between soul and marker, leaves a
  soul that no marker is of: the next deploys take it for an operator's and keep it for
  good.  An edited soul is written over if it cannot be read, if there is no marker or an
  unreadable one, and if the edit comes between the read and the write.  An unreadable
  token file and a lost reply each leave a token in ServiceBay that nobody uses
  (post-deploy.py:1048-1060, 1072-1076).  A manifest cut short keeps the chat down until
  the next deploy.  And variables.json:83 says that a value set by hand "pins" HASS_TOKEN
  "and disables the adoption", where adopt_ha_long_lived_token replaces any value
  (post-deploy.py:341-345).
* *OllamaDeploy.*  A CUDA line of the unit a deploy has just replaced makes the script
  skip its fix (ollama post-deploy.py:368); one that cannot write the unit leaves the
  service stopped (line 580).

## 6. Plan

1. `TurnEngine`'s `Compacted` against `ChatLifecycle`, as `Conversations` is now: that
   a turn is in at most one continuation.
2. A request of enrolment, from its opening to the resident filed, against what it
   promises, as `SampleLifecycle` does for a sample.
3. Liveness of a compaction, with the awaits bounded as in the turn engine.

## 7. Not modelled

Rendering, audio and the numerics of speaker identification, the synthesiser, prompt
wording, note files, web search, MCP calls, attachments, skills, configuration,
migrations (their uniqueness constraints are used where a table is modelled), mentions,
benchmarks.  Each is a single read or write, a pure text transformation, or external.
`PROJECT.json` gives the reason for each component.
