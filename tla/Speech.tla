------------------------------- MODULE Speech --------------------------------
(***************************************************************************)
(* Martin, the speech service: a text is cut into sentences, the sentences *)
(* are synthesised, by a pool of worker processes if there are several,    *)
(* and the pieces are joined again with a pause after each.                *)
(*                                                                         *)
(* Requests overlap, the sentences of one end in any order, and a worker   *)
(* process may die: the pool is then broken until the service restarts.    *)
(***************************************************************************)
EXTENDS Naturals, Sequences, SequencesExt

CONSTANTS
  Request,  \* requests to /v1/audio/speech
  Text,     \* the segments a text has between its sentence ends
  Capacity  \* values of the number of workers, fixed at the start

ASSUME SpeechAssumption ==
  /\ Text \subseteq Seq({"sentence", "letter", "signs"})
  /\ Capacity \subseteq Nat \ {0}

VARIABLES
  workers,  \* WORKERS
  pool,     \* process_pool: "none", "working" or "broken"
  tasks,    \* what waits in the pool: the request and the number of a sentence
  working,  \* what the workers are at
  sentences,\* of each request
  at,       \* where each request is
  results,  \* what has come back for each sentence
  audio     \* the pieces of the answer

speechVars == <<workers, pool, tasks, working, sentences, at, results, audio>>

WarmTask == "warm-up"

\* A task is a sentence of a request, or the pool is being warmed with it.
Task == (Request \cup {WarmTask}) \X Nat
Sound == {"speech", "silence"}
Pause == <<WarmTask, 0, "pause">>

SpeechTypeOK ==
  /\ workers \in Capacity /\ pool \in {"none", "working", "broken"}
  /\ tasks \in Seq(Task) /\ working \subseteq Task /\ Cardinality(working) <= workers
  /\ at \in [Request -> {"idle", "speaking", "answered", "refused", "failed"}]
  /\ \A r \in Request :
       /\ sentences[r] \in Seq({"sentence", "signs"})
       /\ DOMAIN results[r] \subseteq DOMAIN sentences[r]
       /\ \A i \in DOMAIN results[r] : results[r][i] \in Sound
       /\ audio[r] \in Seq((Request \cup {WarmTask}) \X Nat \X (Sound \cup {"pause"}))

SpeechInit ==
  /\ workers \in Capacity /\ pool = "none"
  /\ tasks = <<>> /\ working = {}
  /\ at = [r \in Request |-> "idle"]
  /\ sentences = [r \in Request |-> <<>>]
  /\ results = [r \in Request |-> <<>>]
  /\ audio = [r \in Request |-> <<>>]

-----------------------------------------------------------------------------
(* A request.                                                              *)

\* split_into_sentences: a segment of one character is no sentence.
Split(text) ==
  LET kept   == {i \in DOMAIN text : text[i] # "letter"}
      nth(k) == CHOOSE i \in kept : Cardinality({j \in kept : j <= i}) = k
  IN [k \in 1 .. Cardinality(kept) |-> text[nth(k)]]

\* process_sentence: an error of the synthesiser, after the fallback for what
\* espeak cannot count, or a sentence of signs alone, gives no samples.
Outcome(s) == IF s = "signs" THEN {"silence"} ELSE Sound

\* get_process_pool: made once.
GetProcessPool == pool' = IF pool = "none" THEN "working" ELSE pool

\* The samples of each sentence, or silence, and a pause after each.
Join(r, pieces) ==
  [i \in 1 .. 2 * Len(pieces) |->
     IF i % 2 = 0 THEN Pause ELSE <<r, (i + 1) \div 2, pieces[(i + 1) \div 2]>>]

Refuse(r, text) ==
  /\ at[r] = "idle" /\ Split(text) = <<>>
  /\ at' = [at EXCEPT ![r] = "refused"]
  /\ UNCHANGED <<workers, pool, tasks, working, sentences, results, audio>>

\* One worker: the whole answer in one go, with the event loop held.
SpeakAlone(r, text) ==
  /\ workers = 1 /\ at[r] = "idle" /\ Split(text) # <<>>
  /\ sentences' = [sentences EXCEPT ![r] = Split(text)]
  /\ \E pieces \in [DOMAIN Split(text) -> Sound] :
       /\ \A i \in DOMAIN pieces : pieces[i] \in Outcome(Split(text)[i])
       /\ results' = [results EXCEPT ![r] = pieces]
       /\ audio' = [audio EXCEPT ![r] = Join(r, pieces)]
  /\ at' = [at EXCEPT ![r] = "answered"]
  /\ UNCHANGED <<workers, pool, tasks, working>>

\* Several: all sentences go to the pool at once, and a broken pool takes none.
Submit(r, text) ==
  /\ workers > 1 /\ at[r] = "idle" /\ Split(text) # <<>>
  /\ GetProcessPool
  /\ IF pool = "broken"
     THEN /\ at' = [at EXCEPT ![r] = "failed"]
          /\ UNCHANGED <<tasks, sentences>>
     ELSE /\ at' = [at EXCEPT ![r] = "speaking"]
          /\ sentences' = [sentences EXCEPT ![r] = Split(text)]
          /\ tasks' = tasks \o [i \in DOMAIN Split(text) |-> <<r, i>>]
  /\ UNCHANGED <<workers, working, results, audio>>

\* The last sentence is back.
Respond(r) ==
  /\ at[r] = "speaking" /\ DOMAIN results[r] = DOMAIN sentences[r]
  /\ audio' = [audio EXCEPT ![r] = Join(r, results[r])]
  /\ at' = [at EXCEPT ![r] = "answered"]
  /\ UNCHANGED <<workers, pool, tasks, working, sentences, results>>

-----------------------------------------------------------------------------
(* The pool.                                                               *)

\* warm_process_pool_background: a task for each worker.
WarmUp ==
  /\ workers > 1 /\ pool = "none"
  /\ GetProcessPool
  /\ tasks' = tasks \o [i \in 1 .. workers |-> <<WarmTask, i>>]
  /\ UNCHANGED <<workers, working, sentences, at, results, audio>>

\* A worker takes the next task.
TakeTask ==
  /\ pool = "working" /\ tasks # <<>> /\ Cardinality(working) < workers
  /\ working' = working \cup {Head(tasks)}
  /\ tasks' = Tail(tasks)
  /\ UNCHANGED <<workers, pool, sentences, at, results, audio>>

\* Mutant of Synthesised: the samples go to the next place, not to their own.
SynthesisedNext(task) ==
  /\ task \in working
  /\ working' = working \ {task}
  /\ IF task[1] = WarmTask THEN UNCHANGED results
     ELSE \E sound \in Outcome(sentences[task[1]][task[2]]) :
            results' = [results EXCEPT ![task[1]] = Append(@, sound)]
  /\ UNCHANGED <<workers, pool, tasks, sentences, at, audio>>

\* process_sentence, and the place of its samples in the answer.
Synthesised(task) ==
  /\ task \in working
  /\ working' = working \ {task}
  /\ IF task[1] = WarmTask THEN UNCHANGED results
     ELSE \E sound \in Outcome(sentences[task[1]][task[2]]) :
            results' = [results EXCEPT ![task[1]] =
                          [i \in DOMAIN @ \cup {task[2]} |->
                             IF i = task[2] THEN sound ELSE @[i]]]
  /\ UNCHANGED <<workers, pool, tasks, sentences, at, audio>>

\* A worker process dies, or fails to load its model: every task that is not
\* done fails, and with it the request that waits for it.
WorkerDies ==
  /\ pool = "working"
  /\ pool' = "broken" /\ tasks' = <<>> /\ working' = {}
  /\ at' = [r \in Request |->
              IF at[r] = "speaking" /\ DOMAIN results[r] # DOMAIN sentences[r]
              THEN "failed" ELSE at[r]]
  /\ UNCHANGED <<workers, sentences, results, audio>>

\* The service dies and comes back, with no pool.
SpeechRestart ==
  /\ pool' = "none" /\ tasks' = <<>> /\ working' = {}
  /\ at' = [r \in Request |-> IF at[r] = "speaking" THEN "failed" ELSE at[r]]
  /\ UNCHANGED <<workers, sentences, results, audio>>

SpeechNext ==
  \/ WarmUp \/ TakeTask \/ WorkerDies \/ SpeechRestart
  \/ \E task \in working : Synthesised(task)
  \/ \E r \in Request :
       \/ Respond(r)
       \/ \E text \in Text : Refuse(r, text) \/ SpeakAlone(r, text) \/ Submit(r, text)

SpeechSpec == SpeechInit /\ [][SpeechNext]_speechVars

-----------------------------------------------------------------------------
(* Safety.                                                                 *)

\* An answer has every sentence of its own text, in the order of the text and
\* with a pause after each, a silence in the place of one that failed, and
\* nothing of another request, whatever order the workers ended in
\* (generate_speech, "BUGFIX").
SpokenInOrder ==
  \A r \in Request : at[r] = "answered" =>
    /\ Len(audio[r]) = 2 * Len(sentences[r])
    /\ \A i \in DOMAIN sentences[r] :
         /\ audio[r][2 * i] = Pause
         /\ audio[r][2 * i - 1] \in {<<r, i, o>> : o \in Outcome(sentences[r][i])}
=============================================================================
