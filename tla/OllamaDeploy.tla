---------------------------- MODULE OllamaDeploy -----------------------------
(***************************************************************************)
(* The ollama post-deploy script on a host with a GPU.  A deploy recreates *)
(* the .kube unit, which comes up on the CPU; the script replaces it by a  *)
(* .container unit, unless the journal says that the GPU is engaged, pulls *)
(* the models, and loads those for chat into VRAM, the small one first.    *)
(*                                                                         *)
(* Every command may fail, the script may die between any two, the host    *)
(* may reboot, and the script may be run again with or without a deploy.   *)
(***************************************************************************)
EXTENDS Naturals

CONSTANTS
  SmallModel, \* the chat tag that is loaded first (e2b)
  BigModel    \* another chat tag; with it resident, loading the small evicts it

ASSUME OllamaDeployAssumption == SmallModel # BigModel

Model == {SmallModel, BigModel}

VARIABLES
  opc,       \* where the script is; "done" after a full pass
  kube,      \* whether ollama.kube exists
  unit,      \* ollama.container: "none", "old" or "current"
  source,    \* what ollama.service was last generated from
  service,   \* "down", or where it computes: "cpu" or "gpu"
  journal,   \* the lines of the last two minutes: library=cpu, library=CUDA
  installed, \* the chat tags that have been pulled
  resident,  \* those in VRAM
  toWarm,    \* those the script has still to load
  smooth,    \* history: no command has failed in the running pass
  misled     \* history: its probe has read a line of an earlier unit

ollamaVars == <<opc, kube, unit, source, service, journal, installed, resident,
                toWarm, smooth, misled>>

OllamaTypeOK ==
  /\ opc \in {"idle", "probe", "fix", "unkube", "unit", "reload", "ready", "warm", "done"}
  /\ kube \in BOOLEAN /\ unit \in {"none", "old", "current"}
  /\ source \in {"kube", "container"}
  /\ service \in {"down", "cpu", "gpu"}
  /\ journal \subseteq {"cpu", "gpu"}
  /\ installed \subseteq Model /\ resident \subseteq Model /\ toWarm \subseteq Model
  /\ smooth \in BOOLEAN /\ misled \in BOOLEAN

OllamaInit ==
  /\ opc = "idle" /\ kube = FALSE /\ unit = "none" /\ source = "kube"
  /\ service = "down" /\ journal = {} /\ installed = {} /\ resident = {}
  /\ toWarm = {} /\ smooth = FALSE /\ misled = FALSE

-----------------------------------------------------------------------------
(* The service.                                                            *)

\* It starts from what quadlet has generated: the .kube source never gets the
\* GPU.  Its line in the journal may be late.
StartFrom(src) ==
  /\ source' = src
  /\ service' = IF src = "kube" THEN "cpu" ELSE "gpu"
  /\ journal' \in {journal, journal \cup {service'}}
  /\ resident' = {}

\* Where both sources are there, either may win.
Sources == (IF kube THEN {"kube"} ELSE {}) \cup (IF unit # "none" THEN {"container"} ELSE {})

\* Lines grow older than two minutes.
JournalAges ==
  /\ \E lines \in SUBSET journal : journal' = lines
  /\ UNCHANGED <<opc, kube, unit, source, service, installed, resident, toWarm,
                 smooth, misled>>

\* The host reboots: the script, if it runs, dies.
Reboot ==
  /\ opc' = "idle" /\ smooth' = FALSE /\ toWarm' = {}
  /\ \/ \E src \in Sources : StartFrom(src)
     \/ /\ Sources = {} /\ service' = "down" /\ resident' = {}
        /\ UNCHANGED <<source, journal>>
  /\ UNCHANGED <<kube, unit, installed, misled>>

\* A setting changes that the unit is rendered from.
Drift ==
  /\ opc \in {"idle", "done"} /\ unit = "current"
  /\ unit' = "old"
  /\ opc' = "idle"
  /\ UNCHANGED <<kube, source, service, journal, installed, resident, toWarm,
                 smooth, misled>>

-----------------------------------------------------------------------------
(* A pass of the script.                                                   *)

\* podman kube play recreates ollama.kube and the service flips to it (#322);
\* or the script alone is run again.
StartPass ==
  /\ opc \in {"idle", "done"}
  /\ opc' = "probe" /\ smooth' = TRUE /\ misled' = FALSE
  /\ \/ kube' = TRUE /\ StartFrom("kube")
     \/ UNCHANGED <<kube, source, service, journal, resident>>
  /\ UNCHANGED <<unit, installed, toWarm>>

\* gpu_actually_engaged: any CUDA line will do, and without journalctl none is
\* seen.
Probe ==
  /\ opc = "probe"
  /\ \/ /\ "gpu" \in journal
        /\ opc' = "ready"
        /\ misled' = (service # "gpu")
     \/ opc' = "fix" /\ UNCHANGED misled
  /\ UNCHANGED <<kube, unit, source, service, journal, installed, resident, toWarm,
                 smooth>>

\* gpu_container_is_live_source: by the SourcePath of the service.
LiveSource == source = "container"

\* Mutant of Fix: a unit file that matches is taken for a unit that is live.
FixByContent ==
  /\ opc = "fix"
  /\ IF unit = "current"
     THEN opc' = "ready" /\ UNCHANGED <<service, resident>>
     ELSE opc' = "unkube" /\ service' = "down" /\ resident' = {}
  /\ UNCHANGED <<kube, unit, source, journal, installed, toWarm, smooth, misled>>

\* install_gpu_quadlet_fallback up to the stop: only a live GPU unit is left
\* alone, and one systemctl does not answer for is not known to be live.
Fix ==
  /\ opc = "fix"
  /\ \/ /\ unit = "current" /\ LiveSource /\ ~kube
        /\ opc' = "ready"
        /\ UNCHANGED <<service, resident>>
     \/ /\ opc' = "unkube"
        /\ service' = "down" /\ resident' = {}
  /\ UNCHANGED <<kube, unit, source, journal, installed, toWarm, smooth, misled>>

\* The .kube file goes, if it can be removed.
Unkube ==
  /\ opc = "unkube"
  /\ opc' = "unit"
  /\ \/ kube' = FALSE /\ UNCHANGED smooth
     \/ kube /\ UNCHANGED kube /\ smooth' = FALSE
  /\ UNCHANGED <<unit, source, service, journal, installed, resident, toWarm, misled>>

\* The .container file is written if it differs.  If it cannot be, the fixup
\* ends here, with the service stopped and the .kube file gone.
WriteUnit ==
  /\ opc = "unit"
  /\ \/ unit' = "current" /\ opc' = "reload" /\ UNCHANGED smooth
     \/ unit # "current" /\ UNCHANGED unit /\ opc' = "ready" /\ smooth' = FALSE
  /\ UNCHANGED <<kube, source, service, journal, installed, resident, toWarm, misled>>

\* daemon-reload and start.
Reload ==
  /\ opc = "reload"
  /\ opc' = "ready"
  /\ \/ (\E src \in Sources : StartFrom(src)) /\ UNCHANGED smooth
     \/ smooth' = FALSE /\ UNCHANGED <<source, service, journal, resident>>
  /\ UNCHANGED <<kube, unit, installed, toWarm, misled>>

\* wait_for_ready.
Ready == service # "down"

\* local_chat_tags: what is installed; if that cannot be listed, the models the
\* environment names, which may be fewer.
LocalChatTags ==
  \/ toWarm' = installed' /\ UNCHANGED smooth
  \/ toWarm' \in SUBSET installed' /\ smooth' = FALSE

\* The pulls: each model is there afterwards, or not.
Pull ==
  /\ opc = "ready" /\ Ready
  /\ \E more \in SUBSET Model : installed' = installed \cup more
  /\ LocalChatTags
  /\ opc' = "warm"
  /\ UNCHANGED <<kube, unit, source, service, journal, resident, misled>>

\* The API is not up within two minutes, or the script dies here or elsewhere.
EndEarly ==
  /\ opc \notin {"idle", "done"}
  /\ opc' = "idle" /\ toWarm' = {} /\ smooth' = FALSE
  /\ UNCHANGED <<kube, unit, source, service, journal, installed, resident, misled>>

\* warm_load_model, the small tag first; a failure is logged.
Warm(m) ==
  /\ opc = "warm" /\ m \in toWarm
  /\ m = SmallModel \/ SmallModel \notin toWarm
  /\ toWarm' = toWarm \ {m}
  /\ \/ /\ resident' = IF m = SmallModel /\ m \notin resident THEN {m} ELSE resident \cup {m}
        /\ UNCHANGED smooth
     \/ smooth' = FALSE /\ UNCHANGED resident
  /\ UNCHANGED <<opc, kube, unit, source, service, journal, installed, misled>>

Finish ==
  /\ opc = "warm" /\ toWarm = {}
  /\ opc' = "done"
  /\ UNCHANGED <<kube, unit, source, service, journal, installed, resident, toWarm,
                 smooth, misled>>

-----------------------------------------------------------------------------

OllamaNext ==
  \/ JournalAges \/ Reboot \/ Drift
  \/ StartPass \/ EndEarly
  \/ Probe \/ Fix \/ Unkube \/ WriteUnit \/ Reload
  \/ Pull \/ Finish
  \/ \E m \in Model : Warm(m)

OllamaSpec == OllamaInit /\ [][OllamaNext]_ollamaVars

-----------------------------------------------------------------------------
(* Safety.                                                                 *)

\* A pass in which no command fails, and whose probe has not read a line of an
\* earlier unit, ends on the GPU with every chat model resident, whatever
\* earlier passes have left behind (#1026, #322, solbay#340).
EndsWarmOnGpu ==
  opc = "done" /\ smooth /\ ~misled => service = "gpu" /\ resident = installed
=============================================================================
