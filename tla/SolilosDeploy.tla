---------------------------- MODULE SolilosDeploy ----------------------------
(***************************************************************************)
(* The solilos post-deploy script: it seeds the soul file, adopts Home     *)
(* Assistant's token into the pod manifest, keeps an admin token for       *)
(* ServiceBay, and restarts the chat last.  The wiring of Home Assistant,  *)
(* which it does in between, is VoiceWiring.                               *)
(*                                                                         *)
(* It runs on every deploy and may die anywhere.  No file is written in    *)
(* place of another: each is opened for writing, and so emptied, and then  *)
(* filled, so that a write that fails or is cut leaves the old text, none, *)
(* or a part of the new.  A file that cannot be read counts as an empty    *)
(* one.  Meanwhile packs ship new souls, the operator edits the soul, Home *)
(* Assistant is set up again, and tokens are revoked.                      *)
(***************************************************************************)
EXTENDS Naturals

CONSTANTS
  MaxPack,  \* bound: versions of the shipped soul
  MaxHa,    \* bound: tokens Home Assistant writes
  MaxTokens \* bound: admin tokens minted

ASSUME SolilosDeployAssumption ==
  MaxPack \in Nat \ {0} /\ MaxHa \in Nat /\ MaxTokens \in Nat

VARIABLES
  dpc,       \* where the script is
  shipped,   \* the version of the soul in the pack
  soul,      \* SOUL.md: 0 for none or an empty one, a version, or a text below
  marker,    \* .soul.shipped.sha256: the same, of the soul it is of
  existing,  \* the soul as the script has read it, 0 for an empty one
  marked,    \* history: the script has marked the soul it wrote last
  haToken,   \* the token file of Home Assistant: 0 for none
  manifest,  \* HASS_TOKEN in solilos.yml: 0 as rendered, or a token
  running,   \* HASS_TOKEN in the environment of the chat
  adminFile, \* sb-admin-token: "none" (or no token), "live" or "stale"
  minted,    \* history: admin tokens minted
  lost,      \* history: those revoked, lost on their way, or written over unread
  flawless   \* history: since the last deploy began nothing has failed, and
             \* nothing it had read has changed

soulVars   == <<shipped, soul, marker, existing, marked>>
haVars     == <<haToken, manifest, running>>
adminVars  == <<adminFile, minted, lost>>
deployVars == <<dpc, soulVars, haVars, adminVars, flawless>>

Pack == 1 .. MaxPack

Edited   == MaxPack + 1 \* a soul that is no version of the pack
Torn     == MaxPack + 2 \* a soul, or a marker, that was not written to its end
CutShort == MaxHa + 1   \* a manifest that was not written to its end

DeployTypeOK ==
  /\ dpc \in {"idle", "soul", "install", "marker", "adopt", "admin", "write", "restart"}
  /\ shipped \in Pack
  /\ soul \in 0 .. Torn /\ marker \in 0 .. Torn /\ existing \in 0 .. Torn
  /\ marked \in BOOLEAN /\ flawless \in BOOLEAN
  /\ haToken \in 0 .. MaxHa /\ manifest \in 0 .. CutShort /\ running \in 0 .. CutShort
  /\ adminFile \in {"none", "live", "stale"}
  /\ minted \in 0 .. MaxTokens /\ lost \in Nat

DeployInit ==
  /\ dpc = "idle" /\ flawless = FALSE
  /\ shipped = 1 /\ soul = 0 /\ marker = 0 /\ existing = 0 /\ marked = FALSE
  /\ haToken \in 0 .. MaxHa /\ manifest = 0 /\ running = 0
  /\ adminFile = "none" /\ minted = 0 /\ lost = 0

\* What a file holds after a write that did not succeed.
CutOff(old) == {old, 0, Torn}

-----------------------------------------------------------------------------
(* What happens between and beside the deploys.                            *)

\* A new pack is unrolled with its manifest rendered anew, and the script is
\* run; the chat may have been started with that manifest before.
Deploy ==
  /\ dpc = "idle"
  /\ dpc' = "soul" /\ flawless' = TRUE
  /\ shipped' \in {n \in Pack : n >= shipped}
  /\ manifest' = 0 /\ running' \in {running, 0}
  /\ UNCHANGED <<soul, marker, existing, marked, haToken, adminVars>>

OperatorEdits ==
  /\ soul' = Edited
  /\ UNCHANGED <<dpc, shipped, marker, existing, marked, haVars, adminVars, flawless>>

\* The parts of the script that come before the file in question is read.
BeforeHa    == {"soul", "install", "marker", "adopt"}
BeforeAdmin == BeforeHa \cup {"admin"}

HaSetUp ==
  /\ haToken < MaxHa
  /\ haToken' = haToken + 1
  /\ flawless' = (flawless /\ dpc \in BeforeHa)
  /\ UNCHANGED <<dpc, soulVars, manifest, running, adminVars>>

Revoke ==
  /\ adminFile = "live"
  /\ adminFile' = "stale"
  /\ lost' = lost + 1
  /\ flawless' = (flawless /\ dpc \in BeforeAdmin)
  /\ UNCHANGED <<dpc, soulVars, haVars, minted>>

\* The script dies, within the write it is at if it is at one.
Die ==
  /\ dpc # "idle"
  /\ dpc' = "idle" /\ flawless' = FALSE /\ existing' = 0
  /\ IF dpc = "install" THEN soul' \in CutOff(soul) ELSE soul' = soul
  /\ marked' = (marked /\ soul' = soul)
  /\ IF dpc = "marker" THEN marker' \in CutOff(marker) ELSE marker' = marker
  /\ \/ manifest' = manifest
     \/ dpc = "adopt" /\ haToken # 0 /\ manifest' = CutShort
  /\ IF dpc = "write" THEN adminFile' \in {adminFile, "none"} /\ lost' = lost + 1
     ELSE UNCHANGED <<adminFile, lost>>
  /\ UNCHANGED <<shipped, haToken, running, minted>>

-----------------------------------------------------------------------------
(* The soul: write_engine_soul.                                            *)

\* A soul that is not the one the marker is of is an operator's.
IsOperators(found, recorded) == found # 0 /\ recorded # 0 /\ recorded # found

\* Mutant of ReadSoul: a soul is written over whenever the pack is newer.
ReadNewerSoul ==
  /\ dpc = "soul"
  /\ IF soul = shipped \/ marker = shipped
     THEN dpc' = "adopt" /\ UNCHANGED existing
     ELSE dpc' = "install" /\ existing' = soul
  /\ UNCHANGED <<shipped, soul, marker, marked, haVars, adminVars, flawless>>

\* A shipped soul that cannot be read ends it.  An unreadable SOUL.md counts as
\* empty, an unreadable marker as none; the shipped soul is installed unless it
\* is there, or an operator's is.
ReadSoul ==
  /\ dpc = "soul"
  /\ \/ dpc' = "adopt" /\ flawless' = FALSE /\ UNCHANGED existing
     \/ \E found \in {soul, 0}, recorded \in {marker, 0} :
          /\ IF found = shipped \/ IsOperators(found, recorded)
             THEN dpc' = "adopt" /\ UNCHANGED existing
             ELSE dpc' = "install" /\ existing' = found
          /\ flawless' = (flawless /\ found = soul /\ recorded = marker)
  /\ UNCHANGED <<shipped, soul, marker, marked, haVars, adminVars>>

\* The soul is written, over whatever is there by now, or the write fails.
WriteSoul ==
  /\ dpc = "install"
  /\ \/ dpc' = "marker" /\ soul' = shipped /\ marked' = FALSE /\ UNCHANGED flawless
     \/ dpc' = "adopt" /\ soul' \in CutOff(soul)
        /\ marked' = (marked /\ soul' = soul) /\ flawless' = FALSE
  /\ existing' = 0
  /\ UNCHANGED <<shipped, marker, haVars, adminVars>>

\* Its marker is written, or the write fails.
WriteMarker ==
  /\ dpc = "marker"
  /\ dpc' = "adopt"
  /\ \/ marker' = shipped /\ marked' = TRUE /\ UNCHANGED flawless
     \/ marker' \in CutOff(marker) /\ flawless' = FALSE /\ UNCHANGED marked
  /\ UNCHANGED <<shipped, soul, existing, haVars, adminVars>>

-----------------------------------------------------------------------------
(* The token of Home Assistant.                                            *)

\* _wait_for_ha_token: the file, once it is there and not empty.
SeenToken == {haToken} \ {0}

\* adopt_ha_long_lived_token: the token goes into the manifest; the wait for it
\* may run out, and the manifest may be missing, unreadable or not writable.
AdoptToken ==
  /\ dpc = "adopt"
  /\ dpc' = "admin"
  /\ \/ manifest' \in SeenToken /\ UNCHANGED flawless
     \/ SeenToken = {} /\ UNCHANGED <<manifest, flawless>>
     \/ SeenToken # {} /\ manifest' \in {manifest, CutShort} /\ flawless' = FALSE
  /\ UNCHANGED <<soulVars, haToken, running, adminVars>>

-----------------------------------------------------------------------------
(* The admin token: ensure_admin_token_file.                               *)

\* The attempts of mint_admin_token.
Attempts == 4

\* mint_admin_token: the first attempt that is answered with a token ends it.
\* One whose answer is lost, or is none, may have minted a token for nobody.
Mint(unread) ==
  /\ \/ \E n \in 0 .. Attempts - 1 :
          /\ minted' = minted + n + 1 /\ lost' = lost + n + unread
          /\ dpc' = "write" /\ UNCHANGED flawless
     \/ \E n \in 0 .. Attempts :
          /\ minted' = minted + n /\ lost' = lost + n
          /\ dpc' = "restart" /\ flawless' = FALSE
  /\ minted' <= MaxTokens

\* probe_admin_token: only a 401 tells that a token is stale, so one that cannot
\* be probed is kept as well.
KeepToken ==
  /\ adminFile # "none"
  /\ dpc' = "restart" /\ flawless' = (flawless /\ adminFile = "live")
  /\ UNCHANGED <<minted, lost>>

\* Mutant of EnsureAdminToken: any answer but a success is a stale token.
MintOnHiccup ==
  /\ dpc = "admin"
  /\ KeepToken \/ Mint(0)
  /\ UNCHANGED <<soulVars, haVars, adminFile>>

\* A token that is kept, or else a new one; in place of a live one only if the
\* file could not be read.
EnsureAdminToken ==
  /\ dpc = "admin"
  /\ KeepToken \/ Mint(IF adminFile = "live" THEN 1 ELSE 0)
  /\ UNCHANGED <<soulVars, haVars, adminFile>>

\* The token is written, or is lost, and perhaps the one in the file with it.
WriteAdminToken ==
  /\ dpc = "write"
  /\ dpc' = "restart"
  /\ \/ adminFile' = "live" /\ UNCHANGED <<lost, flawless>>
     \/ adminFile' \in {adminFile, "none"} /\ lost' = lost + 1 /\ flawless' = FALSE
  /\ UNCHANGED <<soulVars, haVars, minted>>

-----------------------------------------------------------------------------
(* The restart.                                                            *)

\* restart_solilos: the chat comes back with the manifest as it is (and not at
\* all with one cut short), unless ServiceBay refuses.
RestartChat ==
  /\ dpc = "restart"
  /\ dpc' = "idle"
  /\ \/ running' = manifest /\ UNCHANGED flawless
     \/ UNCHANGED running /\ flawless' = FALSE
  /\ UNCHANGED <<soulVars, haToken, manifest, adminVars>>

-----------------------------------------------------------------------------

DeployNext ==
  \/ Deploy \/ OperatorEdits \/ HaSetUp \/ Revoke \/ Die
  \/ ReadSoul \/ WriteSoul \/ WriteMarker
  \/ AdoptToken
  \/ EnsureAdminToken \/ WriteAdminToken
  \/ RestartChat

DeploySpec == DeployInit /\ [][DeployNext]_deployVars

-----------------------------------------------------------------------------
(* Safety.                                                                 *)

\* Once the script has marked a soul, the marker tells the two apart, through
\* any number of deploys (write_engine_soul): in a pass where nothing fails it
\* writes over no edited soul it has read, and a soul nobody has edited is the
\* one the pack ships when it is done.  Passes that fail may be anything before.
SoulKeptOrCurrent ==
  [][/\ soul = Edited /\ soul' # Edited => existing # Edited \/ ~marked \/ ~flawless
     /\ dpc' = "adopt" /\ dpc # "adopt" /\ marked' /\ flawless' =>
          soul' \in {shipped', Edited}]_deployVars

\* Both tokens end where they are used.  Whatever earlier passes have left, one
\* in which nothing fails leaves the chat on the token of Home Assistant and a
\* live admin token in its file (main).  And no token is minted in place of one
\* that works: beyond one, ServiceBay lists only tokens that were revoked, lost
\* on their way or in a file nobody could read (ensure_admin_token_file).
TokensDelivered ==
  /\ dpc = "idle" /\ flawless =>
       (haToken # 0 => running = haToken) /\ adminFile = "live"
  /\ minted <= lost + 1
=============================================================================
