----------------------------- MODULE SelfUpdate -----------------------------
(***************************************************************************)
(* How a server replaces itself: an administrator confirms the newest      *)
(* complete package, the server stages it as two files, the updater (a     *)
(* shell loop in a container of its own) loads it, recreates the server's  *)
(* container and writes a result file, and whoever asks for the progress   *)
(* records the result in the database.  The WAN and a factory do the same  *)
(* (update.go, appupdate/pending.go, updater/apply.sh on either side).     *)
(*                                                                         *)
(* Server and updater share nothing but the directory, and look at one of  *)
(* its files at a time.  Either may die between any two of its steps;      *)
(* recreating the container kills every call of the old server.  A version *)
(* stands for its package and digest; NoVersion is what is read from a     *)
(* description that is not there.                                          *)
(***************************************************************************)
EXTENDS Naturals

CONSTANTS Releases,     \* versions that become available, a set of numbers
          MaxDeaths     \* bound: deaths of server or updater

NoVersion == 0
ASSUME UpdateConstants == Releases \subseteq Nat \ {0} /\ MaxDeaths \in Nat

VARIABLES newest,       \* the newest complete package
          pendingFile, tarFile, statusFile,     \* the shared directory
          confirm,      \* the administrator's call
          poll,         \* a call that asks for the progress
          updater,      \* what the updater is doing
          running,      \* the version of the server that runs
          before,       \* the version that ran before
          installed,    \* software_state.installed_version
          recorded,     \* versions with a denial since their last confirmation
          pruneReq,     \* the file that asks for image pruning; gone once it is answered
          deaths

files == <<pendingFile, tarFile, statusFile>>
server == <<confirm, poll, recorded, installed>>
uvars == <<newest, files, server, updater, running, before, pruneReq, deaths>>

NoCall == [pc |-> "idle", v |-> NoVersion]
NoPoll == [pc |-> "idle", v |-> NoVersion, cur |-> NoVersion]
NoStatus == [there |-> FALSE, ok |-> FALSE, v |-> NoVersion]

UpdateInit ==
    /\ newest = 1 /\ running = 1 /\ before = 1 /\ installed \in {0, 1}
    /\ pendingFile = NoVersion /\ tarFile = NoVersion /\ statusFile = NoStatus
    /\ confirm = NoCall /\ poll = NoPoll /\ updater = NoCall
    /\ recorded = {}
    /\ pruneReq = FALSE
    /\ deaths = 0

Larger(a, b) == IF a >= b THEN a ELSE b
Baseline == Larger(installed, running)

\* applyingNow: both files are there and no result is.
Applying == pendingFile # NoVersion /\ tarFile # NoVersion /\ statusFile = NoStatus

\* A newer package has been replicated or published.
Arrive ==
    /\ newest' \in {v \in Releases : v > newest}
    /\ UNCHANGED <<files, server, updater, running, before, pruneReq, deaths>>

-----------------------------------------------------------------------------
(* Confirming                                                              *)

ConfirmUpdate ==
    /\ confirm = NoCall /\ newest > Baseline
    /\ confirm' = [pc |-> "check", v |-> newest]
    /\ UNCHANGED <<newest, files, poll, recorded, installed, updater, running, before, pruneReq, deaths>>

\* A plausible slip: a package is staged over the one being applied.
NeverBusy == TRUE

MayStage == ~Applying

\* Stage holds stageMu; it refuses while an update is being applied ...
StageCheck ==
    /\ confirm.pc = "check"
    /\ confirm' = IF MayStage THEN [confirm EXCEPT !.pc = "clear"] ELSE NoCall
    /\ UNCHANGED <<newest, files, poll, recorded, installed, updater, running, before, pruneReq, deaths>>

\* ... then takes the old description and the old result away, ...
StageClear ==
    /\ confirm.pc = "clear"
    /\ pendingFile' = NoVersion
    /\ confirm' = [confirm EXCEPT !.pc = "status"]
    /\ UNCHANGED <<newest, tarFile, statusFile, poll, recorded, installed, updater, running, before, pruneReq, deaths>>

StageStatus ==
    /\ confirm.pc = "status"
    /\ statusFile' = NoStatus
    /\ confirm' = [confirm EXCEPT !.pc = "tar"]
    /\ UNCHANGED <<newest, pendingFile, tarFile, poll, recorded, installed, updater, running, before, pruneReq, deaths>>

\* ... puts the package down under its name, and last what describes it.
StageTar ==
    /\ confirm.pc = "tar"
    /\ tarFile' = confirm.v
    /\ confirm' = [confirm EXCEPT !.pc = "pending"]
    /\ UNCHANGED <<newest, pendingFile, statusFile, poll, recorded, installed, updater, running, before, pruneReq, deaths>>

StagePending ==
    /\ confirm.pc = "pending"
    /\ pendingFile' = confirm.v
    /\ confirm' = [confirm EXCEPT !.pc = "audit"]
    /\ UNCHANGED <<newest, tarFile, statusFile, poll, recorded, installed, updater, running, before, pruneReq, deaths>>

\* finishApply: the confirmation is audited; denials before it count no more.
FinishApply ==
    /\ confirm.pc = "audit"
    /\ recorded' = recorded \ {confirm.v}
    /\ confirm' = NoCall
    /\ UNCHANGED <<newest, files, poll, installed, updater, running, before, pruneReq, deaths>>

-----------------------------------------------------------------------------
(* The updater                                                             *)

\* Its loop tests for the three files one after another, goes on only if all
\* is as it should be, ...
SeesPending ==
    /\ updater = NoCall /\ pendingFile # NoVersion
    /\ updater' = [pc |-> "tar", v |-> NoVersion]
    /\ UNCHANGED <<newest, files, server, running, before, pruneReq, deaths>>

SeesTar ==
    /\ updater.pc = "tar"
    /\ updater' = IF tarFile # NoVersion THEN [updater EXCEPT !.pc = "status"] ELSE NoCall
    /\ UNCHANGED <<newest, files, server, running, before, pruneReq, deaths>>

SeesNoResult ==
    /\ updater.pc = "status"
    /\ updater' = IF statusFile = NoStatus THEN [updater EXCEPT !.pc = "read"] ELSE NoCall
    /\ UNCHANGED <<newest, files, server, running, before, pruneReq, deaths>>

\* ... and reads the description then (read_pending), which may be gone, or
\* be another than the one it saw.
UpdaterReads ==
    /\ updater.pc = "read"
    /\ updater' = [pc |-> "load", v |-> pendingFile]
    /\ UNCHANGED <<newest, files, server, running, before, pruneReq, deaths>>

\* A plausible slip: a failure is not written.
ResultIfOk(ok) ==
    /\ statusFile' = IF ok THEN [there |-> TRUE, ok |-> ok, v |-> updater.v] ELSE statusFile
    /\ updater' = NoCall

Result(ok) ==
    /\ statusFile' = [there |-> TRUE, ok |-> ok, v |-> updater.v]
    /\ updater' = NoCall

\* compose_safe, stage_tar and docker load: unsafe mounts, a package of another
\* digest (or no digest read), a foreign tag or a broken archive are refused;
\* the server goes on.
UpdaterRefuses ==
    /\ updater.pc = "load"
    /\ Result(FALSE)
    /\ UNCHANGED <<newest, pendingFile, tarFile, server, running, before, pruneReq, deaths>>

\* compose_up: the container is recreated, every call of the old one dies.
UpdaterSwitches ==
    /\ updater.pc = "load" /\ updater.v # NoVersion /\ tarFile = updater.v
    /\ before' = IF running = updater.v THEN before ELSE running
    /\ running' = updater.v
    /\ confirm' = NoCall /\ poll' = NoPoll
    /\ updater' = [updater EXCEPT !.pc = "health"]
    /\ UNCHANGED <<newest, files, recorded, installed, pruneReq, deaths>>

UpdaterSucceeds ==
    /\ updater.pc = "health"
    /\ Result(TRUE)
    /\ UNCHANGED <<newest, pendingFile, tarFile, server, running, before, pruneReq, deaths>>

\* revert: the previous image runs again, and the result is written after.
UpdaterReverts ==
    /\ updater.pc = "health"
    /\ running' = before
    /\ confirm' = NoCall /\ poll' = NoPoll
    /\ updater' = [updater EXCEPT !.pc = "failed"]
    /\ UNCHANGED <<newest, files, recorded, installed, before, pruneReq, deaths>>

UpdaterFails ==
    /\ updater.pc = "failed"
    /\ Result(FALSE)
    /\ UNCHANGED <<newest, pendingFile, tarFile, server, running, before, pruneReq, deaths>>

\* Killed: it starts over from the files.
UpdaterDies ==
    /\ updater # NoCall /\ deaths < MaxDeaths
    /\ deaths' = deaths + 1
    /\ updater' = NoCall
    /\ UNCHANGED <<newest, files, server, running, before, pruneReq>>

ServerDies ==
    /\ deaths < MaxDeaths
    /\ deaths' = deaths + 1
    /\ confirm' = NoCall /\ poll' = NoPoll
    /\ UNCHANGED <<newest, files, recorded, installed, updater, running, before, pruneReq>>

-----------------------------------------------------------------------------
(* Recording the result                                                    *)

\* Progress, asked for by a page, or once when the server starts
\* (SettleStaged), reads the description first ...
ReadPending ==
    /\ poll = NoPoll
    /\ poll' = [pc |-> "status", v |-> pendingFile, cur |-> NoVersion]
    /\ UNCHANGED <<newest, files, confirm, recorded, installed, updater, running, before, pruneReq, deaths>>

\* The version a result is taken to be about.
VersionOf(status, pending) == IF status.v # NoVersion THEN status.v ELSE pending

\* ... and the result then.  A success leads to MarkInstalled, which reads
\* what is installed first, a failure to MarkApplyFailed, which looks under
\* applyMu whether it has been recorded since the last confirmation.  No
\* result, or one of no known version, leads to nothing.
Progress ==
    /\ poll.pc = "status"
    /\ LET v == VersionOf(statusFile, poll.v)
       IN  poll' = IF statusFile = NoStatus \/ v = NoVersion THEN NoPoll
                   ELSE IF statusFile.ok THEN [pc |-> "install", v |-> v, cur |-> installed]
                   ELSE [pc |-> "look", v |-> v, cur |-> NoVersion]
    /\ UNCHANGED <<newest, files, confirm, recorded, installed, updater, running, before, pruneReq, deaths>>

\* Only upwards, and only from what was read.
PutInstalledSoftware(v, cur) ==
    installed' = IF v > cur /\ installed = cur THEN v ELSE installed

MarkInstalled ==
    /\ poll.pc = "install"
    /\ PutInstalledSoftware(poll.v, poll.cur)
    /\ poll' = NoPoll
    /\ UNCHANGED <<newest, files, confirm, recorded, updater, running, before, pruneReq, deaths>>

DeniedSince ==
    /\ poll.pc = "look"
    /\ poll' = IF poll.v \in recorded THEN NoPoll ELSE [poll EXCEPT !.pc = "write"]
    /\ UNCHANGED <<newest, files, confirm, recorded, installed, updater, running, before, pruneReq, deaths>>

MarkApplyFailed ==
    /\ poll.pc = "write"
    /\ recorded' = recorded \cup {poll.v}
    /\ poll' = NoPoll
    /\ UNCHANGED <<newest, files, confirm, installed, updater, running, before, pruneReq, deaths>>

-----------------------------------------------------------------------------
(* Pruning images                                                          *)

RequestPrune ==
    /\ ~pruneReq /\ deaths < MaxDeaths
    /\ pruneReq' = TRUE
    /\ UNCHANGED <<newest, files, server, updater, running, before, deaths>>

\* tick_images, between two looks of the updater's loop: not begun while an
\* update waits to be applied.
StartPrune ==
    /\ pruneReq /\ ~Applying /\ updater = NoCall
    /\ updater' = [pc |-> "prune", v |-> NoVersion]
    /\ UNCHANGED <<newest, files, server, running, before, pruneReq, deaths>>

RunPrune ==
    /\ updater.pc = "prune"
    /\ pruneReq' = FALSE
    /\ updater' = NoCall
    /\ UNCHANGED <<newest, files, server, running, before, deaths>>

-----------------------------------------------------------------------------
Stage == StageCheck \/ StageClear \/ StageStatus \/ StageTar \/ StagePending \/ FinishApply
Looks == SeesPending \/ SeesTar \/ SeesNoResult \/ UpdaterReads
Updater == Looks \/ RunPrune \/ UpdaterRefuses \/ UpdaterSwitches \/ UpdaterSucceeds
               \/ UpdaterReverts \/ UpdaterFails
Record == ReadPending \/ Progress \/ MarkInstalled \/ DeniedSince \/ MarkApplyFailed

UpdateNext ==
    \/ Arrive \/ ConfirmUpdate \/ Stage
    \/ Updater \/ UpdaterDies \/ ServerDies
    \/ Record \/ RequestPrune \/ StartPrune

UpdateSpec == UpdateInit /\ [][UpdateNext]_uvars

(* A version the updater has read stays staged until its result is         *)
(* written, whatever is confirmed and whoever dies meanwhile; and a result *)
(* that names a version lies beside the description of no other.  A look   *)
(* that reads no version switches to nothing; its result names none.       *)
NotDisturbed ==
    /\ updater.v # NoVersion =>
           Applying /\ pendingFile = updater.v /\ tarFile = updater.v
    /\ statusFile.v # NoVersion => pendingFile \in {NoVersion, statusFile.v}

(* pending.go:129: only an updater of an older format leaves the version    *)
(* out of its result.  It does not hold: a confirmation may take the        *)
(* description away between the updater's tests and its reading.            *)
ResultNamesVersion == statusFile # NoStatus => statusFile.v # NoVersion

(* Whatever has been staged, the updater ends with a result; and a success *)
(* ends up as the installed version, a failure as a denial in the audit,   *)
(* as long as somebody asks for the progress.  A failure without a version *)
(* is put down to the version described beside it, and to none if none is. *)
ResultTold ==
    LET v == VersionOf(statusFile, pendingFile)
    IN  \/ statusFile = NoStatus
        \/ statusFile.ok /\ v # NoVersion /\ installed >= v
        \/ ~statusFile.ok /\ v \in recorded \cup {NoVersion}
Settles == []<>(~Applying /\ ResultTold)
=============================================================================
