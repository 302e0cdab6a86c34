----------------------------- MODULE LoopsProofs -----------------------------
(***************************************************************************)
(* Two of the loops that live as long as their server, for any number of   *)
(* connections and releases.                                               *)
(*                                                                         *)
(* Presence: PresenceInv is inductive and gives ShownIsConnected.  The     *)
(* step that needs the invariant is Register: what it overwrites in the    *)
(* table had been taken over, because whoever registers was the last to    *)
(* come when it took the lock, and nobody else can have registered since.  *)
(*                                                                         *)
(* SelfUpdate: while the updater works, nobody stages.  A call that stages *)
(* took the description away first, so that nothing is being applied until *)
(* it puts the new one down as its last step.                              *)
(***************************************************************************)
EXTENDS Presence, SelfUpdate, TLAPS

-----------------------------------------------------------------------------
(* Presence of factories                                                   *)

\* The initial state satisfies the invariant.
LEMMA InitPresence == Init => PresenceInv
<1> SUFFICES ASSUME Init PROVE PresenceInv
  OBVIOUS
<1>1. TypeOK
  BY DEF Init, TypeOK
<1>2. OneHolder /\ LockHeld /\ TableCounts /\ RowFollowsTable
  BY NoneIsNotAConn DEF Init, OneHolder, LockHeld, TableCounts, RowFollowsTable
<1> QED
  BY <1>1, <1>2 DEF PresenceInv

\* A write of the row keeps the types, and a write that is not missed sets the row.
LEMMA WriteKeepsTypes ==
  ASSUME TypeOK, NEW v \in BOOLEAN, Write(v)
  PROVE  /\ row' \in BOOLEAN /\ missed' \in BOOLEAN /\ faults' \in Nat
         /\ ~missed' => row' = v
<1>1. faults' \in Nat
  BY DEF Write, TypeOK
<1>2. row' \in BOOLEAN /\ missed' \in BOOLEAN /\ (~missed' => row' = v)
  BY Zenon DEF Write, TypeOK
<1> QED
  BY <1>1, <1>2

\* Every step keeps the invariant.
LEMMA NextPresence == PresenceInv /\ [Next]_vars => PresenceInv'
<1> SUFFICES ASSUME PresenceInv, [Next]_vars PROVE PresenceInv'
  OBVIOUS
<1> USE NoneIsNotAConn DEF PresenceInv, Goto
<1>1. ASSUME NEW c \in Conns, Accept(c) PROVE PresenceInv'
  <2>1. TypeOK'
    BY <1>1 DEF Accept, TypeOK
  <2>2. OneHolder'
    BY <1>1 DEF Accept, OneHolder, TypeOK
  <2>3. LockHeld' /\ TableCounts' /\ RowFollowsTable'
    BY <1>1 DEF Accept, LockHeld, TableCounts, RowFollowsTable, TypeOK
  <2> QED
    BY <2>1, <2>2, <2>3
<1>2. ASSUME NEW c \in Conns, Unacknowledged(c) PROVE PresenceInv'
  BY <1>2 DEF Unacknowledged, TypeOK, OneHolder, LockHeld, TableCounts, RowFollowsTable
<1>3. ASSUME NEW c \in Conns, Online(c) PROVE PresenceInv'
  <2>1. TypeOK'
    BY <1>3 DEF Online, TypeOK
  <2>2. OneHolder' /\ RowFollowsTable'
    BY <1>3 DEF Online, OneHolder, RowFollowsTable, TypeOK
  <2>3. LockHeld'
    BY <1>3 DEF Online, LockHeld, OneHolder, TypeOK
  <2>4. TableCounts'
    BY <1>3 DEF Online, TableCounts, TypeOK
  <2> QED
    BY <2>1, <2>2, <2>3, <2>4
<1>4. ASSUME NEW c \in Conns, Register(c) PROVE PresenceInv'
  <2>1. TypeOK'
    <3>1. row' \in BOOLEAN /\ missed' \in BOOLEAN /\ faults' \in Nat
      BY <1>4, WriteKeepsTypes DEF Register
    <3>2. /\ up' = up /\ taken' = taken /\ current' = current
          /\ lock' = None /\ table' = c /\ pc' = [pc EXCEPT ![c] = "serving"]
      BY <1>4 DEF Register
    <3> QED
      BY <3>1, <3>2 DEF TypeOK
  <2>2. OneHolder'
    BY <1>4 DEF Register, OneHolder, LockHeld, TypeOK
  <2>21. RowFollowsTable'
    BY <1>4 DEF Register, Write, RowFollowsTable
  <2>3. LockHeld'
    BY <1>4 DEF Register, LockHeld, TypeOK
  <2>4. TableCounts'
    BY <1>4 DEF Register, LockHeld, TableCounts, TypeOK
  <2> QED
    BY <2>1, <2>2, <2>21, <2>3, <2>4
<1>5. ASSUME NEW c \in Conns, End(c) PROVE PresenceInv'
  BY <1>5 DEF End, TypeOK, OneHolder, LockHeld, TableCounts, RowFollowsTable
<1>6. ASSUME NEW c \in Conns, Offline(c) PROVE PresenceInv'
  <2>1. TypeOK'
    <3>1. row' \in BOOLEAN /\ missed' \in BOOLEAN /\ faults' \in Nat
      <4>1. CASE table = c
        BY <1>6, <4>1, WriteKeepsTypes DEF Offline
      <4>2. CASE table # c
        BY <1>6, <4>2 DEF Offline, TypeOK
      <4> QED
        BY <4>1, <4>2
    <3>2. /\ up' = up /\ taken' = taken /\ current' = current
          /\ lock' = lock /\ table' \in {table, None} /\ pc' = [pc EXCEPT ![c] = "gone"]
      BY <1>6 DEF Offline
    <3> QED
      BY <3>1, <3>2 DEF TypeOK
  <2>2. OneHolder' /\ LockHeld'
    BY <1>6 DEF Offline, OneHolder, LockHeld, TypeOK
  <2>3. TableCounts'
    BY <1>6 DEF Offline, TableCounts, TypeOK
  <2>4. RowFollowsTable'
    BY <1>6 DEF Offline, Write, RowFollowsTable, TypeOK
  <2> QED
    BY <2>1, <2>2, <2>3, <2>4
<1>7. CASE Crash
  <2>1. pc' \in [Conns -> {"new", "gone"}]
    BY <1>7 DEF Crash
  <2>2. TypeOK'
    <3>1. pc' \in [Conns -> {"new", "accepted", "registering", "serving", "ended", "gone"}]
      BY <2>1
    <3>2. /\ up' = FALSE /\ taken' = taken /\ row' = row /\ missed' = missed
          /\ current' = None /\ lock' = None /\ table' = None
      BY <1>7 DEF Crash
    <3>3. faults' \in Nat
      BY <1>7 DEF Crash, TypeOK
    <3>4. up' \in BOOLEAN /\ row' \in BOOLEAN /\ missed' \in BOOLEAN
      BY <3>2, Zenon DEF TypeOK
    <3> QED
      BY <3>1, <3>2, <3>3, <3>4 DEF TypeOK
  <2>3. OneHolder' /\ LockHeld' /\ TableCounts' /\ RowFollowsTable'
    BY <1>7, <2>1 DEF Crash, OneHolder, LockHeld, TableCounts, RowFollowsTable
  <2> QED
    BY <2>2, <2>3
<1>8. CASE Boot
  BY <1>8 DEF Boot, TypeOK, OneHolder, LockHeld, TableCounts, RowFollowsTable
<1>9. CASE UNCHANGED vars
  BY <1>9 DEF vars, TypeOK, OneHolder, LockHeld, TableCounts, RowFollowsTable
<1> QED
  BY <1>1, <1>2, <1>3, <1>4, <1>5, <1>6, <1>7, <1>8, <1>9 DEF Next, Hook

\* The hooks of any number of connections that take one another over keep the table,
\* the lock and the row in step.
THEOREM PresenceHolds == Spec => []PresenceInv
<1>1. Init => PresenceInv
  BY InitPresence
<1>2. PresenceInv /\ [Next]_vars => PresenceInv'
  BY NextPresence
<1> QED
  BY <1>1, <1>2, PTL DEF Spec

\* In a settled state whose last write succeeded, the directory shows the factory as
\* connected exactly while it is.
THEOREM DirectoryShown == Spec => []ShownIsConnected
<1>1. PresenceInv => ShownIsConnected
  <2> SUFFICES ASSUME PresenceInv, Settled, ~missed
               PROVE  row <=> \E c \in Conns : Connected(c)
    BY DEF ShownIsConnected
  <2> USE DEF PresenceInv
  <2>1. row <=> table # None
    BY DEF Settled, RowFollowsTable
  <2>2. table # None => Connected(table) /\ table \in Conns
    BY DEF Settled, TableCounts, TypeOK, Connected
  <2>3. ASSUME NEW c \in Conns, Connected(c) PROVE table # None
    BY <2>3, NoneIsNotAConn DEF Connected, TableCounts
  <2> QED
    BY <2>1, <2>2, <2>3
<1> QED
  BY <1>1, PresenceHolds, PTL
-----------------------------------------------------------------------------
(* A server's replacement of itself                                        *)

Places == {"idle", "check", "clear", "status", "tar", "pending", "audit",
           "read", "load", "health", "failed", "prune"}
Call == [pc : Places, v : Nat]
Statuses == [there : BOOLEAN, ok : BOOLEAN, v : Nat]

UpdateTypeOK ==
    /\ newest \in Nat /\ pendingFile \in Nat /\ tarFile \in Nat
    /\ confirm \in Call /\ updater \in Call /\ statusFile \in Statuses

\* What describes a package is there only with its package.
PendingHasTar == pendingFile # NoVersion => tarFile = pendingFile

\* Once the check is passed nothing is being applied, until the description is put down;
\* what may be written meanwhile is the result of a look that found no description.
StagingAlone ==
    /\ confirm.pc = "clear" => ~Applying
    /\ confirm.pc \in {"status", "tar", "pending"} => pendingFile = NoVersion
    /\ confirm.pc \in {"tar", "pending"} => statusFile.v = NoVersion
    /\ confirm.pc = "pending" => tarFile = confirm.v

\* When the updater reads there is still no result: only the updater writes one.
NoResultYet == updater.pc = "read" => statusFile = NoStatus

UpdateInv == UpdateTypeOK /\ PendingHasTar /\ StagingAlone /\ NoResultYet /\ NotDisturbed

\* A call that moves on is still about its version.
LEMMA CallFields ==
  ASSUME NEW c \in Call, NEW place \in Places
  PROVE  /\ [c EXCEPT !.pc = place] \in Call
         /\ [c EXCEPT !.pc = place].pc = place /\ [c EXCEPT !.pc = place].v = c.v
BY DEF Call

\* A call that has ended is idle.
LEMMA NoCallIsCall == NoCall \in Call /\ NoCall.pc = "idle" /\ NoCall.v = NoVersion
BY DEF NoCall, Call, Places, NoVersion

\* Where there is no result there is no version either.
LEMMA NoStatusIsStatus == NoStatus \in Statuses /\ NoStatus.v = NoVersion
BY DEF NoStatus, Statuses, NoVersion

\* To begin with nothing is staged.
LEMMA InitUpdate == UpdateInit => UpdateInv
BY NoCallIsCall, NoStatusIsStatus DEF UpdateInit, UpdateInv, UpdateTypeOK, PendingHasTar,
   StagingAlone, NoResultYet, NotDisturbed, NoVersion

\* A step that leaves the updater, the files and the confirmation as they are, or ends them.
LEMMA NothingStaged ==
  ASSUME UpdateInv, newest' \in Nat, confirm' \in {confirm, NoCall}, updater' \in {updater, NoCall},
         UNCHANGED <<pendingFile, tarFile, statusFile>>
  PROVE  UpdateInv'
BY NoCallIsCall DEF UpdateInv, UpdateTypeOK, PendingHasTar, StagingAlone, NoResultYet,
   NotDisturbed, Applying

\* The confirmation takes its next step while the updater stands still.
LEMMA StageKeepsInv ==
  ASSUME UpdateInv, Stage
  PROVE  UpdateInv'
<1>1. confirm \in Call /\ NoCall \in Call /\ UNCHANGED <<newest, updater>>
  BY NoCallIsCall DEF UpdateInv, UpdateTypeOK, Stage, StageCheck, StageClear, StageStatus,
     StageTar, StagePending, FinishApply
<1>2. CASE StageCheck
  <2>1. CASE confirm' = NoCall
    BY <1>1, <1>2, <2>1, NothingStaged DEF StageCheck, files, UpdateInv, UpdateTypeOK
  <2>2. CASE MayStage /\ confirm' = [confirm EXCEPT !.pc = "clear"]
    <3>1. confirm' \in Call /\ confirm'.pc = "clear"
      BY <1>1, <2>2, CallFields DEF Places
    <3>2. ~Applying /\ UNCHANGED <<pendingFile, tarFile, statusFile>>
      BY <1>2, <2>2 DEF StageCheck, files, MayStage
    <3> QED
      BY <1>1, <3>1, <3>2 DEF UpdateInv, UpdateTypeOK, PendingHasTar, StagingAlone, NoResultYet,
         NotDisturbed, Applying
  <2> QED
    BY <1>2, <2>1, <2>2 DEF StageCheck
<1>3. CASE StageClear
  <2>1. confirm' \in Call /\ confirm'.pc = "status"
    BY <1>1, <1>3, CallFields DEF Places, StageClear
  <2>2. confirm.pc = "clear" /\ pendingFile' = NoVersion /\ UNCHANGED <<tarFile, statusFile>>
    BY <1>3 DEF StageClear
  <2> QED
    BY <1>1, <2>1, <2>2 DEF UpdateInv, UpdateTypeOK, PendingHasTar, StagingAlone, NoResultYet,
       NotDisturbed, Applying, NoVersion
<1>4. CASE StageStatus
  <2>1. confirm' \in Call /\ confirm'.pc = "tar"
    BY <1>1, <1>4, CallFields DEF Places, StageStatus
  <2>2. confirm.pc = "status" /\ statusFile' = NoStatus /\ UNCHANGED <<pendingFile, tarFile>>
    BY <1>4 DEF StageStatus
  <2> QED
    BY <1>1, <2>1, <2>2, NoStatusIsStatus DEF UpdateInv, UpdateTypeOK, PendingHasTar,
       StagingAlone, NoResultYet,
       NotDisturbed, Applying, NoVersion
<1>5. CASE StageTar
  <2>1. confirm' \in Call /\ confirm'.pc = "pending" /\ confirm'.v = confirm.v /\ confirm.v \in Nat
    BY <1>1, <1>5, CallFields DEF Places, StageTar, Call
  <2>2. confirm.pc = "tar" /\ tarFile' = confirm.v /\ UNCHANGED <<pendingFile, statusFile>>
    BY <1>5 DEF StageTar
  <2> QED
    BY <1>1, <2>1, <2>2 DEF UpdateInv, UpdateTypeOK, PendingHasTar, StagingAlone, NoResultYet,
       NotDisturbed, Applying, NoVersion
<1>6. CASE StagePending
  <2>1. confirm' \in Call /\ confirm'.pc = "audit" /\ confirm.v \in Nat
    BY <1>1, <1>6, CallFields DEF Places, StagePending, Call
  <2>2. confirm.pc = "pending" /\ pendingFile' = confirm.v /\ UNCHANGED <<tarFile, statusFile>>
    BY <1>6 DEF StagePending
  <2> QED
    BY <1>1, <2>1, <2>2 DEF UpdateInv, UpdateTypeOK, PendingHasTar, StagingAlone, NoResultYet,
       NotDisturbed, Applying, NoVersion
<1>7. CASE FinishApply
  BY <1>1, <1>7, NothingStaged DEF FinishApply, files, UpdateInv, UpdateTypeOK
<1> QED
  BY <1>2, <1>3, <1>4, <1>5, <1>6, <1>7 DEF Stage

\* Every step of calls, server and updater keeps the invariant.
LEMMA NextUpdate == UpdateInv /\ [UpdateNext]_uvars => UpdateInv'
<1> SUFFICES ASSUME UpdateInv, [UpdateNext]_uvars PROVE UpdateInv'
  OBVIOUS
<1>1. updater \in Call /\ newest \in Nat /\ pendingFile \in Nat /\ confirm \in Call
  BY DEF UpdateInv, UpdateTypeOK
<1>2. CASE ConfirmUpdate
  <2>1. confirm' \in Call /\ confirm'.pc = "check"
    BY <1>1, <1>2 DEF ConfirmUpdate, Call, Places
  <2>2. UNCHANGED <<newest, pendingFile, tarFile, statusFile, updater>>
    BY <1>2 DEF ConfirmUpdate, files
  <2> QED
    BY <2>1, <2>2 DEF UpdateInv, UpdateTypeOK, PendingHasTar, StagingAlone,
       NoResultYet, NotDisturbed, Applying
<1>3. CASE Looks
  <2>1. /\ UNCHANGED <<newest, pendingFile, tarFile, statusFile, confirm>>
        /\ updater' \in Call
        /\ updater'.pc = "read" => statusFile = NoStatus
        /\ updater'.v # NoVersion => updater'.v = updater.v \/ updater.pc = "read"
        /\ updater'.v # NoVersion /\ updater.pc = "read" => updater'.v = pendingFile
    <3>1. UNCHANGED <<newest, pendingFile, tarFile, statusFile, confirm>>
      BY <1>3 DEF Looks, SeesPending, SeesTar, SeesNoResult, UpdaterReads, files, server
    <3>2. CASE SeesPending
      BY <1>1, <3>1, <3>2 DEF SeesPending, Call, Places, NoVersion
    <3>3. CASE SeesTar
      BY <1>1, <3>1, <3>3, NoCallIsCall, CallFields DEF SeesTar, Places
    <3>4. CASE SeesNoResult
      BY <1>1, <3>1, <3>4, NoCallIsCall, CallFields DEF SeesNoResult, Places
    <3>5. CASE UpdaterReads
      BY <1>1, <3>1, <3>5 DEF UpdaterReads, Call, Places
    <3> QED
      BY <1>3, <3>2, <3>3, <3>4, <3>5 DEF Looks
  <2>2. updater'.v # NoVersion => Applying /\ pendingFile = updater'.v /\ tarFile = updater'.v
    BY <2>1 DEF UpdateInv, NotDisturbed, NoResultYet, PendingHasTar, Applying
  <2> QED
    BY <2>1, <2>2 DEF UpdateInv, UpdateTypeOK, PendingHasTar, StagingAlone, NoResultYet,
       NotDisturbed, Applying
<1>4. ASSUME NEW ok \in BOOLEAN, Result(ok), UNCHANGED <<newest, pendingFile, tarFile, confirm>>
      PROVE  UpdateInv'
  <2>1. statusFile' \in Statuses /\ statusFile'.v = updater.v /\ statusFile' # NoStatus
    BY <1>1, <1>4 DEF Result, Statuses, NoStatus, Call
  <2>2. updater.v # NoVersion =>
            pendingFile = updater.v /\ confirm.pc \notin {"status", "tar", "pending"}
    BY DEF UpdateInv, NotDisturbed, StagingAlone
  <2> QED
    BY <1>4, <2>1, <2>2, NoCallIsCall DEF Result, UpdateInv, UpdateTypeOK, PendingHasTar,
       StagingAlone, NoResultYet, NotDisturbed, Applying
<1>5. CASE UpdaterRefuses \/ UpdaterSucceeds \/ UpdaterFails
  BY <1>4, <1>5 DEF UpdaterRefuses, UpdaterSucceeds, UpdaterFails, server
<1>6. CASE UpdaterSwitches \/ UpdaterReverts
  <2>1. PICK place \in {"health", "failed"} : updater' = [updater EXCEPT !.pc = place]
    BY <1>6 DEF UpdaterSwitches, UpdaterReverts
  <2>2. updater' \in Call /\ updater'.v = updater.v /\ updater'.pc = place
    <3>1. place \in Places
      BY DEF Places
    <3> QED
      BY <1>1, <2>1, <3>1, CallFields
  <2>3. confirm' = NoCall /\ UNCHANGED <<newest, pendingFile, tarFile, statusFile>>
    BY <1>6 DEF UpdaterSwitches, UpdaterReverts, files
  <2> QED
    BY <2>2, <2>3, NoCallIsCall DEF UpdateInv,
       UpdateTypeOK, PendingHasTar, StagingAlone, NoResultYet, NotDisturbed, Applying
<1>7. CASE StartPrune
  <2>1. updater' \in Call /\ updater'.pc = "prune" /\ updater'.v = NoVersion
    BY <1>7 DEF StartPrune, Call, Places, NoVersion
  <2>2. UNCHANGED <<newest, pendingFile, tarFile, statusFile, confirm>>
    BY <1>7 DEF StartPrune, files, server
  <2> QED
    BY <2>1, <2>2 DEF UpdateInv, UpdateTypeOK, PendingHasTar, StagingAlone, NoResultYet,
       NotDisturbed, Applying
<1>8. CASE Arrive \/ UpdaterDies \/ ServerDies \/ Record \/ RequestPrune \/ RunPrune
           \/ UNCHANGED uvars
  <2>1. newest' \in Nat
    BY <1>1, <1>8, UpdateConstants DEF Arrive, UpdaterDies, ServerDies, Record, RequestPrune,
       RunPrune, ReadPending, Progress, MarkInstalled, DeniedSince, MarkApplyFailed, uvars
  <2>2. /\ confirm' \in {confirm, NoCall} /\ updater' \in {updater, NoCall}
        /\ UNCHANGED <<pendingFile, tarFile, statusFile>>
    BY <1>8 DEF Arrive, UpdaterDies, ServerDies, Record, RequestPrune, RunPrune, ReadPending,
       Progress, MarkInstalled, DeniedSince, MarkApplyFailed, uvars, files, server
  <2> QED
    BY <2>1, <2>2, NothingStaged
<1> QED
  BY <1>2, <1>3, <1>5, <1>6, <1>7, <1>8, StageKeepsInv DEF UpdateNext, Updater

\* Stage, applyingNow and apply.sh: a version the updater has read stays staged until its
\* result is written, and a result that names a version lies beside no other's description,
\* whatever is confirmed, whoever dies and however the file accesses of the two interleave.
THEOREM StagedStays == UpdateSpec => []NotDisturbed
<1>1. UpdateInv => NotDisturbed
  BY DEF UpdateInv
<1>2. UpdateSpec => []UpdateInv
  BY InitUpdate, NextUpdate, PTL DEF UpdateSpec
<1> QED
  BY <1>1, <1>2, PTL
=============================================================================
