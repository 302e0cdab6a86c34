---------------------------- MODULE SoftwareSync ----------------------------
(***************************************************************************)
(* How a factory comes to hold the packages the WAN publishes             *)
(* (factory/server/internal/service/update.go, wanchannel/software.go and  *)
(* the software jobs of wanchannel/hold.go): announcements, a timer and    *)
(* administrators start jobs; a job asks for the package once per version, *)
(* downloads it over a connection that breaks, and puts object and row in  *)
(* place; administrators prune what is no longer needed.                   *)
(*                                                                         *)
(* Rows are the factory's own.  The objects are not: all the factories one *)
(* process serves use one store, and the key of an object names the kind   *)
(* and the version only, neither the digest nor the factory.  The module   *)
(* follows one factory; the others may put, prune and install what they    *)
(* were told of.  Complete tells whether row and object are there and      *)
(* agree.  The memory of verified objects only spares reading an object    *)
(* again: it knows one by its length, and the contents of one version are  *)
(* taken to differ in theirs.                                              *)
(***************************************************************************)
EXTENDS Releases

CONSTANTS MaxFaults,    \* bound: downloads cut, restarts, acts of others
          MaxPrunes     \* bound: deletions at the factory

ASSUME SyncConstants == MaxFaults \in Nat /\ MaxPrunes \in Nat

VARIABLES rep,          \* rep[v]: the content the replica row of v names
          blob,         \* blob[v]: the content of the object stored for v
          bad,          \* bad[v]: the content whose partial file is damaged
          pull,         \* pull[v]: the one download of v that may run
          installed,    \* max(installed version, running version)
          staged,       \* the version confirmed last, 0 if none
          prune,        \* the administrator's deletion
          taken,        \* versions whose object another factory removed or
                        \* changed since this one put it last
          faults, prunes

sync == <<rep, blob, bad, pull, installed, staged,
          prune, taken, faults, prunes>>
vars == <<wan, sync>>

Idle == [pc |-> "idle", want |-> NoRow, body |-> NoRow]
NoPrune == [pc |-> "idle", v |-> 0]

Init ==
    /\ ReleaseInit
    /\ rep \in {rel, [v \in Versions |-> NoRow]}
    \* An object may be there already, another factory put it.
    /\ blob \in {rep, rel}
    /\ taken = {}
    /\ bad = [v \in Versions |-> NoRow]
    /\ pull = [v \in Versions |-> Idle]
    /\ installed = 0 /\ staged = 0
    /\ prune = NoPrune
    /\ faults = 0 /\ prunes = 0

\* completeReplica: the row, and an object with the row's digest.
Complete(v) == rep[v] # NoRow /\ blob[v] = rep[v]

\* What another factory of this process may have downloaded of a version: it is
\* told of the same releases.
Nearby(v) == {d \in Contents : d = rel[v] \/ <<v, d>> \in announced}

\* installedBaseline; of client_apk nothing is ever installed.
Outdated(v) == v < installed

-----------------------------------------------------------------------------
(* Starting a download                                                     *)

\* EnsureSoftware refuses an outdated version, is done with a complete one,
\* and otherwise starts the one download of this version.
Ensure(v) ==
    /\ pull[v].pc = "idle" /\ ~Outdated(v) /\ ~Complete(v)
    /\ pull' = [pull EXCEPT ![v].pc = "look"]

\* An announcement is handled, late or again.
Told(v) ==
    /\ (\E d \in Contents : <<v, d>> \in announced) /\ Ensure(v)
    /\ UNCHANGED <<wan, rep, blob, bad, installed, staged, prune, taken, faults, prunes>>

\* A round, the timer or an administrator (SyncFactorySoftware) asks for the
\* newest release.
AskLatest ==
    /\ Latest # 0 /\ Ensure(Latest)
    /\ UNCHANGED <<wan, rep, blob, bad, installed, staged, prune, taken, faults, prunes>>

-----------------------------------------------------------------------------
(* One download                                                            *)

Step(v, pc, want, body) ==
    pull' = [pull EXCEPT ![v] = [pc |-> pc, want |-> want, body |-> body]]
Ends(v) == Step(v, "idle", NoRow, NoRow)

\* pullSoftwareOnce looks again, then asks for the digest of the newest
\* release; without an answer for this version it goes on without one.
Look(v) ==
    /\ pull[v].pc = "look"
    /\ \/ Complete(v) /\ Ends(v)
       \/ ~Complete(v) /\ Step(v, "ask", IF Latest = v THEN rel[v] ELSE NoRow, NoRow)
    /\ UNCHANGED <<wan, rep, blob, bad, installed, staged, prune, taken, faults, prunes>>

\* The WAN answers only for the newest version.
AskPull(v) ==
    /\ pull[v].pc = "ask"
    /\ IF Pullable(v) THEN Step(v, "body", pull[v].want, NoRow) ELSE Ends(v)
    /\ UNCHANGED <<wan, rep, blob, bad, installed, staged, prune, taken, faults, prunes>>

\* A plausible slip: a part that fails its check stays for the next attempt.
DiscardKeeps(v, d) == UNCHANGED bad

\* finishPart, and removeStaleParts of a download that came whole.
Discard(v, d) == bad' = [bad EXCEPT ![v] = IF @ = d THEN NoRow ELSE @]

\* The body arrives whole, the part of an earlier attempt continued.  One of
\* another digest than asked for is an error; so is a part that was wrong.
Download(v) ==
    LET d == Served(v)
        resumed == pull[v].want = d /\ bad[v] = d
    IN  /\ pull[v].pc = "body"
        /\ IF d # NoRow /\ pull[v].want \in {NoRow, d}
           THEN /\ Discard(v, d)
                /\ IF resumed THEN Ends(v) ELSE Step(v, "ingest", pull[v].want, d)
           ELSE Ends(v) /\ UNCHANGED bad
        /\ UNCHANGED <<wan, rep, blob, installed, staged, prune, taken, faults, prunes>>

\* The connection breaks: what has arrived stays for the next attempt.
DownloadBreaks(v) ==
    /\ pull[v].pc = "body" /\ faults < MaxFaults
    /\ faults' = faults + 1
    /\ Ends(v)
    /\ UNCHANGED <<wan, rep, blob, bad, installed, staged, prune, taken, prunes>>

\* IngestSoftware: a row of another digest, or a version below what is
\* installed or held, is refused.
IngestLook(v) ==
    /\ pull[v].pc = "ingest"
    /\ \/ /\ rep[v] = pull[v].body
          /\ Step(v, "again", NoRow, pull[v].body)
       \/ /\ rep[v] = NoRow /\ ~Outdated(v) /\ v >= Newest(rep)
          /\ Step(v, "put", NoRow, pull[v].body)
       \/ /\ \/ rep[v] \notin {NoRow, pull[v].body}
             \/ rep[v] = NoRow /\ (Outdated(v) \/ v < Newest(rep))
          /\ Ends(v)
    /\ UNCHANGED <<wan, rep, blob, bad, installed, staged, prune, taken, faults, prunes>>

\* The object goes to the key of its version, whatever is there.
IngestPut(v) ==
    /\ pull[v].pc \in {"again", "put"}
    /\ blob' = [blob EXCEPT ![v] = pull[v].body]
    /\ taken' = taken \ {v}
    /\ IF pull[v].pc = "again" THEN Ends(v) ELSE Step(v, "insert", NoRow, pull[v].body)
    /\ UNCHANGED <<wan, rep, bad, installed, staged, prune, faults, prunes>>

\* InsertSoftwareReplica never changes a row that is there.
IngestInsert(v) ==
    /\ pull[v].pc = "insert"
    /\ rep' = [rep EXCEPT ![v] = IF @ = NoRow THEN pull[v].body ELSE @]
    /\ Ends(v)
    /\ UNCHANGED <<wan, blob, bad, installed, staged, prune, taken, faults, prunes>>

\* The process ends and starts: rows, objects and parts remain, but of the
\* part being written only the length may have reached the disk.
Restart ==
    /\ pull' = [v \in Versions |-> Idle]
    /\ prune' = NoPrune
    /\ \E cut \in SUBSET {v \in Versions : pull[v].pc = "body"} :
          bad' = [v \in Versions |-> IF v \in cut THEN Served(v) ELSE bad[v]]

Crash ==
    /\ faults < MaxFaults
    /\ faults' = faults + 1
    /\ Restart
    /\ UNCHANGED <<wan, rep, blob, installed, staged, taken, prunes>>

-----------------------------------------------------------------------------
(* Installing and pruning                                                  *)

\* ConfirmFactoryUpdate: only the newest complete package above what is
\* installed is staged.
ConfirmFactoryUpdate ==
    /\ Newest(rep) > installed /\ Complete(Newest(rep))
    /\ staged # Newest(rep)
    /\ staged' = Newest(rep)
    /\ UNCHANGED <<wan, rep, blob, bad, pull, installed, prune, taken, faults, prunes>>

\* The updater has switched; the server that starts reports its version.
MarkInstalled ==
    /\ staged > installed
    /\ installed' = staged
    /\ UNCHANGED <<wan, rep, blob, bad, pull, staged, prune, taken, faults, prunes>>

\* A plausible slip: the newest version is not kept.
KeepInstalledOnly(v) == v = installed

\* softwareKeep: what is installed and what is newest stays.
KeepReplica(v) == v = Newest(rep) \/ v = installed

PruneKeep(v) ==
    /\ prune = NoPrune /\ prunes < MaxPrunes
    /\ rep[v] # NoRow /\ ~KeepReplica(v)
    /\ prunes' = prunes + 1
    /\ prune' = [pc |-> "blob", v |-> v]
    /\ UNCHANGED <<wan, rep, blob, bad, pull, installed, staged, taken, faults>>

PruneBlob ==
    /\ prune.pc = "blob"
    /\ IF rep[prune.v] = NoRow
       THEN prune' = NoPrune /\ UNCHANGED blob
       ELSE prune' = [prune EXCEPT !.pc = "row"] /\ blob' = [blob EXCEPT ![prune.v] = NoRow]
    /\ UNCHANGED <<wan, rep, bad, pull, installed, staged, taken, faults, prunes>>

PruneRow ==
    /\ prune.pc = "row"
    /\ rep' = [rep EXCEPT ![prune.v] = NoRow]
    /\ prune' = NoPrune
    /\ UNCHANGED <<wan, blob, bad, pull, installed, staged, taken, faults, prunes>>

-----------------------------------------------------------------------------
(* The other factories of the process                                      *)

\* Their IngestSoftware puts what they downloaded, perhaps long ago.
NeighbourPuts(v) ==
    /\ faults < MaxFaults
    /\ faults' = faults + 1
    /\ \E d \in Nearby(v) \ {blob[v]} : blob' = [blob EXCEPT ![v] = d]
    /\ taken' = taken \cup {v}
    /\ UNCHANGED <<wan, rep, bad, pull, installed, staged, prune, prunes>>

\* Their DeleteFactorySoftware asks only what they hold themselves: a version
\* that is old for them may be the newest one here.
NeighbourPrunes(v) ==
    /\ faults < MaxFaults
    /\ blob[v] # NoRow /\ \E w \in Versions : w > v /\ Nearby(w) # {}
    /\ faults' = faults + 1
    /\ blob' = [blob EXCEPT ![v] = NoRow]
    /\ taken' = taken \cup {v}
    /\ UNCHANGED <<wan, rep, bad, pull, installed, staged, prune, prunes>>

\* Their administrator confirms: the process restarts for every factory.
NeighbourInstalls(v) ==
    /\ faults < MaxFaults
    /\ v > installed /\ Nearby(v) # {}
    /\ faults' = faults + 1
    /\ installed' = v
    /\ Restart
    /\ UNCHANGED <<wan, rep, blob, staged, taken, prunes>>

Neighbour(v) == NeighbourPuts(v) \/ NeighbourPrunes(v) \/ NeighbourInstalls(v)

-----------------------------------------------------------------------------
Pull(v) ==
    Look(v) \/ AskPull(v) \/ Download(v) \/ IngestLook(v) \/ IngestPut(v) \/ IngestInsert(v)

Next ==
    \/ ReleaseNext /\ UNCHANGED sync
    \/ AskLatest
    \/ \E v \in Versions :
          Told(v) \/ Pull(v) \/ DownloadBreaks(v) \/ PruneKeep(v) \/ Neighbour(v)
    \/ Crash \/ ConfirmFactoryUpdate \/ MarkInstalled \/ PruneBlob \/ PruneRow

(* Fairness.  The timer softwareEvery asks for as long as the channel      *)
(* stands, and Hold dials again when it does not; a download ends one way  *)
(* or the other because a watchdog cuts one that stands still.             *)
Fairness == WF_vars(AskLatest) /\ \A v \in Versions : WF_vars(Pull(v))
Spec == Init /\ [][Next]_vars /\ Fairness

-----------------------------------------------------------------------------
(* Types of the variables. *)
SyncTypeOK ==
    /\ rel \in [Versions -> Contents \cup {NoRow}]
    /\ obj \subseteq Versions \X Contents
    /\ announced \subseteq Versions \X Contents
    /\ rep \in [Versions -> Contents \cup {NoRow}]
    \* An object may be there already, another factory put it.
    /\ blob \in [Versions -> Contents \cup {NoRow}]
    /\ installed \in Nat /\ staged \in Nat /\ taken \subseteq Versions

(* Of the version the WAN offers now the factory holds, downloads and      *)
(* stores exactly the content the WAN holds, although versions may be      *)
(* deleted and published again, with other bytes, by calls that overlap.   *)
SameContent ==
    LET v == Newest(rel)
    IN  v # 0 =>
          /\ rep[v] \in {NoRow, rel[v]}
          /\ pull[v].body \in {NoRow, rel[v]}
          /\ pull[v].pc \in {"again", "put", "insert"} => pull[v].body = rel[v]

(* The newest package a factory has a row of (the one it offers to its     *)
(* pads, or for installation) can be read and matches its digest, whatever *)
(* of its own prunings, downloads and restarts overlap: only what another  *)
(* factory did to the object of that very version can undo it, and only    *)
(* until this factory has put the object again.                            *)
NewestComplete == Newest(rep) \in {0} \cup taken \/ Complete(Newest(rep))

(* What softwareKeep says of pruning, that the newest version stays for    *)
(* the pads and the offer to install: it does not hold of a process with   *)
(* several factories, for the key of an object does not name its factory.  *)
NewestStays == Newest(rep) # 0 => Complete(Newest(rep))

(* Neither side's newest version is ever lost by pruning: it only moves    *)
(* up, also when a pruning decided earlier is carried out late.            *)
NewestForward == [][Newest(rel') >= Newest(rel) /\ Newest(rep') >= Newest(rep)]_vars

(* A release that stays the newest and can be served reaches the factory,  *)
(* unless what the factory runs is newer.                                  *)
LatestArrives ==
    \A v \in Versions :
        [](v = Newest(rel) /\ Served(v) # NoRow)
            ~> (Complete(v) \/ Outdated(v))
=============================================================================
