--------------------------- MODULE PlatformAssets ---------------------------
(***************************************************************************)
(* The WAN asset library: processes, and projects that pin processes at a  *)
(* revision (global/server: service/asset.go, closure.go, project_copy.go, *)
(* weld.go and store/asset.go).                                            *)
(*                                                                         *)
(* Every call of an administrator reads first and writes later: it loads   *)
(* the row, lets a patch judge it and the rows it depends on, and only     *)
(* then runs one transaction.  Other administrators commit in between, so  *)
(* the transaction checks again: the revision the client named, the locked *)
(* rows of the new dependencies, and the references to a process whose     *)
(* weld kind changes or that is deleted.                                   *)
(*                                                                         *)
(* Content is abstracted to the processes it refers to; names, digests and *)
(* corner marks are left out.                                              *)
(***************************************************************************)
EXTENDS Naturals, FiniteSets

CONSTANTS
    Processes,  \* identities of platform processes, each given out once
    Projects,   \* identities of platform projects
    Welds,      \* the weld kinds
    Sources,    \* factory assets that may be promoted to the platform
    ProjectSources,  \* those that are projects
    Admins,     \* calls under way at the same time
    Absent,     \* no row
    None,       \* no source; no weld kind given; no call
    MaxRev,     \* bound: highest revision of a row
    MaxCalls    \* bound: calls ever made

Ids == Processes \cup Projects

VARIABLES
    rows,       \* assets: the row under each identity
    retracted,  \* asset_retractions: identities deleted for good
    req,        \* the call each administrator has under way
    calls       \* calls made so far

platformVars == <<rows, retracted, req, calls>>

Statuses == {"draft", "available", "disabled"}

Pins == {<<p, r>> : p \in Processes, r \in 1..MaxRev}

Row == [status : Statuses, weld : Welds, copyable : BOOLEAN, rev : 1..MaxRev,
        deps : SUBSET Pins, refs : SUBSET Processes, src : Sources \cup {None}]

ASSUME PlatformConstants ==
    /\ Processes \cap Projects = {}
    /\ ProjectSources \subseteq Sources
    /\ None \notin Welds \cup Sources \cup Ids
    /\ Absent \notin Row
    /\ MaxRev \in Nat \ {0} /\ MaxCalls \in Nat

\* store.AssetWrite: the columns a patch replaces; weld = None leaves the weld kind.
Write == [status : Statuses, weld : Welds \cup {None}, copyable : BOOLEAN,
          deps : SUBSET Pins, refs : SUBSET Processes]

\* A call that has read and not yet written.
UpdateRequests ==
    [op : {"update"}, id : Ids, expected : 1..MaxRev, seen : Row, write : Write]
InsertRequests == [op : {"insert"}, id : Ids, row : Row]
DeleteRequests == [op : {"delete"}, id : Ids]
CopyRequests ==
    [op : {"copy"}, of : Projects, seen : Row, todo : SUBSET Pins,
     deps : SUBSET Pins, new : [Processes -> Processes], made : SUBSET Processes]
UndoRequests == [op : {"undo"}, made : SUBSET Processes]

Request == UpdateRequests \cup InsertRequests \cup DeleteRequests
           \cup CopyRequests \cup UndoRequests

PlatformTypeOK ==
    /\ rows \in [Ids -> Row \cup {Absent}]
    /\ retracted \subseteq Ids
    /\ req \in [Admins -> Request \cup {None}]
    /\ calls \in Nat

PlatformInit ==
    /\ rows = [i \in Ids |-> Absent]
    /\ retracted = {}
    /\ req = [a \in Admins |-> None]
    /\ calls = 0

Exists(i) == rows[i] # Absent
Pinned(deps) == {d[1] : d \in deps}

\* Identities are made anew for every row and never come back.
Fresh(i) ==
    /\ ~Exists(i) /\ i \notin retracted
    /\ \A a \in Admins : req[a] # None =>
         /\ req[a].op = "insert" => req[a].id # i

\* AssetIsReferenced: some row pins the asset, at whatever revision.
Referenced(i) == \E j \in Ids : Exists(j) /\ i \in Pinned(rows[j].deps)

-----------------------------------------------------------------------------
(* What the services check before they write. *)

\* pinPlatformProcess: a dependency is pinned at the revision it now has.
Pin(p) == <<p, rows[p].rev>>
Pinnable(p) == Exists(p) /\ rows[p].status = "available"

\* resolvePlatformProjectDeps
ResolveDeps(ps) == {Pin(p) : p \in ps}

\* assertDepsWeldKind
WeldOfDeps(weld, deps) == \A p \in Pinned(deps) : Exists(p) /\ rows[p].weld = weld

\* depsMatchingWeldKind
DepsOfWeld(weld, deps) == {d \in deps : Exists(d[1]) /\ rows[d[1]].weld = weld}

\* assertProjectProcessIDs
RefsAllowed(refs, deps) == refs \subseteq Pinned(deps)

Unchanged(cur) == [status |-> cur.status, weld |-> None, copyable |-> cur.copyable,
                   deps |-> cur.deps, refs |-> cur.refs]

\* The writes each call may make of the row it read; none when the call is refused.
RenamePlatformAsset(cur) == IF cur.status = "disabled" THEN {} ELSE {Unchanged(cur)}

PublishPlatformAsset(cur) ==
    IF cur.status # "draft" THEN {} ELSE {[Unchanged(cur) EXCEPT !.status = "available"]}

DisablePlatformAsset(cur) ==
    IF cur.status # "available" THEN {} ELSE {[Unchanged(cur) EXCEPT !.status = "disabled"]}

ReenablePlatformAsset(cur) ==
    IF cur.status # "disabled" THEN {} ELSE {[Unchanged(cur) EXCEPT !.status = "available"]}

UpdatePlatformAssetContent(i, cur) ==
    IF cur.status = "disabled" \/ i \in Processes THEN {}
    ELSE {[Unchanged(cur) EXCEPT !.refs = refs] : refs \in SUBSET Pinned(cur.deps)}

SetPlatformCopyable(i, cur) ==
    IF cur.status = "disabled" \/ i \notin Processes THEN {}
    ELSE {[Unchanged(cur) EXCEPT !.copyable = ~cur.copyable]}

\* A plausible slip: the content is kept whatever it refers to.
KeepContent(i, cur) ==
    IF cur.status = "disabled" THEN {}
    ELSE {[Unchanged(cur) EXCEPT !.weld = weld, !.deps = DepsOfWeld(weld, cur.deps)] :
          weld \in {w \in Welds : i \in Processes /\ w # cur.weld => ~Referenced(i)}}

\* A process in use keeps its weld kind; a project drops the dependencies of another
\* kind, and with them the content that refers to one of them.
SetPlatformWeldKind(i, cur) ==
    IF cur.status = "disabled" THEN {}
    ELSE {LET kept == DepsOfWeld(weld, cur.deps)
              wipe == ~(cur.refs \subseteq Pinned(kept))
          IN  [Unchanged(cur) EXCEPT !.weld = weld, !.deps = kept,
                                     !.refs = IF wipe THEN {} ELSE cur.refs] :
          weld \in {w \in Welds : i \in Processes /\ w # cur.weld => ~Referenced(i)}}

SetPlatformProjectDeps(i, cur) ==
    IF cur.status = "disabled" \/ i \notin Projects THEN {}
    ELSE {[Unchanged(cur) EXCEPT !.deps = ResolveDeps(ps)] :
            ps \in {qs \in SUBSET Processes :
                      /\ \A p \in qs : Pinnable(p) /\ rows[p].weld = cur.weld
                      /\ cur.refs \subseteq qs}}

Patches(i, cur) ==
    RenamePlatformAsset(cur) \cup PublishPlatformAsset(cur)
    \cup DisablePlatformAsset(cur) \cup ReenablePlatformAsset(cur)
    \cup UpdatePlatformAssetContent(i, cur) \cup SetPlatformCopyable(i, cur)
    \cup SetPlatformWeldKind(i, cur) \cup SetPlatformProjectDeps(i, cur)

-----------------------------------------------------------------------------
(* What the transactions check again. *)

\* A plausible slip: the dependencies are not locked and not looked at again.
NoLock(weld, deps, kept) == TRUE

\* lockAssetDepsTx: the dependencies the row did not have before are locked, exist and
\* have the row's weld kind.  A lock held to the commit makes check and write one step.
LockAssetDeps(weld, deps, kept) ==
    \A p \in Pinned(deps) \ Pinned(kept) : Exists(p) /\ rows[p].weld = weld

\* A plausible slip: the check the service made is thought to be enough.
NoGuard(i, weld) == TRUE

\* guardProcessWeldKindTx: under the row's lock, a process in use keeps its weld kind.
GuardProcessWeldKind(i, weld) ==
    i \in Processes /\ weld # rows[i].weld => ~Referenced(i)

\* A plausible slip: the update matches the identity alone.
AnyRevision(r) == TRUE

\* UPDATE ... WHERE id = ? AND revision = ?
RevisionMatches(r) == rows[r.id].rev = r.expected

Done(a) == req' = [req EXCEPT ![a] = None]

\* UpdateAsset, refused or committed.
UpdateAsset(a) ==
    /\ req[a] # None /\ req[a].op = "update"
    /\ LET r == req[a]
           i == r.id
           w == r.write
           weld == IF w.weld = None THEN rows[i].weld ELSE w.weld
       IN  IF /\ Exists(i) /\ r.expected < MaxRev
              /\ RevisionMatches(r)
              /\ GuardProcessWeldKind(i, weld)
              /\ LockAssetDeps(weld, w.deps, rows[i].deps)
           THEN rows' = [rows EXCEPT ![i] =
                  [@ EXCEPT !.status = w.status, !.weld = weld, !.copyable = w.copyable,
                            !.deps = w.deps, !.refs = w.refs, !.rev = r.expected + 1]]
           ELSE UNCHANGED rows
    /\ Done(a)
    /\ UNCHANGED retracted

\* A plausible slip: the source has no unique index.
NeverTaken(src) == FALSE

\* The unique index on the source of a promoted asset.
SourceTaken(src) == src # None /\ \E j \in Ids : Exists(j) /\ rows[j].src = src

\* promoteSnapshot, the source already has a row j: a disabled row is left alone, one
\* with the same content is kept as it is, any other becomes a draft with the new one.
PromoteInto(a, j, row) ==
    \/ Done(a)
    \/ /\ rows[j].status # "disabled"
       /\ req' = [req EXCEPT ![a] =
            [op |-> "update", id |-> j, expected |-> rows[j].rev, seen |-> rows[j],
             write |-> [status |-> "draft", weld |-> row.weld,
                        copyable |-> rows[j].copyable,
                        deps |-> row.deps, refs |-> row.refs]]]

\* InsertAssetInto, refused or committed; a promotion whose source has a row, before its
\* own look or because it lost the race for the unique index, goes on with that row.
InsertAsset(a) ==
    /\ req[a] # None /\ req[a].op = "insert"
    /\ LET r == req[a]
       IN  IF SourceTaken(r.row.src)
           THEN /\ \E j \in Ids : /\ Exists(j) /\ rows[j].src = r.row.src
                                  /\ PromoteInto(a, j, r.row)
                /\ UNCHANGED rows
           ELSE /\ rows' = IF LockAssetDeps(r.row.weld, r.row.deps, {})
                           THEN [rows EXCEPT ![r.id] = r.row] ELSE rows
                /\ Done(a)
    /\ UNCHANGED retracted

Delete(a, allowed) ==
    /\ LET i == req[a].id
       IN  IF Exists(i) /\ allowed
           THEN rows' = [rows EXCEPT ![i] = Absent] /\ retracted' = retracted \cup {i}
           ELSE UNCHANGED <<rows, retracted>>
    /\ Done(a)

\* A plausible slip: the check the service made is thought to be enough.
DeleteUnchecked(a) ==
    req[a] # None /\ req[a].op = "delete" /\ Delete(a, TRUE)

\* DeleteAssetAndRetract: under the row's lock the references are counted again.
DeleteAssetAndRetract(a) ==
    req[a] # None /\ req[a].op = "delete" /\ Delete(a, ~Referenced(req[a].id))

-----------------------------------------------------------------------------
(* The calls. *)

Begin(a, r) ==
    /\ req[a] = None
    /\ req' = [req EXCEPT ![a] = r]
    /\ UNCHANGED <<rows, retracted>>

NewRow(weld, copyable, deps, refs, src) ==
    [status |-> "draft", weld |-> weld, copyable |-> copyable, rev |-> 1,
     deps |-> deps, refs |-> refs, src |-> src]

CreatePlatformProcess(a) ==
    \E p \in Processes, weld \in Welds, copyable \in BOOLEAN :
      /\ Fresh(p)
      /\ Begin(a, [op |-> "insert", id |-> p,
                   row |-> NewRow(weld, copyable, {}, {}, None)])

\* fillPlatformProjectDeps, assertPlatformProcessDeps, assertDepsWeldKind and
\* assertProjectProcessIDs: the content's processes are pinned at what they are now.
CreatePlatformProject(a) ==
    \E q \in Projects, weld \in Welds, ps \in SUBSET Processes :
      \E refs \in SUBSET ps :
        /\ Fresh(q)
        /\ \A p \in ps : Pinnable(p)
        /\ WeldOfDeps(weld, ResolveDeps(ps))
        /\ Begin(a, [op |-> "insert", id |-> q,
                     row |-> NewRow(weld, TRUE, ResolveDeps(ps), refs, None)])

\* mutatePlatform: the caller names the revision it has on its screen.
MutatePlatform(a) ==
    \E i \in Ids :
      /\ Exists(i)
      /\ \E e \in 1..rows[i].rev, w \in Patches(i, rows[i]) :
           Begin(a, [op |-> "update", id |-> i, expected |-> e, seen |-> rows[i],
                     write |-> w])

DeletePlatformAsset(a) ==
    \E i \in Ids :
      /\ Exists(i) /\ ~Referenced(i)
      /\ Begin(a, [op |-> "delete", id |-> i])

\* promoteSnapshot: the dependencies are rewritten to platform rows (rewritePromoteDeps)
\* and judged, before the source is looked up.
PromoteSnapshot(a) ==
    \E src \in Sources, weld \in Welds :
      \E i \in (IF src \in ProjectSources THEN Projects ELSE Processes),
         ps \in (IF src \in ProjectSources THEN SUBSET Processes ELSE {{}}) :
        \E refs \in SUBSET ps :
          /\ Fresh(i)
          /\ \A p \in ps : Pinnable(p)
          /\ WeldOfDeps(weld, ResolveDeps(ps))
          /\ Begin(a, [op |-> "insert", id |-> i,
                       row |-> NewRow(weld, i \in Projects, ResolveDeps(ps), refs, src)])

-----------------------------------------------------------------------------
(* Copying a project copies the processes that may be copied, one transaction  *)
(* each, then inserts the copy; a failure deletes the copies made so far.       *)

CopyPlatformProject(a) ==
    \E q \in Projects :
      /\ Exists(q) /\ rows[q].status # "disabled"
      /\ Begin(a, [op |-> "copy", of |-> q, seen |-> rows[q], todo |-> rows[q].deps,
                   deps |-> {}, new |-> [p \in Processes |-> p], made |-> {}])

Copying(a) == req[a] # None /\ req[a].op = "copy"

GiveUpCopy(a) ==
    /\ req' = [req EXCEPT ![a] = [op |-> "undo", made |-> req[a].made]]
    /\ UNCHANGED <<rows, retracted>>

\* copyPlatformProjectDeps, one dependency: a process that may not be copied stays
\* pinned, one that may is inserted under a new identity.
CopyDep(a) ==
    /\ Copying(a)
    /\ \E d \in req[a].todo :
         LET p == d[1]
             r == [req[a] EXCEPT !.todo = @ \ {d}]
         IN  \/ ~Exists(p) /\ GiveUpCopy(a)
             \/ /\ Exists(p) /\ ~rows[p].copyable
                /\ req' = [req EXCEPT ![a] = [r EXCEPT !.deps = @ \cup {d}]]
                /\ UNCHANGED <<rows, retracted>>
             \/ Exists(p) /\ rows[p].copyable /\ ~Pinnable(p) /\ GiveUpCopy(a)
             \/ /\ Exists(p) /\ rows[p].copyable /\ Pinnable(p)
                /\ \E n \in Processes :
                     /\ Fresh(n)
                     /\ rows' = [rows EXCEPT ![n] =
                          [NewRow(rows[p].weld, TRUE, {}, {}, None)
                             EXCEPT !.status = "available"]]
                     /\ req' = [req EXCEPT ![a] =
                          [r EXCEPT !.deps = @ \cup {<<n, 1>>}, !.made = @ \cup {n},
                                    !.new[p] = n]]
                /\ UNCHANGED retracted

\* insertPlatformProjectCopy: content and dependencies are rewritten to the copies,
\* judged once more, and inserted.
InsertProjectCopy(a) ==
    /\ Copying(a) /\ req[a].todo = {}
    /\ LET r == req[a]
           refs == {r.new[p] : p \in r.seen.refs}
       IN  \/ /\ ~(WeldOfDeps(r.seen.weld, r.deps) /\ RefsAllowed(refs, r.deps)
                   /\ LockAssetDeps(r.seen.weld, r.deps, {}))
              /\ GiveUpCopy(a)
           \/ /\ WeldOfDeps(r.seen.weld, r.deps) /\ RefsAllowed(refs, r.deps)
              /\ LockAssetDeps(r.seen.weld, r.deps, {})
              /\ \E q \in Projects :
                   /\ Fresh(q)
                   /\ rows' = [rows EXCEPT ![q] =
                        NewRow(r.seen.weld, TRUE, r.deps, refs, None)]
              /\ Done(a)
              /\ UNCHANGED retracted

\* copyPlatformProject, the way out after a failure: DeletePlatformAsset on each copy,
\* whatever it answers.
UndoCopy(a) ==
    /\ req[a] # None /\ req[a].op = "undo"
    /\ IF req[a].made = {}
       THEN Done(a) /\ UNCHANGED <<rows, retracted>>
       ELSE \E n \in req[a].made :
              /\ IF Exists(n) /\ ~Referenced(n)
                 THEN /\ rows' = [rows EXCEPT ![n] = Absent]
                      /\ retracted' = retracted \cup {n}
                 ELSE UNCHANGED <<rows, retracted>>
              /\ req' = [req EXCEPT ![a].made = @ \ {n}]

-----------------------------------------------------------------------------

PlatformCall(a) ==
    \/ CreatePlatformProcess(a)
    \/ CreatePlatformProject(a)
    \/ MutatePlatform(a)
    \/ DeletePlatformAsset(a)
    \/ PromoteSnapshot(a)
    \/ CopyPlatformProject(a)

PlatformWrite(a) ==
    \/ UpdateAsset(a)
    \/ InsertAsset(a)
    \/ DeleteAssetAndRetract(a)
    \/ CopyDep(a)
    \/ InsertProjectCopy(a)
    \/ UndoCopy(a)

PlatformNext == \E a \in Admins :
    \/ calls < MaxCalls /\ calls' = calls + 1 /\ PlatformCall(a)
    \/ UNCHANGED calls /\ PlatformWrite(a)

PlatformSpec == PlatformInit /\ [][PlatformNext]_platformVars

-----------------------------------------------------------------------------
(* Properties. *)

\* No project is left with a dependency that is gone: binding a process and deleting
\* it may cross, and whichever commits second is refused.
DepsExist ==
    \A i \in Ids : Exists(i) => \A p \in Pinned(rows[i].deps) : Exists(p)

WeldsAgree(i) == \A p \in Pinned(rows[i].deps) : Exists(p) => rows[p].weld = rows[i].weld

\* A project made on the platform and the processes it depends on are of one weld kind:
\* binding a process and changing the weld kind of either may cross.
WeldKindsAgree == \A i \in Ids : Exists(i) /\ rows[i].src = None => WeldsAgree(i)

\* The same of every project, promoted ones included (store/asset_weld_race_test.go:1,
\* "no project is left whose kind does not match").
PromotedWeldsAgree == \A i \in Ids : Exists(i) => WeldsAgree(i)

\* The content of a project refers only to processes the project depends on.
RefsArePinned == \A i \in Ids : Exists(i) => rows[i].refs \subseteq Pinned(rows[i].deps)

\* One factory asset has at most one row on the platform, however many administrators
\* promote it at once.
SourcesUnique ==
    \A i, j \in Ids :
      Exists(i) /\ Exists(j) /\ rows[i].src = rows[j].src /\ rows[i].src # None => i = j

\* What a call under way may rest on.  An update names a revision it has seen, and a
\* row of that revision is the row it has seen; a dependency it keeps fits its weld kind.
UpdateFits(r) ==
    LET i == r.id
    IN  /\ r.expected <= r.seen.rev
        /\ r.write.refs \subseteq Pinned(r.write.deps)
        /\ IF Exists(i)
           THEN /\ r.seen.rev <= rows[i].rev
                /\ r.seen.rev = rows[i].rev => r.seen = rows[i]
           ELSE i \in retracted
        /\ r.seen.src = None /\ r.write.weld # None /\ r.write.weld # r.seen.weld =>
             Pinned(r.write.deps) \cap Pinned(r.seen.deps) = {}

InsertFits(r) ==
    /\ ~Exists(r.id) /\ r.id \notin retracted
    /\ r.row.refs \subseteq Pinned(r.row.deps)

RequestsFit ==
    \A a \in Admins : req[a] # None =>
      /\ req[a].op = "update" => UpdateFits(req[a])
      /\ req[a].op = "insert" =>
           /\ InsertFits(req[a])
           /\ \A b \in Admins \ {a} :
                req[b] # None /\ req[b].op = "insert" => req[b].id # req[a].id

RetractedGone == \A i \in retracted : ~Exists(i)

\* The library is consistent, and nothing under way can make it otherwise.
PlatformInv ==
    /\ PlatformTypeOK
    /\ DepsExist
    /\ WeldKindsAgree
    /\ RefsArePinned
    /\ SourcesUnique
    /\ RetractedGone
    /\ RequestsFit

\* A call replaces exactly the row its patch was worked out from: what another
\* administrator committed in between is never written over.
NoLostUpdate ==
    [][\A i \in Ids :
         Exists(i) /\ rows'[i] # Absent /\ rows'[i] # rows[i] =>
           \E a \in Admins : /\ req[a] # None /\ req[a].op = "update"
                             /\ req[a].id = i /\ req[a].seen = rows[i]]_platformVars

=============================================================================
