---------------------------- MODULE FactoryAssets ----------------------------
(***************************************************************************)
(* A factory's asset library (factory/server: service/asset.go, closure.go,*)
(* project_copy.go, weld.go, store/asset.go, store/codes.go).  Processes   *)
(* and projects are the factory's or one person's; a project pins processes*)
(* at a revision, and platform processes among the replicas the WAN has    *)
(* delivered.  Teaching pads bring assets under identities of their own    *)
(* and write over content without naming a revision.                       *)
(*                                                                         *)
(* As on the WAN a call reads, judges, and writes later in one transaction *)
(* that checks part of it again.  Content is abstracted to the processes   *)
(* it refers to, and a digest to the content it is of; names and codes are *)
(* left out.                                                               *)
(***************************************************************************)
EXTENDS Naturals, FiniteSets

CONSTANTS
    Processes,  \* identities of the factory's processes
    Projects,   \* identities of its projects
    Platform,   \* platform processes the WAN may deliver
    InUse,      \* identities that may have a row to begin with
    PadIds,     \* identities a teaching pad may choose, also after a deletion
    Welds,      \* the weld kinds
    Users,      \* people, each with at most one call under way
    Managers,   \* those who may write what belongs to the factory
    Supers,     \* those who may touch what belongs to another person
    Absent,     \* no row
    None,       \* the factory as an owner; no weld kind given; no call
    MaxRev,     \* bound: highest revision of a row
    MaxRefs,    \* bound: processes named at once, by a caller or by a content
    MaxSent,    \* bound: revisions of a platform process delivered
    MaxCalls    \* bound: calls ever made

Ids == Processes \cup Projects

VARIABLES
    rows,      \* assets: the row under each identity
    used,      \* identities ever given to a row
    replicas,  \* asset_replicas: what the WAN has delivered
    req,       \* the call each person has under way
    calls      \* calls made so far

factoryVars == <<rows, used, replicas, req, calls>>

Statuses == {"draft", "available", "disabled"}
Pins == (Processes \cup Platform) \X (1..MaxRev)

\* owner is the person whose a personal asset is, None for an asset of the factory; refs
\* is the content, digest the content the row's digest is of.
Row == [owner : Users \cup {None}, status : Statuses, weld : Welds, rev : 1..MaxRev,
        deps : SUBSET Pins, refs : SUBSET (Processes \cup Platform),
        digest : SUBSET (Processes \cup Platform)]
Replica == [id : Platform, rev : 1..MaxRev, weld : Welds, copyable : BOOLEAN,
            status : {"available", "disabled"}]

ASSUME FactoryAssetsConstants ==
    /\ Processes \cap Projects = {} /\ Platform \cap (Processes \cup Projects) = {}
    /\ PadIds \subseteq Ids /\ InUse \subseteq Ids /\ Managers \subseteq Users /\ Supers \subseteq Users
    /\ None \notin Users \cup Welds /\ Absent \notin Row
    /\ MaxRev \in Nat \ {0} /\ MaxRefs \in Nat /\ MaxSent \in 0..MaxRev /\ MaxCalls \in Nat

Calls == {"update", "app", "insert", "delete", "copy", "undo"}

FactoryTypeOK ==
    /\ rows \in [Ids -> Row \cup {Absent}]
    /\ used \subseteq Ids /\ replicas \subseteq Replica
    /\ \A u \in Users : req[u] # None => req[u].op \in Calls
    /\ calls \in Nat

NewRow(owner, status, weld, deps, refs) ==
    [owner |-> owner, status |-> status, weld |-> weld, rev |-> 1, deps |-> deps, refs |-> refs,
     digest |-> refs]

\* A library with some assets in use, each the factory's or one person's, and nothing
\* under way.
FactoryInit ==
    /\ \E I \in SUBSET InUse :
         \E owner \in [I -> Users \cup {None}], weld \in [I -> Welds] :
           \E deps \in [I \cap Projects -> SUBSET (I \cap Processes)] :
             /\ \A q \in DOMAIN deps : \A p \in deps[q] :
                  /\ weld[p] = weld[q]
                  /\ owner[q] # None => owner[p] \in {None, owner[q]}
             /\ rows = [i \in Ids |->
                  IF i \notin I THEN Absent
                  ELSE IF i \in Processes THEN NewRow(owner[i], "available", weld[i], {}, {})
                  ELSE NewRow(owner[i], "available", weld[i], deps[i] \X {1}, deps[i])]
    /\ used = {i \in Ids : rows[i] # Absent}
    /\ replicas = {}
    /\ req = [u \in Users |-> None]
    /\ calls = 0

Exists(i) == i \in Ids /\ rows[i] # Absent

\* loadChecked: a row is read only when its content is that of its digest.
Intact(row) == row.digest = row.refs
Pinned(deps) == {d[1] : d \in deps}

\* AssetIsReferenced
Referenced(i) == \E j \in Ids : Exists(j) /\ i \in Pinned(rows[j].deps)

\* LatestReplicaMeta, the row of the highest revision, as a set of at most one.
Latest(p) == {r \in replicas : r.id = p /\ \A s \in replicas : s.id = p => s.rev <= r.rev}

\* A new identity: no row has had it, no call is about to give it.
Fresh(i) ==
    /\ i \notin used
    /\ \A u \in Users : req[u] # None /\ req[u].op = "insert" => req[u].id # i

\* callerAssetCodeTx: the identity a pad gives is new, or one whose row was deleted.
PadMayUse(i) == Fresh(i) \/ (i \in PadIds /\ ~Exists(i))

-----------------------------------------------------------------------------
(* What the services check before they write. *)

CanAuthorLevel(u, owner) == owner = None => u \in Managers
CanTouchPersonal(u, owner) == owner \in {None, u} \/ u \in Supers

\* A plausible slip: a project of one's own may pin anybody's process.
AnyProcess(u, personal, p) == Exists(p) /\ rows[p].status = "available"

\* pinFactoryProcess and pinPersonalProcess, of processes of the factory: a personal
\* project takes the caller's own and those of the factory.
MayPin(u, personal, p) ==
    /\ Exists(p) /\ rows[p].status = "available"
    /\ personal => rows[p].owner \in {None, u}

\* ... and of platform processes, where it takes those that may not be copied.
MayPinReplica(personal, r) == r.status = "available" /\ (personal => ~r.copyable)

\* A pin of p now; none when it may not be had.
PinOf(u, personal, p) ==
    IF p \in Processes THEN {<<p, rows[p].rev>> : x \in {y \in {p} : MayPin(u, personal, y)}}
    ELSE {<<p, r.rev>> : r \in {s \in Latest(p) : MayPinReplica(personal, s)}}

\* assertPersonalProjectDeps and assertFactoryProcessDeps: a process at the revision it
\* has, a replica at any it has had.
PinAccepted(u, personal, d) ==
    IF d[1] \in Processes THEN MayPin(u, personal, d[1]) /\ d[2] = rows[d[1]].rev
    ELSE \E r \in replicas : <<r.id, r.rev>> = d /\ MayPinReplica(personal, r)

\* The weld kind a dependency has now: that of the row, or of the latest replica.
WeldsOf(p) == IF Exists(p) THEN {rows[p].weld} ELSE {r.weld : r \in Latest(p)}

\* assertDepsWeldKind
DepsWeldKind(weld, deps) == \A p \in Pinned(deps) : WeldsOf(p) = {weld}

\* depsMatchingWeldKind
DepsMatching(weld, deps) == {d \in deps : WeldsOf(d[1]) = {weld}}

\* assertProjectProcessIDs: content refers to pinned processes only.
RefsAllowed(refs, deps) == refs \subseteq Pinned(deps)

\* What the content of an asset may refer to.
NamedAtOnce(S) == {s \in SUBSET S : Cardinality(s) <= MaxRefs}
Contents(i) == IF i \in Projects THEN NamedAtOnce(Processes \cup Platform) ELSE {{}}

\* A write names the digest (of refs) and either the content too or that it is to be kept.
Unchanged(cur) ==
    [status |-> cur.status, weld |-> None, deps |-> cur.deps, refs |-> cur.digest, keep |-> TRUE]

\* The writes each call may make of the row it read; none when the call is refused.
RenameAsset(cur) == IF cur.status = "disabled" THEN {} ELSE {Unchanged(cur)}

PublishAsset(cur) ==
    IF cur.status # "draft" THEN {} ELSE {[Unchanged(cur) EXCEPT !.status = "available"]}

DisableAsset(cur) ==
    IF cur.status # "available" THEN {} ELSE {[Unchanged(cur) EXCEPT !.status = "disabled"]}

ReenableAsset(cur) ==
    IF cur.status # "disabled" THEN {} ELSE {[Unchanged(cur) EXCEPT !.status = "available"]}

UpdateAssetContent(i, cur) ==
    IF cur.status = "disabled" THEN {}
    ELSE {[Unchanged(cur) EXCEPT !.refs = refs, !.keep = FALSE] :
            refs \in {rs \in Contents(i) : RefsAllowed(rs, cur.deps)}}

\* A process in use keeps its weld kind; a project drops the dependencies of another
\* kind, and with them content that refers to one or is of another kind itself; one whose
\* dependency is gone altogether is refused.
SetAssetWeldKind(i, cur) ==
    IF \/ cur.status = "disabled" \/ \E p \in Pinned(cur.deps) : WeldsOf(p) = {}
       \/ i \in Projects /\ ~Intact(cur)
    THEN {}
    ELSE UNION {
      LET kept == DepsMatching(weld, cur.deps)
          write == [Unchanged(cur) EXCEPT !.weld = weld, !.deps = kept]
      IN  {w \in {write, [write EXCEPT !.refs = {}, !.keep = FALSE]} :
             IF w.keep THEN w.refs \cap Pinned(cur.deps \ kept) = {} ELSE i \in Projects} :
      weld \in {k \in Welds : i \in Processes /\ k # cur.weld => ~Referenced(i)}}

\* resolveProjectDeps: all of ps, each pinned anew.
Resolve(u, personal, ps) == UNION {PinOf(u, personal, p) : p \in ps}

\* fillProjectDeps and mergeProjectDeps: what the content refers to beyond deps is
\* pinned as it now is.
FillProjectDeps(u, personal, deps, refs) == deps \cup Resolve(u, personal, refs \ Pinned(deps))

SetProjectDeps(u, i, cur) ==
    IF cur.status = "disabled" \/ i \notin Projects \/ ~Intact(cur) THEN {}
    ELSE {[Unchanged(cur) EXCEPT !.deps = Resolve(u, cur.owner # None, ps)] :
            ps \in {qs \in NamedAtOnce(Processes \cup Platform) :
                      LET deps == Resolve(u, cur.owner # None, qs)
                      IN  /\ Pinned(deps) = qs
                          /\ DepsWeldKind(cur.weld, deps)
                          /\ RefsAllowed(cur.refs, deps)}}

Patches(u, i, cur) ==
    RenameAsset(cur) \cup PublishAsset(cur) \cup DisableAsset(cur) \cup ReenableAsset(cur)
    \cup UpdateAssetContent(i, cur) \cup SetAssetWeldKind(i, cur) \cup SetProjectDeps(u, i, cur)

\* applyAppOnce: what a pad's content makes of the row; what it refers to is pinned too.
\* That the row is disabled does not matter.
AppPatch(u, i, cur, refs) ==
    IF i \in Processes THEN {Unchanged(cur)}
    ELSE LET deps == FillProjectDeps(u, cur.owner # None, cur.deps, refs)
         IN  IF RefsAllowed(refs, deps) /\ DepsWeldKind(cur.weld, deps \ cur.deps)
             THEN {[Unchanged(cur) EXCEPT !.deps = deps, !.refs = refs, !.keep = FALSE]} ELSE {}

-----------------------------------------------------------------------------
(* What the transactions check again. *)

\* A plausible slip: the dependencies are not locked and not looked at again.
NoLock(weld, deps, kept) == TRUE

\* lockAssetDepsTx: new dependencies among the factory's rows have the row's weld kind;
\* one whose row is gone is passed over, and so are replicas.
LockAssetDeps(weld, deps, kept) ==
    \A p \in Pinned(deps) \ Pinned(kept) : Exists(p) => rows[p].weld = weld

\* guardProcessWeldKindTx
GuardProcessWeldKind(i, weld) == i \in Processes /\ weld # rows[i].weld => ~Referenced(i)

\* A plausible slip: the update matches the identity alone.
AnyRevision(r) == TRUE

\* UPDATE ... WHERE id = ? AND revision = ?
RevisionMatches(r) == rows[r.id].rev = r.expected

Done(u) == req' = [req EXCEPT ![u] = None]
Goes(u, r) == req' = [req EXCEPT ![u] = r]

\* UpdateGovernedAsset, committed, refused, or in conflict, which a pad's write survives
\* for as many tries as it has left.
UpdateGovernedAsset(u) ==
    /\ req[u] # None /\ req[u].op = "update"
    /\ LET r == req[u]
           i == r.id
           w == r.write
           weld == IF w.weld = None THEN rows[i].weld ELSE w.weld
       IN  IF Exists(i) /\ ~RevisionMatches(r)
           THEN /\ IF r.again > 0
                   THEN Goes(u, [op |-> "app", id |-> i, refs |-> w.refs, tries |-> r.again])
                   ELSE Done(u)
                /\ UNCHANGED rows
           ELSE /\ IF /\ Exists(i) /\ r.expected < MaxRev
                      /\ GuardProcessWeldKind(i, weld)
                      /\ LockAssetDeps(weld, w.deps, rows[i].deps)
                   THEN rows' = [rows EXCEPT ![i] =
                          [@ EXCEPT !.status = w.status, !.weld = weld, !.deps = w.deps,
                                    !.refs = IF w.keep THEN rows[i].refs ELSE w.refs, !.digest = w.refs,
                                    !.rev = r.expected + 1]]
                   ELSE UNCHANGED rows
                /\ Done(u)
    /\ UNCHANGED <<used, replicas>>

\* InsertGovernedAssetInto, committed or refused; callerAssetCodeTx refuses an identity
\* that has a row, and takes one whose row was deleted.
InsertGovernedAsset(u) ==
    /\ req[u] # None /\ req[u].op = "insert"
    /\ LET r == req[u]
       IN  IF ~Exists(r.id) /\ LockAssetDeps(r.row.weld, r.row.deps, {})
           THEN rows' = [rows EXCEPT ![r.id] = r.row] /\ used' = used \cup {r.id}
           ELSE UNCHANGED <<rows, used>>
    /\ Done(u)
    /\ UNCHANGED replicas

\* DeleteGovernedAsset looks at no reference again.
DeleteGovernedAsset(u) ==
    /\ req[u] # None /\ req[u].op = "delete"
    /\ LET r == req[u]
       IN  /\ rows' = [rows EXCEPT ![r.id] = Absent]
           /\ IF r.rest = {} THEN Done(u) ELSE Goes(u, [op |-> "undo", made |-> r.rest])
    /\ UNCHANGED <<used, replicas>>

-----------------------------------------------------------------------------
(* The calls. *)

Begin(u, r) ==
    /\ req[u] = None
    /\ req' = [req EXCEPT ![u] = r]
    /\ UNCHANGED <<rows, used, replicas>>

Inserting(i, row) == [op |-> "insert", id |-> i, row |-> row]

\* The dependencies a caller may name.
Nameable(u, i, personal) ==
    LET accepted == IF i \in Projects THEN {d \in Pins : PinAccepted(u, personal, d)} ELSE {}
    IN  {ds \in NamedAtOnce(accepted) : \A d, e \in ds : d[1] = e[1] => d = e}

\* What a new row may be: a project pins what the caller names and what its content
\* refers to, all accepted and of its weld kind.
Authored(u, i, owner, status) ==
    {row \in {NewRow(owner, status, weld, FillProjectDeps(u, owner # None, ds, refs), refs) :
               weld \in Welds, ds \in Nameable(u, i, owner # None), refs \in Contents(i)} :
       RefsAllowed(row.refs, row.deps) /\ DepsWeldKind(row.weld, row.deps)}

\* insertAuthored: a draft under an identity of the factory's making.
CreateAsset(u) ==
    \E i \in Ids, owner \in {None, u} :
      /\ Fresh(i) /\ CanAuthorLevel(u, owner)
      /\ \E row \in Authored(u, i, owner, "draft") : Begin(u, Inserting(i, row))

\* CreatePadIn: available at once, under the identity the pad has given it.
CreatePadIn(u) ==
    \E i \in Ids, owner \in {None, u} :
      /\ PadMayUse(i) /\ CanAuthorLevel(u, owner)
      /\ \E row \in Authored(u, i, owner, "available") : Begin(u, Inserting(i, row))

\* CopyProcess: of a row, or of a replica that may be copied.
CopyProcess(u) ==
    \E n \in Processes, p \in Processes \cup Platform :
      /\ Fresh(n)
      /\ \/ /\ Exists(p) /\ rows[p].status # "disabled" /\ CanTouchPersonal(u, rows[p].owner)
            /\ LET owner == IF rows[p].owner = None THEN None ELSE u
               IN  /\ CanAuthorLevel(u, owner)
                   /\ Begin(u, Inserting(n, NewRow(owner, "draft", rows[p].weld, {}, {})))
         \/ \E r \in Latest(p) :
              /\ r.status = "available" /\ r.copyable /\ CanAuthorLevel(u, None)
              /\ Begin(u, Inserting(n, NewRow(None, "draft", r.weld, {}, {})))

\* PromoteToFactory: a new row of the factory with the content and the pins of a personal
\* one, whose processes have to be the factory's or the platform's.
PromoteToFactory(u) ==
    \E i, n \in Ids :
      /\ i \in Processes <=> n \in Processes
      /\ Exists(i) /\ Intact(rows[i]) /\ Fresh(n)
      /\ rows[i].owner # None /\ rows[i].status # "disabled"
      /\ CanTouchPersonal(u, rows[i].owner) /\ CanAuthorLevel(u, None)
      /\ \A d \in rows[i].deps :
           IF Exists(d[1]) THEN rows[d[1]].owner = None /\ rows[d[1]].status = "available"
           ELSE \E r \in replicas : <<r.id, r.rev>> = d /\ MayPinReplica(FALSE, r)
      /\ Begin(u, Inserting(n, NewRow(None, "draft", rows[i].weld, rows[i].deps, rows[i].refs)))

\* mutateAsset: the caller names the revision it has on its screen, which may be of a row
\* that was there before.
MutateAsset(u) ==
    \E i \in Ids :
      /\ Exists(i)
      /\ CanAuthorLevel(u, rows[i].owner) /\ CanTouchPersonal(u, rows[i].owner)
      /\ \E e \in 1..(IF i \in PadIds THEN MaxRev ELSE rows[i].rev), w \in Patches(u, i, rows[i]) :
           Begin(u, [op |-> "update", id |-> i, expected |-> e, seen |-> rows[i],
                     write |-> w, again |-> 0])

\* ApplyAppContent: three tries, each with the row as it then is.
ApplyAppContent(u) ==
    \E i \in Ids :
      /\ Exists(i)
      /\ \E refs \in Contents(i) : Begin(u, [op |-> "app", id |-> i, refs |-> refs, tries |-> 3])

ApplyAppOnce(u) ==
    /\ req[u] # None /\ req[u].op = "app"
    /\ LET r == req[u]
           cur == rows[r.id]
           ok == Exists(r.id) /\ CanAuthorLevel(u, cur.owner) /\ cur.owner \in {None, u}
           ws == IF ok THEN AppPatch(u, r.id, cur, r.refs) ELSE {}
       IN  IF ws = {} THEN Done(u)
           ELSE \E w \in ws : Goes(u, [op |-> "update", id |-> r.id, expected |-> cur.rev,
                                       seen |-> cur, write |-> w, again |-> r.tries - 1])
    /\ UNCHANGED <<rows, used, replicas>>

DeleteAsset(u) ==
    \E i \in Ids :
      /\ Exists(i) /\ ~Referenced(i)
      /\ CanAuthorLevel(u, rows[i].owner) /\ CanTouchPersonal(u, rows[i].owner)
      /\ Begin(u, [op |-> "delete", id |-> i, rest |-> {}])

-----------------------------------------------------------------------------
(* Copying a project: its processes first, one transaction each, then the copy; *)
(* a failure deletes the copies made so far.                                     *)

CopyProject(u) ==
    \E q \in Projects :
      /\ Exists(q) /\ Intact(rows[q])
      /\ rows[q].status # "disabled" /\ CanTouchPersonal(u, rows[q].owner)
      /\ LET owner == IF rows[q].owner = None THEN None ELSE u
         IN  /\ CanAuthorLevel(u, owner)
             /\ Begin(u, [op |-> "copy", seen |-> rows[q], owner |-> owner,
                          todo |-> rows[q].deps, deps |-> {}, made |-> {},
                          new |-> [p \in Processes \cup Platform |-> p]])

Copying(u) == req[u] # None /\ req[u].op = "copy"
GiveUpCopy(u) == Goes(u, [op |-> "undo", made |-> req[u].made])

\* copyProjectDeps, one dependency: a platform process that may not be copied stays
\* pinned, another person's is pinned anew, any other that is available is copied.
CopyDep(u) ==
    /\ Copying(u)
    /\ \E d \in req[u].todo :
         LET p == d[1]
             r == [req[u] EXCEPT !.todo = @ \ {d}]
             secret == \E s \in Latest(p) : ~s.copyable
             foreign == Exists(p) /\ ~CanTouchPersonal(u, rows[p].owner)
             source == IF Exists(p) THEN {[weld |-> rows[p].weld, status |-> rows[p].status]}
                       ELSE {[weld |-> s.weld, status |-> s.status] : s \in Latest(p)}
             Keep(pins) == /\ IF pins = {} THEN GiveUpCopy(u)
                              ELSE Goes(u, [r EXCEPT !.deps = @ \cup pins])
                           /\ UNCHANGED <<rows, used>>
         IN  IF secret THEN Keep({d})
             ELSE IF foreign THEN Keep(PinOf(u, r.owner # None, p))
             ELSE IF \A s \in source : s.status # "available" THEN Keep({})
             ELSE \E n \in Processes, s \in source :
                    /\ Fresh(n)
                    /\ rows' = [rows EXCEPT ![n] = NewRow(r.owner, "available", s.weld, {}, {})]
                    /\ used' = used \cup {n}
                    /\ Goes(u, [r EXCEPT !.deps = @ \cup {<<n, 1>>}, !.made = @ \cup {n},
                                         !.new[p] = n])
    /\ UNCHANGED replicas

\* insertProjectCopy: judged once more and inserted.
InsertProjectCopy(u) ==
    /\ Copying(u) /\ req[u].todo = {}
    /\ LET r == req[u]
           refs == {r.new[p] : p \in r.seen.refs}
           ok == /\ \A d \in r.deps : PinAccepted(u, r.owner # None, d)
                 /\ DepsWeldKind(r.seen.weld, r.deps)
                 /\ RefsAllowed(refs, r.deps)
                 /\ LockAssetDeps(r.seen.weld, r.deps, {})
       IN  IF ~ok THEN GiveUpCopy(u) /\ UNCHANGED <<rows, used>>
           ELSE /\ \E n \in Projects :
                     /\ Fresh(n)
                     /\ rows' = [rows EXCEPT ![n] =
                                   NewRow(r.owner, "draft", r.seen.weld, r.deps, refs)]
                     /\ used' = used \cup {n}
                /\ Done(u)
    /\ UNCHANGED replicas

\* The way out: DeleteAsset on each copy made, whatever it answers.
UndoCopy(u) ==
    /\ req[u] # None /\ req[u].op = "undo"
    /\ IF req[u].made = {} THEN Done(u)
       ELSE \E n \in req[u].made :
              Goes(u, IF Exists(n) /\ ~Referenced(n)
                      THEN [op |-> "delete", id |-> n, rest |-> req[u].made \ {n}]
                      ELSE [op |-> "undo", made |-> req[u].made \ {n}])
    /\ UNCHANGED <<rows, used, replicas>>

-----------------------------------------------------------------------------
(* What the WAN delivers and takes back (AcceptPlatformDelivery, RetractReplicas). *)

InsertReplica ==
    \E r \in Replica :
      /\ r.status = "available"
      /\ r.rev <= MaxSent /\ r.rev = 1 + Cardinality({s \in replicas : s.id = r.id})
      /\ replicas' = replicas \cup {r}
      /\ UNCHANGED <<rows, used, req, calls>>

RetractReplicas ==
    \E p \in Platform :
      /\ Latest(p) # {}
      /\ replicas' = {IF r.id = p THEN [r EXCEPT !.status = "disabled"] ELSE r : r \in replicas}
      /\ UNCHANGED <<rows, used, req, calls>>

FactoryCall(u) ==
    \/ CreateAsset(u) \/ CreatePadIn(u) \/ CopyProcess(u) \/ PromoteToFactory(u) \/ MutateAsset(u)
    \/ ApplyAppContent(u) \/ DeleteAsset(u) \/ CopyProject(u)

FactoryWrite(u) ==
    \/ UpdateGovernedAsset(u) \/ InsertGovernedAsset(u) \/ DeleteGovernedAsset(u)
    \/ ApplyAppOnce(u) \/ CopyDep(u) \/ InsertProjectCopy(u) \/ UndoCopy(u)

FactoryNext ==
    \/ \E u \in Users : calls < MaxCalls /\ calls' = calls + 1 /\ FactoryCall(u)
    \/ \E u \in Users : FactoryWrite(u) /\ UNCHANGED calls
    \/ InsertReplica \/ RetractReplicas

FactorySpec == FactoryInit /\ [][FactoryNext]_factoryVars

-----------------------------------------------------------------------------
(* Properties. *)

\* A project and the processes of the factory it pins are of one weld kind, however the
\* binding of a process crosses a change of either's kind (store/asset.go:490); of
\* identities a pad may choose again after a deletion this cannot be said, neither of the
\* process nor of the project.
WeldsAgree(i) ==
    Exists(i) =>
      \A p \in Pinned(rows[i].deps) \ PadIds : Exists(p) => rows[p].weld = rows[i].weld

FactoryWeldsAgree == \A i \in Ids \ PadIds : WeldsAgree(i)

\* The same of every project: one a pad brings again under the identity it was deleted
\* with is at revision 1 again, and a change of kind worked out from the deleted row
\* goes through.
FactoryWeldsAnyProject == \A i \in Ids : WeldsAgree(i)

\* A person's project rests on nobody else's processes, unless a super administrator's.
OwnProcessesOnly ==
    \A i \in Projects : Exists(i) /\ rows[i].owner # None =>
      \A p \in Pinned(rows[i].deps) : Exists(p) =>
        rows[p].owner \in {None, rows[i].owner} \cup Supers

\* The same with no exception, as docs/specs state it.
OwnProcessesStrictly ==
    \A i \in Projects : Exists(i) /\ rows[i].owner # None =>
      \A p \in Pinned(rows[i].deps) : Exists(p) => rows[p].owner \in {None, rows[i].owner}

\* Content that can be read refers only to processes the project pins, each at one
\* revision, also after a copy or a change of kind worked out from an older row; and but
\* for identities a pad may choose again, all content can be read.
FactoryRefsPinned ==
    \A i \in Ids : Exists(i) =>
      /\ Intact(rows[i]) => rows[i].refs \subseteq Pinned(rows[i].deps)
      /\ i \notin PadIds => Intact(rows[i])
      /\ \A d, e \in rows[i].deps : d[1] = e[1] => d = e

\* The same of every row: a change of name or status worked out from a deleted row leaves
\* the digest of that one's content on the row a pad has brought since.
AllIntact == \A i \in Ids : Exists(i) => Intact(rows[i])

\* A project is not left with a process that is gone (service/asset.go:1370).
FactoryDepsExist ==
    \A i \in Ids : Exists(i) => \A p \in Pinned(rows[i].deps) \cap Processes : Exists(p)

FactoryInv == FactoryTypeOK /\ FactoryWeldsAgree /\ FactoryRefsPinned

\* A write replaces exactly the row it was worked out from, a pad's write included; of
\* identities that may have been given again this cannot be said.
FactoryNothingLost ==
    [][\A i \in Ids \ PadIds :
         Exists(i) /\ rows'[i] # Absent /\ rows'[i] # rows[i] =>
           \E u \in Users : /\ req[u] # None /\ req[u].op = "update"
                            /\ req[u].id = i /\ req[u].seen = rows[i]]_factoryVars

\* The content of a disabled asset stays as it is (store/asset.go:28).
DisabledFrozen ==
    [][\A i \in Ids :
         Exists(i) /\ rows'[i] # Absent /\ rows[i].status = "disabled"
           => rows'[i].refs = rows[i].refs]_factoryVars

=============================================================================
