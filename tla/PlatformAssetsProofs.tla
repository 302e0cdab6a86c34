------------------------ MODULE PlatformAssetsProofs ------------------------
(***************************************************************************)
(* PlatformInv is inductive, for any sets of assets, weld kinds, sources   *)
(* and concurrent callers.  A step keeps the rows, adds one, removes one   *)
(* or replaces one; each of the four shapes keeps the library consistent   *)
(* and what other callers rest on, and each action has one of the shapes.  *)
(***************************************************************************)
EXTENDS PlatformAssets, TLAPS

\* What PlatformInv says of the rows alone.
Library == DepsExist /\ WeldKindsAgree /\ RefsArePinned /\ SourcesUnique /\ RetractedGone

RowsKept == rows' = rows /\ retracted' = retracted

RowAdded(i, row) ==
    /\ i \in Ids /\ ~Exists(i) /\ i \notin retracted
    /\ row \in Row /\ row.refs \subseteq Pinned(row.deps)
    /\ LockAssetDeps(row.weld, row.deps, {})
    /\ ~SourceTaken(row.src)
    /\ rows' = [rows EXCEPT ![i] = row] /\ retracted' = retracted

RowRemoved(i) ==
    /\ i \in Ids /\ Exists(i) /\ ~Referenced(i)
    /\ rows' = [rows EXCEPT ![i] = Absent] /\ retracted' = retracted \cup {i}

RowChanged(i, row) ==
    /\ i \in Ids /\ Exists(i)
    /\ row \in Row /\ row.src = rows[i].src /\ row.rev = rows[i].rev + 1
    /\ row.refs \subseteq Pinned(row.deps)
    /\ GuardProcessWeldKind(i, row.weld)
    /\ LockAssetDeps(row.weld, row.deps, rows[i].deps)
    /\ rows[i].src = None /\ row.weld # rows[i].weld =>
         Pinned(row.deps) \cap Pinned(rows[i].deps) = {}
    /\ rows' = [rows EXCEPT ![i] = row] /\ retracted' = retracted

Shaped ==
    \/ RowsKept
    \/ \E i \in Ids : RowRemoved(i)
    \/ \E i \in Ids, row \in Row : RowAdded(i, row) \/ RowChanged(i, row)

-----------------------------------------------------------------------------

\* Dependencies are dependencies on processes.
LEMMA PinnedProcesses ==
  ASSUME NEW deps \in SUBSET Pins PROVE Pinned(deps) \subseteq Processes
BY DEF Pinned, Pins

\* What a row that exists consists of.
LEMMA RowTyped ==
  ASSUME PlatformTypeOK, NEW i \in Ids, Exists(i) PROVE rows[i] \in Row
BY DEF PlatformTypeOK, Exists

\* Adding a row keeps the library consistent.
LEMMA AddKeepsLibrary ==
  ASSUME PlatformTypeOK, Library, NEW i \in Ids, NEW row \in Row, RowAdded(i, row)
  PROVE  Library'
<1>1. \A j \in Ids : Exists(j)' => (j # i => Exists(j) /\ rows'[j] = rows[j])
  BY DEF RowAdded, PlatformTypeOK, Exists
<1>2. \A j \in Ids : Exists(j) => rows'[j] = rows[j] /\ Exists(j)'
  BY DEF RowAdded, PlatformTypeOK, Exists
<1>3. rows'[i] = row
  BY DEF RowAdded, PlatformTypeOK
<1>4. \A p \in Pinned(row.deps) : Exists(p) /\ rows[p].weld = row.weld
  BY DEF RowAdded, LockAssetDeps, Pinned
<1>5. Pinned(row.deps) \subseteq Processes
  BY PinnedProcesses DEF Row
<1>6. \A j \in Ids : Exists(j) => Pinned(rows[j].deps) \subseteq Processes
  BY PinnedProcesses, RowTyped DEF Row
<1>7. DepsExist'
  BY <1>1, <1>2, <1>3, <1>4, <1>5, <1>6 DEF Library, DepsExist, Pinned, Ids
<1>8. WeldKindsAgree'
  <2> SUFFICES ASSUME NEW j \in Ids, Exists(j)', rows'[j].src = None,
                      NEW p \in Pinned(rows'[j].deps), Exists(p)'
               PROVE  rows'[p].weld = rows'[j].weld
    BY DEF WeldKindsAgree, WeldsAgree, Pinned
  <2>1. CASE j = i
    BY <2>1, <1>2, <1>3, <1>4, <1>5 DEF Ids
  <2>2. CASE j # i
    BY <2>2, <1>1, <1>2, <1>6 DEF Library, DepsExist, WeldKindsAgree, WeldsAgree, Ids
  <2> QED
    BY <2>1, <2>2
<1>9. RefsArePinned'
  BY <1>1, <1>3 DEF Library, RefsArePinned, RowAdded, Pinned
<1>10. SourcesUnique'
  BY <1>1, <1>3 DEF Library, SourcesUnique, RowAdded, SourceTaken
<1>11. RetractedGone'
  BY <1>1 DEF Library, RetractedGone, RowAdded, PlatformTypeOK
<1> QED
  BY <1>7, <1>8, <1>9, <1>10, <1>11 DEF Library

\* Removing a row nothing depends on keeps the library consistent.
LEMMA RemoveKeepsLibrary ==
  ASSUME PlatformTypeOK, Library, NEW i \in Ids, RowRemoved(i)
  PROVE  Library'
<1>1. rows'[i] = Absent /\ ~Exists(i)'
  BY DEF RowRemoved, PlatformTypeOK, Exists
<1>2. \A j \in Ids : j # i => rows'[j] = rows[j] /\ (Exists(j)' <=> Exists(j))
  BY DEF RowRemoved, PlatformTypeOK, Exists
<1>3. \A j \in Ids : Exists(j) => i \notin Pinned(rows[j].deps)
  BY DEF RowRemoved, Referenced
<1>4. \A j \in Ids : Exists(j) => Pinned(rows[j].deps) \subseteq Ids
  BY PinnedProcesses, RowTyped DEF Row, Ids
<1>5. DepsExist'
  BY <1>1, <1>2, <1>3, <1>4 DEF Library, DepsExist, Pinned
<1>6. WeldKindsAgree'
  <2> SUFFICES ASSUME NEW j \in Ids, Exists(j)', rows'[j].src = None,
                      NEW p \in Pinned(rows'[j].deps), Exists(p)'
               PROVE  rows'[p].weld = rows'[j].weld
    BY DEF WeldKindsAgree, WeldsAgree, Pinned
  <2> QED
    BY <1>1, <1>2, <1>3, <1>4 DEF Library, DepsExist, WeldKindsAgree, WeldsAgree
<1>7. RefsArePinned'
  BY <1>1, <1>2 DEF Library, RefsArePinned, Pinned
<1>8. SourcesUnique'
  BY <1>1, <1>2 DEF Library, SourcesUnique
<1>9. RetractedGone'
  BY <1>1, <1>2 DEF Library, RetractedGone, RowRemoved, PlatformTypeOK
<1> QED
  BY <1>5, <1>6, <1>7, <1>8, <1>9 DEF Library

\* Replacing a row keeps the library consistent: new dependencies were looked at under
\* their locks, kept ones fit, and a process in use keeps its weld kind.
LEMMA ChangeKeepsLibrary ==
  ASSUME PlatformTypeOK, Library, NEW i \in Ids, NEW row \in Row, RowChanged(i, row)
  PROVE  Library'
<1>1. rows'[i] = row /\ Exists(i)
  BY DEF RowChanged, PlatformTypeOK
<1>2. \A j \in Ids : j # i => rows'[j] = rows[j] /\ (Exists(j)' <=> Exists(j))
  BY DEF RowChanged, PlatformTypeOK, Exists
<1>3. Pinned(row.deps) \subseteq Processes
  BY PinnedProcesses DEF Row
<1>4. \A j \in Ids : Exists(j) => Pinned(rows[j].deps) \subseteq Processes
  BY PinnedProcesses, RowTyped DEF Row
<1>5. \A p \in Pinned(row.deps) :
        p \notin Pinned(rows[i].deps) => Exists(p) /\ rows[p].weld = row.weld
  BY DEF RowChanged, LockAssetDeps, Pinned
<1>6. \A p \in Pinned(row.deps) : Exists(p)
  BY <1>1, <1>5 DEF Library, DepsExist
<1>7. rows'[i] # Absent /\ Exists(i)'
  BY <1>1, PlatformConstants DEF Exists
<1>8. DepsExist'
  BY <1>1, <1>2, <1>3, <1>4, <1>6, <1>7 DEF Library, DepsExist, Pinned, Ids
<1>9. WeldKindsAgree'
  <2> SUFFICES ASSUME NEW j \in Ids, Exists(j)', rows'[j].src = None,
                      NEW p \in Pinned(rows'[j].deps)
               PROVE  rows'[p].weld = rows'[j].weld
    BY DEF WeldKindsAgree, WeldsAgree, Pinned
  <2>1. \A q \in Ids : Exists(q) /\ i \in Processes /\ i \in Pinned(rows[q].deps)
          => row.weld = rows[i].weld
    BY DEF RowChanged, GuardProcessWeldKind, Referenced
  <2>2. CASE j = i
    <3>1. rows[i].src = None
      BY <2>2, <1>1 DEF RowChanged
    <3>2. p \in Processes /\ p \in Ids /\ Exists(p)
      BY <2>2, <1>1, <1>3, <1>6 DEF Ids
    <3>3. CASE p \notin Pinned(rows[i].deps)
      <4>1. Exists(p) /\ rows[p].weld = row.weld
        BY <3>3, <2>2, <1>1, <1>5
      <4>2. CASE p = i
        BY <4>1, <4>2, <2>2, <1>1
      <4>3. CASE p # i
        BY <4>1, <4>3, <2>2, <1>1, <1>2, <3>2
      <4> QED
        BY <4>2, <4>3
    <3>4. CASE p \in Pinned(rows[i].deps)
      <4>1. row.weld = rows[i].weld
        BY <3>1, <3>4, <2>2, <1>1 DEF RowChanged
      <4>2. rows[p].weld = rows[i].weld
        BY <3>1, <3>2, <3>4, <1>1 DEF Library, WeldKindsAgree, WeldsAgree
      <4> QED
        BY <4>1, <4>2, <3>2, <2>2, <1>1, <1>2
    <3> QED
      BY <3>3, <3>4
  <2>3. CASE j # i
    <3>1. Exists(j) /\ rows'[j] = rows[j] /\ p \in Pinned(rows[j].deps)
      BY <2>3, <1>2
    <3>2. Exists(p) /\ p \in Processes /\ p \in Ids /\ rows[p].weld = rows[j].weld
      BY <3>1, <1>4 DEF Library, DepsExist, WeldKindsAgree, WeldsAgree, Ids
    <3> QED
      BY <3>1, <3>2, <2>1, <1>1, <1>2
  <2> QED
    BY <2>2, <2>3
<1>10. RefsArePinned'
  BY <1>1, <1>2 DEF Library, RefsArePinned, RowChanged, Pinned
<1>11. SourcesUnique'
  BY <1>1, <1>2 DEF Library, SourcesUnique, RowChanged
<1>12. RetractedGone'
  BY <1>1, <1>2 DEF Library, RetractedGone, RowChanged, PlatformTypeOK
<1> QED
  BY <1>8, <1>9, <1>10, <1>11, <1>12 DEF Library

\* Whatever the shape of a step, the library stays consistent.
LEMMA ShapesKeepLibrary ==
  ASSUME PlatformTypeOK, Library, Shaped PROVE Library'
<1>1. CASE RowsKept
  BY <1>1 DEF RowsKept, Library, DepsExist, WeldKindsAgree, WeldsAgree, RefsArePinned,
     SourcesUnique, RetractedGone, Exists, Pinned
<1> QED
  BY <1>1, AddKeepsLibrary, RemoveKeepsLibrary, ChangeKeepsLibrary DEF Shaped

\* A request that nobody touches still rests on firm ground after a step of any shape; an
\* insertion only if the step did not use its identity.
LEMMA UpdateStillFits ==
  ASSUME PlatformTypeOK, Shaped, NEW r \in UpdateRequests, UpdateFits(r)
  PROVE  UpdateFits(r)'
<1> DEFINE i == r.id
<1>1. i \in Ids /\ r.seen \in Row
  BY DEF UpdateRequests
<1>2. CASE RowsKept
  BY <1>2 DEF RowsKept, UpdateFits, Exists, Pinned
<1>3. ASSUME NEW j \in Ids, RowRemoved(j) PROVE UpdateFits(r)'
  BY <1>3, <1>1 DEF RowRemoved, UpdateFits, Exists, Pinned, PlatformTypeOK
<1>4. ASSUME NEW j \in Ids, NEW row \in Row, RowAdded(j, row) PROVE UpdateFits(r)'
  BY <1>4, <1>1 DEF RowAdded, UpdateFits, Exists, Pinned, PlatformTypeOK
<1>5. ASSUME NEW j \in Ids, NEW row \in Row, RowChanged(j, row) PROVE UpdateFits(r)'
  <2>1. CASE i # j
    BY <1>5, <1>1, <2>1 DEF RowChanged, UpdateFits, Exists, Pinned, PlatformTypeOK
  <2>2. CASE i = j
    <3>1. rows'[i] = row /\ row # Absent /\ Exists(i)
      BY <1>5, <1>1, <2>2, PlatformConstants DEF RowChanged, PlatformTypeOK
    <3>2. rows[i] \in Row /\ rows[i].rev \in Nat /\ r.seen.rev \in Nat
      BY <3>1, <1>1, RowTyped DEF Row
    <3>3. r.seen.rev <= rows[i].rev /\ row.rev = rows[i].rev + 1
      BY <1>5, <2>2, <3>1 DEF RowChanged, UpdateFits
    <3>4. r.seen.rev < row.rev
      BY <3>2, <3>3
    <3>5. Exists(r.id)' /\ r.seen.rev <= rows'[r.id].rev /\ r.seen.rev # rows'[r.id].rev
      BY <3>1, <3>2, <3>4, <1>1, RowTyped DEF Exists, Row
    <3> QED
      BY <3>5 DEF UpdateFits, Pinned
  <2> QED
    BY <2>1, <2>2
<1> QED
  BY <1>2, <1>3, <1>4, <1>5 DEF Shaped

-----------------------------------------------------------------------------

\* A step of some shape by caller a, whose request becomes x, keeps the invariant when x
\* fits and the step gives out no identity that another caller is about to use.
LEMMA StepKeepsInv ==
  ASSUME PlatformInv, Shaped, calls' \in Nat,
         NEW a \in Admins, NEW x \in Request \cup {None}, req' = [req EXCEPT ![a] = x],
         x # None /\ x.op = "update" => UpdateFits(x)',
         x # None /\ x.op = "insert" =>
           /\ InsertFits(x)'
           /\ \A b \in Admins \ {a} :
                req[b] # None /\ req[b].op = "insert" => req[b].id # x.id,
         \A b \in Admins \ {a} :
           req[b] # None /\ req[b].op = "insert" => ~Exists(req[b].id)'
  PROVE  PlatformInv'
<1> USE DEF PlatformInv
<1>1. Library'
  BY ShapesKeepLibrary DEF Library
<1>2. PlatformTypeOK'
  <2>1. rows' \in [Ids -> Row \cup {Absent}] /\ retracted' \subseteq Ids
    BY DEF Shaped, RowsKept, RowRemoved, RowAdded, RowChanged, PlatformTypeOK
  <2>2. req' \in [Admins -> Request \cup {None}]
    BY DEF PlatformTypeOK
  <2> QED
    BY <2>1, <2>2 DEF PlatformTypeOK
<1>3. ASSUME NEW b \in Admins \ {a}, req[b] # None, req[b].op = "update"
      PROVE  UpdateFits(req[b])'
  <2>1. req[b] \in UpdateRequests
    BY <1>3 DEF PlatformTypeOK, Request, InsertRequests, DeleteRequests, CopyRequests,
       UndoRequests
  <2>2. UpdateFits(req[b])
    BY <1>3 DEF RequestsFit
  <2>3. req'[b] = req[b]
    BY DEF PlatformTypeOK
  <2>4. ASSUME NEW r \in UpdateRequests, UpdateFits(r) PROVE UpdateFits(r)'
    BY <2>4, UpdateStillFits
  <2> QED
    BY <2>1, <2>2, <2>4
<1>4. ASSUME NEW b \in Admins \ {a}, req[b] # None, req[b].op = "insert"
      PROVE  InsertFits(req[b])'
  <2>1. ~Exists(req[b].id) /\ req[b].id \notin retracted
        /\ req[b].row.refs \subseteq Pinned(req[b].row.deps)
    BY <1>4 DEF RequestsFit, InsertFits
  <2>2. req[b].id \notin retracted'
    BY <2>1 DEF Shaped, RowsKept, RowRemoved, RowAdded, RowChanged
  <2>3. req'[b] = req[b]
    BY DEF PlatformTypeOK
  <2> QED
    BY <1>4, <2>1, <2>2, <2>3 DEF InsertFits, Pinned
<1>5. RequestsFit'
  BY <1>3, <1>4 DEF RequestsFit, PlatformTypeOK
<1> QED
  BY <1>1, <1>2, <1>5 DEF Library
-----------------------------------------------------------------------------
(* The calls: each begins with a request that fits.                          *)

\* Beginning a call leaves the rows alone.
LEMMA BeginKeepsInv ==
  ASSUME PlatformInv, calls' \in Nat, NEW a \in Admins, NEW x \in Request, Begin(a, x),
         x.op = "update" => UpdateFits(x),
         x.op = "insert" => InsertFits(x) /\ Fresh(x.id)
  PROVE  PlatformInv'
<1>1. RowsKept /\ Shaped
  BY DEF Begin, RowsKept, Shaped
<1>2. x.op = "update" => UpdateFits(x)'
  BY <1>1 DEF RowsKept, UpdateFits, Exists, Pinned
<1>3. x.op = "insert" => InsertFits(x)'
  BY <1>1 DEF RowsKept, InsertFits, Exists, Pinned
<1>4. \A b \in Admins \ {a} :
        req[b] # None /\ req[b].op = "insert" => ~Exists(req[b].id)
  BY DEF PlatformInv, RequestsFit, InsertFits
<1>5. \A b \in Admins \ {a} :
        req[b] # None /\ req[b].op = "insert" => ~Exists(req[b].id)'
  BY <1>1, <1>4 DEF RowsKept, Exists, Begin
<1>6. req' = [req EXCEPT ![a] = x]
  BY DEF Begin
<1> QED
  BY <1>1, <1>2, <1>3, <1>5, <1>6, StepKeepsInv DEF Fresh

\* A new row is a row.
LEMMA NewRowTyped ==
  ASSUME NEW weld \in Welds, NEW copyable \in BOOLEAN, NEW deps \in SUBSET Pins,
         NEW refs \in SUBSET Processes, NEW src \in Sources \cup {None}
  PROVE  NewRow(weld, copyable, deps, refs, src) \in Row
BY PlatformConstants DEF NewRow, Row, Statuses

\* Processes that exist are pinned at a revision they may have.
LEMMA ResolvedDeps ==
  ASSUME PlatformTypeOK, NEW ps \in SUBSET Processes, \A p \in ps : Exists(p)
  PROVE  ResolveDeps(ps) \in SUBSET Pins /\ Pinned(ResolveDeps(ps)) = ps
<1>1. \A p \in ps : Pin(p) \in Pins /\ Pin(p)[1] = p
  BY RowTyped DEF Pin, Pins, Row, Ids
<1> QED
  BY <1>1 DEF ResolveDeps, Pinned

\* Every write a call may make of the row it has read fits that row.
LEMMA PatchFits ==
  ASSUME PlatformInv, NEW i \in Ids, Exists(i), NEW w \in Patches(i, rows[i])
  PROVE  /\ w \in Write
         /\ w.refs \subseteq Pinned(w.deps)
         /\ rows[i].src = None /\ w.weld # None /\ w.weld # rows[i].weld =>
              Pinned(w.deps) \cap Pinned(rows[i].deps) = {}
<1> DEFINE cur == rows[i]
<1>1. cur \in Row /\ cur.refs \subseteq Pinned(cur.deps)
  BY RowTyped DEF PlatformInv, RefsArePinned
<1>2. Unchanged(cur) \in Write /\ Unchanged(cur).weld = None
      /\ Unchanged(cur).refs = cur.refs /\ Unchanged(cur).deps = cur.deps
  BY <1>1 DEF Unchanged, Write, Row
<1>3. CASE w \in RenamePlatformAsset(cur) \cup PublishPlatformAsset(cur)
                 \cup DisablePlatformAsset(cur) \cup ReenablePlatformAsset(cur)
                 \cup SetPlatformCopyable(i, cur)
  <2>1. PICK status \in Statuses, copyable \in BOOLEAN :
          w = [status |-> status, weld |-> None, copyable |-> copyable,
               deps |-> cur.deps, refs |-> cur.refs]
    <3>1. cur.status \in Statuses /\ cur.copyable \in BOOLEAN /\ (~cur.copyable) \in BOOLEAN
      <4>1. cur.status \in Statuses /\ cur.copyable \in BOOLEAN
        BY <1>1 DEF Row
      <4> QED
        BY <4>1, Zenon
    <3>2. CASE w \in RenamePlatformAsset(cur)
      BY <3>1, <3>2 DEF RenamePlatformAsset, Unchanged
    <3>3. CASE w \in PublishPlatformAsset(cur) \cup ReenablePlatformAsset(cur)
      BY <3>1, <3>3 DEF PublishPlatformAsset, ReenablePlatformAsset, Unchanged, Statuses
    <3>4. CASE w \in DisablePlatformAsset(cur)
      BY <3>1, <3>4 DEF DisablePlatformAsset, Unchanged, Statuses
    <3>5. CASE w \in SetPlatformCopyable(i, cur)
      <4>1. w = [Unchanged(cur) EXCEPT !.copyable = ~cur.copyable]
        BY <3>5 DEF SetPlatformCopyable
      <4>2. w = [status |-> cur.status, weld |-> None, copyable |-> ~cur.copyable,
                 deps |-> cur.deps, refs |-> cur.refs]
        BY <4>1 DEF Unchanged
      <4> QED
        BY <3>1, <4>2
    <3> QED
      BY <1>3, <3>2, <3>3, <3>4, <3>5
  <2>2. w \in Write /\ w.weld = None /\ w.refs = cur.refs /\ w.deps = cur.deps
    BY <1>1, <2>1 DEF Write, Row
  <2> QED
    BY <2>2, <1>1
<1>4. CASE w \in UpdatePlatformAssetContent(i, cur)
  <2>1. Pinned(cur.deps) \subseteq Processes
    BY <1>1, PinnedProcesses DEF Row
  <2>2. w \in Write /\ w.weld = None /\ w.refs \subseteq Pinned(cur.deps) /\ w.deps = cur.deps
    BY <1>1, <1>2, <1>4, <2>1 DEF UpdatePlatformAssetContent, Unchanged, Write
  <2> QED
    BY <2>2
<1>5. CASE w \in SetPlatformWeldKind(i, cur)
  <2>1. PICK weld \in Welds :
          w = LET kept == DepsOfWeld(weld, cur.deps)
                  wipe == ~(cur.refs \subseteq Pinned(kept))
              IN  [Unchanged(cur) EXCEPT !.weld = weld, !.deps = kept,
                                         !.refs = IF wipe THEN {} ELSE cur.refs]
    BY <1>5 DEF SetPlatformWeldKind
  <2>2. w.weld = weld /\ w.deps = DepsOfWeld(weld, cur.deps)
        /\ w.refs = (IF cur.refs \subseteq Pinned(w.deps) THEN cur.refs ELSE {})
    BY <2>1 DEF Unchanged
  <2>3. w.deps \subseteq cur.deps /\ w.deps \in SUBSET Pins
    BY <2>2, <1>1 DEF DepsOfWeld, Row
  <2>4. w \in Write
    <3>1. w = [status |-> cur.status, weld |-> w.weld, copyable |-> cur.copyable,
               deps |-> w.deps, refs |-> w.refs]
      BY <2>1, <2>2 DEF Unchanged
    <3>2. w.refs \in SUBSET Processes
      BY <2>2, <1>1 DEF Row
    <3> QED
      BY <3>1, <3>2, <2>2, <2>3, <1>1 DEF Write, Row
  <2>5. \A p \in Pinned(w.deps) : rows[p].weld = weld /\ p \in Processes
    BY <2>2, <2>3, PinnedProcesses DEF DepsOfWeld, Pinned
  <2>6. cur.src = None => \A p \in Pinned(cur.deps) : Exists(p) /\ rows[p].weld = cur.weld
    BY DEF PlatformInv, WeldKindsAgree, WeldsAgree, DepsExist
  <2>7. cur.src = None /\ weld # cur.weld => Pinned(w.deps) \cap Pinned(cur.deps) = {}
    BY <2>5, <2>6
  <2>8. w.refs \subseteq Pinned(w.deps)
    BY <2>2
  <2> QED
    BY <2>2, <2>4, <2>7, <2>8
<1>6. CASE w \in SetPlatformProjectDeps(i, cur)
  <2>1. PICK ps \in SUBSET Processes :
          /\ \A p \in ps : Pinnable(p)
          /\ cur.refs \subseteq ps
          /\ w = [Unchanged(cur) EXCEPT !.deps = ResolveDeps(ps)]
    BY <1>6 DEF SetPlatformProjectDeps
  <2>2. ResolveDeps(ps) \in SUBSET Pins /\ Pinned(ResolveDeps(ps)) = ps
    BY <2>1, ResolvedDeps DEF Pinnable, PlatformInv
  <2>3. w.weld = None /\ w.deps = ResolveDeps(ps) /\ w.refs = cur.refs /\ w \in Write
    BY <2>1, <2>2, <1>1, <1>2 DEF Unchanged, Write
  <2> QED
    BY <2>1, <2>2, <2>3
<1> QED
  BY <1>3, <1>4, <1>5, <1>6 DEF Patches
\* Every call begins with a decision that fits the row it has read.
LEMMA CallsKeepInv ==
  ASSUME PlatformInv, calls' \in Nat, NEW a \in Admins, PlatformCall(a)
  PROVE  PlatformInv'
<1> USE DEF PlatformInv
<1>0. ASSUME NEW i \in Ids, Fresh(i), NEW row \in Row, row.refs \subseteq Pinned(row.deps),
             Begin(a, [op |-> "insert", id |-> i, row |-> row])
      PROVE  PlatformInv'
  <2> DEFINE x == [op |-> "insert", id |-> i, row |-> row]
  <2>1. x \in Request
    BY DEF Request, InsertRequests
  <2>2. InsertFits(x)
    BY <1>0 DEF InsertFits, Fresh
  <2> QED
    BY <1>0, <2>1, <2>2, BeginKeepsInv
<1>1. CASE CreatePlatformProcess(a)
  <2>1. PICK p \in Processes, weld \in Welds, copyable \in BOOLEAN :
          /\ Fresh(p)
          /\ Begin(a, [op |-> "insert", id |-> p,
                       row |-> NewRow(weld, copyable, {}, {}, None)])
    BY <1>1 DEF CreatePlatformProcess
  <2>2. NewRow(weld, copyable, {}, {}, None) \in Row
    BY NewRowTyped
  <2>3. NewRow(weld, copyable, {}, {}, None).refs = {}
    BY DEF NewRow
  <2>4. p \in Ids
    BY DEF Ids
  <2> QED
    BY <2>1, <2>2, <2>3, <2>4, <1>0
<1>2. CASE CreatePlatformProject(a)
  <2> PICK q \in Projects, weld \in Welds, ps \in SUBSET Processes :
        \E refs \in SUBSET ps :
          /\ Fresh(q)
          /\ \A p \in ps : Pinnable(p)
          /\ Begin(a, [op |-> "insert", id |-> q,
                       row |-> NewRow(weld, TRUE, ResolveDeps(ps), refs, None)])
    BY <1>2 DEF CreatePlatformProject
  <2>1. PICK refs \in SUBSET ps :
          /\ Fresh(q)
          /\ \A p \in ps : Pinnable(p)
          /\ Begin(a, [op |-> "insert", id |-> q,
                       row |-> NewRow(weld, TRUE, ResolveDeps(ps), refs, None)])
    OBVIOUS
  <2>2. ResolveDeps(ps) \in SUBSET Pins /\ Pinned(ResolveDeps(ps)) = ps
    BY <2>1, ResolvedDeps DEF Pinnable
  <2> DEFINE row == NewRow(weld, TRUE, ResolveDeps(ps), refs, None)
  <2>3. row \in Row
    BY <2>2, NewRowTyped
  <2>4. row.refs \subseteq Pinned(row.deps)
    BY <2>2 DEF NewRow
  <2>5. q \in Ids
    BY DEF Ids
  <2> HIDE DEF row
  <2> QED
    BY <2>1, <2>3, <2>4, <2>5, <1>0 DEF row
<1>3. CASE MutatePlatform(a)
  <2>1. PICK i \in Ids : /\ Exists(i)
                        /\ \E e \in 1..rows[i].rev, w \in Patches(i, rows[i]) :
                             Begin(a, [op |-> "update", id |-> i, expected |-> e,
                                       seen |-> rows[i], write |-> w])
    BY <1>3 DEF MutatePlatform
  <2>2. PICK e \in 1..rows[i].rev, w \in Patches(i, rows[i]) :
          Begin(a, [op |-> "update", id |-> i, expected |-> e, seen |-> rows[i], write |-> w])
    BY <2>1
  <2> DEFINE x == [op |-> "update", id |-> i, expected |-> e, seen |-> rows[i], write |-> w]
  <2>3. rows[i] \in Row /\ rows[i].rev \in 1..MaxRev /\ e \in 1..MaxRev /\ e <= rows[i].rev
    BY <2>1, RowTyped, PlatformConstants DEF Row
  <2>4. w \in Write /\ w.refs \subseteq Pinned(w.deps)
        /\ (rows[i].src = None /\ w.weld # None /\ w.weld # rows[i].weld =>
              Pinned(w.deps) \cap Pinned(rows[i].deps) = {})
    BY <2>1, PatchFits
  <2>5. x \in Request
    BY <2>3, <2>4 DEF Request, UpdateRequests
  <2>6. UpdateFits(x)
    BY <2>1, <2>3, <2>4 DEF UpdateFits
  <2> QED
    BY <2>2, <2>5, <2>6, BeginKeepsInv
<1>4. CASE DeletePlatformAsset(a)
  <2>1. PICK i \in Ids : Begin(a, [op |-> "delete", id |-> i])
    BY <1>4 DEF DeletePlatformAsset
  <2>2. [op |-> "delete", id |-> i] \in Request
    BY DEF Request, DeleteRequests
  <2> QED
    BY <2>1, <2>2, BeginKeepsInv
<1>5. CASE PromoteSnapshot(a)
  <2> PICK src \in Sources, weld \in Welds :
        \E i \in (IF src \in ProjectSources THEN Projects ELSE Processes),
           ps \in (IF src \in ProjectSources THEN SUBSET Processes ELSE {{}}) :
          \E refs \in SUBSET ps :
            /\ Fresh(i)
            /\ \A p \in ps : Pinnable(p)
            /\ Begin(a, [op |-> "insert", id |-> i,
                         row |-> NewRow(weld, i \in Projects, ResolveDeps(ps), refs, src)])
    BY <1>5 DEF PromoteSnapshot
  <2> PICK i \in (IF src \in ProjectSources THEN Projects ELSE Processes),
           ps \in (IF src \in ProjectSources THEN SUBSET Processes ELSE {{}}) :
        \E refs \in SUBSET ps :
          /\ Fresh(i)
          /\ \A p \in ps : Pinnable(p)
          /\ Begin(a, [op |-> "insert", id |-> i,
                       row |-> NewRow(weld, i \in Projects, ResolveDeps(ps), refs, src)])
    OBVIOUS
  <2>1. PICK refs \in SUBSET ps :
          /\ Fresh(i)
          /\ \A p \in ps : Pinnable(p)
          /\ Begin(a, [op |-> "insert", id |-> i,
                       row |-> NewRow(weld, i \in Projects, ResolveDeps(ps), refs, src)])
    OBVIOUS
  <2>2. i \in Ids /\ ps \in SUBSET Processes
    BY DEF Ids
  <2>3. ResolveDeps(ps) \in SUBSET Pins /\ Pinned(ResolveDeps(ps)) = ps
    BY <2>1, <2>2, ResolvedDeps DEF Pinnable
  <2> DEFINE row == NewRow(weld, i \in Projects, ResolveDeps(ps), refs, src)
  <2>4. row \in Row
    <3>1. (i \in Projects) \in BOOLEAN
      OBVIOUS
    <3> QED
      BY <2>2, <2>3, <3>1, NewRowTyped
  <2>5. row.refs \subseteq Pinned(row.deps)
    BY <2>3 DEF NewRow
  <2> HIDE DEF row
  <2> QED
    BY <2>1, <2>2, <2>4, <2>5, <1>0 DEF row
<1>6. CASE CopyPlatformProject(a)
  <2>1. PICK q \in Projects :
          /\ Exists(q)
          /\ Begin(a, [op |-> "copy", of |-> q, seen |-> rows[q], todo |-> rows[q].deps,
                       deps |-> {}, new |-> [p \in Processes |-> p], made |-> {}])
    BY <1>6 DEF CopyPlatformProject
  <2> DEFINE x == [op |-> "copy", of |-> q, seen |-> rows[q], todo |-> rows[q].deps,
                   deps |-> {}, new |-> [p \in Processes |-> p], made |-> {}]
  <2>2. rows[q] \in Row
    BY <2>1, RowTyped DEF Ids
  <2>3. x \in Request
    BY <2>2 DEF Request, CopyRequests, Row
  <2> QED
    BY <2>1, <2>3, BeginKeepsInv
<1> QED
  BY <1>1, <1>2, <1>3, <1>4, <1>5, <1>6 DEF PlatformCall
-----------------------------------------------------------------------------
(* The transactions.                                                         *)

\* A caller whose call is over, and no identity given out.
LEMMA DoneKeepsInv ==
  ASSUME PlatformInv, calls' \in Nat, NEW a \in Admins, Done(a), Shaped,
         \A b \in Admins \ {a} :
           req[b] # None /\ req[b].op = "insert" => ~Exists(req[b].id)'
  PROVE  PlatformInv'
<1>1. req' = [req EXCEPT ![a] = None] /\ None \in Request \cup {None}
  BY DEF Done
<1> QED
  BY <1>1, StepKeepsInv

\* Steps that add no row give out no identity.
LEMMA NothingGivenOut ==
  ASSUME PlatformInv,
         \/ RowsKept
         \/ \E i \in Ids : RowRemoved(i)
         \/ \E i \in Ids, row \in Row : RowChanged(i, row)
  PROVE  \A b \in Admins :
           req[b] # None /\ req[b].op = "insert" => ~(rows'[req[b].id] # Absent)
<1> SUFFICES ASSUME NEW b \in Admins, req[b] # None, req[b].op = "insert"
             PROVE  ~(rows'[req[b].id] # Absent)
  OBVIOUS
<1>1. ~Exists(req[b].id) /\ req[b].id \in Ids
  BY DEF PlatformInv, RequestsFit, InsertFits, PlatformTypeOK, Request, UpdateRequests,
     InsertRequests, DeleteRequests, CopyRequests, UndoRequests
<1> QED
  BY <1>1 DEF RowsKept, RowRemoved, RowChanged, Exists, PlatformInv, PlatformTypeOK

\* What UpdateAsset commits is a change of the row its caller had read.
LEMMA UpdateChanges ==
  ASSUME PlatformInv, NEW a \in Admins, UpdateAsset(a)
  PROVE  /\ RowsKept \/ \E i \in Ids, row \in Row : RowChanged(i, row)
         /\ rows' # rows => /\ req[a].seen = rows[req[a].id]
                           /\ \A j \in Ids : j # req[a].id => rows'[j] = rows[j]
<1> USE DEF PlatformInv
<1> DEFINE r == req[a]
           i == r.id
           w == r.write
           weld == IF w.weld = None THEN rows[i].weld ELSE w.weld
           row == [rows[i] EXCEPT !.status = w.status, !.weld = weld,
                                  !.copyable = w.copyable, !.deps = w.deps,
                                  !.refs = w.refs, !.rev = r.expected + 1]
           ok == /\ Exists(i) /\ r.expected < MaxRev
                 /\ RevisionMatches(r)
                 /\ GuardProcessWeldKind(i, weld)
                 /\ LockAssetDeps(weld, w.deps, rows[i].deps)
<1>1. r \in UpdateRequests /\ UpdateFits(r)
  BY DEF UpdateAsset, PlatformTypeOK, RequestsFit, Request, InsertRequests, DeleteRequests,
     CopyRequests, UndoRequests
<1>2. i \in Ids /\ w \in Write /\ r.expected \in 1..MaxRev /\ r.seen \in Row
  BY <1>1 DEF UpdateRequests
<1>3. CASE ~ok
  <2>1. RowsKept
    BY <1>3 DEF UpdateAsset, RowsKept
  <2> QED
    BY <2>1 DEF RowsKept
<1>4. CASE ok
  <2>1. rows' = [rows EXCEPT ![i] = row] /\ retracted' = retracted
    BY <1>4 DEF UpdateAsset
  <2>2. rows[i] \in Row /\ rows[i].rev = r.expected
    BY <1>2, <1>4, RowTyped DEF RevisionMatches
  <2>3. r.seen = rows[i]
    <3>1. UpdateFits(r) /\ r.id = i
      BY <1>1, <1>4
    <3>2. Exists(i)
      BY <2>2, <1>4
    <3> QED
      BY <1>2, <2>2, <3>1, <3>2, PlatformConstants DEF UpdateFits, Row
  <2>4. weld \in Welds /\ row.weld = weld /\ row.deps = w.deps /\ row.refs = w.refs
        /\ row.src = rows[i].src /\ row.rev = rows[i].rev + 1
    BY <1>2, <2>2 DEF Row, Write
  <2>5. row \in Row
    <3>1. /\ w.status \in Statuses /\ w.copyable \in BOOLEAN
          /\ w.deps \in SUBSET Pins /\ w.refs \in SUBSET Processes
      BY <1>2 DEF Write
    <3>2. r.expected + 1 \in 1..MaxRev
      BY <1>2, <1>4, PlatformConstants
    <3> HIDE DEF weld, w, r
    <3> QED
      BY <2>2, <2>4, <3>1, <3>2 DEF Row
  <2>6. rows[i].src = None /\ weld # rows[i].weld =>
          Pinned(w.deps) \cap Pinned(rows[i].deps) = {}
    BY <1>1, <2>3 DEF UpdateFits
  <2>7. w.refs \subseteq Pinned(w.deps)
    BY <1>1 DEF UpdateFits
  <2>8. ok /\ row \in Row /\ row.weld = weld /\ row.deps = w.deps
    BY <1>4, <2>4, <2>5
  <2> HIDE DEF row, weld
  <2>9. RowChanged(i, row)
    BY <1>2, <2>1, <2>4, <2>6, <2>7, <2>8 DEF RowChanged
  <2> QED
    BY <1>2, <2>1, <2>3, <2>5, <2>9 DEF PlatformTypeOK
<1> QED
  BY <1>3, <1>4

\* An update commits if the row still has the revision that was read.
LEMMA UpdateKeepsInv ==
  ASSUME PlatformInv, calls' \in Nat, NEW a \in Admins, UpdateAsset(a)
  PROVE  PlatformInv'
<1>1. RowsKept \/ \E i \in Ids, row \in Row : RowChanged(i, row)
  BY UpdateChanges
<1>2. Shaped /\ Done(a)
  BY <1>1 DEF Shaped, UpdateAsset
<1>3. \A b \in Admins : req[b] # None /\ req[b].op = "insert" => ~(rows'[req[b].id] # Absent)
  BY <1>1, NothingGivenOut
<1>4. \A b \in Admins \ {a} :
        req[b] # None /\ req[b].op = "insert" => ~Exists(req[b].id)'
  BY <1>2, <1>3 DEF Done, Exists, PlatformInv, PlatformTypeOK
<1> QED
  BY <1>2, <1>4, DoneKeepsInv

\* An asset is deleted, if nothing refers to it in the transaction, and is gone for good.
LEMMA DeleteKeepsInv ==
  ASSUME PlatformInv, calls' \in Nat, NEW a \in Admins, DeleteAssetAndRetract(a)
  PROVE  PlatformInv'
<1>1. Done(a)
  BY DEF DeleteAssetAndRetract, Delete
<1>2. req[a].id \in Ids
  BY DEF DeleteAssetAndRetract, PlatformInv, PlatformTypeOK, Request, UpdateRequests,
     InsertRequests, DeleteRequests, CopyRequests, UndoRequests
<1>3. RowsKept \/ RowRemoved(req[a].id)
  BY <1>2 DEF DeleteAssetAndRetract, Delete, RowsKept, RowRemoved
<1>4. Shaped
  BY <1>2, <1>3 DEF Shaped
<1>5. \A b \in Admins : req[b] # None /\ req[b].op = "insert" => ~(rows'[req[b].id] # Absent)
  BY <1>2, <1>3, NothingGivenOut
<1>6. \A b \in Admins \ {a} :
        req[b] # None /\ req[b].op = "insert" => ~Exists(req[b].id)'
  BY <1>1, <1>5 DEF Done, Exists, PlatformInv, PlatformTypeOK
<1> QED
  BY <1>1, <1>4, <1>6, DoneKeepsInv
\* An asset is inserted under a new identity, or updates what was promoted already.
LEMMA InsertKeepsInv ==
  ASSUME PlatformInv, calls' \in Nat, NEW a \in Admins, InsertAsset(a)
  PROVE  PlatformInv'
<1> USE DEF PlatformInv
<1> DEFINE r == req[a]
<1>1. r \in InsertRequests /\ InsertFits(r) /\ r # None /\ r.op = "insert"
  BY DEF InsertAsset, PlatformTypeOK, RequestsFit, Request, UpdateRequests, DeleteRequests,
     CopyRequests, UndoRequests
<1>2. r.id \in Ids /\ r.row \in Row
  BY <1>1 DEF InsertRequests
<1>3. CASE SourceTaken(r.row.src)
  <2>1. rows' = rows /\ retracted' = retracted /\ r.row.src # None
    BY <1>3 DEF InsertAsset, SourceTaken
  <2>2. RowsKept /\ Shaped
    BY <2>1 DEF RowsKept, Shaped
  <2>3. PICK j \in Ids : /\ Exists(j) /\ rows[j].src = r.row.src
                        /\ PromoteInto(a, j, r.row)
    BY <1>3 DEF InsertAsset
  <2>4. \A b \in Admins : req[b] # None /\ req[b].op = "insert" => ~(rows'[req[b].id] # Absent)
    BY <2>2, NothingGivenOut
  <2>5. CASE Done(a)
    <3>1. \A b \in Admins \ {a} :
            req[b] # None /\ req[b].op = "insert" => ~Exists(req[b].id)'
      BY <2>4, <2>5 DEF Done, Exists, PlatformTypeOK
    <3> QED
      BY <2>2, <2>5, <3>1, DoneKeepsInv
  <2>6. CASE ~Done(a)
    <3> DEFINE write == [status |-> "draft", weld |-> r.row.weld,
                         copyable |-> rows[j].copyable,
                         deps |-> r.row.deps, refs |-> r.row.refs]
               y == [op |-> "update", id |-> j, expected |-> rows[j].rev,
                     seen |-> rows[j], write |-> write]
    <3>1. req' = [req EXCEPT ![a] = y]
      BY <2>3, <2>6 DEF PromoteInto
    <3>2. rows[j] \in Row /\ rows[j].rev \in 1..MaxRev
      BY <2>3, RowTyped DEF Row
    <3>3. write \in Write
      BY <1>2, <3>2 DEF Write, Row, Statuses
    <3>4. y \in Request
      BY <3>2, <3>3 DEF Request, UpdateRequests
    <3>5. UpdateFits(y)
      BY <1>1, <2>1, <2>3, <3>2, PlatformConstants DEF UpdateFits, InsertFits
    <3>6. PICK x \in Request : x = y
      BY <3>4
    <3>7. UpdateFits(x)' /\ x.op = "update" /\ req' = [req EXCEPT ![a] = x]
      BY <2>1, <3>1, <3>5, <3>6 DEF UpdateFits, Exists, Pinned
    <3>8. \A b \in Admins \ {a} :
            req[b] # None /\ req[b].op = "insert" => ~Exists(req[b].id)'
      BY <2>4, <3>7 DEF Exists, PlatformTypeOK
    <3> QED
      BY <2>2, <3>7, <3>8, StepKeepsInv
  <2> QED
    BY <2>5, <2>6
<1>4. CASE ~SourceTaken(r.row.src)
  <2>1. Done(a)
    BY <1>4 DEF InsertAsset
  <2>2. RowsKept \/ RowAdded(r.id, r.row)
    BY <1>1, <1>2, <1>4 DEF InsertAsset, RowsKept, RowAdded, InsertFits
  <2>3. Shaped
    BY <1>2, <2>2 DEF Shaped
  <2>4. \A b \in Admins \ {a} : req[b] # None /\ req[b].op = "insert" =>
          req[b].id # r.id /\ req[b].id \in Ids /\ rows[req[b].id] = Absent
    BY <1>1 DEF RequestsFit, InsertFits, Exists, PlatformTypeOK, Request, UpdateRequests,
       InsertRequests, DeleteRequests, CopyRequests, UndoRequests
  <2>5. \A b \in Admins \ {a} :
          req[b] # None /\ req[b].op = "insert" => ~Exists(req[b].id)'
    BY <2>1, <2>2, <2>4 DEF RowsKept, RowAdded, Done, Exists, PlatformTypeOK
  <2> QED
    BY <2>1, <2>3, <2>5, DoneKeepsInv
<1> QED
  BY <1>3, <1>4

\* Inserting a copy adds a row under a fresh identity.
LEMMA FreshUnused ==
  ASSUME PlatformInv, NEW i \in Ids, Fresh(i), NEW row \in Row,
         rows' = [rows EXCEPT ![i] = row]
  PROVE  \A b \in Admins :
           req[b] # None /\ req[b].op = "insert" => ~(rows'[req[b].id] # Absent)
BY DEF PlatformInv, RequestsFit, InsertFits, Exists, Fresh, PlatformTypeOK, Request,
   UpdateRequests, InsertRequests, DeleteRequests, CopyRequests, UndoRequests

\* A step of a copy: the rows keep their shape and the copy's record stays a record.
LEMMA CopyStepKeepsInv ==
  ASSUME PlatformInv, Shaped, calls' \in Nat, NEW a \in Admins,
         NEW x \in CopyRequests \cup UndoRequests, req' = [req EXCEPT ![a] = x],
         \A b \in Admins :
           req[b] # None /\ req[b].op = "insert" => ~(rows'[req[b].id] # Absent)
  PROVE  PlatformInv'
<1>1. x \in Request /\ x.op # "update" /\ x.op # "insert"
  BY DEF Request, CopyRequests, UndoRequests
<1>2. \A b \in Admins \ {a} :
        req[b] # None /\ req[b].op = "insert" => ~Exists(req[b].id)'
  BY DEF Exists, PlatformInv, PlatformTypeOK
<1> QED
  BY <1>1, <1>2, StepKeepsInv

\* A copy of a project deals with one of its processes, or fails.
LEMMA CopyDepKeepsInv ==
  ASSUME PlatformInv, calls' \in Nat, NEW a \in Admins, CopyDep(a)
  PROVE  PlatformInv'
<1> USE DEF PlatformInv
<1>1. req[a] \in CopyRequests
  BY DEF CopyDep, Copying, PlatformTypeOK, Request, UpdateRequests, InsertRequests,
     DeleteRequests, UndoRequests
<1>2. PICK d \in req[a].todo :
        LET p == d[1]
            r == [req[a] EXCEPT !.todo = @ \ {d}]
        IN  \/ ~Exists(p) /\ GiveUpCopy(a)
            \/ /\ Exists(p) /\ ~rows[p].copyable
               /\ req' = [req EXCEPT ![a] = [r EXCEPT !.deps = @ \cup {d}]]
               /\ UNCHANGED <<rows, retracted>>
            \/ Exists(p) /\ rows[p].copyable /\ ~Pinnable(p) /\ GiveUpCopy(a)
            \/ /\ Exists(p) /\ rows[p].copyable /\ Pinnable(p)
               /\ \E n \in Processes :
                    /\ Fresh(n)
                    /\ rows' = [rows EXCEPT ![n] =
                         [NewRow(rows[p].weld, TRUE, {}, {}, None)
                            EXCEPT !.status = "available"]]
                    /\ req' = [req EXCEPT ![a] =
                         [r EXCEPT !.deps = @ \cup {<<n, 1>>}, !.made = @ \cup {n},
                                   !.new[p] = n]]
               /\ UNCHANGED retracted
  BY DEF CopyDep
<1> DEFINE p == d[1]
           r == [req[a] EXCEPT !.todo = @ \ {d}]
<1>3. d \in Pins /\ p \in Processes /\ p \in Ids
  BY <1>1 DEF CopyRequests, Pins, Ids
<1>4. r \in CopyRequests
  BY <1>1 DEF CopyRequests
<1>5. CASE GiveUpCopy(a)
  <2> DEFINE x == [op |-> "undo", made |-> req[a].made]
  <2>1. x \in UndoRequests
    BY <1>1 DEF CopyRequests, UndoRequests
  <2>2. RowsKept /\ Shaped /\ req' = [req EXCEPT ![a] = x]
    BY <1>5 DEF GiveUpCopy, RowsKept, Shaped
  <2> QED
    BY <2>1, <2>2, NothingGivenOut, CopyStepKeepsInv
<1>6. CASE /\ req' = [req EXCEPT ![a] = [r EXCEPT !.deps = @ \cup {d}]]
           /\ UNCHANGED <<rows, retracted>>
  <2> DEFINE x == [r EXCEPT !.deps = @ \cup {d}]
  <2>1. x \in CopyRequests
    BY <1>3, <1>4 DEF CopyRequests
  <2>2. RowsKept /\ Shaped
    BY <1>6 DEF RowsKept, Shaped
  <2> QED
    BY <1>6, <2>1, <2>2, NothingGivenOut, CopyStepKeepsInv
<1>7. ASSUME Exists(p), NEW n \in Processes, Fresh(n),
             rows' = [rows EXCEPT ![n] =
               [NewRow(rows[p].weld, TRUE, {}, {}, None) EXCEPT !.status = "available"]],
             req' = [req EXCEPT ![a] =
               [r EXCEPT !.deps = @ \cup {<<n, 1>>}, !.made = @ \cup {n}, !.new[p] = n]],
             UNCHANGED retracted
      PROVE  PlatformInv'
  <2> DEFINE row == [NewRow(rows[p].weld, TRUE, {}, {}, None) EXCEPT !.status = "available"]
             x == [r EXCEPT !.deps = @ \cup {<<n, 1>>}, !.made = @ \cup {n}, !.new[p] = n]
  <2>1. <<n, 1>> \in Pins
    BY PlatformConstants DEF Pins
  <2>2. x \in CopyRequests
    <3>1. [r.new EXCEPT ![p] = n] \in [Processes -> Processes]
      BY <1>4 DEF CopyRequests
    <3>2. r.deps \cup {<<n, 1>>} \in SUBSET Pins /\ r.made \cup {n} \in SUBSET Processes
      BY <1>4, <2>1 DEF CopyRequests
    <3> HIDE DEF r, p
    <3> QED
      BY <1>4, <3>1, <3>2 DEF CopyRequests
  <2>3. rows[p].weld \in Welds
    BY <1>3, <1>7, RowTyped DEF Row
  <2>4. row \in Row /\ row.deps = {} /\ row.refs = {} /\ row.src = None
    <3> DEFINE draft == NewRow(rows[p].weld, TRUE, {}, {}, None)
    <3>1. draft \in Row /\ draft.deps = {} /\ draft.refs = {} /\ draft.src = None
      BY <2>3, NewRowTyped DEF NewRow
    <3> HIDE DEF draft
    <3>2. [draft EXCEPT !.status = "available"] \in Row
      BY <3>1 DEF Row, Statuses
    <3>3. LET set == [draft EXCEPT !.status = "available"]
          IN  set.deps = {} /\ set.refs = {} /\ set.src = None
      BY <3>1 DEF Row
    <3> QED
      BY <3>2, <3>3 DEF draft
  <2> HIDE DEF row, x
  <2>5. RowAdded(n, row)
    BY <1>7, <2>4 DEF row, RowAdded, Fresh, LockAssetDeps, SourceTaken, Pinned, Ids
  <2>6. Shaped /\ n \in Ids
    BY <2>4, <2>5 DEF Shaped, Ids
  <2>7. \A b \in Admins : req[b] # None /\ req[b].op = "insert" => ~(rows'[req[b].id] # Absent)
    BY <1>7, <2>4, <2>6, FreshUnused DEF row
  <2> QED
    BY <1>7, <2>2, <2>6, <2>7, CopyStepKeepsInv DEF x
<1> QED
  BY <1>2, <1>5, <1>6, <1>7
\* The project's own copy is written last, with the pins of its processes.
LEMMA InsertCopyKeepsInv ==
  ASSUME PlatformInv, calls' \in Nat, NEW a \in Admins, InsertProjectCopy(a)
  PROVE  PlatformInv'
<1> USE DEF PlatformInv
<1> DEFINE r == req[a]
           refs == {r.new[p] : p \in r.seen.refs}
<1>1. r \in CopyRequests /\ r.seen \in Row
  BY DEF InsertProjectCopy, Copying, PlatformTypeOK, Request, UpdateRequests,
     InsertRequests, DeleteRequests, CopyRequests, UndoRequests
<1>2. CASE GiveUpCopy(a)
  <2> DEFINE x == [op |-> "undo", made |-> req[a].made]
  <2>1. x \in UndoRequests
    BY <1>1 DEF CopyRequests, UndoRequests
  <2>2. RowsKept /\ Shaped /\ req' = [req EXCEPT ![a] = x]
    BY <1>2 DEF GiveUpCopy, RowsKept, Shaped
  <2> QED
    BY <2>1, <2>2, NothingGivenOut, CopyStepKeepsInv
<1>3. ASSUME RefsAllowed(refs, r.deps), LockAssetDeps(r.seen.weld, r.deps, {}),
             NEW q \in Projects, Fresh(q),
             rows' = [rows EXCEPT ![q] = NewRow(r.seen.weld, TRUE, r.deps, refs, None)],
             Done(a), UNCHANGED retracted
      PROVE  PlatformInv'
  <2> DEFINE row == NewRow(r.seen.weld, TRUE, r.deps, refs, None)
  <2>1. r.seen.weld \in Welds /\ r.deps \in SUBSET Pins /\ refs \in SUBSET Processes
    BY <1>1 DEF CopyRequests, Row
  <2>2. row \in Row
    BY <2>1, NewRowTyped
  <2>3. row.weld = r.seen.weld /\ row.deps = r.deps /\ row.refs = refs /\ row.src = None
    BY DEF NewRow
  <2> HIDE DEF row
  <2>4. RowAdded(q, row)
    BY <1>3, <2>2, <2>3 DEF row, RowAdded, Fresh, SourceTaken, RefsAllowed, Ids
  <2>5. Shaped /\ q \in Ids
    BY <2>2, <2>4 DEF Shaped, Ids
  <2>6. \A b \in Admins : req[b] # None /\ req[b].op = "insert" => ~(rows'[req[b].id] # Absent)
    BY <1>3, <2>2, <2>5, FreshUnused DEF row
  <2>7. \A b \in Admins \ {a} :
          req[b] # None /\ req[b].op = "insert" => ~Exists(req[b].id)'
    BY <1>3, <2>6 DEF Done, Exists, PlatformTypeOK
  <2> QED
    BY <1>3, <2>5, <2>7, DoneKeepsInv
<1> QED
  BY <1>2, <1>3 DEF InsertProjectCopy

\* A failed copy turns to what it made, one process at a time.
LEMMA UndoCopyKeepsInv ==
  ASSUME PlatformInv, calls' \in Nat, NEW a \in Admins, UndoCopy(a)
  PROVE  PlatformInv'
<1> USE DEF PlatformInv
<1>1. req[a] \in UndoRequests
  BY DEF UndoCopy, PlatformTypeOK, Request, UpdateRequests, InsertRequests,
     DeleteRequests, CopyRequests
<1>2. CASE Done(a) /\ UNCHANGED <<rows, retracted>>
  <2>1. RowsKept /\ Shaped
    BY <1>2 DEF RowsKept, Shaped
  <2>2. \A b \in Admins : req[b] # None /\ req[b].op = "insert" => ~(rows'[req[b].id] # Absent)
    BY <2>1, NothingGivenOut
  <2>3. \A b \in Admins \ {a} :
          req[b] # None /\ req[b].op = "insert" => ~Exists(req[b].id)'
    BY <1>2, <2>2 DEF Done, Exists, PlatformTypeOK
  <2> QED
    BY <1>2, <2>1, <2>3, DoneKeepsInv
<1>3. ASSUME NEW n \in req[a].made,
             \/ RowsKept
             \/ /\ Exists(n) /\ ~Referenced(n)
                /\ rows' = [rows EXCEPT ![n] = Absent]
                /\ retracted' = retracted \cup {n},
             req' = [req EXCEPT ![a].made = @ \ {n}]
      PROVE  PlatformInv'
  <2> DEFINE x == [req[a] EXCEPT !.made = @ \ {n}]
  <2>1. x \in UndoRequests /\ req' = [req EXCEPT ![a] = x] /\ n \in Ids
    BY <1>1, <1>3 DEF UndoRequests, Ids
  <2>2. RowsKept \/ RowRemoved(n)
    BY <1>3, <2>1 DEF RowRemoved
  <2>3. Shaped
    BY <2>1, <2>2 DEF Shaped
  <2> HIDE DEF x
  <2> QED
    BY <2>1, <2>2, <2>3, NothingGivenOut, CopyStepKeepsInv
<1> QED
  BY <1>2, <1>3 DEF UndoCopy, RowsKept

-----------------------------------------------------------------------------

\* An empty library is consistent.
LEMMA InitPlatform == PlatformInit => PlatformInv
BY DEF PlatformInit, PlatformInv, PlatformTypeOK, DepsExist, WeldKindsAgree, RefsArePinned,
   SourcesUnique, RetractedGone, RequestsFit, Exists

\* Every step keeps the invariant.
LEMMA NextPlatform == PlatformInv /\ [PlatformNext]_platformVars => PlatformInv'
<1> SUFFICES ASSUME PlatformInv, [PlatformNext]_platformVars PROVE PlatformInv'
  OBVIOUS
<1>1. calls' \in Nat
  BY DEF PlatformNext, platformVars, PlatformInv, PlatformTypeOK
<1>2. ASSUME NEW a \in Admins, PlatformCall(a) PROVE PlatformInv'
  BY <1>1, <1>2, CallsKeepInv
<1>3. ASSUME NEW a \in Admins, PlatformWrite(a) PROVE PlatformInv'
  BY <1>1, <1>3, UpdateKeepsInv, InsertKeepsInv, DeleteKeepsInv, CopyDepKeepsInv,
     InsertCopyKeepsInv, UndoCopyKeepsInv DEF PlatformWrite
<1>4. CASE UNCHANGED platformVars
  BY ZenonT(60), <1>4 DEF platformVars, PlatformInv, PlatformTypeOK, DepsExist, WeldKindsAgree,
     WeldsAgree, RefsArePinned, SourcesUnique, RetractedGone, RequestsFit, UpdateFits,
     InsertFits, Exists, Pinned
<1> QED
  BY <1>2, <1>3, <1>4 DEF PlatformNext

\* The asset library is consistent in every reachable state: dependencies exist and are of
\* their project's weld kind, content refers to dependencies, a source is promoted once
\* (service/asset.go, store/asset.go of the WAN).
THEOREM LibraryConsistent == PlatformSpec => []PlatformInv
BY InitPlatform, NextPlatform, PTL DEF PlatformSpec

\* Binding and deleting a process cannot cross (DeleteAssetAndRetract, lockAssetDepsTx).
THEOREM DependenciesExist == PlatformSpec => []DepsExist
<1>1. PlatformInv => DepsExist
  BY DEF PlatformInv
<1> QED
  BY <1>1, LibraryConsistent, PTL

\* Binding a process and changing a weld kind cannot cross (guardProcessWeldKindTx).
THEOREM WeldKindsHold == PlatformSpec => []WeldKindsAgree
<1>1. PlatformInv => WeldKindsAgree
  BY DEF PlatformInv
<1> QED
  BY <1>1, LibraryConsistent, PTL

\* Two promotions of one factory asset leave one row (promoteSnapshot and its index).
THEOREM PromotedOnce == PlatformSpec => []SourcesUnique
<1>1. PlatformInv => SourcesUnique
  BY DEF PlatformInv
<1> QED
  BY <1>1, LibraryConsistent, PTL

\* A row is only ever replaced by a caller that had read exactly that row (UpdateAsset's
\* condition on the revision).
THEOREM NothingLost == PlatformSpec => NoLostUpdate
<1> DEFINE P == \A i \in Ids :
                  Exists(i) /\ rows'[i] # Absent /\ rows'[i] # rows[i] =>
                    \E a \in Admins : /\ req[a] # None /\ req[a].op = "update"
                                      /\ req[a].id = i /\ req[a].seen = rows[i]
<1>1. ASSUME PlatformInv, [PlatformNext]_platformVars PROVE [P]_platformVars
  <2>1. CASE UNCHANGED platformVars
    BY <2>1
  <2>2. ASSUME NEW a \in Admins, PlatformCall(a) PROVE P
    BY <2>2 DEF PlatformCall, CreatePlatformProcess, CreatePlatformProject, MutatePlatform,
       DeletePlatformAsset, PromoteSnapshot, CopyPlatformProject, Begin
  <2>3. ASSUME NEW a \in Admins, UpdateAsset(a) PROVE P
    BY <2>3, <1>1, UpdateChanges DEF UpdateAsset
  <2>4. ASSUME NEW a \in Admins, InsertAsset(a) PROVE P
    BY <2>4, <1>1 DEF InsertAsset, PlatformInv, RequestsFit, InsertFits, Exists, PlatformTypeOK
  <2>5. ASSUME NEW a \in Admins, DeleteAssetAndRetract(a) PROVE P
    BY <2>5, <1>1 DEF DeleteAssetAndRetract, Delete, PlatformInv, PlatformTypeOK
  <2>6. ASSUME NEW a \in Admins, CopyDep(a) \/ InsertProjectCopy(a) PROVE P
    <3>1. \/ rows' = rows
          \/ \E n \in Ids : Fresh(n) /\ \A i \in Ids \ {n} : rows'[i] = rows[i]
      BY <2>6, <1>1 DEF CopyDep, InsertProjectCopy, GiveUpCopy, Ids, PlatformInv, PlatformTypeOK
    <3> QED
      BY <3>1, <1>1 DEF Fresh, Exists, PlatformInv, PlatformTypeOK
  <2>7. ASSUME NEW a \in Admins, UndoCopy(a) PROVE P
    BY <2>7, <1>1 DEF UndoCopy, PlatformInv, PlatformTypeOK
  <2> QED
    BY <1>1, <2>1, <2>2, <2>3, <2>4, <2>5, <2>6, <2>7 DEF PlatformNext, PlatformWrite
<1>2. PlatformSpec => []PlatformInv
  BY LibraryConsistent
<1> QED
  BY <1>1, <1>2, PTL DEF PlatformSpec, NoLostUpdate
=============================================================================
