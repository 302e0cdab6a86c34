---------------------------- MODULE AssetsProofs ----------------------------
(***************************************************************************)
(* FactoryInv of FactoryAssets for any assets, weld kinds, people and      *)
(* platform processes.  A step keeps the rows, adds one, removes one or    *)
(* replaces one.  Unlike on the WAN a row may go while others pin it, and  *)
(* a pad may choose an identity again: what holds the weld kinds together  *)
(* is that any other identity is given once (RowsUsed, InsertFits), so     *)
(* that a process that is gone stays gone and a write worked out from a    *)
(* row finds that row or a later revision of it (SeenFits).  That row's    *)
(* content is then the one the write's digest is of, also when the write   *)
(* does not carry it (UpdateFits).                                         *)
(*                                                                         *)
(* RefsAreFiles of LegacyImport, for the factory's import and the WAN's,   *)
(* any batch, names, library and edits of others.  A process stands for    *)
(* one file of one kind because nothing of the batch takes what has been   *)
(* claimed (Taking, Drafting); the index is in the order of the files      *)
(* (Ordered), so that of two files with one alias the entry that counts is *)
(* of the file the reference means (RewrittenFits).                        *)
(*                                                                         *)
(* NoCopies of LegacyImport, for the same.  Whatever became of a file, it  *)
(* will be found again for it (Stood): by its content if the process is    *)
(* named for the file, else by the name the file goes by.  A step leaves   *)
(* that to the files done before (Gentle, SettledStays): it gives no       *)
(* process their content, and no new one a name that is there, and a name  *)
(* the import gives is one by which the file is looked for (MadeIsRanked). *)
(* The book mirrors the library meanwhile (Mirrors), so that a repeated    *)
(* import comes to the same rows in the same order (AgainRow).             *)
(***************************************************************************)
EXTENDS FactoryAssets, PlatformImport, FiniteSetTheorems, TLAPS

Names == Processes \cup Platform
OnePin(deps) == \A d, e \in deps : d[1] = e[1] => d = e
PinsSound(deps, refs) == refs \subseteq Pinned(deps) /\ OnePin(deps)
Known(deps) == Pinned(deps) \subseteq used \cup Platform

\* Every row has had its identity given, pins what there has been, and is sound.
RowsUsed == \A i \in Ids : Exists(i) => i \in used /\ Known(rows[i].deps)

\* The content a row's digest is of refers to what it pins, each once; but for identities a
\* pad may choose again it is the content the row has.
RowsSound ==
    \A i \in Ids : Exists(i) =>
      /\ PinsSound(rows[i].deps, rows[i].digest)
      /\ i \notin PadIds => Intact(rows[i])

Library == FactoryWeldsAgree /\ RowsSound /\ RowsUsed

-----------------------------------------------------------------------------
(* The calls under way                                                     *)

Write == [status : Statuses, weld : Welds \cup {None}, deps : SUBSET Pins, refs : SUBSET Names,
          keep : BOOLEAN]

UpdateRequests == [op : {"update"}, id : Ids, expected : 1..MaxRev, seen : Row, write : Write,
                   again : 0..2]
AppRequests == [op : {"app"}, id : Ids, refs : SUBSET Names, tries : 1..3]
InsertRequests == [op : {"insert"}, id : Ids, row : Row]
DeleteRequests == [op : {"delete"}, id : Ids, rest : SUBSET Processes]
UndoRequests == [op : {"undo"}, made : SUBSET Processes]
CopyRequests == [op : {"copy"}, seen : Row, owner : Users \cup {None}, todo : SUBSET Pins,
                 deps : SUBSET Pins, made : SUBSET Processes, new : [Names -> Names]]
Request == UpdateRequests \cup AppRequests \cup InsertRequests \cup DeleteRequests
           \cup UndoRequests \cup CopyRequests

AssetsTypeOK ==
    /\ rows \in [Ids -> Row \cup {Absent}]
    /\ used \subseteq Ids /\ replicas \subseteq Replica
    /\ req \in [Users -> Request \cup {None}]
    /\ calls \in Nat

\* A write is worked out from a row there was: the row is that one still, or of a later
\* revision, or gone for good.
SeenFits(r) ==
    r.id \notin PadIds =>
      /\ r.id \in used
      /\ Exists(r.id) => /\ r.seen.rev <= rows[r.id].rev
                         /\ r.seen.rev = rows[r.id].rev => r.seen = rows[r.id]

\* What is to be written is sound; a write of another weld kind keeps no process pinned
\* but those a pad may have given again.
UpdateFits(r) ==
    /\ SeenFits(r)
    /\ r.id \notin PadIds => /\ r.expected <= r.seen.rev
                             /\ r.write.keep => r.write.refs = r.seen.refs
    /\ PinsSound(r.write.deps, r.write.refs) /\ Known(r.write.deps)
    /\ r.id \notin PadIds /\ r.write.weld \notin {None, r.seen.weld}
         => Pinned(r.write.deps) \cap Processes \subseteq PadIds

InsertFits(r) ==
    /\ PinsSound(r.row.deps, r.row.digest) /\ Known(r.row.deps) /\ Intact(r.row)
    /\ r.id \notin PadIds => r.id \notin used

CopyFits(r) ==
    /\ OnePin(r.todo) /\ OnePin(r.deps) /\ Known(r.todo) /\ Known(r.deps)
    /\ Pinned(r.todo) \cap Pinned(r.deps) = {}

Asks(u, op) == req[u] # None /\ req[u].op = op
Fits(r) ==
    /\ r.op = "update" => UpdateFits(r)
    /\ r.op = "insert" => InsertFits(r)
    /\ r.op = "copy" => CopyFits(r)

RequestsFit == \A u \in Users : req[u] # None => Fits(req[u])

\* Two calls never give the same identity, unless a pad chose it.
InsertsApart ==
    \A u, v \in Users : Asks(u, "insert") /\ Asks(v, "insert") /\ req[u].id = req[v].id
        => u = v \/ req[u].id \in PadIds

AssetsInv == AssetsTypeOK /\ Library /\ RequestsFit /\ InsertsApart

-----------------------------------------------------------------------------
(* The shapes of a step                                                    *)

RowsKept == rows' = rows /\ used' = used

RowAdded(i, row) ==
    /\ i \in Ids /\ ~Exists(i) /\ (i \notin PadIds => i \notin used)
    /\ row \in Row /\ PinsSound(row.deps, row.digest) /\ Known(row.deps) /\ Intact(row)
    /\ LockAssetDeps(row.weld, row.deps, {})
    /\ rows' = [rows EXCEPT ![i] = row] /\ used' = used \cup {i}

RowRemoved(i) == i \in Ids /\ rows' = [rows EXCEPT ![i] = Absent] /\ used' = used

RowChanged(i, row) ==
    /\ i \in Ids /\ Exists(i)
    /\ row \in Row /\ row.rev = rows[i].rev + 1
    /\ PinsSound(row.deps, row.digest) /\ Known(row.deps) /\ (i \notin PadIds => Intact(row))
    /\ GuardProcessWeldKind(i, row.weld)
    /\ LockAssetDeps(row.weld, row.deps, rows[i].deps)
    /\ i \notin PadIds /\ row.weld # rows[i].weld => Pinned(row.deps) \cap Processes \subseteq PadIds
    /\ rows' = [rows EXCEPT ![i] = row] /\ used' = used

Shaped ==
    \/ RowsKept
    \/ \E i \in Ids : RowRemoved(i)
    \/ \E i \in Ids, row \in Row : RowAdded(i, row) \/ RowChanged(i, row)

\* Dependencies are on processes, the factory's or the platform's; those of the platform
\* have no row here.
LEMMA PinnedNames ==
  ASSUME NEW deps \in SUBSET Pins
  PROVE  Pinned(deps) \subseteq Names /\ Pinned(deps) \cap Ids \subseteq Processes
BY FactoryAssetsConstants DEF Pinned, Pins, Names, Ids

\* What a row that exists consists of.
LEMMA RowTyped ==
  ASSUME AssetsTypeOK, NEW i \in Ids, Exists(i)
  PROVE  rows[i] \in Row /\ rows[i].deps \in SUBSET Pins
BY DEF AssetsTypeOK, Exists, Row

\* A row of some other identity is as it was.
LEMMA AddKeepsLibrary ==
  ASSUME AssetsTypeOK, Library, NEW i \in Ids, NEW row \in Row, RowAdded(i, row)
  PROVE  Library'
<1>1. rows'[i] = row /\ \A j \in Ids : j # i => rows'[j] = rows[j] /\ (Exists(j)' <=> Exists(j))
  BY DEF RowAdded, AssetsTypeOK, Exists
<1>2. row.deps \in SUBSET Pins
  BY DEF Row
<1>3. used' = used \cup {i}
  BY DEF RowAdded
<1>4. FactoryWeldsAgree'
  <2> SUFFICES ASSUME NEW j \in Ids \ PadIds, Exists(j)',
                      NEW p \in Pinned(rows'[j].deps) \ PadIds, Exists(p)'
               PROVE  rows'[p].weld = rows'[j].weld
    BY DEF FactoryWeldsAgree, WeldsAgree, Pinned
  <2>0. p \in Ids
    BY DEF Exists
  <2>1. CASE j = i
    <3>1. p \in Processes /\ p \in used \cup Platform
      BY <1>1, <1>2, <2>0, <2>1, PinnedNames DEF RowAdded, Known
    <3>2. p # i
      BY <2>1, <3>1, FactoryAssetsConstants DEF RowAdded
    <3>3. Exists(p) /\ rows'[p] = rows[p]
      BY <1>1, <2>0, <3>2
    <3>4. p \in Pinned(row.deps) \ Pinned({})
      BY <1>1, <2>1 DEF Pinned
    <3> QED
      BY <1>1, <2>1, <3>3, <3>4 DEF RowAdded, LockAssetDeps
  <2>2. CASE j # i
    <3>1. Exists(j) /\ rows'[j] = rows[j]
      BY <1>1, <2>2
    <3>2. p \in Processes /\ p \in used \cup Platform
      BY <2>0, <3>1, RowTyped, PinnedNames DEF Library, RowsUsed, Known
    <3>3. p # i
      BY <3>2, FactoryAssetsConstants DEF RowAdded
    <3>4. Exists(p) /\ rows'[p] = rows[p]
      BY <1>1, <2>0, <3>3
    <3> QED
      BY <3>1, <3>4 DEF Library, FactoryWeldsAgree, WeldsAgree
  <2> QED
    BY <2>1, <2>2
<1>5. RowsSound'
  BY <1>1 DEF Library, RowsSound, RowAdded, PinsSound, OnePin, Pinned, Intact
<1>6. RowsUsed'
  BY <1>1, <1>3 DEF Library, RowsUsed, RowAdded, Known, Pinned
<1> QED
  BY <1>4, <1>5, <1>6 DEF Library

\* A row goes; those that pin it keep an identity that stays gone.
LEMMA RemoveKeepsLibrary ==
  ASSUME AssetsTypeOK, Library, NEW i \in Ids, RowRemoved(i)
  PROVE  Library'
<1>1. /\ ~Exists(i)' /\ used' = used
      /\ \A j \in Ids : j # i => rows'[j] = rows[j] /\ (Exists(j)' <=> Exists(j))
  BY DEF RowRemoved, AssetsTypeOK, Exists
<1>2. FactoryWeldsAgree'
  <2> SUFFICES ASSUME NEW j \in Ids \ PadIds, Exists(j)',
                      NEW p \in Pinned(rows'[j].deps) \ PadIds, Exists(p)'
               PROVE  rows'[p].weld = rows'[j].weld
    BY DEF FactoryWeldsAgree, WeldsAgree, Pinned
  <2>0. p \in Ids
    BY DEF Exists
  <2> QED
    BY <1>1, <2>0 DEF Library, FactoryWeldsAgree, WeldsAgree
<1>3. RowsSound'
  BY <1>1 DEF Library, RowsSound, PinsSound, OnePin, Pinned, Intact
<1>4. RowsUsed'
  BY <1>1 DEF Library, RowsUsed, Known, Pinned
<1> QED
  BY <1>2, <1>3, <1>4 DEF Library

\* A row changes to one whose pins are of its kind and whose digest is its content's.
LEMMA ChangeKeepsLibrary ==
  ASSUME AssetsTypeOK, Library, NEW i \in Ids, NEW row \in Row, RowChanged(i, row)
  PROVE  Library'
<1>1. /\ rows'[i] = row /\ Exists(i) /\ used' = used
      /\ \A j \in Ids : j # i => rows'[j] = rows[j] /\ (Exists(j)' <=> Exists(j))
  BY DEF RowChanged, AssetsTypeOK, Exists
<1>2. row.deps \in SUBSET Pins
  BY DEF Row
<1>3. FactoryWeldsAgree'
  <2> SUFFICES ASSUME NEW j \in Ids \ PadIds, Exists(j)',
                      NEW p \in Pinned(rows'[j].deps) \ PadIds, Exists(p)'
               PROVE  rows'[p].weld = rows'[j].weld
    BY DEF FactoryWeldsAgree, WeldsAgree, Pinned
  <2>0. p \in Ids /\ Exists(p)
    BY <1>1 DEF Exists
  <2>1. CASE j = i
    <3>1. p \in Processes
      BY <1>1, <1>2, <2>0, <2>1, PinnedNames
    <3>2. rows[p].weld = row.weld
      <4>1. CASE p \in Pinned(rows[i].deps)
        <5>1. row.weld = rows[i].weld
          BY <1>1, <2>1, <3>1 DEF RowChanged
        <5> QED
          BY <1>1, <2>0, <2>1, <4>1, <5>1 DEF Library, FactoryWeldsAgree, WeldsAgree
      <4>2. CASE p \notin Pinned(rows[i].deps)
        BY <1>1, <2>0, <2>1, <4>2 DEF RowChanged, LockAssetDeps
      <4> QED
        BY <4>1, <4>2
    <3> QED
      BY <1>1, <2>0, <2>1, <3>2
  <2>2. CASE j # i
    <3>1. Exists(j) /\ rows'[j] = rows[j]
      BY <1>1, <2>2
    <3>2. p \in Processes /\ rows[p].weld = rows[j].weld
      BY <2>0, <3>1, RowTyped, PinnedNames DEF Library, FactoryWeldsAgree, WeldsAgree
    <3>3. p = i => row.weld = rows[i].weld
      BY <3>1, <3>2 DEF RowChanged, GuardProcessWeldKind, Referenced
    <3> QED
      BY <1>1, <2>0, <3>1, <3>2, <3>3
  <2> QED
    BY <2>1, <2>2
<1>4. RowsSound'
  BY <1>1 DEF Library, RowsSound, RowChanged, PinsSound, OnePin, Pinned, Intact
<1>5. RowsUsed'
  BY <1>1 DEF Library, RowsUsed, RowChanged, Known, Pinned
<1> QED
  BY <1>3, <1>4, <1>5 DEF Library

\* A step that adds, changes or removes at most one row keeps the library.
LEMMA ShapesKeepLibrary ==
  ASSUME AssetsTypeOK, Library, Shaped PROVE Library'
<1>1. CASE RowsKept
  BY <1>1 DEF RowsKept, Library, FactoryWeldsAgree, WeldsAgree, RowsSound, RowsUsed,
     Exists, Pinned, Known, PinsSound, OnePin, Intact
<1> QED
  BY <1>1, AddKeepsLibrary, RemoveKeepsLibrary, ChangeKeepsLibrary DEF Shaped

\* Such a step keeps the types, and identities stay used.
LEMMA ShapesKeepType ==
  ASSUME AssetsTypeOK, Shaped
  PROVE  rows' \in [Ids -> Row \cup {Absent}] /\ used' \subseteq Ids /\ used \subseteq used'
BY DEF Shaped, RowsKept, RowRemoved, RowAdded, RowChanged, AssetsTypeOK

\* What others have under way still fits after a step of any shape; an insertion only if
\* the step has not given its identity.
LEMMA SeenStillFits ==
  ASSUME AssetsTypeOK, Shaped, NEW r \in UpdateRequests, SeenFits(r)
  PROVE  SeenFits(r)'
<1> SUFFICES ASSUME r.id \notin PadIds PROVE SeenFits(r)'
  BY DEF SeenFits
<1> DEFINE i == r.id
<1>1. i \in Ids /\ i \in used /\ i \in used' /\ r.seen \in Row /\ r.seen.rev \in Nat
  BY ShapesKeepType, FactoryAssetsConstants DEF UpdateRequests, SeenFits, Row
<1>2. CASE RowsKept
  BY <1>1, <1>2 DEF RowsKept, SeenFits, Exists
<1>3. ASSUME NEW j \in Ids, RowRemoved(j) PROVE SeenFits(r)'
  BY <1>1, <1>3 DEF RowRemoved, SeenFits, Exists, AssetsTypeOK
<1>4. ASSUME NEW j \in Ids, NEW row \in Row, RowAdded(j, row) PROVE SeenFits(r)'
  <2>1. j # i
    BY <1>1, <1>4 DEF RowAdded
  <2> QED
    BY <1>1, <1>4, <2>1 DEF RowAdded, SeenFits, Exists, AssetsTypeOK
<1>5. ASSUME NEW j \in Ids, NEW row \in Row, RowChanged(j, row) PROVE SeenFits(r)'
  <2>1. CASE j # i
    BY <1>1, <1>5, <2>1 DEF RowChanged, SeenFits, Exists, AssetsTypeOK
  <2>2. CASE j = i
    <3>1. rows'[i] = row /\ Exists(i)
      BY <1>5, <2>2 DEF RowChanged, AssetsTypeOK
    <3>2. rows[i].rev \in Nat
      BY <1>1, <3>1, RowTyped, FactoryAssetsConstants DEF Row
    <3>3. r.seen.rev <= rows[i].rev /\ row.rev = rows[i].rev + 1
      BY <1>5, <2>2, <3>1 DEF RowChanged, SeenFits
    <3> HIDE DEF i
    <3>4. r.seen.rev <= rows'[i].rev /\ r.seen.rev # rows'[i].rev
      BY <1>1, <3>1, <3>2, <3>3
    <3> QED
      BY <1>1, <3>4 DEF SeenFits, i
  <2> QED
    BY <2>1, <2>2
<1> QED
  BY <1>2, <1>3, <1>4, <1>5 DEF Shaped

\* What a pending request has decided still fits after such a step, unless it inserts an
\* identity that somebody else has taken.
LEMMA StillFits ==
  ASSUME AssetsTypeOK, Shaped, NEW r \in Request, Fits(r),
         r.op = "insert" /\ r.id \notin PadIds => r.id \notin used'
  PROVE  Fits(r)'
<1>1. \A deps : Known(deps) => Known(deps)'
  BY ShapesKeepType DEF Known, Pinned
<1>2. ASSUME r.op = "update" PROVE UpdateFits(r)'
  <2>1. r \in UpdateRequests
    BY <1>2 DEF Request, UpdateRequests, AppRequests, InsertRequests, DeleteRequests,
       UndoRequests, CopyRequests
  <2>2. SeenFits(r)'
    BY <1>2, <2>1, SeenStillFits DEF Fits, UpdateFits
  <2> QED
    BY <1>1, <1>2, <2>2 DEF Fits, UpdateFits
<1> QED
  BY <1>1, <1>2 DEF Fits, InsertFits, CopyFits
-----------------------------------------------------------------------------
(* Steps                                                                   *)

\* A step of some shape by u, whose call is r from now on, keeps the invariant when r fits
\* and no identity another is about to give has been given.
LEMMA StepKeepsInv ==
  ASSUME AssetsInv, Shaped, calls' \in Nat, replicas' \subseteq Replica,
         NEW u \in Users, NEW r \in Request \cup {None}, req' = [req EXCEPT ![u] = r],
         r # None => Fits(r)',
         \A v \in Users \ {u} : Asks(v, "insert") /\ req[v].id \notin PadIds =>
           /\ req[v].id \notin used'
           /\ r # None /\ r.op = "insert" => req[v].id # r.id
  PROVE  AssetsInv'
<1>1. req'[u] = r /\ \A v \in Users \ {u} : req'[v] = req[v]
  BY DEF AssetsInv, AssetsTypeOK
<1>2. AssetsTypeOK'
  <2>1. req' \in [Users -> Request \cup {None}]
    BY DEF AssetsInv, AssetsTypeOK
  <2> QED
    BY <2>1, ShapesKeepType DEF AssetsInv, AssetsTypeOK
<1>3. Library'
  BY ShapesKeepLibrary DEF AssetsInv
<1>4. ASSUME NEW v \in Users \ {u}, req[v] # None
      PROVE  \E x \in Request : req'[v] = x /\ Fits(x)'
  <2>1. req[v] \in Request /\ Fits(req[v])
    BY <1>4 DEF AssetsInv, AssetsTypeOK, RequestsFit
  <2>2. req[v].op = "insert" /\ req[v].id \notin PadIds => req[v].id \notin used'
    BY <1>4 DEF Asks
  <2>3. ASSUME NEW x \in Request, Fits(x), x.op = "insert" /\ x.id \notin PadIds => x.id \notin used'
        PROVE  Fits(x)'
    BY <2>3, StillFits DEF AssetsInv
  <2>4. PICK x \in Request : x = req[v]
    BY <2>1
  <2>5. Fits(x)'
    BY <2>1, <2>2, <2>3, <2>4
  <2> QED
    BY <1>1, <2>4, <2>5
<1>5. RequestsFit'
  BY <1>1, <1>4 DEF RequestsFit
<1>6. InsertsApart'
  <2> SUFFICES ASSUME NEW v \in Users, NEW w \in Users, Asks(v, "insert")', Asks(w, "insert")',
                      req'[v].id = req'[w].id, req'[v].id \notin PadIds
               PROVE  v = w
    BY DEF InsertsApart
  <2>1. v # u => Asks(v, "insert") /\ req'[v] = req[v]
    BY <1>1 DEF Asks
  <2>2. w # u => Asks(w, "insert") /\ req'[w] = req[w]
    BY <1>1 DEF Asks
  <2>3. (v = u \/ w = u) => r # None /\ r.op = "insert"
    BY <1>1 DEF Asks
  <2> QED
    BY <1>1, <2>1, <2>2, <2>3 DEF AssetsInv, InsertsApart
<1> QED
  BY <1>2, <1>3, <1>5, <1>6 DEF AssetsInv

\* A call begins: with one that fits, and an identity nobody else is about to give.
LEMMA BeginKeepsInv ==
  ASSUME AssetsInv, calls' \in Nat, NEW u \in Users, NEW r \in Request, Begin(u, r), Fits(r),
         r.op = "insert" => Fresh(r.id) \/ r.id \in PadIds
  PROVE  AssetsInv'
<1>1. RowsKept /\ Shaped /\ replicas' \subseteq Replica
  BY DEF Begin, RowsKept, Shaped, AssetsInv, AssetsTypeOK
<1>2. Fits(r)'
  BY <1>1 DEF RowsKept, Fits, UpdateFits, SeenFits, InsertFits, CopyFits, Known, Exists
<1>3. ASSUME NEW v \in Users \ {u}, Asks(v, "insert"), req[v].id \notin PadIds
      PROVE  req[v].id \notin used' /\ (r # None /\ r.op = "insert" => req[v].id # r.id)
  <2>1. Fits(req[v])
    BY <1>3 DEF AssetsInv, RequestsFit, Asks
  <2>2. req[v].id \notin used
    BY <1>3, <2>1 DEF Fits, InsertFits, Asks
  <2> QED
    BY <1>1, <1>3, <2>2 DEF RowsKept, Fresh, Asks
<1>4. req' = [req EXCEPT ![u] = r]
  BY DEF Begin
<1> QED
  BY <1>1, <1>2, <1>3, <1>4, StepKeepsInv

\* A new row.
LEMMA NewRowTyped ==
  ASSUME NEW owner \in Users \cup {None}, NEW status \in Statuses, NEW weld \in Welds,
         NEW deps \in SUBSET Pins, NEW refs \in SUBSET Names
  PROVE  /\ NewRow(owner, status, weld, deps, refs) \in Row
         /\ NewRow(owner, status, weld, deps, refs).weld = weld
         /\ NewRow(owner, status, weld, deps, refs).deps = deps
         /\ NewRow(owner, status, weld, deps, refs).refs = refs
         /\ NewRow(owner, status, weld, deps, refs).digest = refs
         /\ Intact(NewRow(owner, status, weld, deps, refs))
BY FactoryAssetsConstants DEF NewRow, Row, Names, Intact

\* A request to insert a sound row under a fresh identity fits.
LEMMA InsertBegins ==
  ASSUME AssetsInv, calls' \in Nat, NEW u \in Users, NEW i \in Ids, NEW row \in Row,
         Begin(u, Inserting(i, row)), PinsSound(row.deps, row.digest), Known(row.deps), Intact(row),
         Fresh(i) \/ i \in PadIds
  PROVE  AssetsInv'
<1> DEFINE r == Inserting(i, row)
<1>1. r \in Request /\ r.op = "insert" /\ r.id = i /\ r.row = row
  BY DEF Inserting, Request, InsertRequests
<1>2. Fits(r)
  BY <1>1 DEF Fits, InsertFits, Fresh
<1> HIDE DEF r
<1> QED
  BY <1>1, <1>2, BeginKeepsInv DEF r

\* What is pinned anew: each once, at a revision it has had.
LEMMA PinOfFits ==
  ASSUME AssetsInv, NEW u, NEW personal, NEW p \in Names
  PROVE  /\ PinOf(u, personal, p) \subseteq Pins
         /\ \A d \in PinOf(u, personal, p) : d[1] = p /\ p \in used \cup Platform
         /\ \A d, e \in PinOf(u, personal, p) : d = e
<1>1. CASE p \in Processes
  <2>1. PinOf(u, personal, p) \subseteq {<<p, rows[p].rev>>} /\ (PinOf(u, personal, p) # {} => Exists(p))
    BY <1>1 DEF PinOf, MayPin
  <2>2. Exists(p) => rows[p] \in Row /\ p \in used
    BY <1>1, RowTyped DEF AssetsInv, Library, RowsUsed, Ids
  <2>3. Exists(p) => <<p, rows[p].rev>> \in Pins
    BY <1>1, <2>2 DEF Row, Pins
  <2> QED
    BY <2>1, <2>2, <2>3
<1>2. CASE p \notin Processes
  <2>1. p \in Platform
    BY <1>2 DEF Names
  <2>2. PinOf(u, personal, p) \subseteq {<<p, s.rev>> : s \in Latest(p)}
    BY <1>2 DEF PinOf
  <2>3. \A s \in Latest(p) : s.rev \in 1..MaxRev
    BY DEF Latest, AssetsInv, AssetsTypeOK, Replica
  <2>4. \A s, t \in Latest(p) : s.rev <= t.rev
    BY DEF Latest
  <2>5. \A s, t \in Latest(p) : s.rev = t.rev
    BY <2>3, <2>4, FactoryAssetsConstants
  <2> QED
    BY <2>1, <2>2, <2>3, <2>5 DEF Pins
<1> QED
  BY <1>1, <1>2

\* The pins found for a set of names are of those names and of rows that exist, one each.
LEMMA ResolveFits ==
  ASSUME AssetsInv, NEW u, NEW personal, NEW ps \in SUBSET Names
  PROVE  /\ Resolve(u, personal, ps) \subseteq Pins
         /\ Pinned(Resolve(u, personal, ps)) \subseteq ps
         /\ Known(Resolve(u, personal, ps)) /\ OnePin(Resolve(u, personal, ps))
<1>1. \A d \in Resolve(u, personal, ps) : \E p \in ps : d \in PinOf(u, personal, p)
  BY DEF Resolve
<1>2. \A d \in Resolve(u, personal, ps) :
        d \in Pins /\ d[1] \in ps /\ d[1] \in used \cup Platform /\ d \in PinOf(u, personal, d[1])
  BY <1>1, PinOfFits
<1>3. OnePin(Resolve(u, personal, ps))
  BY <1>2, PinOfFits DEF OnePin
<1> QED
  BY <1>2, <1>3 DEF Known, Pinned

\* The pins completed for what the content refers to are of rows that exist, one each.
LEMMA FillFits ==
  ASSUME AssetsInv, NEW u, NEW personal, NEW deps \in SUBSET Pins, NEW refs \in SUBSET Names,
         OnePin(deps), Known(deps)
  PROVE  /\ FillProjectDeps(u, personal, deps, refs) \in SUBSET Pins
         /\ Known(FillProjectDeps(u, personal, deps, refs))
         /\ OnePin(FillProjectDeps(u, personal, deps, refs))
<1> DEFINE more == Resolve(u, personal, refs \ Pinned(deps))
<1>1. /\ more \subseteq Pins /\ Pinned(more) \cap Pinned(deps) = {}
      /\ Known(more) /\ OnePin(more)
  <2>1. refs \ Pinned(deps) \in SUBSET Names
    OBVIOUS
  <2> QED
    BY <2>1, ResolveFits
<1>2. FillProjectDeps(u, personal, deps, refs) = deps \cup more
  BY DEF FillProjectDeps
<1> HIDE DEF more
<1> QED
  BY <1>1, <1>2 DEF Known, OnePin, Pinned
-----------------------------------------------------------------------------
(* What a call works out                                                   *)

\* A write worked out from the row read fits that row.
PatchOf(i, w) ==
    /\ w \in Write /\ PinsSound(w.deps, w.refs) /\ Known(w.deps)
    /\ i \notin PadIds /\ w.keep => w.refs = rows[i].refs
    /\ i \notin PadIds /\ w.weld \notin {None, rows[i].weld}
         => Pinned(w.deps) \cap Processes \subseteq PadIds

\* What the invariant says of one row that exists.
LEMMA RowFacts ==
  ASSUME AssetsInv, NEW i \in Ids, Exists(i)
  PROVE  /\ rows[i] \in Row /\ i \in used
         /\ rows[i].deps \in SUBSET Pins /\ rows[i].refs \in SUBSET Names
         /\ rows[i].weld \in Welds /\ rows[i].status \in Statuses
         /\ rows[i].owner \in Users \cup {None} /\ rows[i].rev \in 1..MaxRev
         /\ rows[i].digest \in SUBSET Names
         /\ PinsSound(rows[i].deps, rows[i].digest) /\ Known(rows[i].deps)
         /\ i \notin PadIds => rows[i].digest = rows[i].refs
<1>1. rows[i] \in Row
  BY RowTyped DEF AssetsInv
<1> QED
  BY <1>1 DEF Row, Names, AssetsInv, Library, RowsUsed, RowsSound, Intact

\* A patch leaves the fields it does not set.
LEMMA UnchangedTyped ==
  ASSUME AssetsInv, NEW i \in Ids, Exists(i)
  PROVE  /\ Unchanged(rows[i]) \in Write /\ Unchanged(rows[i]).weld = None
         /\ Unchanged(rows[i]).deps = rows[i].deps /\ Unchanged(rows[i]).refs = rows[i].digest
         /\ Unchanged(rows[i]).keep = TRUE
BY RowFacts DEF Unchanged, Write

\* Status alone.
LEMMA StatusPatch ==
  ASSUME AssetsInv, NEW i \in Ids, Exists(i), NEW st \in Statuses
  PROVE  /\ PatchOf(i, Unchanged(rows[i]))
         /\ PatchOf(i, [Unchanged(rows[i]) EXCEPT !.status = st])
<1> DEFINE v == Unchanged(rows[i])
           w == [v EXCEPT !.status = st]
<1>1. v \in Write /\ v.weld = None /\ v.deps = rows[i].deps /\ v.refs = rows[i].digest
  BY UnchangedTyped
<1> HIDE DEF v
<1>2. w \in Write /\ w.weld = None /\ w.deps = rows[i].deps /\ w.refs = rows[i].digest
  BY <1>1 DEF Write
<1> HIDE DEF w
<1>3. /\ PinsSound(rows[i].deps, rows[i].digest) /\ Known(rows[i].deps)
      /\ i \notin PadIds => rows[i].digest = rows[i].refs
  BY RowFacts
<1>4. PatchOf(i, v) /\ PatchOf(i, w)
  BY <1>1, <1>2, <1>3 DEF PatchOf
<1> QED
  BY <1>4 DEF v, w

\* A change worked out from a row as it is fits that row.
LEMMA PatchFits ==
  ASSUME AssetsInv, NEW u, NEW i \in Ids, Exists(i), NEW w \in Patches(u, i, rows[i])
  PROVE  PatchOf(i, w)
<1> DEFINE cur == rows[i]
<1>1. /\ cur \in Row /\ cur.deps \in SUBSET Pins /\ cur.digest \in SUBSET Names
      /\ cur.status \in Statuses /\ cur.weld \in Welds
      /\ PinsSound(cur.deps, cur.digest) /\ Known(cur.deps)
      /\ i \notin PadIds => cur.digest = cur.refs
  BY RowFacts
<1>2. CASE w \in RenameAsset(cur) \cup PublishAsset(cur) \cup DisableAsset(cur) \cup ReenableAsset(cur)
  BY <1>2, StatusPatch DEF RenameAsset, PublishAsset, DisableAsset, ReenableAsset, Statuses
<1>3. CASE w \in UpdateAssetContent(i, cur)
  <2>1. PICK refs \in Contents(i) : /\ RefsAllowed(refs, cur.deps)
                                  /\ w = [Unchanged(cur) EXCEPT !.refs = refs, !.keep = FALSE]
    BY <1>3 DEF UpdateAssetContent
  <2>2. refs \in SUBSET Names /\ PinsSound(cur.deps, refs)
    BY <1>1, <2>1, PinnedNames DEF RefsAllowed, PinsSound
  <2>3. w \in Write /\ w.weld = None /\ w.deps = cur.deps /\ w.refs = refs /\ ~w.keep
    <3> DEFINE v == Unchanged(cur)
    <3>1. /\ v \in Write /\ v.weld = None /\ v.deps = cur.deps
          /\ w = [v EXCEPT !.refs = refs, !.keep = FALSE]
      BY <2>1, UnchangedTyped
    <3> HIDE DEF v
    <3> QED
      BY <2>2, <3>1 DEF Write
  <2> QED
    BY <1>1, <2>2, <2>3 DEF PatchOf
<1>4. CASE w \in SetAssetWeldKind(i, cur)
  <2>1. PICK weld \in Welds :
          LET kept == DepsMatching(weld, cur.deps)
              write == [Unchanged(cur) EXCEPT !.weld = weld, !.deps = kept]
          IN  /\ w \in {write, [write EXCEPT !.refs = {}, !.keep = FALSE]}
              /\ w.keep => w.refs \cap Pinned(cur.deps \ kept) = {}
    BY <1>4 DEF SetAssetWeldKind
  <2> DEFINE kept == DepsMatching(weld, cur.deps)
             write == [Unchanged(cur) EXCEPT !.weld = weld, !.deps = kept]
  <2>2. kept \subseteq cur.deps
    BY DEF DepsMatching
  <2>3. /\ write \in Write /\ write.weld = weld /\ write.deps = kept /\ write.refs = cur.digest
        /\ write.keep
    <3> DEFINE v == Unchanged(cur)
    <3>1. v \in Write /\ v.refs = cur.digest /\ v.keep
      BY UnchangedTyped
    <3>2. write = [v EXCEPT !.weld = weld, !.deps = kept] /\ kept \in SUBSET Pins
      BY <1>1, <2>2
    <3> HIDE DEF v, kept, write
    <3> QED
      BY <3>1, <3>2 DEF Write
  <2>4. /\ w \in Write /\ w.weld = weld /\ w.deps = kept
        /\ w.keep => w.refs = cur.digest /\ cur.digest \cap Pinned(cur.deps \ kept) = {}
        /\ ~w.keep => w.refs = {}
    <3>1. /\ w \in {write, [write EXCEPT !.refs = {}, !.keep = FALSE]}
          /\ w.keep => w.refs \cap Pinned(cur.deps \ kept) = {}
      BY <2>1
    <3> HIDE DEF kept, write
    <3> QED
      BY <2>3, <3>1 DEF Write
  <2>5. i \notin PadIds /\ weld # cur.weld => Pinned(kept) \cap Processes \subseteq PadIds
    <3> SUFFICES ASSUME i \notin PadIds, NEW p \in Pinned(kept), p \in Processes, p \notin PadIds
                 PROVE  weld = cur.weld
      OBVIOUS
    <3>1. p \in Pinned(cur.deps) /\ WeldsOf(p) = {weld} /\ p \in Ids
      BY DEF DepsMatching, Pinned, Ids
    <3>2. CASE Exists(p)
      BY <3>1, <3>2 DEF WeldsOf, AssetsInv, Library, FactoryWeldsAgree, WeldsAgree
    <3>3. CASE ~Exists(p)
      <4>1. PICK s \in Latest(p) : TRUE
        BY <3>1, <3>3 DEF WeldsOf
      <4> QED
        BY <3>1, <4>1, FactoryAssetsConstants DEF Latest, AssetsInv, AssetsTypeOK, Replica, Ids
    <3> QED
      BY <3>2, <3>3
  <2>6. Known(kept) /\ OnePin(kept)
    BY <1>1, <2>2 DEF Known, OnePin, PinsSound, Pinned
  <2>7. w.keep => cur.digest \subseteq Pinned(kept)
    BY <1>1, <2>2, <2>4 DEF PinsSound, Pinned
  <2>8. PinsSound(w.deps, w.refs)
    BY <2>4, <2>6, <2>7 DEF PinsSound
  <2> HIDE DEF kept, write
  <2> QED
    BY <1>1, <2>4, <2>5, <2>6, <2>8 DEF PatchOf
<1>5. CASE w \in SetProjectDeps(u, i, cur)
  <2>1. PICK ps \in SUBSET Names :
          /\ w = [Unchanged(cur) EXCEPT !.deps = Resolve(u, cur.owner # None, ps)]
          /\ RefsAllowed(cur.digest, Resolve(u, cur.owner # None, ps))
    BY <1>5 DEF SetProjectDeps, NamedAtOnce, Names, Intact
  <2> DEFINE deps == Resolve(u, cur.owner # None, ps)
  <2>2. deps \in SUBSET Pins /\ Known(deps) /\ OnePin(deps)
    BY ResolveFits
  <2> HIDE DEF deps
  <2>3. w \in Write /\ w.weld = None /\ w.deps = deps /\ w.refs = cur.digest
    <3> DEFINE v == Unchanged(cur)
    <3>1. /\ v \in Write /\ v.weld = None /\ v.refs = cur.digest
          /\ w = [v EXCEPT !.deps = deps]
      BY <2>1, UnchangedTyped DEF deps
    <3> HIDE DEF v
    <3> QED
      BY <2>2, <3>1 DEF Write
  <2>4. PinsSound(deps, cur.digest)
    BY <2>1, <2>2 DEF PinsSound, RefsAllowed, deps
  <2> QED
    BY <1>1, <2>2, <2>3, <2>4 DEF PatchOf
<1> QED
  BY <1>2, <1>3, <1>4, <1>5 DEF Patches

\* So does the change that a pad's upload makes.
LEMMA AppPatchFits ==
  ASSUME AssetsInv, NEW u, NEW i \in Ids, Exists(i), NEW refs \in SUBSET Names,
         NEW w \in AppPatch(u, i, rows[i], refs)
  PROVE  PatchOf(i, w)
<1> DEFINE cur == rows[i]
           deps == FillProjectDeps(u, cur.owner # None, cur.deps, refs)
<1>1. CASE i \in Processes
  BY <1>1, StatusPatch DEF AppPatch, Statuses
<1>2. CASE i \notin Processes
  <2>1. /\ w = [Unchanged(cur) EXCEPT !.deps = deps, !.refs = refs, !.keep = FALSE]
        /\ RefsAllowed(refs, deps)
    BY <1>2 DEF AppPatch
  <2>2. deps \in SUBSET Pins /\ Known(deps) /\ OnePin(deps)
    BY RowFacts, FillFits DEF PinsSound
  <2> HIDE DEF deps
  <2>3. w \in Write /\ w.weld = None /\ w.deps = deps /\ w.refs = refs /\ ~w.keep
    <3> DEFINE v == Unchanged(cur)
    <3>1. /\ v \in Write /\ v.weld = None
          /\ w = [v EXCEPT !.deps = deps, !.refs = refs, !.keep = FALSE]
      BY <2>1, UnchangedTyped
    <3> HIDE DEF v
    <3> QED
      BY <2>2, <3>1 DEF Write
  <2> QED
    BY <2>1, <2>2, <2>3 DEF PatchOf, PinsSound, RefsAllowed
<1> QED
  BY <1>1, <1>2

\* A call that is to write a patch of the row it has read fits.
LEMMA UpdateOf ==
  ASSUME AssetsInv, NEW i \in Ids, Exists(i), NEW w, PatchOf(i, w),
         NEW e \in 1..MaxRev, i \notin PadIds => e <= rows[i].rev, NEW n \in 0..2
  PROVE  LET r == [op |-> "update", id |-> i, expected |-> e, seen |-> rows[i],
                   write |-> w, again |-> n]
         IN  r \in Request /\ r.op = "update" /\ Fits(r)
<1> DEFINE r == [op |-> "update", id |-> i, expected |-> e, seen |-> rows[i],
                 write |-> w, again |-> n]
<1>1. rows[i] \in Row /\ i \in used /\ rows[i].rev \in 1..MaxRev
  BY RowFacts
<1>2. rows[i].rev <= rows[i].rev
  BY <1>1, FactoryAssetsConstants
<1>3. r \in UpdateRequests
  BY <1>1, <1>2 DEF UpdateRequests, PatchOf
<1>4. r.op = "update" /\ r.id = i /\ r.expected = e /\ r.seen = rows[i] /\ r.write = w
  OBVIOUS
<1> HIDE DEF r
<1>5. UpdateFits(r)
  BY <1>1, <1>2, <1>4 DEF UpdateFits, SeenFits, PatchOf
<1> QED
  BY <1>3, <1>4, <1>5 DEF Fits, Request, r
\* What a person may author.
LEMMA AuthoredFits ==
  ASSUME AssetsInv, NEW u \in Users, NEW i \in Ids, NEW owner \in Users \cup {None},
         NEW status \in Statuses, NEW row \in Authored(u, i, owner, status)
  PROVE  row \in Row /\ PinsSound(row.deps, row.digest) /\ Known(row.deps) /\ Intact(row)
<1> DEFINE Filled(ds, refs) == FillProjectDeps(u, owner # None, ds, refs)
<1>1. PICK weld \in Welds, ds \in Nameable(u, i, owner # None), refs \in Contents(i) :
        /\ row = NewRow(owner, status, weld, Filled(ds, refs), refs)
        /\ RefsAllowed(row.refs, row.deps)
  BY DEF Authored
<1>2. ds \in SUBSET Pins /\ OnePin(ds) /\ \A d \in ds : PinAccepted(u, owner # None, d)
  BY DEF Nameable, NamedAtOnce, OnePin
<1>3. Known(ds)
  <2> SUFFICES ASSUME NEW d \in ds PROVE d[1] \in used \cup Platform
    BY DEF Known, Pinned
  <2>1. d[1] \in Names
    BY <1>2, PinnedNames DEF Pinned
  <2>2. d[1] \in Processes => d[1] \in used
    BY <1>2 DEF PinAccepted, MayPin, AssetsInv, Library, RowsUsed, Ids
  <2> QED
    BY <2>1, <2>2 DEF Names
<1>4. refs \in SUBSET Names
  BY DEF Contents, NamedAtOnce, Names
<1> DEFINE deps == Filled(ds, refs)
<1>5. deps \in SUBSET Pins /\ Known(deps) /\ OnePin(deps)
  BY <1>2, <1>3, <1>4, FillFits
<1>6. row = NewRow(owner, status, weld, deps, refs) /\ RefsAllowed(row.refs, row.deps)
  BY <1>1
<1> HIDE DEF deps
<1>7. row \in Row /\ row.deps = deps /\ row.refs = refs /\ row.digest = refs
  BY <1>4, <1>5, <1>6, NewRowTyped
<1> QED
  BY <1>5, <1>6, <1>7 DEF PinsSound, RefsAllowed, Intact

-----------------------------------------------------------------------------
(* The calls                                                               *)

\* An asset is created, by a person or on a pad.
LEMMA CreateKeepsInv ==
  ASSUME AssetsInv, calls' \in Nat, NEW u \in Users, CreateAsset(u) \/ CreatePadIn(u)
  PROVE  AssetsInv'
<1>1. PICK i \in Ids, owner \in Users \cup {None}, status \in Statuses :
        /\ Fresh(i) \/ i \in PadIds
        /\ \E row \in Authored(u, i, owner, status) : Begin(u, Inserting(i, row))
  BY DEF CreateAsset, CreatePadIn, PadMayUse, Statuses
<1>2. PICK row \in Authored(u, i, owner, status) : Begin(u, Inserting(i, row))
  BY <1>1
<1>3. row \in Row /\ PinsSound(row.deps, row.digest) /\ Known(row.deps) /\ Intact(row)
  BY AuthoredFits
<1> QED
  BY <1>1, <1>2, <1>3, InsertBegins

\* An empty row of the factory or of u.
LEMMA PlainRow ==
  ASSUME NEW owner \in Users \cup {None}, NEW status \in Statuses, NEW weld \in Welds
  PROVE  LET row == NewRow(owner, status, weld, {}, {})
         IN  /\ row \in Row /\ row.deps = {} /\ row.refs = {} /\ row.digest = {}
             /\ row.weld = weld /\ Intact(row)
BY NewRowTyped

\* A process pins nothing.
LEMMA NothingPinned == PinsSound({}, {}) /\ Known({}) /\ Pinned({}) = {} /\ OnePin({})
BY DEF PinsSound, Known, Pinned, OnePin

\* A process is copied under a fresh identity.
LEMMA CopyProcessKeepsInv ==
  ASSUME AssetsInv, calls' \in Nat, NEW u \in Users, CopyProcess(u)
  PROVE  AssetsInv'
<1>1. PICK n \in Processes, p \in Processes \cup Platform :
        /\ Fresh(n)
        /\ \/ /\ Exists(p)
              /\ \E owner \in {None, u} :
                   Begin(u, Inserting(n, NewRow(owner, "draft", rows[p].weld, {}, {})))
           \/ \E r \in Latest(p) : Begin(u, Inserting(n, NewRow(None, "draft", r.weld, {}, {})))
  BY DEF CopyProcess
<1>2. PICK owner \in Users \cup {None}, weld \in Welds :
        Begin(u, Inserting(n, NewRow(owner, "draft", weld, {}, {})))
  <2>1. Exists(p) => rows[p].weld \in Welds
    BY RowFacts DEF Exists
  <2>2. \A r \in Latest(p) : r.weld \in Welds
    BY DEF Latest, AssetsInv, AssetsTypeOK, Replica
  <2> QED
    BY <1>1, <2>1, <2>2
<1> DEFINE row == NewRow(owner, "draft", weld, {}, {})
<1>3. row \in Row /\ row.deps = {} /\ row.digest = {} /\ Intact(row)
  BY PlainRow DEF Statuses
<1>4. n \in Ids /\ Begin(u, Inserting(n, row))
  BY <1>2 DEF Ids
<1> HIDE DEF row
<1> QED
  BY <1>1, <1>3, <1>4, NothingPinned, InsertBegins

\* A person's asset becomes one of the factory's.
LEMMA PromoteKeepsInv ==
  ASSUME AssetsInv, calls' \in Nat, NEW u \in Users, PromoteToFactory(u)
  PROVE  AssetsInv'
<1>1. PICK i \in Ids, n \in Ids :
        /\ Exists(i) /\ Fresh(n) /\ rows[i].digest = rows[i].refs
        /\ Begin(u, Inserting(n, NewRow(None, "draft", rows[i].weld, rows[i].deps, rows[i].refs)))
  BY DEF PromoteToFactory, Intact
<1> DEFINE row == NewRow(None, "draft", rows[i].weld, rows[i].deps, rows[i].refs)
<1>2. row \in Row /\ row.deps = rows[i].deps /\ row.digest = rows[i].digest /\ Intact(row)
  <2>1. /\ rows[i].weld \in Welds /\ rows[i].deps \in SUBSET Pins /\ rows[i].refs \in SUBSET Names
        /\ "draft" \in Statuses /\ None \in Users \cup {None}
    BY <1>1, RowFacts DEF Statuses
  <2> QED
    BY <2>1, <1>1, NewRowTyped
<1>3. PinsSound(row.deps, row.digest) /\ Known(row.deps)
  BY <1>1, <1>2, RowFacts
<1>4. Begin(u, Inserting(n, row))
  BY <1>1
<1> HIDE DEF row
<1> QED
  BY <1>1, <1>2, <1>3, <1>4, InsertBegins

\* A change is worked out from the row as it is read.
LEMMA MutateKeepsInv ==
  ASSUME AssetsInv, calls' \in Nat, NEW u \in Users, MutateAsset(u)
  PROVE  AssetsInv'
<1>1. PICK i \in Ids : /\ Exists(i)
                      /\ \E e \in 1..(IF i \in PadIds THEN MaxRev ELSE rows[i].rev),
                            w \in Patches(u, i, rows[i]) :
                           Begin(u, [op |-> "update", id |-> i, expected |-> e, seen |-> rows[i],
                                     write |-> w, again |-> 0])
  BY DEF MutateAsset
<1>2. PICK e \in 1..(IF i \in PadIds THEN MaxRev ELSE rows[i].rev), w \in Patches(u, i, rows[i]) :
        Begin(u, [op |-> "update", id |-> i, expected |-> e, seen |-> rows[i],
                  write |-> w, again |-> 0])
  BY <1>1
<1> DEFINE r == [op |-> "update", id |-> i, expected |-> e, seen |-> rows[i],
                 write |-> w, again |-> 0]
<1>3. r \in Request /\ r.op = "update" /\ Fits(r)
  <2>1. PatchOf(i, w)
    BY <1>1, <1>2, PatchFits
  <2>2. 0 \in 0..2 /\ e \in 1..MaxRev /\ (i \notin PadIds => e <= rows[i].rev)
    BY <1>1, RowFacts, FactoryAssetsConstants
  <2> QED
    BY <1>1, <2>1, <2>2, UpdateOf
<1>4. Begin(u, r)
  BY <1>2
<1> HIDE DEF r
<1> QED
  BY <1>3, <1>4, BeginKeepsInv

\* A copy of a project begins, with the processes it pins still to do.
LEMMA CopyBegins ==
  ASSUME AssetsInv, calls' \in Nat, NEW u \in Users, CopyProject(u)
  PROVE  AssetsInv'
<1>1. PICK q \in Projects, owner \in Users \cup {None} :
        /\ Exists(q)
        /\ Begin(u, [op |-> "copy", seen |-> rows[q], owner |-> owner,
                     todo |-> rows[q].deps, deps |-> {}, made |-> {},
                     new |-> [p \in Processes \cup Platform |-> p]])
  BY DEF CopyProject
<1> DEFINE r == [op |-> "copy", seen |-> rows[q], owner |-> owner,
                 todo |-> rows[q].deps, deps |-> {}, made |-> {},
                 new |-> [p \in Processes \cup Platform |-> p]]
<1>2. /\ rows[q] \in Row /\ rows[q].deps \in SUBSET Pins
      /\ OnePin(rows[q].deps) /\ Known(rows[q].deps)
  BY <1>1, RowFacts DEF Ids, PinsSound
<1>3. r \in CopyRequests /\ r.op = "copy" /\ r.todo = rows[q].deps /\ r.deps = {}
  BY <1>2 DEF CopyRequests, Names
<1>4. Begin(u, r)
  BY <1>1
<1> HIDE DEF r
<1>5. Fits(r)
  BY <1>2, <1>3, NothingPinned DEF Fits, CopyFits
<1> QED
  BY <1>3, <1>4, <1>5, BeginKeepsInv DEF Request

\* Every call of a person begins with something that fits.
LEMMA CallsKeepInv ==
  ASSUME AssetsInv, calls' \in Nat, NEW u \in Users, FactoryCall(u)
  PROVE  AssetsInv'
<1>1. CASE ApplyAppContent(u)
  <2>0. PICK i \in Ids :
          \E refs \in Contents(i) : Begin(u, [op |-> "app", id |-> i, refs |-> refs, tries |-> 3])
    BY <1>1 DEF ApplyAppContent
  <2>1. PICK refs \in Contents(i) : Begin(u, [op |-> "app", id |-> i, refs |-> refs, tries |-> 3])
    BY <2>0
  <2> DEFINE r == [op |-> "app", id |-> i, refs |-> refs, tries |-> 3]
  <2>2. refs \in SUBSET Names
    BY DEF Contents, NamedAtOnce, Names
  <2>3. r \in Request /\ r.op = "app"
    BY <2>2 DEF Request, AppRequests
  <2>4. Begin(u, r)
    BY <2>1
  <2> HIDE DEF r
  <2> QED
    BY <2>3, <2>4, BeginKeepsInv DEF Fits
<1>2. CASE DeleteAsset(u)
  <2>1. PICK i \in Ids : Begin(u, [op |-> "delete", id |-> i, rest |-> {}])
    BY <1>2 DEF DeleteAsset
  <2> DEFINE r == [op |-> "delete", id |-> i, rest |-> {}]
  <2>2. r \in Request /\ r.op = "delete"
    BY DEF Request, DeleteRequests
  <2>3. Begin(u, r)
    BY <2>1
  <2> HIDE DEF r
  <2> QED
    BY <2>2, <2>3, BeginKeepsInv DEF Fits
<1> QED
  BY <1>1, <1>2, CreateKeepsInv, CopyProcessKeepsInv, PromoteKeepsInv, MutateKeepsInv, CopyBegins
     DEF FactoryCall

-----------------------------------------------------------------------------
(* The writes                                                              *)

\* The kind of a pending request says what it is and how it fits.
LEMMA RequestOf ==
  ASSUME AssetsInv, NEW u \in Users, req[u] # None
  PROVE  /\ req[u] \in Request /\ Fits(req[u])
         /\ req[u].op = "update" => req[u] \in UpdateRequests
         /\ req[u].op = "app" => req[u] \in AppRequests
         /\ req[u].op = "insert" => req[u] \in InsertRequests
         /\ req[u].op = "delete" => req[u] \in DeleteRequests
         /\ req[u].op = "undo" => req[u] \in UndoRequests
         /\ req[u].op = "copy" => req[u] \in CopyRequests
<1>1. req[u] \in Request /\ Fits(req[u])
  BY DEF AssetsInv, AssetsTypeOK, RequestsFit
<1>2. ASSUME NEW r \in Request
      PROVE  /\ r.op = "update" => r \in UpdateRequests
             /\ r.op = "app" => r \in AppRequests
             /\ r.op = "insert" => r \in InsertRequests
             /\ r.op = "delete" => r \in DeleteRequests
             /\ r.op = "undo" => r \in UndoRequests
             /\ r.op = "copy" => r \in CopyRequests
  BY DEF Request, UpdateRequests, AppRequests, InsertRequests, DeleteRequests, UndoRequests,
     CopyRequests
<1> QED
  BY <1>1, <1>2

\* A write of u, who goes on with r: no other call is about to give an identity that is
\* given now.
LEMMA GoesOn ==
  ASSUME AssetsInv, calls' \in Nat, replicas' \subseteq Replica, Shaped,
         NEW u \in Users, NEW r \in Request \cup {None}, req' = [req EXCEPT ![u] = r],
         r # None => r.op # "insert" /\ Fits(r)',
         NEW given, used' \subseteq used \cup given,
         \A v \in Users \ {u} : Asks(v, "insert") /\ req[v].id \in given => req[v].id \in PadIds
  PROVE  AssetsInv'
<1>1. ASSUME NEW v \in Users \ {u}, Asks(v, "insert"), req[v].id \notin PadIds
      PROVE  req[v].id \notin used' /\ (r # None /\ r.op = "insert" => req[v].id # r.id)
  <2>1. req[v].id \notin used
    BY <1>1, RequestOf DEF Fits, InsertFits, Asks
  <2> QED
    BY <1>1, <2>1
<1> QED
  BY <1>1, StepKeepsInv

\* The same when the rows stay, ...
LEMMA GoesOnQuietly ==
  ASSUME AssetsInv, calls' \in Nat, replicas' \subseteq Replica, RowsKept,
         NEW u \in Users, NEW r \in Request \cup {None}, req' = [req EXCEPT ![u] = r],
         r # None => r.op # "insert" /\ Fits(r)
  PROVE  AssetsInv'
<1>1. Shaped /\ used' \subseteq used \cup {}
  BY DEF Shaped, RowsKept
<1>2. r # None => Fits(r)'
  BY DEF RowsKept, Fits, UpdateFits, SeenFits, InsertFits, CopyFits, Known, Exists
<1> QED
  BY <1>1, <1>2, GoesOn

\* ... and when u has done, or goes on with what does not refer to a row.
LEMMA RowWritten ==
  ASSUME AssetsInv, calls' \in Nat, replicas' \subseteq Replica, Shaped, used' = used,
         NEW u \in Users, NEW r \in Request \cup {None}, req' = [req EXCEPT ![u] = r],
         r # None => r.op \in {"app", "delete", "undo"}
  PROVE  AssetsInv'
<1>1. r # None => Fits(r)'
  BY DEF Fits
<1>2. used' \subseteq used \cup {}
  OBVIOUS
<1> QED
  BY <1>1, <1>2, GoesOn

\* An update commits if the row still has the revision it was worked out from.
LEMMA UpdateKeepsInv ==
  ASSUME AssetsInv, calls' \in Nat, NEW u \in Users, UpdateGovernedAsset(u)
  PROVE  AssetsInv'
<1>1. PICK r \in UpdateRequests : r = req[u] /\ UpdateFits(r)
  BY RequestOf DEF UpdateGovernedAsset, Fits
<1> DEFINE i == r.id
           w == r.write
           weld == IF w.weld = None THEN rows[i].weld ELSE w.weld
           row == [rows[i] EXCEPT !.status = w.status, !.weld = weld, !.deps = w.deps,
                                  !.refs = IF w.keep THEN rows[i].refs ELSE w.refs,
                                  !.digest = w.refs, !.rev = r.expected + 1]
           more == [op |-> "app", id |-> i, refs |-> w.refs, tries |-> r.again]
<1>2. /\ i \in Ids /\ w \in Write /\ r.again \in 0..2 /\ r.expected \in 1..MaxRev
      /\ r.seen \in Row
  BY DEF UpdateRequests
<1>3. w.status \in Statuses /\ w.weld \in Welds \cup {None} /\ w.deps \in SUBSET Pins
      /\ w.refs \in SUBSET Names /\ w.keep \in BOOLEAN
  BY <1>2 DEF Write
<1>4. UNCHANGED <<used, replicas>> /\ replicas' \subseteq Replica
  BY DEF UpdateGovernedAsset, AssetsInv, AssetsTypeOK
<1>5. CASE UNCHANGED rows
  <2>1. req' = [req EXCEPT ![u] = None] \/ (r.again > 0 /\ req' = [req EXCEPT ![u] = more])
    BY <1>1 DEF UpdateGovernedAsset, Goes, Done
  <2>2. r.again > 0 => more \in Request /\ more.op = "app"
    BY <1>2, <1>3 DEF Request, AppRequests
  <2>3. RowsKept
    BY <1>4, <1>5 DEF RowsKept
  <2> HIDE DEF more
  <2>4. PICK n \in Request \cup {None} : req' = [req EXCEPT ![u] = n] /\ (n # None => n.op = "app")
    BY <2>1, <2>2
  <2>5. n # None => Fits(n)
    BY <2>4 DEF Fits
  <2> QED
    BY <1>4, <2>3, <2>4, <2>5, GoesOnQuietly
<1>6. CASE /\ Exists(i) /\ RevisionMatches(r) /\ r.expected < MaxRev
           /\ GuardProcessWeldKind(i, weld)
           /\ LockAssetDeps(weld, w.deps, rows[i].deps)
           /\ rows' = [rows EXCEPT ![i] = row]
  <2>1. rows[i] \in Row /\ rows[i].weld \in Welds /\ rows[i].rev \in 1..MaxRev
    BY <1>2, <1>6, RowFacts
  <2>2. r.expected = rows[i].rev /\ r.expected + 1 \in 1..MaxRev /\ weld \in Welds
    BY <1>2, <1>3, <1>6, <2>1, FactoryAssetsConstants DEF RevisionMatches
  <2>3. i \notin PadIds => r.seen = rows[i]
    <3> SUFFICES ASSUME i \notin PadIds PROVE r.seen = rows[i]
      OBVIOUS
    <3>1. r.seen.rev \in Nat /\ rows[i].rev \in Nat
      BY <1>2, <2>1, FactoryAssetsConstants DEF Row
    <3>2. Exists(i) /\ SeenFits(r) /\ r.expected <= r.seen.rev
      BY <1>1, <1>6 DEF UpdateFits
    <3>3. r.seen.rev <= rows[i].rev /\ rows[i].rev <= r.seen.rev
      BY <2>2, <3>2 DEF SeenFits
    <3>4. r.seen.rev = rows[i].rev
      BY <3>1, <3>3
    <3> QED
      BY <3>2, <3>4 DEF SeenFits
  <2>4. /\ row \in Row /\ row.weld = weld /\ row.deps = w.deps /\ row.digest = w.refs
        /\ row.refs = IF w.keep THEN rows[i].refs ELSE w.refs
        /\ row.rev = rows[i].rev + 1
    <3> DEFINE cur == rows[i]
    <3>1. /\ cur \in Row
          /\ row = [cur EXCEPT !.status = w.status, !.weld = weld, !.deps = w.deps,
                               !.refs = IF w.keep THEN cur.refs ELSE w.refs,
                               !.digest = w.refs, !.rev = cur.rev + 1]
          /\ cur.rev + 1 \in 1..MaxRev
      BY <2>1, <2>2
    <3> HIDE DEF cur, weld, w, row
    <3>2. /\ row \in Row /\ row.weld = weld /\ row.deps = w.deps /\ row.digest = w.refs
          /\ row.refs = IF w.keep THEN cur.refs ELSE w.refs
          /\ row.rev = cur.rev + 1
      BY <1>3, <2>2, <3>1 DEF Row, Names
    <3> QED
      BY <3>2 DEF cur
  <2>5. i \notin PadIds /\ weld # rows[i].weld => Pinned(w.deps) \cap Processes \subseteq PadIds
    BY <1>1, <2>3 DEF UpdateFits
  <2>6. i \notin PadIds /\ w.keep => w.refs = rows[i].refs
    BY <1>1, <2>3 DEF UpdateFits
  <2> HIDE DEF row, weld
  <2>7. PinsSound(row.deps, row.digest) /\ Known(row.deps) /\ (i \notin PadIds => Intact(row))
    BY <1>1, <2>4, <2>6 DEF UpdateFits, Intact
  <2>8. RowChanged(i, row)
    BY <1>2, <1>4, <1>6, <2>4, <2>5, <2>7 DEF RowChanged
  <2>9. Shaped
    BY <1>2, <2>4, <2>8 DEF Shaped
  <2>10. req' = [req EXCEPT ![u] = None]
    BY <1>1, <1>6 DEF UpdateGovernedAsset, Done
  <2> QED
    BY <1>4, <2>9, <2>10, RowWritten
<1> QED
  BY <1>1, <1>5, <1>6 DEF UpdateGovernedAsset

\* An insertion commits if nobody has the identity.
LEMMA InsertKeepsInv ==
  ASSUME AssetsInv, calls' \in Nat, NEW u \in Users, InsertGovernedAsset(u)
  PROVE  AssetsInv'
<1>1. PICK r \in InsertRequests : r = req[u] /\ InsertFits(r)
  BY RequestOf DEF InsertGovernedAsset, Fits
<1>2. /\ r.id \in Ids /\ r.row \in Row
      /\ req' = [req EXCEPT ![u] = None] /\ replicas' \subseteq Replica
  BY <1>1 DEF InsertGovernedAsset, InsertRequests, Done, AssetsInv, AssetsTypeOK
<1>3. CASE UNCHANGED <<rows, used>>
  BY <1>2, <1>3, GoesOnQuietly DEF RowsKept
<1>4. CASE /\ ~Exists(r.id) /\ LockAssetDeps(r.row.weld, r.row.deps, {})
           /\ rows' = [rows EXCEPT ![r.id] = r.row] /\ used' = used \cup {r.id}
  <2>1. RowAdded(r.id, r.row)
    BY <1>1, <1>2, <1>4 DEF RowAdded, InsertFits
  <2>2. Shaped
    BY <1>2, <2>1 DEF Shaped
  <2>3. \A v \in Users \ {u} : Asks(v, "insert") /\ req[v].id \in {r.id} => req[v].id \in PadIds
    BY <1>1 DEF AssetsInv, InsertsApart, Asks, InsertGovernedAsset
  <2>4. used' \subseteq used \cup {r.id}
    BY <1>4
  <2> QED
    BY <1>2, <2>2, <2>3, <2>4, GoesOn
<1> QED
  BY <1>1, <1>3, <1>4 DEF InsertGovernedAsset

\* A deletion removes the row it names, whatever refers to it by now.
LEMMA DeleteKeepsInv ==
  ASSUME AssetsInv, calls' \in Nat, NEW u \in Users, DeleteGovernedAsset(u)
  PROVE  AssetsInv'
<1>1. PICK r \in DeleteRequests : r = req[u]
  BY RequestOf DEF DeleteGovernedAsset
<1> DEFINE more == [op |-> "undo", made |-> r.rest]
<1>2. /\ r.id \in Ids /\ r.rest \in SUBSET Processes
      /\ RowRemoved(r.id) /\ replicas' \subseteq Replica
      /\ req' = [req EXCEPT ![u] = None] \/ req' = [req EXCEPT ![u] = more]
  BY <1>1 DEF DeleteGovernedAsset, DeleteRequests, Done, Goes, RowRemoved, AssetsInv, AssetsTypeOK
<1>3. more \in Request /\ more.op = "undo"
  BY <1>2 DEF Request, UndoRequests
<1> HIDE DEF more
<1>4. Shaped /\ used' = used
  BY <1>2 DEF Shaped, RowRemoved
<1>5. PICK n \in Request \cup {None} : req' = [req EXCEPT ![u] = n] /\ (n # None => n.op = "undo")
  BY <1>2, <1>3
<1> QED
  BY <1>2, <1>4, <1>5, RowWritten

\* A pad's upload works its change out anew, from the row as it is.
LEMMA ApplyKeepsInv ==
  ASSUME AssetsInv, calls' \in Nat, NEW u \in Users, ApplyAppOnce(u)
  PROVE  AssetsInv'
<1>1. PICK r \in AppRequests : r = req[u]
  BY RequestOf DEF ApplyAppOnce
<1> DEFINE i == r.id
           next(w) == [op |-> "update", id |-> i, expected |-> rows[i].rev, seen |-> rows[i],
                       write |-> w, again |-> r.tries - 1]
<1>2. i \in Ids /\ r.refs \in SUBSET Names /\ r.tries - 1 \in 0..2
  BY DEF AppRequests
<1>3. RowsKept /\ replicas' \subseteq Replica
  BY DEF ApplyAppOnce, RowsKept, AssetsInv, AssetsTypeOK
<1>4. \/ req' = [req EXCEPT ![u] = None]
      \/ Exists(i) /\ \E w \in AppPatch(u, i, rows[i], r.refs) : req' = [req EXCEPT ![u] = next(w)]
  BY <1>1 DEF ApplyAppOnce, Done, Goes
<1>5. ASSUME Exists(i), NEW w \in AppPatch(u, i, rows[i], r.refs)
      PROVE  next(w) \in Request /\ next(w).op = "update" /\ Fits(next(w))
  <2>1. PatchOf(i, w)
    BY <1>2, <1>5, AppPatchFits
  <2>2. rows[i].rev \in 1..MaxRev /\ rows[i].rev <= rows[i].rev
    BY <1>2, <1>5, RowFacts, FactoryAssetsConstants
  <2> QED
    BY <1>2, <1>5, <2>1, <2>2, UpdateOf
<1> HIDE DEF next
<1>6. PICK n \in Request \cup {None} :
        req' = [req EXCEPT ![u] = n] /\ (n # None => n.op = "update" /\ Fits(n))
  BY <1>4, <1>5
<1> QED
  BY <1>3, <1>6, GoesOnQuietly

-----------------------------------------------------------------------------
(* Copying a project                                                       *)

\* The copy goes on with one dependency less to look at, and with pins of one name more.
LEMMA CopyGoesOn ==
  ASSUME NEW x, CopyFits(x), NEW d \in x.todo, NEW pins, NEW n,
         \A e \in pins : e[1] = n, OnePin(pins),
         n \notin Pinned(x.todo \ {d}) \cup Pinned(x.deps),
         used \subseteq used', Known(pins)',
         NEW y, y.op = "copy", y.todo = x.todo \ {d}, y.deps = x.deps \cup pins
  PROVE  Fits(y)'
<1>1. OnePin(y.todo) /\ OnePin(y.deps)
  BY DEF CopyFits, OnePin, Pinned
<1>2. Known(y.todo)' /\ Known(y.deps)'
  BY DEF CopyFits, Known, Pinned
<1>3. Pinned(y.todo) \cap Pinned(y.deps) = {}
  BY DEF CopyFits, Pinned
<1>4. CopyFits(y)'
  BY <1>1, <1>2, <1>3 DEF CopyFits
<1> QED
  BY <1>4 DEF Fits

\* A copy with one process less to do, and pins added, is still one.
LEMMA CopyTyped ==
  ASSUME NEW x \in CopyRequests, NEW d, NEW pins \in SUBSET Pins
  PROVE  LET y == [[x EXCEPT !.todo = @ \ {d}] EXCEPT !.deps = @ \cup pins]
         IN  y \in CopyRequests /\ y.op = "copy" /\ y.todo = x.todo \ {d} /\ y.deps = x.deps \cup pins
<1> DEFINE r == [x EXCEPT !.todo = @ \ {d}]
<1>1. r \in CopyRequests /\ r.op = "copy" /\ r.todo = x.todo \ {d} /\ r.deps = x.deps
  BY DEF CopyRequests
<1> HIDE DEF r
<1>2. /\ [r EXCEPT !.deps = @ \cup pins] \in CopyRequests
      /\ [r EXCEPT !.deps = @ \cup pins].op = "copy"
      /\ [r EXCEPT !.deps = @ \cup pins].todo = r.todo
      /\ [r EXCEPT !.deps = @ \cup pins].deps = r.deps \cup pins
  BY <1>1 DEF CopyRequests
<1> QED
  BY <1>1, <1>2 DEF r

\* A copy that has made one more process is still one.
LEMMA MadeTyped ==
  ASSUME NEW x \in CopyRequests, NEW d \in x.todo, NEW n \in Processes
  PROVE  LET r == [x EXCEPT !.todo = @ \ {d}]
             y == [r EXCEPT !.deps = @ \cup {<<n, 1>>}, !.made = @ \cup {n}, !.new[d[1]] = n]
         IN  /\ y \in CopyRequests /\ y.op = "copy" /\ y.todo = x.todo \ {d}
             /\ y.deps = x.deps \cup {<<n, 1>>}
<1> DEFINE r == [x EXCEPT !.todo = @ \ {d}]
           new == [r.new EXCEPT ![d[1]] = n]
           y == [r EXCEPT !.deps = @ \cup {<<n, 1>>}, !.made = @ \cup {n}, !.new = new]
<1>1. r \in CopyRequests /\ r.op = "copy" /\ r.todo = x.todo \ {d} /\ r.deps = x.deps
  BY DEF CopyRequests
<1>2. <<n, 1>> \in Pins /\ n \in Names
  BY FactoryAssetsConstants DEF Pins, Names
<1>3. y = [r EXCEPT !.deps = @ \cup {<<n, 1>>}, !.made = @ \cup {n}, !.new[d[1]] = n]
  OBVIOUS
<1> HIDE DEF r
<1>4. new \in [Names -> Names]
  BY <1>1, <1>2 DEF CopyRequests
<1> HIDE DEF new
<1>5. y \in CopyRequests /\ y.op = "copy" /\ y.todo = r.todo /\ y.deps = r.deps \cup {<<n, 1>>}
  BY <1>1, <1>2, <1>4 DEF CopyRequests
<1> QED
  BY <1>1, <1>3, <1>5 DEF r

\* A copy that fails turns to undoing what it made.
LEMMA GiveUpKeepsInv ==
  ASSUME AssetsInv, calls' \in Nat, NEW u \in Users, Copying(u), GiveUpCopy(u),
         UNCHANGED <<rows, used, replicas>>
  PROVE  AssetsInv'
<1>1. PICK x \in CopyRequests : x = req[u]
  BY RequestOf DEF Copying
<1> DEFINE r == [op |-> "undo", made |-> x.made]
<1>2. r \in Request /\ r.op = "undo"
  BY DEF CopyRequests, Request, UndoRequests
<1>3. req' = [req EXCEPT ![u] = r]
  BY <1>1 DEF GiveUpCopy, Goes
<1> HIDE DEF r
<1>4. RowsKept /\ replicas' \subseteq Replica /\ Fits(r)
  BY <1>2 DEF RowsKept, Fits, AssetsInv, AssetsTypeOK
<1> QED
  BY <1>2, <1>3, <1>4, GoesOnQuietly

\* A copy of a project deals with one process: it copies it, keeps its pin or fails.
LEMMA CopyDepKeepsInv ==
  ASSUME AssetsInv, calls' \in Nat, NEW u \in Users, CopyDep(u)
  PROVE  AssetsInv'
<1>0. Copying(u) /\ UNCHANGED replicas /\ replicas' \subseteq Replica
  BY DEF CopyDep, AssetsInv, AssetsTypeOK
<1>1. PICK x \in CopyRequests : x = req[u] /\ CopyFits(x)
  BY <1>0, RequestOf DEF Copying, Fits
<1> DEFINE r(d) == [x EXCEPT !.todo = @ \ {d}]
           kept(d, pins) == [r(d) EXCEPT !.deps = @ \cup pins]
           copied(d, n) == [r(d) EXCEPT !.deps = @ \cup {<<n, 1>>}, !.made = @ \cup {n},
                                        !.new[d[1]] = n]
<1>2. PICK d \in x.todo :
        \/ UNCHANGED <<rows, used>> /\ GiveUpCopy(u)
        \/ UNCHANGED <<rows, used>> /\ Goes(u, kept(d, {d}))
        \/ UNCHANGED <<rows, used>> /\ Goes(u, kept(d, PinOf(u, x.owner # None, d[1])))
        \/ \E n \in Processes, weld \in Welds :
              /\ Fresh(n)
              /\ rows' = [rows EXCEPT ![n] = NewRow(x.owner, "available", weld, {}, {})]
              /\ used' = used \cup {n}
              /\ Goes(u, copied(d, n))
  <2>1. \A p : Exists(p) => rows[p].weld \in Welds
    BY RowFacts DEF Exists
  <2>2. \A p : \A s \in Latest(p) : s.weld \in Welds
    BY DEF Latest, AssetsInv, AssetsTypeOK, Replica
  <2>3. \A d : r(d).owner = x.owner
    OBVIOUS
  <2>4. PICK d \in x.todo :
          LET p == d[1]
              secret == \E s \in Latest(p) : ~s.copyable
              theirs == Exists(p) /\ ~CanTouchPersonal(u, rows[p].owner)
              source == IF Exists(p) THEN {[weld |-> rows[p].weld, status |-> rows[p].status]}
                        ELSE {[weld |-> s.weld, status |-> s.status] : s \in Latest(p)}
              Keep(pins) == /\ IF pins = {} THEN GiveUpCopy(u) ELSE Goes(u, kept(d, pins))
                            /\ UNCHANGED <<rows, used>>
          IN  IF secret THEN Keep({d})
              ELSE IF theirs THEN Keep(PinOf(u, r(d).owner # None, p))
              ELSE IF \A s \in source : s.status # "available" THEN Keep({})
              ELSE \E n \in Processes, s \in source :
                     /\ Fresh(n)
                     /\ rows' = [rows EXCEPT ![n] = NewRow(r(d).owner, "available", s.weld, {}, {})]
                     /\ used' = used \cup {n}
                     /\ Goes(u, copied(d, n))
    BY ZenonT(60), <1>1 DEF CopyDep
  <2> HIDE DEF kept, copied
  <2>5. \A s \in IF Exists(d[1]) THEN {[weld |-> rows[d[1]].weld, status |-> rows[d[1]].status]}
                 ELSE {[weld |-> t.weld, status |-> t.status] : t \in Latest(d[1])} :
          s.weld \in Welds
    BY <2>1, <2>2
  <2> QED
    BY <2>3, <2>4, <2>5
<1>3. x.todo \in SUBSET Pins /\ x.owner \in Users \cup {None} /\ d \in Pins /\ d[1] \in Names
  BY <1>1, PinnedNames DEF CopyRequests, Pinned
<1>4. d[1] \notin Pinned(x.todo \ {d}) \cup Pinned(x.deps)
  BY <1>1 DEF CopyFits, OnePin, Pinned
<1>5. CASE UNCHANGED <<rows, used>> /\ GiveUpCopy(u)
  BY <1>0, <1>5, GiveUpKeepsInv
<1>6. ASSUME NEW pins \in SUBSET Pins, \A e \in pins : e[1] = d[1], OnePin(pins), Known(pins),
             UNCHANGED <<rows, used>>, Goes(u, kept(d, pins))
      PROVE  AssetsInv'
  <2> DEFINE y == kept(d, pins)
  <2>1. y \in Request /\ y.op = "copy" /\ y.todo = x.todo \ {d} /\ y.deps = x.deps \cup pins
    <3>1. y \in CopyRequests /\ y.op = "copy" /\ y.todo = x.todo \ {d} /\ y.deps = x.deps \cup pins
      BY CopyTyped
    <3> QED
      BY <3>1 DEF Request
  <2>2. req' = [req EXCEPT ![u] = y]
    BY <1>6 DEF Goes
  <2> HIDE DEF y
  <2>3. Shaped /\ used \subseteq used' /\ used' \subseteq used \cup {} /\ Known(pins)'
    BY <1>6 DEF Shaped, RowsKept, Known
  <2>4. Fits(y)'
    BY <1>1, <1>4, <1>6, <2>1, <2>3, CopyGoesOn
  <2> QED
    BY <1>0, <2>1, <2>2, <2>3, <2>4, GoesOn
<1>7. CASE UNCHANGED <<rows, used>> /\ Goes(u, kept(d, {d}))
  <2>1. {d} \in SUBSET Pins /\ OnePin({d}) /\ Known({d})
    BY <1>1, <1>3 DEF OnePin, Known, CopyFits, Pinned
  <2> QED
    BY <1>6, <1>7, <2>1
<1>8. CASE UNCHANGED <<rows, used>> /\ Goes(u, kept(d, PinOf(u, x.owner # None, d[1])))
  <2> DEFINE pins == PinOf(u, x.owner # None, d[1])
  <2>1. /\ pins \in SUBSET Pins /\ OnePin(pins) /\ Known(pins)
        /\ \A e \in pins : e[1] = d[1]
    BY <1>3, PinOfFits DEF OnePin, Known, Pinned
  <2> QED
    BY <1>6, <1>8, <2>1
<1>9. ASSUME NEW n \in Processes, NEW weld \in Welds, Fresh(n),
             rows' = [rows EXCEPT ![n] = NewRow(x.owner, "available", weld, {}, {})],
             used' = used \cup {n}, Goes(u, copied(d, n))
      PROVE  AssetsInv'
  <2> DEFINE y == copied(d, n)
             row == NewRow(x.owner, "available", weld, {}, {})
             pins == {<<n, 1>>}
  <2>1. y \in Request /\ y.op = "copy" /\ y.todo = x.todo \ {d} /\ y.deps = x.deps \cup pins
    <3>1. y \in CopyRequests /\ y.op = "copy" /\ y.todo = x.todo \ {d} /\ y.deps = x.deps \cup pins
      BY MadeTyped
    <3> QED
      BY <3>1 DEF Request
  <2>2. req' = [req EXCEPT ![u] = y] /\ rows' = [rows EXCEPT ![n] = row]
    BY <1>9 DEF Goes
  <2>3. row \in Row /\ row.deps = {} /\ row.digest = {} /\ Intact(row)
    BY <1>3, PlainRow DEF Statuses
  <2>4. /\ \A e \in pins : e[1] = n
        /\ OnePin(pins) /\ Known(pins)'
    BY <1>9 DEF OnePin, Known, Pinned
  <2> HIDE DEF y, row, pins
  <2>5. n \in Ids /\ n \notin used /\ n \notin Platform /\ ~Exists(n)
    BY <1>9, FactoryAssetsConstants DEF Fresh, Ids, AssetsInv, Library, RowsUsed
  <2>6. RowAdded(n, row)
    BY <1>9, <2>2, <2>3, <2>5, NothingPinned DEF RowAdded, LockAssetDeps
  <2>7. Shaped /\ used \subseteq used' /\ used' \subseteq used \cup {n}
    BY <1>9, <2>3, <2>5, <2>6 DEF Shaped
  <2>8. n \notin Pinned(x.todo \ {d}) \cup Pinned(x.deps)
    BY <1>1, <2>5 DEF CopyFits, Known, Pinned
  <2>9. Fits(y)'
    BY <1>1, <2>1, <2>4, <2>7, <2>8, CopyGoesOn
  <2>10. \A v \in Users \ {u} : Asks(v, "insert") /\ req[v].id \in {n} => req[v].id \in PadIds
    BY <1>9 DEF Fresh, Asks
  <2> QED
    BY <1>0, <2>1, <2>2, <2>7, <2>9, <2>10, GoesOn
<1> QED
  BY <1>2, <1>5, <1>7, <1>8, <1>9

\* The project's own copy is written last, with the pins of its processes.
LEMMA InsertCopyKeepsInv ==
  ASSUME AssetsInv, calls' \in Nat, NEW u \in Users, InsertProjectCopy(u)
  PROVE  AssetsInv'
<1>0. Copying(u) /\ UNCHANGED replicas /\ replicas' \subseteq Replica
  BY DEF InsertProjectCopy, AssetsInv, AssetsTypeOK
<1> DEFINE x == req[u]
           refs == {x.new[p] : p \in x.seen.refs}
<1>1. x \in CopyRequests /\ CopyFits(x)
  BY <1>0, RequestOf DEF Copying, Fits
<1>2. CASE GiveUpCopy(u) /\ UNCHANGED <<rows, used>>
  BY <1>0, <1>2, GiveUpKeepsInv
<1>3. CASE /\ RefsAllowed(refs, x.deps) /\ LockAssetDeps(x.seen.weld, x.deps, {})
           /\ \E n \in Projects :
                /\ Fresh(n)
                /\ rows' = [rows EXCEPT ![n] =
                              NewRow(x.owner, "draft", x.seen.weld, x.deps, refs)]
                /\ used' = used \cup {n}
           /\ Done(u)
  <2>1. PICK n \in Projects :
          /\ Fresh(n)
          /\ rows' = [rows EXCEPT ![n] = NewRow(x.owner, "draft", x.seen.weld, x.deps, refs)]
          /\ used' = used \cup {n}
    BY <1>3
  <2>2. /\ x.seen.weld \in Welds /\ x.owner \in Users \cup {None} /\ x.deps \in SUBSET Pins
        /\ refs \in SUBSET Names /\ "draft" \in Statuses
    BY <1>1 DEF CopyRequests, Row, Names, Statuses
  <2> HIDE DEF refs, x
  <2> DEFINE row == NewRow(x.owner, "draft", x.seen.weld, x.deps, refs)
  <2>3. /\ row \in Row /\ row.weld = x.seen.weld /\ row.deps = x.deps /\ row.digest = refs
        /\ Intact(row)
    BY <2>2, NewRowTyped
  <2>4. rows' = [rows EXCEPT ![n] = row]
    BY <2>1
  <2> HIDE DEF row
  <2>5. n \in Ids /\ n \notin used /\ ~Exists(n)
    BY <2>1 DEF Fresh, Ids, AssetsInv, Library, RowsUsed
  <2>6. PinsSound(row.deps, row.digest) /\ Known(row.deps)
    BY <1>1, <1>3, <2>3 DEF PinsSound, RefsAllowed, CopyFits
  <2>7. RowAdded(n, row)
    BY <1>3, <2>1, <2>3, <2>4, <2>5, <2>6 DEF RowAdded
  <2>8. Shaped /\ used' \subseteq used \cup {n}
    BY <2>1, <2>3, <2>5, <2>7 DEF Shaped
  <2>9. \A v \in Users \ {u} : Asks(v, "insert") /\ req[v].id \in {n} => req[v].id \in PadIds
    BY <2>1 DEF Fresh, Asks
  <2>10. req' = [req EXCEPT ![u] = None]
    BY <1>3 DEF Done
  <2> QED
    BY <1>0, <2>8, <2>9, <2>10, GoesOn
<1>4. \/ GiveUpCopy(u) /\ UNCHANGED <<rows, used>>
      \/ /\ RefsAllowed(refs, x.deps) /\ LockAssetDeps(x.seen.weld, x.deps, {})
         /\ \E n \in Projects :
              /\ Fresh(n)
              /\ rows' = [rows EXCEPT ![n] = NewRow(x.owner, "draft", x.seen.weld, x.deps, refs)]
              /\ used' = used \cup {n}
         /\ Done(u)
  BY DEF InsertProjectCopy
<1> QED
  BY <1>2, <1>3, <1>4

\* A failed copy turns to what it made, one process at a time, and leaves what is pinned.
LEMMA UndoKeepsInv ==
  ASSUME AssetsInv, calls' \in Nat, NEW u \in Users, UndoCopy(u)
  PROVE  AssetsInv'
<1>1. PICK r \in UndoRequests : r = req[u]
  BY RequestOf DEF UndoCopy
<1>2. RowsKept /\ replicas' \subseteq Replica
  BY DEF UndoCopy, RowsKept, AssetsInv, AssetsTypeOK
<1> DEFINE delete(n) == [op |-> "delete", id |-> n, rest |-> r.made \ {n}]
           undo(n) == [op |-> "undo", made |-> r.made \ {n}]
<1>3. \/ req' = [req EXCEPT ![u] = None]
      \/ \E n \in r.made : \/ req' = [req EXCEPT ![u] = delete(n)]
                           \/ req' = [req EXCEPT ![u] = undo(n)]
  BY <1>1 DEF UndoCopy, Done, Goes
<1>4. \A n \in r.made : /\ delete(n) \in Request /\ delete(n).op = "delete"
                        /\ undo(n) \in Request /\ undo(n).op = "undo"
  BY DEF UndoRequests, DeleteRequests, Request, Ids
<1> HIDE DEF delete, undo
<1>5. PICK n \in Request \cup {None} :
        req' = [req EXCEPT ![u] = n] /\ (n # None => n.op \in {"delete", "undo"})
  BY <1>3, <1>4
<1>6. n # None => Fits(n)
  BY <1>5 DEF Fits
<1> QED
  BY <1>2, <1>5, <1>6, GoesOnQuietly

-----------------------------------------------------------------------------
(* What the runs check                                                     *)

\* A process there is to begin with is a sound row.
LEMMA InitialProcess ==
  ASSUME NEW owner \in Users \cup {None}, NEW weld \in Welds
  PROVE  LET row == NewRow(owner, "available", weld, {}, {})
         IN  /\ row \in Row /\ row.weld = weld /\ row.refs = {} /\ row.digest = row.refs
             /\ Pinned(row.deps) = row.refs /\ OnePin(row.deps)
<1> DEFINE row == NewRow(owner, "available", weld, {}, {})
<1>1. "available" \in Statuses
  BY DEF Statuses
<1>2. row \in Row /\ row.weld = weld /\ row.deps = {} /\ row.refs = {} /\ row.digest = {}
  BY <1>1, PlainRow
<1> HIDE DEF row
<1>3. Pinned(row.deps) = row.refs /\ OnePin(row.deps)
  BY <1>2, NothingPinned
<1> QED
  BY <1>2, <1>3 DEF row

\* The libraries to begin with satisfy the invariant.
LEMMA InitAssets == FactoryInit => AssetsInv
<1> SUFFICES ASSUME FactoryInit PROVE AssetsInv
  OBVIOUS
<1>0. PICK I \in SUBSET InUse :
        \E owner \in [I -> Users \cup {None}], weld \in [I -> Welds] :
          \E deps \in [I \cap Projects -> SUBSET (I \cap Processes)] :
            /\ \A q \in DOMAIN deps : \A p \in deps[q] :
                 /\ weld[p] = weld[q]
                 /\ owner[q] # None => owner[p] \in {None, owner[q]}
            /\ rows = [i \in Ids |->
                 IF i \notin I THEN Absent
                 ELSE IF i \in Processes THEN NewRow(owner[i], "available", weld[i], {}, {})
                 ELSE NewRow(owner[i], "available", weld[i], deps[i] \X {1}, deps[i])]
  BY DEF FactoryInit
<1>2. PICK owner \in [I -> Users \cup {None}], weld \in [I -> Welds] :
        \E deps \in [I \cap Projects -> SUBSET (I \cap Processes)] :
          /\ \A q \in DOMAIN deps : \A p \in deps[q] :
               /\ weld[p] = weld[q]
               /\ owner[q] # None => owner[p] \in {None, owner[q]}
          /\ rows = [i \in Ids |->
               IF i \notin I THEN Absent
               ELSE IF i \in Processes THEN NewRow(owner[i], "available", weld[i], {}, {})
               ELSE NewRow(owner[i], "available", weld[i], deps[i] \X {1}, deps[i])]
  BY <1>0
<1>3. PICK deps \in [I \cap Projects -> SUBSET (I \cap Processes)] :
        /\ \A q \in I \cap Projects : \A p \in deps[q] : weld[p] = weld[q]
        /\ rows = [i \in Ids |->
             IF i \notin I THEN Absent
             ELSE IF i \in Processes THEN NewRow(owner[i], "available", weld[i], {}, {})
             ELSE NewRow(owner[i], "available", weld[i], deps[i] \X {1}, deps[i])]
  BY <1>2
<1>4. I \subseteq Ids
  BY FactoryAssetsConstants
<1>5. ASSUME NEW i \in I
      PROVE  /\ rows[i] \in Row /\ rows[i].weld = weld[i] /\ rows[i].digest = rows[i].refs
             /\ Pinned(rows[i].deps) = rows[i].refs /\ OnePin(rows[i].deps)
             /\ i \in Processes => rows[i].refs = {}
             /\ i \notin Processes => i \in Projects /\ rows[i].refs = deps[i]
  <2>1. owner[i] \in Users \cup {None} /\ weld[i] \in Welds /\ "available" \in Statuses
    BY DEF Statuses
  <2>2. CASE i \in Processes
    <3>1. rows[i] = NewRow(owner[i], "available", weld[i], {}, {})
      BY <1>3, <1>4, <2>2
    <3>2. /\ rows[i] \in Row /\ rows[i].weld = weld[i] /\ rows[i].refs = {}
          /\ rows[i].digest = rows[i].refs
          /\ Pinned(rows[i].deps) = rows[i].refs /\ OnePin(rows[i].deps)
      <4> DEFINE row == NewRow(owner[i], "available", weld[i], {}, {})
      <4>1. /\ row \in Row /\ row.weld = weld[i] /\ row.refs = {} /\ row.digest = row.refs
            /\ Pinned(row.deps) = row.refs /\ OnePin(row.deps)
        BY <2>1, InitialProcess
      <4> HIDE DEF row
      <4>2. rows[i] = row
        BY <3>1 DEF row
      <4> QED
        BY <4>1, <4>2
    <3> QED
      BY <2>2, <3>2
  <2>3. CASE i \notin Processes
    <3> DEFINE ds == deps[i] \X {1}
    <3>1. i \in Projects /\ deps[i] \subseteq Processes
      BY <1>4, <2>3 DEF Ids
    <3>2. rows[i] = NewRow(owner[i], "available", weld[i], ds, deps[i])
      BY <1>3, <1>4, <2>3
    <3>3. /\ ds \in SUBSET Pins /\ deps[i] \in SUBSET Names
          /\ Pinned(ds) = deps[i] /\ OnePin(ds)
      <4>1. 1 \in 1..MaxRev
        BY FactoryAssetsConstants
      <4>2. \A d \in ds : d[1] \in deps[i] /\ d[2] = 1 /\ d = <<d[1], d[2]>>
        OBVIOUS
      <4>3. \A p \in deps[i] : <<p, 1>> \in ds
        OBVIOUS
      <4>4. ds \in SUBSET Pins /\ deps[i] \in SUBSET Names
        BY <3>1, <4>1 DEF Pins, Names
      <4> HIDE DEF ds
      <4>5. Pinned(ds) = deps[i]
        BY <4>2, <4>3 DEF Pinned
      <4>6. OnePin(ds)
        BY <4>2 DEF OnePin
      <4> QED
        BY <4>4, <4>5, <4>6
    <3> HIDE DEF ds
    <3>4. /\ rows[i] \in Row /\ rows[i].weld = weld[i] /\ rows[i].deps = ds
          /\ rows[i].refs = deps[i] /\ rows[i].digest = deps[i]
      <4> DEFINE row == NewRow(owner[i], "available", weld[i], ds, deps[i])
      <4>1. /\ row \in Row /\ row.weld = weld[i] /\ row.deps = ds
            /\ row.refs = deps[i] /\ row.digest = deps[i]
        BY <2>1, <3>3, NewRowTyped
      <4>2. rows[i] = row
        BY <3>2
      <4> HIDE DEF row
      <4> QED
        BY <4>1, <4>2
    <3> QED
      BY <2>3, <3>1, <3>3, <3>4
  <2> QED
    BY <2>2, <2>3
<1>6. \A i \in Ids : Exists(i) <=> i \in I
  <2>1. \A i \in Ids \ I : rows[i] = Absent
    BY <1>3
  <2>2. \A i \in I : rows[i] # Absent
    BY <1>5, FactoryAssetsConstants
  <2> QED
    BY <1>4, <2>1, <2>2 DEF Exists
<1>7. used = I
  BY <1>4, <1>6 DEF FactoryInit, Exists
<1>8. AssetsTypeOK
  <2>1. rows \in [Ids -> Row \cup {Absent}]
    <3>1. \A i \in Ids : rows[i] \in Row \cup {Absent}
      BY <1>5, <1>6 DEF Exists
    <3>2. rows = [i \in Ids |-> rows[i]]
      BY <1>3
    <3> QED
      BY <3>1, <3>2
  <2>2. req \in [Users -> Request \cup {None}]
    BY DEF FactoryInit
  <2> QED
    BY <1>4, <1>7, <2>1, <2>2 DEF AssetsTypeOK, FactoryInit
<1>9. Library
  <2>1. \A i \in I : Pinned(rows[i].deps) \subseteq I
    BY <1>5
  <2>2. RowsUsed
    BY <1>6, <1>7, <2>1 DEF RowsUsed, Known
  <2>3. RowsSound
    BY <1>5, <1>6 DEF RowsSound, PinsSound, Intact
  <2>4. ASSUME NEW i \in I, NEW p \in Pinned(rows[i].deps)
        PROVE  rows[p].weld = rows[i].weld
    <3>1. i \in I \cap Projects /\ p \in deps[i]
      BY <1>5, <2>4
    <3>2. p \in I /\ weld[p] = weld[i]
      BY <1>3, <3>1
    <3> QED
      BY <1>5, <3>2
  <2>5. FactoryWeldsAgree
    BY <1>6, <2>4 DEF FactoryWeldsAgree, WeldsAgree
  <2> QED
    BY <2>2, <2>3, <2>5 DEF Library
<1>10. RequestsFit /\ InsertsApart
  BY DEF FactoryInit, RequestsFit, InsertsApart, Asks
<1> QED
  BY <1>8, <1>9, <1>10 DEF AssetsInv

\* What the WAN delivers does not touch the library.
LEMMA RestKeepsInv ==
  ASSUME AssetsInv, UNCHANGED <<rows, used, req, calls>>, replicas' \subseteq Replica
  PROVE  AssetsInv'
<1>1. AssetsTypeOK'
  BY DEF AssetsInv, AssetsTypeOK
<1>2. Shaped
  BY DEF Shaped, RowsKept
<1>3. Library'
  BY <1>2, ShapesKeepLibrary DEF AssetsInv
<1>4. RequestsFit' /\ InsertsApart'
  BY DEF AssetsInv, RequestsFit, InsertsApart, Asks, Fits, UpdateFits, SeenFits, InsertFits,
     CopyFits, Known, Exists
<1> QED
  BY <1>1, <1>3, <1>4 DEF AssetsInv

\* Every step of people, pads and deliveries keeps it ...
LEMMA NextAssets == AssetsInv /\ [FactoryNext]_factoryVars => AssetsInv'
<1> SUFFICES ASSUME AssetsInv, [FactoryNext]_factoryVars PROVE AssetsInv'
  OBVIOUS
<1>1. ASSUME NEW u \in Users, calls' = calls + 1, FactoryCall(u) PROVE AssetsInv'
  BY <1>1, CallsKeepInv DEF AssetsInv, AssetsTypeOK
<1>2. ASSUME NEW u \in Users, FactoryWrite(u), UNCHANGED calls PROVE AssetsInv'
  <2>1. calls' \in Nat
    BY <1>2 DEF AssetsInv, AssetsTypeOK
  <2> QED
    BY <1>2, <2>1, UpdateKeepsInv, InsertKeepsInv, DeleteKeepsInv, ApplyKeepsInv, CopyDepKeepsInv,
       InsertCopyKeepsInv, UndoKeepsInv DEF FactoryWrite
<1>3. CASE InsertReplica
  <2>1. UNCHANGED <<rows, used, req, calls>> /\ replicas' \subseteq Replica
    BY <1>3 DEF InsertReplica, AssetsInv, AssetsTypeOK
  <2> QED
    BY <2>1, RestKeepsInv
<1>4. CASE RetractReplicas
  <2>1. PICK p \in Platform :
          replicas' = {IF r.id = p THEN [r EXCEPT !.status = "disabled"] ELSE r : r \in replicas}
    BY <1>4 DEF RetractReplicas
  <2>2. \A r \in Replica : [r EXCEPT !.status = "disabled"] \in Replica
    BY DEF Replica
  <2>3. replicas' \subseteq Replica
    BY <2>1, <2>2 DEF AssetsInv, AssetsTypeOK
  <2> QED
    BY <1>4, <2>3, RestKeepsInv DEF RetractReplicas
<1>5. CASE UNCHANGED factoryVars
  BY <1>5, RestKeepsInv DEF factoryVars, AssetsInv, AssetsTypeOK
<1> QED
  BY <1>1, <1>2, <1>3, <1>4, <1>5 DEF FactoryNext

\* ... so it always holds.
LEMMA AssetsAlways == FactorySpec => []AssetsInv
BY InitAssets, NextAssets, PTL DEF FactorySpec

\* Of identities no pad may choose again, a project and the processes of the factory it
\* pins are of one weld kind, however bindings, changes of kind, deletions and copies
\* interleave (service/weld.go, lockAssetDepsTx and guardProcessWeldKindTx in
\* store/asset.go); and the content of any project refers to what it pins, each once.
THEOREM FactoryLibraryHolds == FactorySpec => []FactoryInv
<1>1. AssetsInv => FactoryInv
  <2> SUFFICES ASSUME AssetsInv PROVE FactoryInv
    OBVIOUS
  <2>1. \A r \in Request : r.op \in Calls
    BY DEF Request, UpdateRequests, AppRequests, InsertRequests, DeleteRequests, UndoRequests,
       CopyRequests, Calls
  <2>2. \A u \in Users : req[u] # None => req[u].op \in Calls
    BY <2>1 DEF AssetsInv, AssetsTypeOK
  <2>3. FactoryRefsPinned
    BY DEF AssetsInv, Library, RowsSound, PinsSound, OnePin, FactoryRefsPinned, Intact
  <2> QED
    BY <2>2, <2>3 DEF AssetsInv, AssetsTypeOK, Library, FactoryInv, FactoryTypeOK
<1> QED
  BY <1>1, AssetsAlways, PTL

\* Rows are replaced by updates alone, the others add a row where there is none or remove one.
LEMMA OthersReplaceNothing ==
  ASSUME AssetsInv, NEW u \in Users,
         \/ FactoryCall(u) \/ InsertGovernedAsset(u) \/ DeleteGovernedAsset(u) \/ ApplyAppOnce(u)
         \/ CopyDep(u) \/ InsertProjectCopy(u) \/ UndoCopy(u),
         NEW i \in Ids, Exists(i), rows'[i] # Absent
  PROVE  rows'[i] = rows[i]
<1>1. ASSUME NEW n, NEW row, ~Exists(n), rows' = [rows EXCEPT ![n] = row] PROVE rows'[i] = rows[i]
  BY <1>1
<1>2. \A n : Fresh(n) => ~Exists(n)
  BY DEF Fresh, Exists, AssetsInv, Library, RowsUsed
<1>3. CASE FactoryCall(u)
  BY <1>3 DEF FactoryCall, CreateAsset, CreatePadIn, CopyProcess, PromoteToFactory, MutateAsset,
     ApplyAppContent, DeleteAsset, CopyProject, Begin
<1>4. CASE InsertGovernedAsset(u)
  BY <1>1, <1>4 DEF InsertGovernedAsset
<1>5. CASE DeleteGovernedAsset(u)
  BY <1>5 DEF DeleteGovernedAsset, AssetsInv, AssetsTypeOK
<1>6. CASE ApplyAppOnce(u) \/ UndoCopy(u)
  BY <1>6 DEF ApplyAppOnce, UndoCopy
<1>7. CASE CopyDep(u)
  <2>1. rows' = rows \/ \E n, row : Fresh(n) /\ rows' = [rows EXCEPT ![n] = row]
    BY ZenonT(60), <1>7 DEF CopyDep
  <2> QED
    BY <1>1, <1>2, <2>1
<1>8. CASE InsertProjectCopy(u)
  <2>1. rows' = rows \/ \E n, row : Fresh(n) /\ rows' = [rows EXCEPT ![n] = row]
    BY <1>8 DEF InsertProjectCopy
  <2> QED
    BY <1>1, <1>2, <2>1
<1> QED
  BY <1>3, <1>4, <1>5, <1>6, <1>7, <1>8

\* An update replaces the row it was worked out from.
LEMMA UpdateReplacesSeen ==
  ASSUME AssetsInv, NEW u \in Users, UpdateGovernedAsset(u),
         NEW i \in Ids \ PadIds, Exists(i), rows'[i] # rows[i]
  PROVE  req[u].id = i /\ req[u].seen = rows[i]
<1>1. PICK r \in UpdateRequests : r = req[u] /\ UpdateFits(r)
  BY RequestOf DEF UpdateGovernedAsset, Fits
<1>2. r.id = i /\ rows[i].rev = r.expected
  <2>1. rows' = rows \/ (RevisionMatches(r) /\ \E row : rows' = [rows EXCEPT ![r.id] = row])
    BY <1>1 DEF UpdateGovernedAsset
  <2> QED
    BY <2>1 DEF RevisionMatches, AssetsInv, AssetsTypeOK
<1>3. r.seen.rev \in Nat /\ rows[i].rev \in Nat
  <2>1. r.seen \in Row /\ rows[i] \in Row
    BY RowFacts DEF UpdateRequests
  <2> QED
    BY <2>1, FactoryAssetsConstants DEF Row
<1> QED
  BY <1>1, <1>2, <1>3 DEF UpdateFits, SeenFits

\* A change of an asset is worked out from the very row it replaces: neither two people's
\* changes nor a change and a pad's content undo one another, in as many tries as a write
\* may take (store/asset.go:249, service/asset.go:1043).
THEOREM FactoryWritesSeen == FactorySpec => FactoryNothingLost
<1> DEFINE Step == \A i \in Ids \ PadIds :
                     Exists(i) /\ rows'[i] # Absent /\ rows'[i] # rows[i] =>
                       \E u \in Users : /\ req[u] # None /\ req[u].op = "update"
                                        /\ req[u].id = i /\ req[u].seen = rows[i]
<1>1. AssetsInv /\ [FactoryNext]_factoryVars => Step
  <2> SUFFICES ASSUME AssetsInv, [FactoryNext]_factoryVars, NEW i \in Ids \ PadIds,
                      Exists(i), rows'[i] # Absent, rows'[i] # rows[i]
               PROVE  \E u \in Users : /\ req[u] # None /\ req[u].op = "update"
                                       /\ req[u].id = i /\ req[u].seen = rows[i]
    OBVIOUS
  <2>1. rows' # rows
    OBVIOUS
  <2>2. PICK u \in Users : FactoryCall(u) \/ FactoryWrite(u)
    BY <2>1 DEF FactoryNext, InsertReplica, RetractReplicas, factoryVars
  <2>3. UpdateGovernedAsset(u)
    BY <2>2, OthersReplaceNothing DEF FactoryWrite
  <2>4. req[u].id = i /\ req[u].seen = rows[i]
    BY <2>3, UpdateReplacesSeen
  <2> QED
    BY <2>3, <2>4 DEF UpdateGovernedAsset
<1> USE DEF Step
<1> QED
  BY <1>1, AssetsAlways, PTL DEF FactorySpec, FactoryNothingLost

-----------------------------------------------------------------------------
(* The imports of an old pad's files                                       *)

\* What the import has while it is under way.
ImportFields == {"at", "book", "index", "todo", "next", "kept", "fresh", "draft"}
IndexEntries == [path : FilePaths, weld : WeldKinds, id : Nat]
Tasks == [path : FilePaths, weld : WeldKinds \cup {""}, suffix : Seq(Pieces)]

ImportTypeOK ==
  /\ shelf \in Seq(AssetRow)
  /\ batch \in [files : [FilePaths -> Files], projects : Seq(ProjectFiles)]
  /\ imp.at \in {"idle", "files", "projects"}
  /\ imp.at # "idle" => /\ DOMAIN imp = ImportFields
                        /\ imp.index \in Seq(IndexEntries)
                        /\ imp.todo \in SUBSET Tasks
                        /\ imp.next \in Nat \ {0}
                        /\ imp.fresh \in SUBSET DOMAIN shelf
                        /\ imp.draft \in {0} \cup DOMAIN shelf

IsProcess(i) == i \in DOMAIN shelf /\ shelf[i].kind = "process"

\* Somebody refers to the file.
Kinded(e) == e.weld # ""

\* The book has rows of the library, each of its kind, and of the processes nobody has
\* edited the content; a name stands for one of them of its kind.
BookFits ==
  LET b == imp.book
  IN  /\ DOMAIN b.rows \subseteq DOMAIN shelf
      /\ \A i \in DOMAIN b.rows :
           /\ b.rows[i].kind = shelf[i].kind
           /\ IsProcess(i) => b.rows[i].weld = shelf[i].weld
           /\ IsProcess(i) => \/ b.rows[i].content = shelf[i].content
                              \/ i \in foreign \/ i = imp.draft
      /\ b.procs \subseteq DOMAIN b.rows /\ \A i \in b.procs : IsProcess(i)
      /\ \A k \in DOMAIN b.names : /\ k = <<k[1], k[2]>> /\ b.names[k] \in DOMAIN b.rows
                                   /\ b.rows[b.names[k]].kind = k[1]
      /\ b.claimed \subseteq DOMAIN b.rows

\* An entry of the index: a claimed process of its kind with the content of its file.
EntryFits(e) ==
  /\ e.id \in imp.book.claimed /\ IsProcess(e.id) /\ e.path \in Sound
  /\ shelf[e.id].weld = e.weld
  /\ \/ shelf[e.id].content[1] = batch.files[e.path].text
     \/ <<e.path, e.weld>> \in imp.kept \/ e.id \in foreign

\* An index is in the order of the files, with one entry for a file and a kind.
Before(e, x) ==
  /\ Place(e.path) <= Place(x.path)
  /\ e.path = x.path => e.weld # x.weld

Ordered(index) == \A i, j \in DOMAIN index : i < j => Before(index[i], index[j])

IndexFits ==
  /\ \A j \in DOMAIN imp.index : EntryFits(imp.index[j])
  /\ Ordered(imp.index)

\* A file is to be done once, or once for each of its kinds.
Apart(todo) ==
  \A e, x \in todo : e.path = x.path /\ e # x => Kinded(e) /\ Kinded(x) /\ e.weld # x.weld

\* What is to be done comes after what was.
After(index, todo) ==
  \A j \in DOMAIN index : \A e \in todo :
    /\ Place(index[j].path) <= Place(e.path)
    /\ index[j].path = e.path => Kinded(e) /\ e.weld # index[j].weld

TodoFits ==
  /\ \A e \in imp.todo : e.path \in Sound
  /\ Apart(imp.todo) /\ After(imp.index, imp.todo)

\* A draft is of the file that comes next, and no row of the batch yet.
DraftFits ==
  /\ imp.at = "projects" => imp.draft = 0
  /\ imp.draft # 0 =>
       /\ IsProcess(imp.draft) /\ imp.draft \notin imp.book.claimed
       /\ Upcoming(imp.todo) # {}
       /\ \A e \in Upcoming(imp.todo) :
            /\ Kinded(e) => shelf[imp.draft].weld = e.weld
            /\ \/ imp.draft \in foreign
               \/ /\ shelf[imp.draft].status = "draft"
                  /\ shelf[imp.draft].content[1] = batch.files[e.path].text

\* A reference is to the process the index has for its file and kind.
RefFits(r) ==
  \A j \in DOMAIN imp.index :
    imp.index[j].path = r.path /\ imp.index[j].weld = r.weld => r.id = imp.index[j].id

FreshFits ==
  /\ imp.at = "files" => imp.fresh = {}
  /\ \A q \in imp.fresh : shelf[q].kind = "project" /\ \A r \in shelf[q].refs : RefFits(r)

ImportInv ==
  /\ ImportTypeOK
  /\ imp.at # "idle" => BookFits /\ IndexFits /\ TodoFits /\ DraftFits /\ FreshFits

\* The files have their places in the order of their paths, no two the same.
LEMMA FilesPlaced ==
  /\ \A p \in FilePaths : Place(p) \in Nat
  /\ \A p, q \in FilePaths : Place(p) = Place(q) => p = q
<1>1. ASSUME NEW p \in FilePaths
      PROVE  Place(p) \in DOMAIN FileOrder /\ FileOrder[Place(p)] = p
  <2>1. \E j \in DOMAIN FileOrder : FileOrder[j] = p
    BY DEF FilePaths, Range
  <2> QED
    BY <2>1 DEF Place
<1>2. DOMAIN FileOrder \subseteq Nat
  BY LegacyImportConstants
<1> QED
  BY <1>1, <1>2

\* The three weld kinds have theirs.
LEMMA WeldsPlaced ==
  /\ WeldKinds = {"single", "multi", "tbar"} /\ ImportWelds \subseteq WeldKinds
  /\ "" \notin WeldKinds
  /\ \A w \in WeldKinds : WeldPlace(w) \in 1..3
<1>1. DOMAIN WeldOrder = 1..3 /\ WeldOrder[1] = "single" /\ WeldOrder[2] = "multi"
      /\ WeldOrder[3] = "tbar"
  BY DEF WeldOrder
<1>2. WeldKinds = {"single", "multi", "tbar"}
  BY <1>1 DEF WeldKinds, Range
<1>3. ASSUME NEW w \in WeldKinds PROVE WeldPlace(w) \in 1..3
  <2>1. \E u \in DOMAIN WeldOrder : WeldOrder[u] = w
    BY <1>1, <1>2
  <2> QED
    BY <1>1, <2>1 DEF WeldPlace
<1> QED
  BY <1>2, <1>3, LegacyImportConstants

\* A key found first among many is found first among fewer that still have it.
LEMMA FirstInSame ==
  ASSUME NEW keys, DOMAIN keys \subseteq Nat \ {0}, NEW few, NEW many, few \subseteq many,
         NEW k \in FirstIn(keys, few), NEW l \in FirstIn(keys, many), l \in few
  PROVE  k = l
<1>1. PICK i \in DOMAIN keys : keys[i] = k /\ keys[i] \in few /\ \A h \in 1..(i - 1) : keys[h] \notin few
  BY DEF FirstIn
<1>2. PICK j \in DOMAIN keys : keys[j] = l /\ keys[j] \in many /\ \A h \in 1..(j - 1) : keys[h] \notin many
  BY DEF FirstIn
<1>3. i \in Nat \ {0} /\ j \in Nat \ {0}
  OBVIOUS
<1>4. ~(j < i)
  <2> SUFFICES ASSUME j < i PROVE FALSE
    OBVIOUS
  <2>1. j \in 1..(i - 1)
    BY <1>3
  <2> QED
    BY <1>1, <1>2, <2>1
<1>5. ~(i < j)
  <2> SUFFICES ASSUME i < j PROVE FALSE
    OBVIOUS
  <2>1. i \in 1..(j - 1)
    BY <1>3
  <2> QED
    BY <1>1, <1>2, <2>1
<1> QED
  BY <1>1, <1>2, <1>3, <1>4, <1>5

\* What a project's item becomes refers to what the index has for its file and kind.
LEMMA RewrittenFits ==
  ASSUME ImportTypeOK, imp.at # "idle", IndexFits, NEW x \in Items
  PROVE  Rewritten(x) \subseteq Refs /\ \A r \in Rewritten(x) : RefFits(r)
<1> DEFINE index == imp.index
           Ns == DOMAIN index
<1>1. index \in Seq(IndexEntries) /\ Ns \subseteq Nat
      /\ \A j \in Ns : index[j] \in IndexEntries /\ index[j].path \in Sound
  <2>1. index \in Seq(IndexEntries)
    BY DEF ImportTypeOK
  <2>2. \A j \in Ns : index[j].path \in Sound
    BY DEF IndexFits, EntryFits
  <2> HIDE DEF index
  <2> QED
    BY <2>1, <2>2
<1>2. Sound \subseteq FilePaths
  BY DEF Sound
<1>3. \A i, j \in Ns : i < j =>
        /\ Place(index[i].path) <= Place(index[j].path)
        /\ index[i].path = index[j].path => index[i].weld # index[j].weld
  BY DEF IndexFits, Ordered, Before
<1>4. \A i, j \in Ns : index[i].path = index[j].path /\ index[i].weld = index[j].weld => i = j
  BY <1>1, <1>3
<1> HIDE DEF index
<1>5. CASE x.ref = Bands
  <2> SUFFICES ASSUME NEW r \in Rewritten(x) PROVE r \in Refs /\ RefFits(r)
    OBVIOUS
  <2>1. PICK h \in Ns : index[h].weld = "tbar"
                        /\ r = [path |-> index[h].path, weld |-> "tbar", id |-> index[h].id]
    BY <1>5 DEF Rewritten, GapBands, index
  <2>2. r.path = index[h].path /\ r.weld = index[h].weld /\ r.id = index[h].id /\ r \in Refs
    BY <1>1, <2>1 DEF Refs, IndexEntries
  <2>3. RefFits(r)
    BY <1>4, <2>2 DEF RefFits, index
  <2> QED
    BY <2>2, <2>3
<1>6. CASE x.ref # Bands
  <2> SUFFICES ASSUME NEW r \in Rewritten(x) PROVE r \in Refs /\ RefFits(r)
    OBVIOUS
  <2>1. x.ref \in FilePaths /\ x.weld \in WeldKinds
    <3>1. \A i \in {[weld |-> w, ref |-> Bands] : w \in ImportWelds \cap {"tbar"}} : i.ref = Bands
      OBVIOUS
    <3>2. x \in [weld : ImportWelds, ref : FilePaths]
      BY <1>6, <3>1 DEF Items
    <3> QED
      BY <3>2, WeldsPlaced
  <2>2. PICK p \in Meant(x.ref), y \in Lookup(index, x.ref, x.weld) :
               r = [path |-> p, weld |-> x.weld, id |-> y]
    BY <1>6 DEF Rewritten, index
  <2> DEFINE mine == {j \in Ns : index[j].weld = x.weld}
             few == UNION {LegacyAliases(index[g].path) : g \in mine}
             many == UNION {LegacyAliases(q) : q \in Sound}
  <2>3. PICK h \in mine, k \in Spelling(x.ref, few) :
               /\ y = index[h].id /\ k \in LegacyAliases(index[h].path)
               /\ \A g \in mine : k \in LegacyAliases(index[g].path) => g <= h
    BY <2>2 DEF Lookup
  <2>4. PICK l \in Spelling(x.ref, many) :
               /\ p \in Sound /\ l \in LegacyAliases(p)
               /\ \A q \in Sound : l \in LegacyAliases(q) => Place(q) <= Place(p)
    BY DEF Meant
  <2>5. r.path = p /\ r.weld = x.weld /\ r.id = y /\ r \in Refs
    BY <1>1, <1>2, <2>1, <2>2, <2>3, <2>4 DEF Refs, IndexEntries
  <2>6. ASSUME NEW j \in Ns, index[j].path = p, index[j].weld = x.weld PROVE y = index[j].id
    <3>1. j \in mine /\ l \in few
      BY <2>4, <2>6
    <3>2. few \subseteq many
      BY <1>1
    <3>3. DOMAIN LookupKeys(x.ref) \subseteq Nat \ {0}
      BY DEF LookupKeys
    <3> HIDE DEF few, many
    <3>4. k = l
      BY <3>1, <3>2, <3>3, FirstInSame DEF Spelling
    <3>5. j <= h
      BY <2>3, <2>4, <2>6, <3>1, <3>4
    <3>6. Place(index[h].path) <= Place(p)
      BY <1>1, <2>3, <2>4, <3>4
    <3>7. h \in Ns /\ index[h].weld = x.weld /\ index[h].path \in FilePaths /\ p \in FilePaths
      BY <1>1, <1>2, <2>3, <2>4
    <3>8. j = h
      <4> SUFFICES ASSUME j # h PROVE FALSE
        OBVIOUS
      <4>1. j < h
        BY <1>1, <3>5, <3>7
      <4>2. Place(p) <= Place(index[h].path) /\ p # index[h].path
        BY <1>3, <2>6, <3>7, <4>1
      <4> QED
        BY <3>6, <3>7, <4>2, FilesPlaced
    <3> QED
      BY <2>3, <3>8
  <2>7. RefFits(r)
    BY <2>5, <2>6 DEF RefFits, index
  <2> QED
    BY <2>5, <2>7
<1> QED
  BY <1>5, <1>6

\* A non-empty set of natural numbers has a least element.
LEMMA LeastExists ==
    ASSUME NEW S \in SUBSET Nat, S # {}
    PROVE  \E n \in S : \A m \in S : n <= m
<1>1. PICK k \in S : TRUE
  OBVIOUS
<1> DEFINE U == 0..k
           Below(v) == 0..v
           T == {Below(v) : v \in S \cap U}
<1>2. IsFiniteSet(U)
  BY <1>1, FS_Interval
<1>3. T \subseteq FiniteSubsetsOf(U) /\ T # {}
  <2>1. FiniteSubsetsOf(U) = SUBSET U
    BY <1>2, FS_FiniteSubsetsOfFinite
  <2>2. \A v \in S \cap U : Below(v) \subseteq U
    OBVIOUS
  <2>3. k \in S \cap U
    BY <1>1
  <2> QED
    BY <2>1, <2>2, <2>3
<1>4. IsWellFoundedOn(StrictSubsetOrdering(U), FiniteSubsetsOf(U))
  BY <1>2, FS_StrictSubsetOrderingWellFounded
<1>5. \E x \in T : \A y \in T : ~(<<y, x>> \in StrictSubsetOrdering(U))
  <2> HIDE DEF T, U
  <2> QED
    BY <1>3, <1>4, WFMin
<1>6. PICK n \in S \cap U : \A y \in T : <<y, Below(n)>> \notin StrictSubsetOrdering(U)
  BY <1>5
<1>7. ASSUME NEW m \in S, m < n PROVE FALSE
  <2>1. m \in S \cap U /\ n \in Nat /\ m \in Nat
    BY <1>1, <1>7
  <2>2. Below(m) \subseteq Below(n) /\ Below(m) # Below(n) /\ Below(n) \subseteq U
    <3>1. n \in Below(n) /\ n \notin Below(m)
      BY <1>7, <2>1
    <3> QED
      BY <1>7, <2>1, <3>1
  <2>3. <<Below(m), Below(n)>> \in StrictSubsetOrdering(U)
    BY <2>2 DEF StrictSubsetOrdering
  <2> QED
    BY <1>6, <2>1, <2>3
<1> QED
  BY <1>7

\* A weld kind's suffix is a piece of a name, or none.
LEMMA SuffixTyped == \A w \in WeldKinds : Suffix(w) \in Seq(Pieces)
<1>1. <<"multi">> \in Seq(Pieces) /\ <<"tbar">> \in Seq(Pieces)
  <2>1. ASSUME NEW w \in Pieces PROVE <<w>> \in Seq(Pieces)
    OBVIOUS
  <2>2. "multi" \in Pieces /\ "tbar" \in Pieces
    BY LegacyImportConstants
  <2> QED
    BY <2>1, <2>2
<1>2. <<>> \in Seq(Pieces)
  OBVIOUS
<1>3. Suffix("single") = <<>> /\ Suffix("multi") = <<"multi">> /\ Suffix("tbar") = <<"tbar">>
  BY DEF Suffix
<1> QED
  BY <1>1, <1>2, <1>3, WeldsPlaced

\* The kinds a file is used in are weld kinds.
LEMMA UsesTyped ==
  ASSUME ImportTypeOK, NEW p
  PROVE  Uses(p) \subseteq WeldKinds
<1>1. \A j \in DOMAIN batch.projects : batch.projects[j].items \subseteq Items
  <2>1. batch.projects \in Seq(ProjectFiles)
    BY DEF ImportTypeOK
  <2>2. \A q \in ProjectFiles : q.items \subseteq Items
    BY DEF ProjectFiles
  <2> QED
    BY <2>1, <2>2
<1>2. AllItems \subseteq Items
  BY <1>1 DEF AllItems
<1>3. \A x \in Items : x.weld \in WeldKinds
  <2>1. \A i \in {[weld |-> w, ref |-> Bands] : w \in ImportWelds \cap {"tbar"}} : i.weld \in ImportWelds
    OBVIOUS
  <2> QED
    BY <2>1, WeldsPlaced DEF Items
<1> QED
  BY <1>2, <1>3 DEF Uses

\* What is planned of a file: it once, of no kind, or once for each of its kinds.
LEMMA PlannedTyped ==
  ASSUME ImportTypeOK, NEW p \in FilePaths
  PROVE  /\ \A e \in Planned(p) : e \in Tasks /\ e.path = p
         /\ \A e, x \in Planned(p) : e # x => Kinded(e) /\ Kinded(x) /\ e.weld # x.weld
<1>1. CASE Uses(p) = {}
  <2>1. Planned(p) = {[path |-> p, weld |-> "", suffix |-> <<>>]}
    BY <1>1 DEF Planned
  <2>2. <<>> \in Seq(Pieces)
    OBVIOUS
  <2> DEFINE only == [path |-> p, weld |-> "", suffix |-> <<>>]
  <2>3. only \in Tasks /\ only.path = p
    BY <2>2 DEF Tasks
  <2>4. Planned(p) = {only}
    BY <2>1
  <2> HIDE DEF only
  <2> QED
    BY <2>3, <2>4
<1>2. CASE Uses(p) # {}
  <2>1. ASSUME NEW e \in Planned(p)
        PROVE  \E w \in Uses(p) : \E s \in {<<>>, Suffix(w)} : e = [path |-> p, weld |-> w, suffix |-> s]
    BY <1>2 DEF Planned
  <2>2. <<>> \in Seq(Pieces)
    OBVIOUS
  <2>3. ASSUME NEW e \in Planned(p) PROVE e \in Tasks /\ e.path = p /\ Kinded(e)
    <3>0. PICK w \in Uses(p) : \E s \in {<<>>, Suffix(w)} : e = [path |-> p, weld |-> w, suffix |-> s]
      BY <2>1
    <3>1. PICK s \in {<<>>, Suffix(w)} : e = [path |-> p, weld |-> w, suffix |-> s]
      BY <3>0
    <3>2. w \in WeldKinds
      BY UsesTyped
    <3>3. s \in Seq(Pieces)
      BY <2>2, <3>2, SuffixTyped
    <3> QED
      BY <3>1, <3>2, <3>3, WeldsPlaced DEF Tasks, Kinded
  <2>4. ASSUME NEW e \in Planned(p), NEW x \in Planned(p), e.weld = x.weld PROVE e = x
    <3> DEFINE suffix(w) == IF \A v \in Uses(p) : WeldPlace(w) <= WeldPlace(v) THEN <<>> ELSE Suffix(w)
    <3>1. \A y \in Planned(p) : \E w \in Uses(p) : y = [path |-> p, weld |-> w, suffix |-> suffix(w)]
      BY <1>2 DEF Planned
    <3> HIDE DEF suffix
    <3>2. \A y \in Planned(p) : y = [path |-> p, weld |-> y.weld, suffix |-> suffix(y.weld)]
      BY <3>1
    <3> QED
      BY <2>4, <3>2
  <2> QED
    BY <2>3, <2>4
<1> QED
  BY <1>1, <1>2

\* What is planned of all of them.
LEMMA TodoPlanned ==
  ASSUME ImportTypeOK
  PROVE  /\ Todo \subseteq Tasks
         /\ \A e \in Todo : e.path \in Sound
         /\ Apart(Todo)
<1>1. Sound \subseteq FilePaths
  BY DEF Sound
<1>2. \A e \in Todo : e \in Tasks /\ e.path \in Sound /\ e \in Planned(e.path)
  <2>1. ASSUME NEW e \in Todo PROVE \E p \in Sound : e \in Planned(p)
    BY DEF Todo
  <2> QED
    BY <1>1, <2>1, PlannedTyped
<1> QED
  BY <1>1, <1>2, PlannedTyped DEF Apart

\* At most one of them comes next.
LEMMA UpcomingOne ==
  ASSUME NEW todo \in SUBSET Tasks, Apart(todo), NEW e \in Upcoming(todo), NEW x \in Upcoming(todo)
  PROVE  e = x
<1> SUFFICES ASSUME e # x PROVE FALSE
  OBVIOUS
<1>1. e \in todo /\ x \in todo /\ e.path \in FilePaths /\ x.path \in FilePaths
      /\ e.weld \in WeldKinds \cup {""} /\ x.weld \in WeldKinds \cup {""}
  BY DEF Upcoming, Tasks
<1>2. /\ Place(e.path) < Place(x.path) \/ (e.path = x.path /\ WeldPlace(e.weld) < WeldPlace(x.weld))
      /\ Place(x.path) < Place(e.path) \/ (e.path = x.path /\ WeldPlace(x.weld) < WeldPlace(e.weld))
  <2>1. e \in todo \ {x} /\ x \in todo \ {e}
    BY <1>1
  <2> QED
    BY <2>1 DEF Upcoming
<1>3. e.path = x.path => e.weld \in WeldKinds /\ x.weld \in WeldKinds
  BY <1>1 DEF Apart, Kinded
<1>4. Place(e.path) \in Nat /\ Place(x.path) \in Nat
  BY <1>1, FilesPlaced
<1>5. e.path = x.path => WeldPlace(e.weld) \in 1..3 /\ WeldPlace(x.weld) \in 1..3
  BY <1>3, WeldsPlaced
<1> QED
  BY <1>2, <1>4, <1>5

\* A bounded set of rows has a newest.
LEMMA NewestExists ==
  ASSUME NEW n \in Nat, NEW S \in SUBSET (1..n), S # {}
  PROVE  \E i \in S : \A j \in S : j <= i
<1> DEFINE T == {n - i : i \in S}
<1>1. T \in SUBSET Nat /\ T # {}
  <2>1. \A i \in S : n - i \in Nat
    OBVIOUS
  <2> QED
    BY <2>1
<1>2. PICK m \in T : \A k \in T : m <= k
  <2> HIDE DEF T
  <2> QED
    BY <1>1, LeastExists
<1>3. PICK i \in S : m = n - i
  BY <1>2
<1>4. \A j \in S : n - i <= n - j
  BY <1>2, <1>3
<1> QED
  BY <1>4

\* The book an import begins with.
LEMMA BookFitsAtStart ==
  ASSUME ImportTypeOK, NEW b, b = Book
  PROVE  /\ b.rows = shelf /\ b.claimed = {}
         /\ b.procs \subseteq DOMAIN shelf /\ \A i \in b.procs : IsProcess(i)
         /\ \A k \in DOMAIN b.names : /\ k = <<k[1], k[2]>> /\ b.names[k] \in DOMAIN shelf
                                      /\ shelf[b.names[k]].kind = k[1]
<1> DEFINE ids == {i \in DOMAIN shelf : shelf[i].status # "disabled"}
           key(i) == <<shelf[i].kind, shelf[i].name>>
           keys == {key(i) : i \in ids}
           newest(k) == CHOOSE i \in ids : key(i) = k /\ \A j \in ids : key(j) = k => j <= i
<1>1. /\ b.rows = shelf /\ b.claimed = {} /\ b.procs = {i \in ids : shelf[i].kind = "process"}
      /\ b.names = [k \in keys |-> newest(k)]
  BY DEF Book
<1>2. ASSUME NEW k \in keys PROVE newest(k) \in ids /\ key(newest(k)) = k
  <2> DEFINE S == {i \in ids : key(i) = k}
  <2>1. S \in SUBSET (1..Len(shelf)) /\ Len(shelf) \in Nat /\ S # {}
    BY DEF ImportTypeOK
  <2>2. \E i \in S : \A j \in S : j <= i
    <3> HIDE DEF S
    <3> QED
      BY <2>1, NewestExists
  <2>3. \E i \in ids : key(i) = k /\ \A j \in ids : key(j) = k => j <= i
    BY <2>2
  <2> HIDE DEF ids, key
  <2> QED
    BY <2>3
<1>3. ASSUME NEW k \in DOMAIN b.names
      PROVE  k = <<k[1], k[2]>> /\ b.names[k] \in DOMAIN shelf /\ shelf[b.names[k]].kind = k[1]
  <2>1. k \in keys /\ b.names[k] = newest(k)
    BY <1>1, <1>3
  <2> HIDE DEF newest
  <2>2. newest(k) \in ids /\ key(newest(k)) = k
    BY <1>2, <2>1
  <2> QED
    BY <2>1, <2>2
<1> QED
  BY <1>1, <1>3 DEF IsProcess

\* A row of the library moves alone and stays of its kind.
Alone(i) ==
  /\ shelf' \in Seq(AssetRow) /\ DOMAIN shelf' = DOMAIN shelf \cup {i}
  /\ \A j \in DOMAIN shelf : shelf'[j].kind = shelf[j].kind /\ (j # i => shelf'[j] = shelf[j])

\* A sequence is numbered from one on ...
LEMMA SeqNumbered ==
  ASSUME NEW S, NEW s \in Seq(S)
  PROVE  /\ Len(s) \in Nat /\ DOMAIN s = 1..Len(s) /\ DOMAIN s \subseteq Nat \ {0}
         /\ \A i \in DOMAIN s : s[i] \in S
OBVIOUS

\* ... and what is appended comes last.
LEMMA SeqAppended ==
  ASSUME NEW S, NEW s \in Seq(S), NEW x \in S
  PROVE  /\ Append(s, x) \in Seq(S) /\ DOMAIN Append(s, x) = 1..(Len(s) + 1)
         /\ Append(s, x)[Len(s) + 1] = x
         /\ \A i \in 1..Len(s) : Append(s, x)[i] = s[i]
OBVIOUS

\* Rows are numbered from one on.
LEMMA RowsNumbered ==
  ASSUME ImportTypeOK
  PROVE  /\ DOMAIN shelf \subseteq Nat \ {0} /\ shelf \in Seq(AssetRow)
         /\ \A i \in DOMAIN shelf : shelf[i] \in AssetRow
<1>1. shelf \in Seq(AssetRow)
  BY DEF ImportTypeOK
<1> QED
  BY <1>1

\* A claim adds one row to those claimed.
LEMMA ClaimAdds ==
  ASSUME NEW b, NEW i, NEW row
  PROVE  Claim(b, i, row).claimed = b.claimed \cup {i}
BY DEF Claim

\* A claimed row enters the book as the library has it.
LEMMA ClaimFits ==
  ASSUME ImportTypeOK, BookFits, NEW i, NEW row, Alone(i), foreign' = foreign,
         imp'.book = Claim(imp.book, i, row), imp.draft \in {0, i},
         row.kind = shelf'[i].kind,
         row.kind = "process" => /\ row.weld = shelf'[i].weld
                                 /\ row.content = shelf'[i].content \/ i \in foreign
  PROVE  BookFits'
<1> DEFINE b == imp.book
           c == imp'.book
<1>1. /\ DOMAIN c.rows = DOMAIN b.rows \cup {i} /\ c.rows[i] = row
      /\ \A j \in DOMAIN b.rows \ {i} : c.rows[j] = b.rows[j]
      /\ c.procs = b.procs /\ c.claimed = b.claimed \cup {i}
  BY DEF Claim
<1>2. /\ DOMAIN c.names = DOMAIN b.names \cup {<<row.kind, row.name>>}
      /\ c.names[<<row.kind, row.name>>] = i
      /\ \A k \in DOMAIN b.names : (c.names[k] = i /\ k = <<row.kind, row.name>>) \/ c.names[k] = b.names[k]
  BY DEF Claim
<1>3. /\ DOMAIN b.rows \subseteq DOMAIN shelf
      /\ \A j \in DOMAIN b.rows :
           /\ b.rows[j].kind = shelf[j].kind
           /\ IsProcess(j) => b.rows[j].weld = shelf[j].weld
           /\ IsProcess(j) => \/ b.rows[j].content = shelf[j].content
                              \/ j \in foreign \/ j = imp.draft
      /\ b.procs \subseteq DOMAIN b.rows /\ \A j \in b.procs : IsProcess(j)
      /\ b.claimed \subseteq DOMAIN b.rows
  BY DEF BookFits
<1>4. \A k \in DOMAIN b.names : /\ k = <<k[1], k[2]>> /\ b.names[k] \in DOMAIN b.rows
                                /\ b.rows[b.names[k]].kind = k[1]
  BY DEF BookFits
<1> HIDE DEF b, c
<1>5. /\ DOMAIN shelf' = DOMAIN shelf \cup {i} /\ 0 \notin DOMAIN shelf
      /\ \A j \in DOMAIN shelf : shelf'[j].kind = shelf[j].kind /\ (j # i => shelf'[j] = shelf[j])
  BY RowsNumbered DEF Alone
<1>6. DOMAIN c.rows \subseteq DOMAIN shelf' /\ c.claimed \subseteq DOMAIN c.rows
      /\ c.procs \subseteq DOMAIN c.rows
  BY <1>1, <1>3, <1>5
<1>7. ASSUME NEW j \in DOMAIN c.rows
      PROVE  /\ c.rows[j].kind = shelf'[j].kind
             /\ IsProcess(j)' => c.rows[j].weld = shelf'[j].weld
             /\ IsProcess(j)' => c.rows[j].content = shelf'[j].content \/ j \in foreign'
  <2>1. CASE j = i
    BY <1>1, <2>1 DEF IsProcess
  <2>2. CASE j # i
    <3>1. j \in DOMAIN b.rows /\ c.rows[j] = b.rows[j] /\ j \in DOMAIN shelf /\ shelf'[j] = shelf[j]
      BY <1>1, <1>3, <1>5, <2>2
    <3>2. j # imp.draft
      BY <1>5, <2>2, <3>1
    <3>3. IsProcess(j)' => IsProcess(j)
      BY <3>1 DEF IsProcess
    <3> QED
      BY <1>3, <3>1, <3>2, <3>3
  <2> QED
    BY <2>1, <2>2
<1>8. \A j \in c.procs : IsProcess(j)'
  BY <1>1, <1>3, <1>5 DEF IsProcess
<1>9. ASSUME NEW k \in DOMAIN c.names
      PROVE  k = <<k[1], k[2]>> /\ c.names[k] \in DOMAIN c.rows /\ c.rows[c.names[k]].kind = k[1]
  <2>1. CASE k = <<row.kind, row.name>>
    BY <1>1, <1>2, <2>1
  <2>2. CASE k # <<row.kind, row.name>>
    <3>1. k \in DOMAIN b.names /\ c.names[k] = b.names[k]
      BY <1>2, <2>2
    <3>2. b.names[k] \in DOMAIN b.rows /\ b.rows[b.names[k]].kind = k[1] /\ k = <<k[1], k[2]>>
      BY <1>4, <3>1
    <3>3. c.rows[b.names[k]].kind = b.rows[b.names[k]].kind
      BY <1>1, <1>3, <1>5, <3>2
    <3> QED
      BY <1>1, <3>1, <3>2, <3>3
  <2> QED
    BY <2>1, <2>2
<1> QED
  BY <1>6, <1>7, <1>8, <1>9 DEF BookFits, c

\* An entry of the index stands while its row does.
LEMMA EntryStands ==
  ASSUME NEW e, EntryFits(e), NEW i, e.id # i, Alone(i), UNCHANGED <<batch, foreign>>,
         imp.book.claimed \subseteq imp'.book.claimed, imp.kept \subseteq imp'.kept
  PROVE  EntryFits(e)'
<1>1. e.id \in DOMAIN shelf' /\ shelf'[e.id] = shelf[e.id]
  BY DEF EntryFits, IsProcess, Alone
<1>2. Sound' = Sound
  BY DEF Sound
<1> QED
  BY <1>1, <1>2 DEF EntryFits, IsProcess

\* Order is kept when what comes next is done.
LEMMA OrderGrows ==
  ASSUME NEW index \in Seq(IndexEntries), NEW todo \in SUBSET Tasks,
         Ordered(index), Apart(todo), After(index, todo),
         NEW e \in Upcoming(todo), NEW new \in IndexEntries, new.path = e.path,
         Kinded(e) => new.weld = e.weld
  PROVE  /\ Ordered(Append(index, new)) /\ Apart(todo \ {e})
         /\ After(Append(index, new), todo \ {e})
<1> DEFINE n == Len(index)
           grown == Append(index, new)
<1>1. /\ DOMAIN grown = 1..(n + 1) /\ n \in Nat /\ DOMAIN index = 1..n /\ grown[n + 1] = new
      /\ \A j \in 1..n : grown[j] = index[j]
  BY SeqNumbered, SeqAppended
<1> HIDE DEF n, grown
<1>2. \A j \in DOMAIN grown : (j \in DOMAIN index /\ grown[j] = index[j])
                               \/ (j = n + 1 /\ grown[j] = new)
  BY <1>1
<1>3. \A j \in DOMAIN index : j < n + 1 /\ ~(n + 1 < j)
  BY <1>1
<1>4. e \in todo /\ e.path \in FilePaths /\ Place(e.path) \in Nat
  BY FilesPlaced DEF Upcoming, Tasks
<1>5. \A j \in DOMAIN index : Before(index[j], new)
  BY <1>4 DEF After, Before
<1>6. ASSUME NEW i \in DOMAIN grown, NEW j \in DOMAIN grown, i < j
      PROVE  Before(grown[i], grown[j])
  <2>1. i \in DOMAIN index /\ grown[i] = index[i]
    <3>1. ~(n + 1 < n + 1)
      BY <1>1
    <3> QED
      BY <1>2, <1>3, <1>6, <3>1
  <2>2. CASE j \in DOMAIN index /\ grown[j] = index[j]
    BY <1>6, <2>1, <2>2 DEF Ordered
  <2>3. CASE grown[j] = new
    BY <1>5, <2>1, <2>3
  <2> QED
    BY <1>2, <2>2, <2>3
<1>7. ASSUME NEW x \in todo \ {e}
      PROVE  /\ Place(new.path) <= Place(x.path)
             /\ new.path = x.path => Kinded(x) /\ x.weld # new.weld
  <2>1. Place(e.path) < Place(x.path) \/ e.path = x.path
    BY DEF Upcoming
  <2>2. Place(x.path) \in Nat
    BY FilesPlaced DEF Tasks
  <2>3. e.path = x.path => Kinded(e) /\ Kinded(x) /\ e.weld # x.weld
    BY <1>4 DEF Apart
  <2> QED
    BY <1>4, <2>1, <2>2, <2>3
<1>8. ASSUME NEW j \in DOMAIN grown, NEW x \in todo \ {e}
      PROVE  /\ Place(grown[j].path) <= Place(x.path)
             /\ grown[j].path = x.path => Kinded(x) /\ x.weld # grown[j].weld
  <2>1. CASE j \in DOMAIN index /\ grown[j] = index[j]
    BY <2>1 DEF After
  <2>2. CASE grown[j] = new
    BY <1>7, <2>2
  <2> QED
    BY <1>2, <2>1, <2>2
<1>9. Ordered(grown) /\ After(grown, todo \ {e})
  BY <1>6, <1>8 DEF Ordered, After
<1>10. Apart(todo \ {e})
  BY DEF Apart
<1> QED
  BY <1>9, <1>10 DEF grown

\* File e comes to stand for row i, a process that nobody of the batch has.
Taking(e, i, row, weld, kept) ==
  /\ Stands(e, i, row, weld, kept) /\ UNCHANGED <<batch, foreign>>
  /\ IsProcess(i) /\ Alone(i) /\ i \notin imp.book.claimed /\ imp.draft \in {0, i}
  /\ row.kind = "process" /\ row.weld = shelf'[i].weld /\ weld = row.weld
  /\ row.content = shelf'[i].content \/ i \in foreign
  /\ Kinded(e) => e.weld = weld
  /\ kept \/ i \in foreign \/ shelf'[i].content[1] = batch.files[e.path].text

\* What the import then has.
Moved(e, i, row, weld, kept) ==
  /\ imp'.at = imp.at /\ DOMAIN imp' = ImportFields /\ imp'.book = Claim(imp.book, i, row)
  /\ imp'.todo = imp.todo \ {e} /\ imp'.draft = 0 /\ imp'.fresh = imp.fresh
  /\ imp'.next = imp.next
  /\ imp'.index = Append(imp.index, [path |-> e.path, weld |-> weld, id |-> i])
  /\ imp.kept \subseteq imp'.kept /\ (kept => <<e.path, weld>> \in imp'.kept)
  /\ imp'.book.claimed = imp.book.claimed \cup {i}

\* Taking a file in does that ...
LEMMA StandsMoves ==
  ASSUME DOMAIN imp = ImportFields, NEW e, NEW i, NEW row, NEW weld, NEW kept \in BOOLEAN,
         Stands(e, i, row, weld, kept)
  PROVE  Moved(e, i, row, weld, kept)
<1>1. imp'.book = Claim(imp.book, i, row)
  BY DEF Stands, ImportFields
<1>2. imp'.book.claimed = imp.book.claimed \cup {i}
  BY <1>1, ClaimAdds
<1> QED
  BY <1>1, <1>2 DEF Stands, Add, ImportFields, Moved

\* ... and keeps the invariant.
LEMMA TakingKeeps ==
  ASSUME ImportInv, imp.at = "files", NEW e \in Upcoming(imp.todo), NEW i, NEW row, NEW weld,
         NEW kept \in BOOLEAN, Taking(e, i, row, weld, kept)
  PROVE  ImportInv'
<1>0. ImportTypeOK /\ BookFits /\ IndexFits /\ TodoFits /\ FreshFits
  BY DEF ImportInv
<1> DEFINE new == [path |-> e.path, weld |-> weld, id |-> i]
<1>1. /\ imp.todo \in SUBSET Tasks /\ imp.index \in Seq(IndexEntries) /\ imp.fresh = {}
      /\ DOMAIN imp = ImportFields /\ imp.next \in Nat \ {0}
  BY <1>0 DEF ImportTypeOK, FreshFits
<1>2. /\ imp'.at = "files" /\ DOMAIN imp' = ImportFields /\ imp'.book = Claim(imp.book, i, row)
      /\ imp'.todo = imp.todo \ {e} /\ imp'.draft = 0 /\ imp'.fresh = {} /\ imp'.next = imp.next
      /\ imp'.index = Append(imp.index, new)
      /\ imp.kept \subseteq imp'.kept /\ (kept => <<e.path, weld>> \in imp'.kept)
      /\ imp'.book.claimed = imp.book.claimed \cup {i}
  <2>1. Stands(e, i, row, weld, kept)
    BY DEF Taking
  <2>2. Moved(e, i, row, weld, kept)
    BY <1>1, <2>1, StandsMoves
  <2> QED
    BY <1>1, <2>2 DEF Moved
<1>3. e \in imp.todo /\ e.path \in FilePaths /\ e.path \in Sound
  BY <1>0, <1>1 DEF Upcoming, TodoFits, Tasks
<1>4. i \in Nat /\ weld \in WeldKinds /\ DOMAIN shelf' = DOMAIN shelf /\ shelf' \in Seq(AssetRow)
  <2>1. i \in DOMAIN shelf /\ i \in Nat
    BY <1>0, RowsNumbered DEF IsProcess, Taking
  <2>2. DOMAIN shelf' = DOMAIN shelf /\ shelf' \in Seq(AssetRow)
    BY <2>1 DEF Alone, Taking
  <2>3. shelf'[i] \in AssetRow
    BY <2>1, <2>2, SeqNumbered
  <2> QED
    BY <2>1, <2>2, <2>3 DEF AssetRow, Taking
<1>5. new \in IndexEntries /\ new.path = e.path /\ new.weld = weld /\ new.id = i
  BY <1>3, <1>4 DEF IndexEntries
<1> HIDE DEF new
<1>6. imp'.index \in Seq(IndexEntries)
      /\ \A j \in DOMAIN imp'.index :
           \/ j \in DOMAIN imp.index /\ imp'.index[j] = imp.index[j]
           \/ imp'.index[j] = new
  BY <1>1, <1>2, <1>5, SeqNumbered, SeqAppended
<1>7. ImportTypeOK'
  BY <1>0, <1>1, <1>2, <1>4, <1>6 DEF ImportTypeOK, Taking
<1>8. BookFits'
  <2>1. row.kind = shelf'[i].kind
    BY DEF IsProcess, Alone, Taking
  <2> QED
    BY <1>0, <1>2, <2>1, ClaimFits DEF Taking
<1>9. ASSUME NEW x, EntryFits(x) PROVE EntryFits(x)'
  <2>1. x.id # i
    BY <1>9 DEF EntryFits, Taking
  <2> QED
    BY <1>2, <1>9, <2>1, EntryStands DEF Taking
<1>10. EntryFits(new)'
  <2>1. /\ i \in imp'.book.claimed /\ IsProcess(i)'
        /\ shelf'[i].weld = weld /\ Sound' = Sound
    BY <1>2, <1>4 DEF IsProcess, Alone, Sound, Taking
  <2>2. \/ shelf'[i].content[1] = batch'.files[e.path].text
        \/ <<e.path, weld>> \in imp'.kept \/ i \in foreign'
    BY <1>2 DEF Taking
  <2>3. new.path \in Sound'
    BY <1>3, <1>5, <2>1
  <2> QED
    BY <1>5, <2>1, <2>2, <2>3 DEF EntryFits
<1>11. Ordered(imp'.index) /\ Apart(imp'.todo) /\ After(imp'.index, imp'.todo)
  <2>1. Ordered(imp.index) /\ Apart(imp.todo) /\ After(imp.index, imp.todo)
    BY <1>0 DEF IndexFits, TodoFits
  <2>2. Kinded(e) => new.weld = e.weld
    BY <1>5 DEF Taking
  <2>3. /\ Ordered(Append(imp.index, new)) /\ Apart(imp.todo \ {e})
        /\ After(Append(imp.index, new), imp.todo \ {e})
    BY <1>1, <1>5, <2>1, <2>2, OrderGrows
  <2> QED
    BY <1>2, <2>3
<1>12. IndexFits'
  <2>1. ASSUME NEW j \in DOMAIN imp'.index PROVE EntryFits(imp.index[j])'
    <3>1. PICK x : x = imp'.index[j]
      OBVIOUS
    <3>2. EntryFits(x)'
      BY <1>0, <1>6, <1>9, <1>10, <3>1 DEF IndexFits
    <3> QED
      BY <3>1, <3>2 DEF EntryFits
  <2> QED
    BY <1>11, <2>1 DEF IndexFits
<1>13. TodoFits'
  <2>1. \A x \in imp'.todo : x.path \in Sound'
    BY <1>0, <1>2 DEF TodoFits, Sound, Taking
  <2> QED
    BY <1>11, <2>1 DEF TodoFits
<1>14. DraftFits' /\ FreshFits'
  BY <1>2 DEF DraftFits, FreshFits
<1> QED
  BY <1>7, <1>8, <1>12, <1>13, <1>14 DEF ImportInv

\* Of what is to be done, one thing is dropped.
LEMMA DroppingKeeps ==
  ASSUME ImportInv, imp.at = "files", NEW e \in Upcoming(imp.todo), Rejected(e),
         UNCHANGED <<shelf, batch, foreign>>, imp.draft = 0 \/ imp.draft \in foreign
  PROVE  ImportInv'
<1>0. ImportTypeOK /\ BookFits /\ IndexFits /\ TodoFits /\ FreshFits
  BY DEF ImportInv
<1>1. imp.todo \in SUBSET Tasks /\ DOMAIN imp = ImportFields
  BY <1>0 DEF ImportTypeOK
<1>2. /\ imp'.at = imp.at /\ DOMAIN imp' = ImportFields /\ imp'.book = imp.book
      /\ imp'.todo = imp.todo \ {e} /\ imp'.draft = 0 /\ imp'.fresh = imp.fresh
      /\ imp'.next = imp.next /\ imp'.index = imp.index /\ imp'.kept = imp.kept
  BY <1>1 DEF Rejected, ImportFields
<1>3. ImportTypeOK'
  BY <1>0, <1>1, <1>2 DEF ImportTypeOK
<1>4. BookFits'
  <2>1. 0 \notin DOMAIN shelf
    BY <1>0, RowsNumbered
  <2> QED
    BY <1>0, <1>2, <2>1 DEF BookFits, IsProcess
<1>5. IndexFits'
  <2>1. ASSUME NEW x, EntryFits(x) PROVE EntryFits(x)'
    BY <1>2, <2>1 DEF EntryFits, IsProcess, Sound
  <2>2. ASSUME NEW j \in DOMAIN imp'.index PROVE EntryFits(imp.index[j])'
    <3>1. PICK x : x = imp'.index[j]
      OBVIOUS
    <3>2. EntryFits(x)'
      BY <1>0, <1>2, <2>1, <3>1 DEF IndexFits
    <3> QED
      BY <3>1, <3>2 DEF EntryFits
  <2> QED
    BY <1>0, <1>2, <2>2 DEF IndexFits
<1>6. TodoFits'
  BY <1>0, <1>2 DEF TodoFits, Apart, After, Sound
<1>7. DraftFits' /\ FreshFits'
  BY <1>0, <1>2 DEF DraftFits, FreshFits, RefFits
<1> QED
  BY <1>3, <1>4, <1>5, <1>6, <1>7 DEF ImportInv

\* File e is written to row i, a draft that nobody of the batch has.
Drafting(e, i) ==
  /\ imp' = [imp EXCEPT !.draft = i] /\ UNCHANGED <<batch, foreign>>
  /\ Alone(i) /\ i \in DOMAIN shelf' /\ i \notin imp.book.claimed
  /\ shelf'[i].kind = "process" /\ shelf'[i].status = "draft"
  /\ shelf'[i].content[1] = batch.files[e.path].text
  /\ Kinded(e) => shelf'[i].weld = e.weld
  /\ i \in DOMAIN shelf => shelf'[i].weld = shelf[i].weld

\* The invariant is kept.
LEMMA DraftingKeeps ==
  ASSUME ImportInv, imp.at = "files", imp.draft = 0, NEW e \in Upcoming(imp.todo), NEW i, Drafting(e, i)
  PROVE  ImportInv'
<1>0. ImportTypeOK /\ BookFits /\ IndexFits /\ TodoFits /\ FreshFits
  BY DEF ImportInv
<1>1. imp.todo \in SUBSET Tasks /\ DOMAIN imp = ImportFields /\ imp.fresh = {}
  BY <1>0 DEF ImportTypeOK, FreshFits
<1>2. /\ imp'.at = imp.at /\ DOMAIN imp' = ImportFields /\ imp'.book = imp.book
      /\ imp'.todo = imp.todo /\ imp'.draft = i /\ imp'.fresh = {}
      /\ imp'.next = imp.next /\ imp'.index = imp.index /\ imp'.kept = imp.kept
  BY <1>1 DEF Drafting, ImportFields
<1>3. /\ shelf' \in Seq(AssetRow) /\ DOMAIN shelf' = DOMAIN shelf \cup {i}
      /\ \A j \in DOMAIN shelf : shelf'[j].kind = shelf[j].kind /\ (j # i => shelf'[j] = shelf[j])
      /\ i \in DOMAIN shelf'
  BY DEF Drafting, Alone
<1>4. ImportTypeOK'
  BY <1>0, <1>1, <1>2, <1>3 DEF ImportTypeOK, Drafting
<1>5. BookFits'
  <2>1. imp.draft \notin DOMAIN shelf
    BY <1>0, RowsNumbered
  <2>2. ASSUME NEW j \in DOMAIN imp.book.rows
        PROVE  /\ imp.book.rows[j].kind = shelf'[j].kind
               /\ IsProcess(j)' => imp.book.rows[j].weld = shelf'[j].weld
               /\ IsProcess(j)' => \/ imp.book.rows[j].content = shelf'[j].content
                                   \/ j \in foreign' \/ j = i
    <3>1. /\ j \in DOMAIN shelf /\ imp.book.rows[j].kind = shelf[j].kind
          /\ IsProcess(j) => imp.book.rows[j].weld = shelf[j].weld
          /\ IsProcess(j) => \/ imp.book.rows[j].content = shelf[j].content
                             \/ j \in foreign \/ j = imp.draft
      BY <1>0 DEF BookFits
    <3>2. IsProcess(j)' => IsProcess(j)
      BY <1>3, <3>1 DEF IsProcess
    <3>3. shelf'[j].kind = shelf[j].kind /\ (j # i => shelf'[j] = shelf[j])
      BY <1>3, <3>1
    <3>4. foreign' = foreign /\ (j = i => shelf'[j].weld = shelf[j].weld)
      BY <3>1 DEF Drafting
    <3> QED
      BY <2>1, <3>1, <3>2, <3>3, <3>4
  <2>3. /\ DOMAIN imp.book.rows \subseteq DOMAIN shelf'
        /\ imp.book.procs \subseteq DOMAIN imp.book.rows
        /\ \A j \in imp.book.procs : IsProcess(j)'
        /\ imp.book.claimed \subseteq DOMAIN imp.book.rows
    BY <1>0, <1>3 DEF BookFits, IsProcess
  <2>4. \A k \in DOMAIN imp.book.names :
          /\ k = <<k[1], k[2]>> /\ imp.book.names[k] \in DOMAIN imp.book.rows
          /\ imp.book.rows[imp.book.names[k]].kind = k[1]
    BY <1>0 DEF BookFits
  <2> QED
    BY <1>2, <2>2, <2>3, <2>4 DEF BookFits
<1>6. ASSUME NEW x, EntryFits(x) PROVE EntryFits(x)'
  <2>1. x.id # i
    BY <1>6 DEF EntryFits, Drafting
  <2> QED
    BY <1>2, <1>6, <2>1, EntryStands DEF Drafting
<1>7. IndexFits'
  <2>1. ASSUME NEW j \in DOMAIN imp'.index PROVE EntryFits(imp.index[j])'
    <3>1. PICK x : x = imp'.index[j]
      OBVIOUS
    <3>2. EntryFits(x)'
      BY <1>0, <1>2, <1>6, <3>1 DEF IndexFits
    <3> QED
      BY <3>1, <3>2 DEF EntryFits
  <2> QED
    BY <1>0, <1>2, <2>1 DEF IndexFits
<1>8. TodoFits' /\ FreshFits'
  BY <1>0, <1>2 DEF TodoFits, FreshFits, Sound, Drafting
<1>9. DraftFits'
  <2>1. ASSUME NEW x \in Upcoming(imp.todo) PROVE x = e
    BY <1>0, <1>1, <2>1, UpcomingOne DEF TodoFits
  <2>2. /\ IsProcess(i)' /\ i \notin imp'.book.claimed
        /\ Kinded(e) => shelf'[i].weld = e.weld
        /\ shelf'[i].status = "draft" /\ shelf'[i].content[1] = batch'.files[e.path].text
    BY <1>2 DEF Drafting, IsProcess
  <2>3. imp'.at # "projects" /\ Upcoming(imp'.todo) # {} /\ \A x \in Upcoming(imp'.todo) : x = e
    BY <1>2, <2>1
  <2> QED
    BY <1>2, <2>2, <2>3 DEF DraftFits
<1> QED
  BY <1>4, <1>5, <1>7, <1>8, <1>9 DEF ImportInv

\* The index goes by the kind of the row, that of the file if it has one.
LEMMA IndexWeldIs ==
  ASSUME NEW e, NEW row, Kinded(e) => row.weld = e.weld
  PROVE  IndexWeld(e, row) = row.weld
BY DEF IndexWeld, Kinded

\* What a row under a name of the book is, if no path of the batch has the name.
LEMMA NamedRow ==
  ASSUME ImportTypeOK, BookFits, NEW k \in DOMAIN imp.book.names
  PROVE  /\ imp.book.names[k] \in DOMAIN shelf /\ imp.book.names[k] \in DOMAIN imp.book.rows
         /\ shelf[imp.book.names[k]].kind = k[1] /\ imp.book.rows[imp.book.names[k]].kind = k[1]
BY DEF BookFits

\* A row that is appended moves alone, ...
LEMMA AppendAlone ==
  ASSUME ImportTypeOK, NEW row \in AssetRow, shelf' = Append(shelf, row)
  PROVE  Alone(Len(shelf) + 1) /\ shelf'[Len(shelf) + 1] = row /\ Len(shelf) + 1 \notin DOMAIN shelf
         /\ Len(shelf) + 1 \in DOMAIN shelf' /\ Len(shelf) + 1 \in Nat \ {0}
<1>1. shelf \in Seq(AssetRow)
  BY DEF ImportTypeOK
<1>2. /\ Len(shelf) \in Nat /\ DOMAIN shelf = 1..Len(shelf)
      /\ shelf' \in Seq(AssetRow) /\ DOMAIN shelf' = 1..(Len(shelf) + 1)
      /\ shelf'[Len(shelf) + 1] = row
      /\ \A i \in 1..Len(shelf) : shelf'[i] = shelf[i]
  BY <1>1, SeqNumbered, SeqAppended
<1>3. /\ DOMAIN shelf' = DOMAIN shelf \cup {Len(shelf) + 1}
      /\ Len(shelf) + 1 \notin DOMAIN shelf /\ Len(shelf) + 1 \in Nat \ {0}
  BY <1>2
<1> QED
  BY <1>2, <1>3 DEF Alone

\* ... so does one that is replaced, ...
LEMMA InPlaceAlone ==
  ASSUME ImportTypeOK, NEW i \in DOMAIN shelf, NEW row \in AssetRow, row.kind = shelf[i].kind,
         shelf' = [shelf EXCEPT ![i] = row]
  PROVE  Alone(i) /\ shelf'[i] = row /\ i \in DOMAIN shelf'
<1>1. shelf \in Seq(AssetRow)
  BY DEF ImportTypeOK
<1>2. /\ DOMAIN shelf' = DOMAIN shelf /\ shelf'[i] = row
      /\ \A j \in DOMAIN shelf : j # i => shelf'[j] = shelf[j]
  OBVIOUS
<1>3. shelf' \in Seq(AssetRow)
  BY <1>1
<1> QED
  BY <1>2, <1>3 DEF Alone

\* ... and one that stays as it is.
LEMMA StillAlone ==
  ASSUME ImportTypeOK, NEW i \in DOMAIN shelf, UNCHANGED shelf
  PROVE  Alone(i)
BY DEF Alone, ImportTypeOK

\* A row with other content, another status and the next revision is a row.
LEMMA AssetRowWritten ==
  ASSUME NEW row \in AssetRow, NEW content \in RowContents,
         NEW status \in {"draft", "available", "disabled"}
  PROVE  /\ [row EXCEPT !.content = content, !.rev = @ + 1] \in AssetRow
         /\ [row EXCEPT !.status = status, !.rev = @ + 1] \in AssetRow
<1>1. row.rev + 1 \in Nat
  BY DEF AssetRow
<1> QED
  BY <1>1 DEF AssetRow

\* The files are as they should be.
LEMMA FilesTyped ==
  ASSUME ImportTypeOK, NEW p \in FilePaths
  PROVE  /\ batch.files[p].base \in Stems /\ batch.files[p].text \in Texts
         /\ Raw(batch.files[p].text) \in RowContents /\ Normal(batch.files[p].text) \in RowContents
         /\ Raw(batch.files[p].text)[1] = batch.files[p].text
         /\ Normal(batch.files[p].text)[1] = batch.files[p].text
<1>1. batch.files[p] \in Files
  BY DEF ImportTypeOK
<1>2. batch.files[p].base \in Stems /\ batch.files[p].text \in Texts
  BY <1>1 DEF Files
<1> QED
  BY <1>2 DEF Raw, Normal, RowContents

\* The book has a process that file e may have, and the library has it as it was.
Free(e, i) ==
  /\ IsProcess(i) /\ i \in DOMAIN imp.book.rows /\ i \notin imp.book.claimed
  /\ Kinded(e) => imp.book.rows[i].weld = e.weld

\* A process of the book is taken as it is.
LEMMA AsItIs ==
  ASSUME ImportInv, imp.at = "files", imp.draft = 0, NEW e \in Upcoming(imp.todo), NEW i, Free(e, i),
         NEW kept \in BOOLEAN, Stands(e, i, imp.book.rows[i], IndexWeld(e, imp.book.rows[i]), kept),
         kept \/ imp.book.rows[i].content[1] = batch.files[e.path].text,
         UNCHANGED <<shelf, batch, foreign>>
  PROVE  ImportInv'
<1> DEFINE row == imp.book.rows[i]
<1>1. ImportTypeOK /\ BookFits
  BY DEF ImportInv
<1>2. /\ row.kind = shelf[i].kind /\ row.weld = shelf[i].weld /\ shelf[i].kind = "process"
      /\ i \in DOMAIN shelf
      /\ row.content = shelf[i].content \/ i \in foreign
  <2>1. 0 \notin DOMAIN shelf
    BY <1>1, RowsNumbered
  <2> QED
    BY <1>1, <2>1 DEF BookFits, Free, IsProcess
<1>3. IndexWeld(e, row) = row.weld
  BY IndexWeldIs DEF Free
<1>4. Alone(i)
  BY <1>1, <1>2, StillAlone
<1>5. shelf' = shelf /\ i \in DOMAIN shelf
  BY <1>2
<1> DEFINE weld == row.weld
<1>6. Stands(e, i, row, weld, kept)
  BY <1>3
<1>7. Taking(e, i, row, weld, kept)
  BY <1>2, <1>4, <1>5, <1>6 DEF Taking, Free, IsProcess
<1> HIDE DEF row, weld
<1> QED
  BY <1>7, TakingKeeps

\* A process of the library is overwritten.
LEMMA OverwriteKeeps ==
  ASSUME ImportInv, imp.at = "files", imp.draft = 0, NEW e \in Upcoming(imp.todo), NEW i, Free(e, i),
         OverwriteProcess(e, i), UNCHANGED <<batch, foreign>>
  PROVE  ImportInv'
<1>0. ImportTypeOK /\ BookFits /\ e.path \in FilePaths
  <2>1. imp.todo \in SUBSET Tasks /\ ImportTypeOK /\ BookFits
    BY DEF ImportInv, ImportTypeOK
  <2> QED
    BY <2>1 DEF Upcoming, Tasks
<1>1. CASE Rejected(e) /\ UNCHANGED shelf
  BY <1>1, DroppingKeeps
<1> DEFINE row == [shelf[i] EXCEPT !.content = Raw(batch.files[e.path].text), !.rev = @ + 1]
<1>2. i \in DOMAIN shelf /\ shelf[i].kind = "process" /\ imp.book.rows[i].weld = shelf[i].weld
  BY <1>0 DEF Free, IsProcess, BookFits
<1>3. row \in AssetRow
  <2>1. shelf[i] \in AssetRow
    BY <1>0, <1>2, RowsNumbered
  <2>2. Raw(batch.files[e.path].text) \in RowContents
    BY <1>0, FilesTyped
  <2> QED
    BY <2>1, <2>2, AssetRowWritten
<1>4. /\ row.kind = shelf[i].kind /\ row.weld = shelf[i].weld /\ row.status = shelf[i].status
      /\ row.content[1] = batch.files[e.path].text
  <2>1. shelf[i] \in AssetRow
    BY <1>0, <1>2, RowsNumbered
  <2> QED
    BY <1>0, <2>1, FilesTyped DEF AssetRow
<1>5. CASE /\ shelf' = [shelf EXCEPT ![i] = row]
           /\ IF row.status = "draft" THEN imp' = [imp EXCEPT !.draft = i]
              ELSE Stands(e, i, row, IndexWeld(e, row), FALSE)
  <2> HIDE DEF row
  <2>1. Alone(i) /\ shelf'[i] = row /\ i \in DOMAIN shelf'
    BY <1>0, <1>2, <1>3, <1>4, <1>5, InPlaceAlone
  <2>2. CASE row.status = "draft" /\ imp' = [imp EXCEPT !.draft = i]
    <3>1. Drafting(e, i)
      BY <1>2, <1>4, <2>1, <2>2 DEF Drafting, Free
    <3> QED
      BY <3>1, DraftingKeeps
  <2>3. CASE Stands(e, i, row, IndexWeld(e, row), FALSE)
    <3>1. IndexWeld(e, row) = row.weld
      BY <1>2, <1>4, IndexWeldIs DEF Free
    <3> DEFINE weld == row.weld
    <3>2. Stands(e, i, row, weld, FALSE)
      BY <2>3, <3>1
    <3>3. Taking(e, i, row, weld, FALSE)
      BY <1>2, <1>4, <2>1, <3>2 DEF Taking, Free, IsProcess
    <3> HIDE DEF weld
    <3> QED
      BY <3>3, TakingKeeps
  <2> QED
    BY <1>5, <2>2, <2>3
<1> QED
  BY <1>1, <1>5 DEF OverwriteProcess

\* A process is created.
LEMMA CreateKeeps ==
  ASSUME ImportInv, imp.at = "files", imp.draft = 0, NEW e \in Upcoming(imp.todo),
         NEW n \in Seq(Pieces), CreateImported(e, n), UNCHANGED <<batch, foreign>>
  PROVE  ImportInv'
<1>0. ImportTypeOK /\ BookFits /\ e.path \in FilePaths /\ e.weld \in WeldKinds \cup {""}
  <2>1. imp.todo \in SUBSET Tasks /\ ImportTypeOK /\ BookFits
    BY DEF ImportInv, ImportTypeOK
  <2> QED
    BY <2>1 DEF Upcoming, Tasks
<1>1. CASE Rejected(e) /\ UNCHANGED shelf
  BY <1>1, DroppingKeeps
<1> DEFINE weld == IF e.weld = "" THEN "single" ELSE e.weld
           text == batch.files[e.path].text
           row == NewProcess(n, weld, Normal(text), "draft")
           i == Len(shelf) + 1
<1>2. weld \in WeldKinds /\ (Kinded(e) => weld = e.weld)
  BY <1>0, WeldsPlaced DEF Kinded
<1>3. row \in AssetRow /\ row.kind = "process" /\ row.status = "draft" /\ row.weld = weld
      /\ row.content = Normal(text)
  <2>1. Normal(text) \in RowContents
    BY <1>0, FilesTyped
  <2> HIDE DEF weld, text
  <2> QED
    BY <1>2, <2>1 DEF NewProcess, AssetRow
<1>4. CASE shelf' = Append(shelf, row) /\ imp' = [imp EXCEPT !.draft = i]
  <2> HIDE DEF row
  <2>1. Alone(i) /\ shelf'[i] = row /\ i \notin DOMAIN shelf /\ i \in DOMAIN shelf'
    BY <1>0, <1>3, <1>4, AppendAlone
  <2>2. i \notin imp.book.claimed
    BY <1>0, <2>1 DEF BookFits
  <2>3. shelf'[i].content[1] = text
    BY <1>0, <1>3, <2>1, FilesTyped
  <2> HIDE DEF i, weld
  <2>4. Drafting(e, i)
    BY <1>2, <1>3, <1>4, <2>1, <2>2, <2>3 DEF Drafting
  <2> QED
    BY <2>4, DraftingKeeps
<1> QED
  BY <1>1, <1>4 DEF CreateImported

\* The draft is published.
LEMMA PublishKeeps ==
  ASSUME ImportInv, PublishImported
  PROVE  ImportInv'
<1>1. imp.at = "files" /\ imp.draft # 0 /\ UNCHANGED <<batch, foreign>>
  BY DEF PublishImported
<1> DEFINE i == imp.draft
           row == [shelf[i] EXCEPT !.status = "available", !.rev = @ + 1]
<1>2. PICK e \in Upcoming(imp.todo) :
        IF i \in foreign \/ shelf[i].status # "draft"
        THEN Rejected(e) /\ UNCHANGED shelf
        ELSE /\ shelf' = [shelf EXCEPT ![i] = row]
             /\ Stands(e, i, row, IndexWeld(e, row), FALSE)
  BY DEF PublishImported
<1>3. /\ ImportTypeOK /\ IsProcess(i) /\ i \notin imp.book.claimed
      /\ Kinded(e) => shelf[i].weld = e.weld
      /\ \/ i \in foreign
         \/ shelf[i].status = "draft" /\ shelf[i].content[1] = batch.files[e.path].text
  BY <1>1 DEF ImportInv, DraftFits
<1>4. CASE i \in foreign \/ shelf[i].status # "draft"
  <2>1. Rejected(e) /\ UNCHANGED shelf /\ imp.draft \in foreign
    BY <1>2, <1>3, <1>4
  <2> QED
    BY <1>1, <2>1, DroppingKeeps
<1>5. CASE ~(i \in foreign \/ shelf[i].status # "draft")
  <2>1. /\ shelf' = [shelf EXCEPT ![i] = row] /\ Stands(e, i, row, IndexWeld(e, row), FALSE)
        /\ shelf[i].content[1] = batch.files[e.path].text
    BY <1>2, <1>3, <1>5
  <2>2. i \in DOMAIN shelf /\ shelf[i] \in AssetRow /\ shelf[i].kind = "process"
    BY <1>3, RowsNumbered DEF IsProcess
  <2>3. row \in AssetRow /\ row.kind = shelf[i].kind /\ row.weld = shelf[i].weld
        /\ row.content = shelf[i].content
    <3>1. <<>> \in RowContents
      BY DEF RowContents
    <3>2. row \in AssetRow
      BY <2>2, <3>1, AssetRowWritten
    <3> QED
      BY <2>2, <3>2 DEF AssetRow
  <2> HIDE DEF row
  <2>4. Alone(i) /\ shelf'[i] = row
    BY <1>3, <2>1, <2>2, <2>3, InPlaceAlone
  <2>5. IndexWeld(e, row) = row.weld
    BY <1>3, <2>3, IndexWeldIs
  <2> DEFINE weld == row.weld
  <2>6. Stands(e, i, row, weld, FALSE)
    BY <2>1, <2>5
  <2> HIDE DEF i
  <2>7. Taking(e, i, row, weld, FALSE)
    <3>1. imp.draft = i
      BY DEF i
    <3> QED
      BY <1>1, <1>3, <2>1, <2>2, <2>3, <2>4, <2>6, <3>1 DEF Taking
  <2> HIDE DEF weld
  <2> QED
    BY <1>1, <2>7, TakingKeeps
<1> QED
  BY <1>4, <1>5

\* Names are made of pieces.
LEMMA NamesTyped ==
  ASSUME NEW s \in Stems, NEW suffix \in Seq(Pieces)
  PROVE  /\ Name(s, suffix) \in Seq(Pieces) /\ PathLabel(s, suffix) \in Seq(Pieces)
         /\ Spelled[s] \in Seq(Pieces)
<1>1. Spelled[s] \in Seq(Pieces)
  BY LegacyImportConstants
<1> QED
  BY <1>1 DEF Name, PathLabel

\* Paths are stems of names.
LEMMA StemsAre == FilePaths \subseteq Stems
BY LegacyImportConstants DEF FilePaths, Range

\* A serial number is a piece of a name.
LEMMA SerialsTyped == \A t \in Serials : Serial(t) \in Seq(Pieces)
<1>1. Len(Numbers) \in Nat /\ DOMAIN Numbers = 1..Len(Numbers)
      /\ \A i \in DOMAIN Numbers : Numbers[i] \in Pieces
  BY LegacyImportConstants, SeqNumbered
<1>2. \A t \in Serials : t \in DOMAIN Numbers
  BY <1>1 DEF Serials
<1> QED
  BY <1>1, <1>2 DEF Serial

\* A name found elsewhere is a name, and nobody's.
LEMMA ElsewhereFree ==
  ASSUME NEW n, NEW label \in Seq(Pieces), NEW busy, NEW x \in Elsewhere(n, label, busy)
  PROVE  x \in Seq(Pieces) /\ x \notin busy
<1>1. CASE x = label /\ label \notin busy
  BY <1>1
<1>2. ASSUME NEW t \in Serials, x = label \o Serial(t), label \o Serial(t) \notin busy
      PROVE  x \in Seq(Pieces) /\ x \notin busy
  <2>1. Serial(t) \in Seq(Pieces)
    BY SerialsTyped
  <2> QED
    BY <1>2, <2>1
<1> QED
  BY <1>1, <1>2 DEF Elsewhere

\* The row a known name stands for is not of the batch unless the name is.
LEMMA KnownRow ==
  ASSUME ImportTypeOK, BookFits, NEW kind, NEW n \in Named(imp.book, kind), NEW i,
         i = imp.book.names[<<kind, n>>]
  PROVE  /\ i \in DOMAIN shelf /\ i \in DOMAIN imp.book.rows
         /\ shelf[i].kind = kind /\ imp.book.rows[i].kind = kind
         /\ n \notin Taken(imp.book, kind) => i \notin imp.book.claimed
<1>1. <<kind, n>> \in DOMAIN imp.book.names
  <2>1. PICK k \in DOMAIN imp.book.names : k[1] = kind /\ k[2] = n
    BY DEF Named
  <2>2. k = <<k[1], k[2]>>
    BY DEF BookFits
  <2> QED
    BY <2>1, <2>2
<1>2. <<kind, n>>[1] = kind
  OBVIOUS
<1> QED
  BY <1>1, <1>2, NamedRow DEF Taken

\* The content of a file, as it is and normalised, is of its text.
LEMMA SumsOf ==
  ASSUME NEW f, NEW c \in Sums(f)
  PROVE  c[1] = f.text
<1>1. Raw(f.text)[1] = f.text /\ Normal(f.text)[1] = f.text
  BY DEF Raw, Normal
<1> QED
  BY <1>1 DEF Sums

\* A process that has the content of a file already.
LEMMA SameIsFree ==
  ASSUME ImportInv, NEW e, NEW i \in imp.book.procs \ imp.book.claimed,
         e.weld # "" => imp.book.rows[i].weld = e.weld,
         imp.book.rows[i].content \in Sums(batch.files[e.path]), imp.at # "idle"
  PROVE  Free(e, i) /\ imp.book.rows[i].content[1] = batch.files[e.path].text
<1>1. imp.book.rows[i].content[1] = batch.files[e.path].text
  BY SumsOf
<1>2. BookFits
  BY DEF ImportInv
<1> QED
  BY <1>1, <1>2 DEF BookFits, Free, Kinded

\* The process a factory takes for a file because of its content, ...
LEMMA SameContentIs ==
  ASSUME ImportInv, imp.at # "idle", NEW e, NEW i \in SameContent(imp.book, e.path, e.weld)
  PROVE  Free(e, i) /\ imp.book.rows[i].content[1] = batch.files[e.path].text
<1>1. /\ i \in imp.book.procs \ imp.book.claimed
      /\ e.weld # "" => imp.book.rows[i].weld = e.weld
      /\ imp.book.rows[i].content \in Sums(batch.files[e.path])
  <2> DEFINE f == batch.files[e.path]
             fit == {h \in imp.book.procs \ imp.book.claimed :
                  /\ imp.book.rows[h].status = "available"
                  /\ e.weld # "" => imp.book.rows[h].weld = e.weld
                  /\ imp.book.rows[h].content \in Sums(f)}
             ranks(h) == Rank(e.path, f.base, e.weld, imp.book.rows[h].name)
             ranked == UNION {{<<r, h>> : r \in ranks(h)} : h \in fit}
  <2>1. SameContent(imp.book, e.path, e.weld) =
          {x[2] : x \in {y \in ranked : \A z \in ranked : y[1] < z[1] \/ (y[1] = z[1] /\ y[2] >= z[2])}}
    BY DEF SameContent
  <2> HIDE DEF ranks, fit
  <2>2. PICK x \in ranked : i = x[2]
    BY <2>1
  <2>3. PICK h \in fit : \E r \in ranks(h) : x = <<r, h>>
    BY <2>2
  <2>4. i \in fit
    BY <2>2, <2>3
  <2> QED
    BY <2>4 DEF fit
<1> QED
  BY <1>1, SameIsFree

\* ... and the one the WAN takes.
LEMMA PlatformSameIs ==
  ASSUME ImportInv, imp.at # "idle", NEW e, NEW i \in PlatformSame(imp.book, e.path, e.weld)
  PROVE  Free(e, i) /\ imp.book.rows[i].content[1] = batch.files[e.path].text
<1>1. /\ i \in imp.book.procs \ imp.book.claimed
      /\ e.weld # "" => imp.book.rows[i].weld = e.weld
      /\ imp.book.rows[i].content \in Sums(batch.files[e.path])
  <2> DEFINE f == batch.files[e.path]
             fit == {h \in imp.book.procs \ imp.book.claimed :
                  /\ imp.book.rows[h].status = "available"
                  /\ e.weld # "" => imp.book.rows[h].weld = e.weld
                  /\ imp.book.rows[h].content \in Sums(f)}
             ranks(h) == CandidateRank(ImportCandidates(e.path, f.base, e.weld), imp.book.rows[h].name)
             ranked == UNION {{<<r, h>> : r \in ranks(h)} : h \in fit}
  <2>1. PlatformSame(imp.book, e.path, e.weld) =
          {x[2] : x \in {y \in ranked : \A z \in ranked : y[1] < z[1] \/ (y[1] = z[1] /\ y[2] >= z[2])}}
    BY DEF PlatformSame
  <2> HIDE DEF ranks, fit
  <2>2. PICK x \in ranked : i = x[2]
    BY <2>1
  <2>3. PICK h \in fit : \E r \in ranks(h) : x = <<r, h>>
    BY <2>2
  <2>4. i \in fit
    BY <2>2, <2>3
  <2> QED
    BY <2>4 DEF fit
<1> QED
  BY <1>1, SameIsFree

\* A file is taken in by a factory.
LEMMA LegacyProcessKeeps ==
  ASSUME ImportInv, ImportLegacyProcess
  PROVE  ImportInv'
<1>1. imp.at = "files" /\ imp.draft = 0 /\ UNCHANGED <<batch, foreign>>
  BY DEF ImportLegacyProcess
<1> DEFINE b == imp.book
           busy == Taken(b, "process")
           label(e) == PathLabel(e.path, e.suffix)
           n0(e) == Name(batch.files[e.path].base, e.suffix)
           own(e) == IF n0(e) \in busy THEN Elsewhere(n0(e), label(e), busy) ELSE {n0(e)}
           same(e) == SameContent(b, e.path, e.weld)
           Renamed(e, n) == \E new \in Elsewhere(n, label(e), Named(b, "process")) : CreateImported(e, new)
           Other(e, i) == e.weld # "" /\ b.rows[i].weld # e.weld
           Judged(e, n, i) ==
             IF Other(e, i) THEN Renamed(e, n)
             ELSE IF batch.files[e.path].mode = "overwrite" THEN OverwriteProcess(e, i)
             ELSE IF batch.files[e.path].mode = "rename" THEN Renamed(e, n)
             ELSE /\ Stands(e, i, b.rows[i], IndexWeld(e, b.rows[i]), TRUE)
                  /\ UNCHANGED <<shelf, made>>
<1>2. PICK e \in Upcoming(imp.todo) :
        IF same(e) # {}
        THEN /\ \E i \in same(e) : Stands(e, i, b.rows[i], IndexWeld(e, b.rows[i]), FALSE)
             /\ UNCHANGED <<shelf, made>>
        ELSE \E n \in own(e) :
               IF n \notin Named(b, "process") THEN CreateImported(e, n)
               ELSE Judged(e, n, b.names[<<"process", n>>])
  BY DEF ImportLegacyProcess
<1> HIDE DEF Judged
<1>3. ImportTypeOK /\ BookFits
  BY <1>1 DEF ImportInv
<1>4. label(e) \in Seq(Pieces) /\ n0(e) \in Seq(Pieces)
  <2>1. e.path \in FilePaths /\ e.suffix \in Seq(Pieces)
    BY <1>1, <1>3 DEF ImportTypeOK, Upcoming, Tasks
  <2> QED
    BY <1>3, <2>1, FilesTyped, StemsAre, NamesTyped
<1> HIDE DEF label, n0, same
<1>5. CASE same(e) # {}
  <2>1. PICK i \in same(e) : Stands(e, i, b.rows[i], IndexWeld(e, b.rows[i]), FALSE) /\ UNCHANGED shelf
    BY <1>2, <1>5
  <2>2. Free(e, i) /\ b.rows[i].content[1] = batch.files[e.path].text
    BY <1>1, SameContentIs DEF same
  <2> QED
    BY <1>1, <2>1, <2>2, AsItIs
<1>6. CASE same(e) = {}
  <2>1. PICK n \in own(e) : IF n \notin Named(b, "process") THEN CreateImported(e, n)
                            ELSE Judged(e, n, b.names[<<"process", n>>])
    BY <1>2, <1>6
  <2>2. n \in Seq(Pieces) /\ n \notin busy
    BY <1>4, <2>1, ElsewhereFree
  <2>3. CASE n \notin Named(b, "process")
    BY <1>1, <2>1, <2>2, <2>3, CreateKeeps
  <2>4. CASE n \in Named(b, "process")
    <3>1. PICK i : i = b.names[<<"process", n>>]
      OBVIOUS
    <3>2. Judged(e, n, i)
      BY <2>1, <2>4, <3>1
    <3>3. /\ i \in DOMAIN shelf /\ i \in DOMAIN b.rows /\ shelf[i].kind = "process"
          /\ i \notin b.claimed
      BY <1>3, <2>2, <2>4, <3>1, KnownRow
    <3>4. CASE Renamed(e, n)
      <4>1. PICK new \in Elsewhere(n, label(e), Named(b, "process")) : CreateImported(e, new)
        BY <3>4
      <4>2. new \in Seq(Pieces)
        BY <1>4, ElsewhereFree
      <4> QED
        BY <1>1, <4>1, <4>2, CreateKeeps
    <3>5. CASE ~Other(e, i)
      <4>1. Free(e, i)
        BY <3>3, <3>5 DEF Free, IsProcess, Kinded
      <4>2. CASE OverwriteProcess(e, i)
        BY <1>1, <4>1, <4>2, OverwriteKeeps
      <4>3. CASE Stands(e, i, b.rows[i], IndexWeld(e, b.rows[i]), TRUE) /\ UNCHANGED shelf
        BY <1>1, <4>1, <4>3, AsItIs
      <4> QED
        BY <3>2, <3>4, <3>5, <4>2, <4>3 DEF Judged
    <3> QED
      BY <3>2, <3>4, <3>5 DEF Judged
  <2> QED
    BY <2>3, <2>4
<1> QED
  BY <1>5, <1>6

\* A name that is cut is a name.
LEMMA ClipTyped ==
  ASSUME NEW n \in Seq(Pieces), NEW tail \in Seq(Pieces)
  PROVE  ClipAssetName(n, tail) \in Seq(Pieces)
<1>1. CASE Len(n) + Len(tail) > NameMax /\ Len(tail) <= NameMax
  <2> DEFINE k == NameMax - Len(tail)
             cut == SubSeq(n, 1, k)
  <2>1. k \in Int /\ k <= Len(n) /\ NameMax \in Nat
    BY <1>1, NameMaxAssumption
  <2>2. \A i \in 1..k : n[i] \in Pieces
    BY <2>1
  <2>3. cut \in Seq(Pieces)
    BY <2>1, <2>2
  <2> HIDE DEF cut
  <2>4. cut \o tail \in Seq(Pieces)
    BY <2>3
  <2> QED
    BY <1>1, <2>4 DEF ClipAssetName, cut
<1>2. CASE ~(Len(n) + Len(tail) > NameMax /\ Len(tail) <= NameMax)
  BY <1>2 DEF ClipAssetName
<1> QED
  BY <1>1, <1>2

\* The row found under names is one of the kind, in the book.
LEMMA FoundRow ==
  ASSUME ImportTypeOK, BookFits, NEW kind, NEW names, NEW i \in Find(imp.book, kind, names)
  PROVE  /\ i \in DOMAIN shelf /\ i \in DOMAIN imp.book.rows
         /\ shelf[i].kind = kind /\ imp.book.rows[i].kind = kind
<1>1. PICK n \in FirstIn(names, Named(imp.book, kind)) : i = imp.book.names[<<kind, n>>]
  BY DEF Find
<1>2. n \in Named(imp.book, kind)
  BY DEF FirstIn
<1> QED
  BY <1>1, <1>2, KnownRow

\* The names looked for with a serial number, or without, that no row has.
LEMMA AnewFree ==
  ASSUME NEW b, NEW kind, NEW names, NEW p \in Stems, NEW suffix \in Seq(Pieces), NEW ids,
         names[2] \in Seq(Pieces),
         NEW ns \in Anew(b, kind, names, p, suffix, ids)
  PROVE  ns[2] \in Seq(Pieces) /\ Find(b, kind, ns) \cap ids = {}
<1> DEFINE label == <<RawPathLabel(p, suffix), ImportPathLabel(p, suffix)>>
           root == IF label[2] # names[2] THEN label ELSE names
           numbered(s) == <<root[1] \o Serial(s), ClipAssetName(root[2], Serial(s))>>
<1>1. label[2] \in Seq(Pieces)
  BY NamesTyped, ClipTyped DEF ImportPathLabel
<1>2. root[2] \in Seq(Pieces)
  BY <1>1
<1>3. CASE ns = label /\ ~ImportNameTaken(b, kind, label, ids)
  <2> HIDE DEF label
  <2> QED
    BY <1>1, <1>3 DEF ImportNameTaken
<1>4. ASSUME NEW s \in Serials, ns = numbered(s), ~ImportNameTaken(b, kind, numbered(s), ids)
      PROVE  ns[2] \in Seq(Pieces) /\ Find(b, kind, ns) \cap ids = {}
  <2>1. ns[2] = ClipAssetName(root[2], Serial(s))
    BY <1>4
  <2>2. ns[2] \in Seq(Pieces)
    BY <1>2, <2>1, SerialsTyped, ClipTyped
  <2> QED
    BY <1>4, <2>2 DEF ImportNameTaken
<1>5. \/ ns = label /\ ~ImportNameTaken(b, kind, label, ids)
      \/ \E s \in Serials : ns = numbered(s) /\ ~ImportNameTaken(b, kind, numbered(s), ids)
  BY DEF Anew
<1> QED
  BY <1>3, <1>4, <1>5

\* The names to go by are no path of the batch's.
LEMMA OwnNamesFree ==
  ASSUME NEW b, NEW kind, NEW base \in Stems, NEW p \in Stems, NEW suffix \in Seq(Pieces),
         NEW ns \in OwnNames(b, kind, base, p, suffix)
  PROVE  ns[2] \in Seq(Pieces) /\ Find(b, kind, ns) \cap b.claimed = {}
<1> DEFINE names == <<Name(base, suffix), ClipAssetName(Spelled[base], suffix)>>
<1>1. names[2] \in Seq(Pieces)
  BY NamesTyped, ClipTyped
<1> HIDE DEF names
<1>2. IF TakenByBatch(b, kind, names) THEN ns \in BatchFreeName(b, kind, names, p, suffix)
      ELSE ns = names
  BY DEF OwnNames, names
<1>3. CASE TakenByBatch(b, kind, names)
  <2>1. ns \in Anew(b, kind, names, p, suffix, b.claimed)
    BY <1>2, <1>3 DEF BatchFreeName
  <2> QED
    BY <1>1, <2>1, AnewFree
<1>4. CASE ~TakenByBatch(b, kind, names)
  BY <1>1, <1>2, <1>4 DEF TakenByBatch, ImportNameTaken
<1> QED
  BY <1>3, <1>4

\* A name found elsewhere for a path is a name.
LEMMA UniqueTyped ==
  ASSUME NEW b, NEW kind, NEW names, NEW p \in Stems, NEW suffix \in Seq(Pieces),
         names[2] \in Seq(Pieces), NEW n \in UniqueImportName(b, kind, names, p, suffix)
  PROVE  n \in Seq(Pieces)
<1>1. PICK ns \in Anew(b, kind, names, p, suffix, DOMAIN b.rows) : n = ns[2]
  BY DEF UniqueImportName
<1> QED
  BY <1>1, AnewFree

\* A file is taken in by the WAN.
LEMMA PlatformProcessKeeps ==
  ASSUME ImportInv, ImportPlatformProcess
  PROVE  ImportInv'
<1>1. imp.at = "files" /\ imp.draft = 0 /\ UNCHANGED <<batch, foreign>>
  BY DEF ImportPlatformProcess
<1> DEFINE b == imp.book
           f(e) == batch.files[e.path]
           same(e) == PlatformSame(b, e.path, e.weld)
           own(e) == OwnNames(b, "process", f(e).base, e.path, e.suffix)
           cur(names) == Find(b, "process", names)
           unique(e, names) == UniqueImportName(b, "process", names, e.path, e.suffix)
           Other(e, names) == \E i \in cur(names) : e.weld # "" /\ b.rows[i].weld # e.weld
<1>2. PICK e \in Upcoming(imp.todo) :
         \/ /\ \E i \in same(e) : Stands(e, i, b.rows[i], IndexWeld(e, b.rows[i]), FALSE)
            /\ UNCHANGED <<shelf, made>>
         \/ /\ same(e) = {}
            /\ \E names \in own(e) :
                  \/ cur(names) = {} /\ CreateImported(e, names[2])
                  \/ /\ cur(names) # {} /\ (Other(e, names) \/ f(e).mode = "rename")
                     /\ \E n \in unique(e, names) : CreateImported(e, n)
                  \/ /\ ~Other(e, names) /\ f(e).mode = "overwrite"
                     /\ \E i \in cur(names) : OverwriteProcess(e, i)
                  \/ /\ ~Other(e, names) /\ f(e).mode = "keep"
                     /\ \E i \in cur(names) : Stands(e, i, b.rows[i], IndexWeld(e, b.rows[i]), TRUE)
                     /\ UNCHANGED <<shelf, made>>
  BY DEF ImportPlatformProcess
<1>3. ImportTypeOK /\ BookFits
  BY <1>1 DEF ImportInv
<1>4. e.path \in Stems /\ e.suffix \in Seq(Pieces) /\ f(e).base \in Stems
  <2>1. e.path \in FilePaths /\ e.suffix \in Seq(Pieces)
    BY <1>1, <1>3 DEF ImportTypeOK, Upcoming, Tasks
  <2> QED
    BY <1>3, <2>1, FilesTyped, StemsAre
<1> HIDE DEF same, own, cur, unique
<1>5. ASSUME NEW i \in same(e), Stands(e, i, b.rows[i], IndexWeld(e, b.rows[i]), FALSE), UNCHANGED shelf
      PROVE  ImportInv'
  <2>1. Free(e, i) /\ b.rows[i].content[1] = batch.files[e.path].text
    BY <1>1, PlatformSameIs DEF same
  <2> QED
    BY <1>1, <1>5, <2>1, AsItIs
<1>6. ASSUME NEW names \in own(e)
      PROVE  names[2] \in Seq(Pieces) /\ cur(names) \cap b.claimed = {}
  BY <1>4, OwnNamesFree DEF own, cur
<1>7. ASSUME NEW names \in own(e), NEW i \in cur(names), ~Other(e, names)
      PROVE  Free(e, i)
  <2>1. i \notin b.claimed /\ i \in DOMAIN shelf /\ i \in DOMAIN b.rows /\ shelf[i].kind = "process"
    BY <1>3, <1>6, FoundRow DEF cur
  <2>2. Kinded(e) => b.rows[i].weld = e.weld
    BY <1>7 DEF Kinded
  <2> QED
    BY <2>1, <2>2 DEF Free, IsProcess
<1>8. ASSUME NEW names \in own(e), CreateImported(e, names[2]) PROVE ImportInv'
  <2>1. PICK n : n = names[2]
    OBVIOUS
  <2> QED
    BY <1>1, <1>6, <1>8, <2>1, CreateKeeps
<1>9. ASSUME NEW names \in own(e), NEW n \in unique(e, names), CreateImported(e, n) PROVE ImportInv'
  <2>1. n \in Seq(Pieces)
    BY <1>4, <1>6, UniqueTyped DEF unique
  <2> QED
    BY <1>1, <1>9, <2>1, CreateKeeps
<1>10. ASSUME NEW names \in own(e), ~Other(e, names), NEW i \in cur(names), OverwriteProcess(e, i)
       PROVE  ImportInv'
  BY <1>1, <1>7, <1>10, OverwriteKeeps
<1>11. ASSUME NEW names \in own(e), ~Other(e, names), NEW i \in cur(names),
              Stands(e, i, b.rows[i], IndexWeld(e, b.rows[i]), TRUE), UNCHANGED shelf
       PROVE  ImportInv'
  BY <1>1, <1>7, <1>11, AsItIs
<1> QED
  BY <1>2, <1>5, <1>8, <1>9, <1>10, <1>11

\* What stands while only the import's way through the projects changes.
LEMMA SameIndexKeeps ==
  ASSUME ImportInv, imp.at = "projects", imp'.at = "projects", NEW i, Alone(i), ~IsProcess(i),
         UNCHANGED <<batch, foreign>>, imp'.index = imp.index, imp'.todo = imp.todo,
         imp'.kept = imp.kept, imp'.draft = imp.draft,
         imp.book.claimed \subseteq imp'.book.claimed
  PROVE  IndexFits' /\ TodoFits' /\ DraftFits'
<1>0. IndexFits /\ TodoFits /\ DraftFits
  BY DEF ImportInv
<1>1. ASSUME NEW x, EntryFits(x) PROVE EntryFits(x)'
  <2>1. x.id # i
    BY <1>1 DEF EntryFits
  <2> QED
    BY <1>1, <2>1, EntryStands
<1>2. IndexFits'
  <2>1. ASSUME NEW j \in DOMAIN imp'.index PROVE EntryFits(imp.index[j])'
    <3>1. PICK x : x = imp'.index[j]
      OBVIOUS
    <3>2. EntryFits(x)'
      BY <1>0, <1>1, <3>1 DEF IndexFits
    <3> QED
      BY <3>1, <3>2 DEF EntryFits
  <2> QED
    BY <1>0, <2>1 DEF IndexFits
<1>3. TodoFits'
  BY <1>0 DEF TodoFits, Sound
<1>4. DraftFits'
  BY <1>0 DEF DraftFits
<1> QED
  BY <1>2, <1>3, <1>4

\* A project is passed over.
LEMMA PassedKeeps ==
  ASSUME ImportInv, imp.at = "projects", NextProject, UNCHANGED <<shelf, batch, foreign>>
  PROVE  ImportInv'
<1>0. ImportTypeOK /\ BookFits /\ IndexFits /\ TodoFits /\ DraftFits /\ FreshFits
  BY DEF ImportInv
<1>1. /\ DOMAIN imp = ImportFields /\ imp.next \in Nat \ {0}
  BY <1>0 DEF ImportTypeOK
<1>2. /\ imp'.at = imp.at /\ DOMAIN imp' = ImportFields /\ imp'.book = imp.book
      /\ imp'.todo = imp.todo /\ imp'.draft = imp.draft /\ imp'.fresh = imp.fresh
      /\ imp'.next = imp.next + 1 /\ imp'.index = imp.index /\ imp'.kept = imp.kept
  BY <1>1 DEF NextProject, ImportFields
<1>3. imp.next + 1 \in Nat \ {0}
  BY <1>1
<1>4. ImportTypeOK'
  BY <1>0, <1>2, <1>3 DEF ImportTypeOK
<1>5. BookFits'
  BY <1>0, <1>2 DEF BookFits, IsProcess
<1>6. IndexFits' /\ TodoFits' /\ DraftFits'
  <2>2. ASSUME NEW x, EntryFits(x) PROVE EntryFits(x)'
    BY <1>2, <2>2 DEF EntryFits, IsProcess, Sound
  <2>3. ASSUME NEW j \in DOMAIN imp'.index PROVE EntryFits(imp.index[j])'
    <3>1. PICK x : x = imp'.index[j]
      OBVIOUS
    <3>2. EntryFits(x)'
      BY <1>0, <1>2, <2>2, <3>1 DEF IndexFits
    <3> QED
      BY <3>1, <3>2 DEF EntryFits
  <2>4. IndexFits'
    BY <1>0, <1>2, <2>3 DEF IndexFits
  <2>5. TodoFits' /\ DraftFits'
    BY <1>0, <1>2 DEF TodoFits, DraftFits, Sound
  <2> QED
    BY <2>4, <2>5
<1>7. FreshFits'
  BY <1>0, <1>2 DEF FreshFits, RefFits
<1> QED
  BY <1>4, <1>5, <1>6, <1>7 DEF ImportInv

\* A project of the library is kept.
LEMMA KeptKeeps ==
  ASSUME ImportInv, imp.at = "projects", NEW i, UNCHANGED <<shelf, batch, foreign>>,
         i \in DOMAIN shelf, shelf[i].kind = "project", imp.book.rows[i].kind = "project",
         imp' = [imp EXCEPT !.next = @ + 1, !.book = Claim(imp.book, i, imp.book.rows[i])]
  PROVE  ImportInv'
<1>0. ImportTypeOK /\ BookFits /\ DraftFits /\ FreshFits
  BY DEF ImportInv
<1>1. DOMAIN imp = ImportFields /\ imp.next \in Nat \ {0} /\ imp.draft = 0
  BY <1>0 DEF ImportTypeOK, DraftFits
<1>2. /\ imp'.at = imp.at /\ DOMAIN imp' = ImportFields
      /\ imp'.book = Claim(imp.book, i, imp.book.rows[i])
      /\ imp'.todo = imp.todo /\ imp'.draft = imp.draft /\ imp'.fresh = imp.fresh
      /\ imp'.next = imp.next + 1 /\ imp'.index = imp.index /\ imp'.kept = imp.kept
  BY <1>1 DEF ImportFields
<1>3. imp'.book.claimed = imp.book.claimed \cup {i}
  BY <1>2, ClaimAdds
<1>4. imp.next + 1 \in Nat \ {0}
  BY <1>1
<1>5. ImportTypeOK'
  BY <1>0, <1>2, <1>4 DEF ImportTypeOK
<1>6. Alone(i) /\ shelf'[i] = shelf[i]
  BY <1>0, StillAlone
<1>7. BookFits'
  <2>1. PICK row : row = imp.book.rows[i]
    OBVIOUS
  <2>2. row.kind = shelf'[i].kind /\ row.kind # "process"
    BY <1>6, <2>1
  <2>3. foreign' = foreign /\ imp'.book = Claim(imp.book, i, row) /\ imp.draft \in {0, i}
    BY <1>1, <1>2, <2>1
  <2> QED
    BY <1>0, <1>6, <2>2, <2>3, ClaimFits
<1>8. IndexFits' /\ TodoFits' /\ DraftFits'
  <2>1. ~IsProcess(i)
    BY DEF IsProcess
  <2> QED
    BY <1>2, <1>3, <1>6, <2>1, SameIndexKeeps
<1>9. FreshFits'
  BY <1>0, <1>2 DEF FreshFits, RefFits
<1> QED
  BY <1>5, <1>7, <1>8, <1>9 DEF ImportInv

\* A project is inserted or overwritten.
LEMMA TakenInKeeps ==
  ASSUME ImportInv, imp.at = "projects", NEW i \in Nat, NEW row, TakenIn(i, row), Alone(i),
         i \in DOMAIN shelf', shelf'[i] = row, row.kind = "project", ~IsProcess(i),
         \A r \in row.refs : RefFits(r), UNCHANGED <<batch, foreign>>
  PROVE  ImportInv'
<1>0. ImportTypeOK /\ BookFits /\ DraftFits /\ FreshFits
  BY DEF ImportInv
<1>1. /\ DOMAIN imp = ImportFields /\ imp.next \in Nat \ {0} /\ imp.draft = 0
      /\ imp.fresh \in SUBSET DOMAIN shelf
  BY <1>0 DEF ImportTypeOK, DraftFits
<1>2. /\ imp'.at = imp.at /\ DOMAIN imp' = ImportFields
      /\ imp'.book = Claim(imp.book, i, row)
      /\ imp'.todo = imp.todo /\ imp'.draft = imp.draft /\ imp'.fresh = imp.fresh \cup {i}
      /\ imp'.next = imp.next + 1 /\ imp'.index = imp.index /\ imp'.kept = imp.kept
  BY <1>1 DEF TakenIn, ImportFields
<1>3. imp'.book.claimed = imp.book.claimed \cup {i}
  BY <1>2, ClaimAdds
<1>4. imp.next + 1 \in Nat \ {0}
  BY <1>1
<1>5. /\ shelf' \in Seq(AssetRow) /\ DOMAIN shelf' = DOMAIN shelf \cup {i}
      /\ \A j \in DOMAIN shelf : shelf'[j].kind = shelf[j].kind /\ (j # i => shelf'[j] = shelf[j])
  BY DEF Alone
<1>6. ImportTypeOK'
  BY <1>0, <1>1, <1>2, <1>4, <1>5 DEF ImportTypeOK
<1>7. BookFits'
  <2>1. row.kind = shelf'[i].kind /\ row.kind # "process" /\ imp.draft \in {0, i} /\ foreign' = foreign
    BY <1>1
  <2> QED
    BY <1>0, <1>2, <2>1, ClaimFits
<1>8. IndexFits' /\ TodoFits' /\ DraftFits'
  BY <1>2, <1>3, SameIndexKeeps
<1>9. FreshFits'
  <2>1. ASSUME NEW r, RefFits(r) PROVE RefFits(r)'
    BY <1>2, <2>1 DEF RefFits
  <2>2. ASSUME NEW q \in imp'.fresh
        PROVE  shelf'[q].kind = "project" /\ \A r \in shelf'[q].refs : RefFits(r)
    <3>1. CASE q = i
      BY <3>1
    <3>2. CASE q # i
      <4>1. q \in imp.fresh /\ q \in DOMAIN shelf /\ shelf'[q] = shelf[q]
        BY <1>1, <1>2, <1>5, <3>2
      <4> QED
        BY <1>0, <4>1 DEF FreshFits
    <3> QED
      BY <3>1, <3>2
  <2>3. \A q \in imp'.fresh : shelf'[q].kind = "project" /\ \A r \in shelf'[q].refs : RefFits(r)'
    BY <2>1, <2>2
  <2>4. imp'.at # "files"
    BY <1>2
  <2> QED
    BY <2>3, <2>4 DEF FreshFits
<1> QED
  BY <1>6, <1>7, <1>8, <1>9 DEF ImportInv

\* The row of a project refers to what the index has.
LEMMA ProjectRowFits ==
  ASSUME ImportInv, imp.at = "projects", NEW j \in DOMAIN batch.projects, NEW n \in Seq(Pieces),
         NEW rev \in Nat, NEW row, row = ProjectRow(n, batch.projects[j], "available", rev)
  PROVE  row \in AssetRow /\ row.kind = "project" /\ \A r \in row.refs : RefFits(r)
<1> DEFINE q == batch.projects[j]
<1>1. ImportTypeOK /\ IndexFits
  BY DEF ImportInv
<1>2. q.items \in SUBSET Items /\ q.items # {}
  <2>1. batch.projects \in Seq(ProjectFiles)
    BY <1>1 DEF ImportTypeOK
  <2>2. q \in ProjectFiles
    BY <2>1, SeqNumbered
  <2> QED
    BY <2>2 DEF ProjectFiles
<1>3. \A x \in q.items : Rewritten(x) \subseteq Refs /\ \A r \in Rewritten(x) : RefFits(r)
  BY <1>1, <1>2, RewrittenFits
<1>4. \A x \in Items : x.weld \in WeldKinds
  <2>1. \A i \in {[weld |-> w, ref |-> Bands] : w \in ImportWelds \cap {"tbar"}} : i.weld \in ImportWelds
    OBVIOUS
  <2> QED
    BY <2>1, WeldsPlaced DEF Items
<1>5. (CHOOSE i \in q.items : TRUE) \in q.items
  BY <1>2
<1> DEFINE weld == (CHOOSE i \in q.items : TRUE).weld
           refs == UNION {Rewritten(i) : i \in q.items}
<1>6. weld \in WeldKinds
  BY <1>2, <1>4, <1>5
<1>7. refs \in SUBSET Refs /\ \A r \in refs : RefFits(r)
  BY <1>3
<1>8. row = [kind |-> "project", name |-> n, weld |-> weld, content |-> <<>>,
             status |-> "available", rev |-> rev, refs |-> refs]
  BY DEF ProjectRow
<1>9. <<>> \in RowContents
  BY DEF RowContents
<1> HIDE DEF weld, refs
<1> QED
  BY <1>6, <1>7, <1>8, <1>9 DEF AssetRow

\* A project is inserted, ...
LEMMA InsertKeeps ==
  ASSUME ImportInv, imp.at = "projects", NEW j \in DOMAIN batch.projects, NEW n \in Seq(Pieces),
         NEW row, row = ProjectRow(n, batch.projects[j], "available", 2),
         shelf' = Append(shelf, row), TakenIn(Len(shelf) + 1, row), UNCHANGED <<batch, foreign>>
  PROVE  ImportInv'
<1>1. row \in AssetRow /\ row.kind = "project" /\ \A r \in row.refs : RefFits(r)
  BY ProjectRowFits
<1>2. ImportTypeOK
  BY DEF ImportInv
<1>3. PICK i : i = Len(shelf) + 1
  OBVIOUS
<1>4. Alone(i) /\ shelf'[i] = row /\ i \notin DOMAIN shelf /\ i \in DOMAIN shelf' /\ i \in Nat
  BY <1>1, <1>2, <1>3, AppendAlone
<1>5. ~IsProcess(i)
  BY <1>4 DEF IsProcess
<1>6. TakenIn(i, row)
  BY <1>3
<1> QED
  BY <1>1, <1>4, <1>5, <1>6, TakenInKeeps

\* ... and one of the library is overwritten.
LEMMA ReplaceKeeps ==
  ASSUME ImportInv, imp.at = "projects", NEW j \in DOMAIN batch.projects, NEW n \in Seq(Pieces),
         NEW i \in DOMAIN shelf, shelf[i].kind = "project",
         NEW row, row = ProjectRow(n, batch.projects[j], "available", shelf[i].rev + 1),
         shelf' = [shelf EXCEPT ![i] = row], TakenIn(i, row), UNCHANGED <<batch, foreign>>
  PROVE  ImportInv'
<1>1. ImportTypeOK /\ i \in Nat /\ shelf[i].rev + 1 \in Nat
  <2>1. ImportTypeOK
    BY DEF ImportInv
  <2>2. shelf[i] \in AssetRow /\ i \in Nat
    BY <2>1, RowsNumbered
  <2> QED
    BY <2>1, <2>2 DEF AssetRow
<1>2. row \in AssetRow /\ row.kind = "project" /\ \A r \in row.refs : RefFits(r)
  BY <1>1, ProjectRowFits
<1>3. Alone(i) /\ shelf'[i] = row /\ i \in DOMAIN shelf'
  BY <1>1, <1>2, InPlaceAlone
<1>4. ~IsProcess(i)
  BY DEF IsProcess
<1> QED
  BY <1>1, <1>2, <1>3, <1>4, TakenInKeeps

\* The stems of a project's names.
LEMMA ProjectTyped ==
  ASSUME ImportTypeOK, NEW j \in DOMAIN batch.projects
  PROVE  batch.projects[j].path \in Stems /\ batch.projects[j].base \in Stems
<1>1. batch.projects \in Seq(ProjectFiles)
  BY DEF ImportTypeOK
<1>2. batch.projects[j] \in ProjectFiles
  BY <1>1, SeqNumbered
<1> QED
  BY <1>2 DEF ProjectFiles

\* The project that comes next is one of the batch.
LEMMA NextIsAProject ==
  ASSUME ImportInv, imp.at = "projects", imp.next <= Len(batch.projects)
  PROVE  imp.next \in DOMAIN batch.projects
<1>1. batch.projects \in Seq(ProjectFiles) /\ imp.next \in Nat \ {0}
  BY DEF ImportInv, ImportTypeOK
<1> QED
  BY <1>1

\* A project is taken in by a factory.
LEMMA ProjectKeeps ==
  ASSUME ImportInv, ImportProject
  PROVE  ImportInv'
<1>1. imp.at = "projects" /\ imp.next <= Len(batch.projects) /\ UNCHANGED <<batch, foreign>>
  BY DEF ImportProject
<1>2. imp.next \in DOMAIN batch.projects /\ ImportTypeOK /\ BookFits
  BY <1>1, NextIsAProject DEF ImportInv
<1> DEFINE j == imp.next
           q == batch.projects[imp.next]
           b == imp.book
           label == PathLabel(q.path, <<>>)
           n0 == Name(q.base, <<>>)
           busy == Taken(b, "project")
           own == IF n0 \in busy THEN Elsewhere(n0, label, busy) ELSE {n0}
           Insert(n) ==
             LET row == ProjectRow(n, q, "available", 2)
             IN  shelf' = Append(shelf, row) /\ TakenIn(Len(shelf) + 1, row)
           Keep(cur) == /\ imp' = [imp EXCEPT !.next = @ + 1, !.book = Claim(b, cur, b.rows[cur])]
                        /\ UNCHANGED shelf
           Replace(n, cur) ==
             LET row == ProjectRow(n, q, "available", shelf[cur].rev + 1)
             IN  shelf' = [shelf EXCEPT ![cur] = row] /\ TakenIn(cur, row)
<1>3. PICK n \in own :
        LET cur == b.names[<<"project", n>>]
            known == n \in Named(b, "project")
        IN  \/ known /\ Keep(cur)
            \/ NextProject /\ UNCHANGED shelf
            \/ Insert(n)
            \/ \E new \in Elsewhere(n, label, Named(b, "project")) : Insert(new)
            \/ known /\ Replace(n, cur)
  BY <1>1 DEF ImportProject
<1>4. label \in Seq(Pieces) /\ n0 \in Seq(Pieces)
  <2>1. <<>> \in Seq(Pieces)
    OBVIOUS
  <2> QED
    BY <1>2, <2>1, ProjectTyped, NamesTyped
<1>5. n \in Seq(Pieces)
  BY <1>4, ElsewhereFree
<1>6. ASSUME NEW m \in Seq(Pieces), Insert(m) PROVE ImportInv'
  <2>1. PICK row : row = ProjectRow(m, q, "available", 2)
    OBVIOUS
  <2>2. shelf' = Append(shelf, row) /\ TakenIn(Len(shelf) + 1, row)
    BY <1>6, <2>1
  <2> QED
    BY <1>1, <1>2, <2>1, <2>2, InsertKeeps
<1>7. PICK cur : cur = b.names[<<"project", n>>]
  OBVIOUS
<1>8. n \in Named(b, "project") =>
        cur \in DOMAIN shelf /\ shelf[cur].kind = "project" /\ b.rows[cur].kind = "project"
  BY <1>2, <1>7, KnownRow
<1>9. CASE n \in Named(b, "project") /\ Keep(cur)
  BY <1>1, <1>8, <1>9, KeptKeeps
<1>10. CASE NextProject /\ UNCHANGED shelf
  BY <1>1, <1>10, PassedKeeps
<1>11. CASE Insert(n)
  BY <1>5, <1>6, <1>11
<1>12. CASE \E new \in Elsewhere(n, label, Named(b, "project")) : Insert(new)
  BY <1>4, <1>6, <1>12, ElsewhereFree
<1>13. CASE n \in Named(b, "project") /\ Replace(n, cur)
  <2>1. PICK row : row = ProjectRow(n, q, "available", shelf[cur].rev + 1)
    OBVIOUS
  <2>2. shelf' = [shelf EXCEPT ![cur] = row] /\ TakenIn(cur, row)
    BY <1>13, <2>1
  <2> QED
    BY <1>1, <1>2, <1>5, <1>8, <1>13, <2>1, <2>2, ReplaceKeeps
<1> QED
  BY <1>3, <1>7, <1>9, <1>10, <1>11, <1>12, <1>13

\* A project is taken in by the WAN.
LEMMA PlatformProjectKeeps ==
  ASSUME ImportInv, ImportPlatformProject
  PROVE  ImportInv'
<1>1. imp.at = "projects" /\ imp.next <= Len(batch.projects) /\ UNCHANGED <<batch, foreign>>
  BY DEF ImportPlatformProject
<1>2. imp.next \in DOMAIN batch.projects /\ ImportTypeOK /\ BookFits
  BY <1>1, NextIsAProject DEF ImportInv
<1> DEFINE j == imp.next
           q == batch.projects[imp.next]
           b == imp.book
           own == OwnNames(b, "project", q.base, q.path, <<>>)
           cur(names) == Find(b, "project", names)
           unique(names) == UniqueImportName(b, "project", names, q.path, <<>>)
           Keep(i) == imp' = [imp EXCEPT !.next = @ + 1, !.book = Claim(b, i, b.rows[i])]
<1>3. PICK names \in own :
         \/ UNCHANGED shelf /\ \E i \in cur(names) : Keep(i)
         \/ NextProject /\ UNCHANGED shelf
         \/ \E i \in cur(names) : OverwriteProject(q, i)
         \/ \E n \in unique(names) : InsertImported(q, n)
         \/ InsertImported(q, names[2])
  BY DEF ImportPlatformProject
<1>4. /\ names[2] \in Seq(Pieces) /\ \A n \in unique(names) : n \in Seq(Pieces)
  <2>1. <<>> \in Seq(Pieces) /\ q.path \in Stems /\ q.base \in Stems
    BY <1>2, ProjectTyped
  <2>2. names[2] \in Seq(Pieces)
    BY <2>1, OwnNamesFree
  <2> QED
    BY <2>1, <2>2, UniqueTyped
<1>5. \A i \in cur(names) : i \in DOMAIN shelf /\ shelf[i].kind = "project" /\ b.rows[i].kind = "project"
  BY <1>2, FoundRow
<1> HIDE DEF own, cur, unique
<1>6. ASSUME NEW m \in Seq(Pieces), InsertImported(q, m) PROVE ImportInv'
  <2>1. PICK row : row = ProjectRow(m, q, "available", 2)
    OBVIOUS
  <2>2. shelf' = Append(shelf, row) /\ TakenIn(Len(shelf) + 1, row)
    BY <1>6, <2>1 DEF InsertImported
  <2> QED
    BY <1>1, <1>2, <2>1, <2>2, InsertKeeps
<1>7. ASSUME NEW i \in cur(names), Keep(i), UNCHANGED shelf PROVE ImportInv'
  BY <1>1, <1>5, <1>7, KeptKeeps
<1>8. CASE NextProject /\ UNCHANGED shelf
  BY <1>1, <1>8, PassedKeeps
<1>9. ASSUME NEW i \in cur(names), OverwriteProject(q, i) PROVE ImportInv'
  <2>1. PICK row : row = ProjectRow(shelf[i].name, q, "available", shelf[i].rev + 1)
    OBVIOUS
  <2>2. CASE NextProject /\ UNCHANGED shelf
    BY <1>1, <2>2, PassedKeeps
  <2>3. CASE shelf' = [shelf EXCEPT ![i] = row] /\ TakenIn(i, row)
    <3>1. PICK n : n = shelf[i].name
      OBVIOUS
    <3>2. i \in DOMAIN shelf /\ shelf[i].kind = "project" /\ n \in Seq(Pieces)
      BY <1>2, <1>5, <3>1, RowsNumbered DEF AssetRow
    <3> QED
      BY <1>1, <1>2, <2>1, <2>3, <3>1, <3>2, ReplaceKeeps
  <2> QED
    BY <1>9, <2>1, <2>2, <2>3 DEF OverwriteProject
<1>10. CASE \E n \in unique(names) : InsertImported(q, n)
  BY <1>4, <1>6, <1>10
<1>11. CASE InsertImported(q, names[2])
  BY <1>4, <1>6, <1>11
<1> QED
  BY <1>3, <1>7, <1>8, <1>9, <1>10, <1>11

\* An import begins.
LEMMA BeginsKeeps ==
  ASSUME ImportInv, ImportBegins
  PROVE  ImportInv'
<1>1. ImportTypeOK
  BY DEF ImportInv
<1>2. PICK b : b = Book
  OBVIOUS
<1>3. PICK todo : todo = Todo
  OBVIOUS
<1>4. /\ imp' = [at |-> "files", book |-> b, index |-> <<>>, todo |-> todo,
                 next |-> 1, kept |-> {}, fresh |-> {}, draft |-> 0]
      /\ UNCHANGED <<shelf, batch, foreign>>
  BY <1>2, <1>3 DEF ImportBegins
<1>5. /\ imp'.at = "files" /\ DOMAIN imp' = ImportFields /\ imp'.book = b /\ imp'.index = <<>>
      /\ imp'.todo = todo /\ imp'.next = 1 /\ imp'.fresh = {} /\ imp'.draft = 0
  BY <1>4 DEF ImportFields
<1>6. /\ todo \subseteq Tasks /\ \A e \in todo : e.path \in Sound
      /\ Apart(todo)
  BY <1>1, <1>3, TodoPlanned
<1>7. imp'.index \in Seq(IndexEntries) /\ DOMAIN imp'.index = {}
  BY <1>5
<1>8. ImportTypeOK'
  BY <1>1, <1>4, <1>5, <1>6, <1>7 DEF ImportTypeOK
<1>9. BookFits'
  <2>1. /\ b.rows = shelf /\ b.claimed = {}
        /\ b.procs \subseteq DOMAIN shelf /\ \A i \in b.procs : IsProcess(i)
        /\ \A k \in DOMAIN b.names : /\ k = <<k[1], k[2]>> /\ b.names[k] \in DOMAIN shelf
                                      /\ shelf[b.names[k]].kind = k[1]
    BY <1>1, <1>2, BookFitsAtStart
  <2>2. imp'.book = b /\ shelf' = shelf
    BY <1>4, <1>5
  <2>3. \A i : IsProcess(i)' <=> IsProcess(i)
    BY <2>2 DEF IsProcess
  <2> QED
    BY <2>1, <2>2, <2>3 DEF BookFits
<1>10. IndexFits'
  BY <1>7 DEF IndexFits, Ordered
<1>11. TodoFits'
  <2>1. Sound' = Sound
    BY <1>4 DEF Sound
  <2> QED
    BY <1>5, <1>6, <1>7, <2>1 DEF TodoFits, After
<1>12. DraftFits' /\ FreshFits'
  BY <1>5 DEF DraftFits, FreshFits
<1> QED
  BY <1>8, <1>9, <1>10, <1>11, <1>12 DEF ImportInv

\* The files are done.
LEMMA DoneKeeps ==
  ASSUME ImportInv, FilesDone
  PROVE  ImportInv'
<1>0. ImportTypeOK /\ BookFits /\ IndexFits /\ TodoFits /\ DraftFits /\ FreshFits
      /\ imp.at = "files" /\ imp.todo = {} /\ UNCHANGED <<shelf, batch, foreign>>
  BY DEF ImportInv, FilesDone
<1>1. DOMAIN imp = ImportFields /\ imp.fresh = {}
  BY <1>0 DEF ImportTypeOK, FreshFits
<1>2. imp.draft = 0
  <2>1. Upcoming(imp.todo) = {}
    BY <1>0 DEF Upcoming
  <2> QED
    BY <1>0, <2>1 DEF DraftFits
<1>3. /\ imp'.at = "projects" /\ DOMAIN imp' = ImportFields /\ imp'.book = imp.book
      /\ imp'.todo = imp.todo /\ imp'.draft = imp.draft /\ imp'.fresh = imp.fresh
      /\ imp'.next = imp.next /\ imp'.index = imp.index /\ imp'.kept = imp.kept
  BY <1>1 DEF FilesDone, ImportFields
<1>4. ImportTypeOK'
  BY <1>0, <1>3 DEF ImportTypeOK
<1>5. BookFits'
  BY <1>0, <1>3 DEF BookFits, IsProcess
<1>6. IndexFits'
  <2>1. ASSUME NEW x, EntryFits(x) PROVE EntryFits(x)'
    BY <1>0, <1>3, <2>1 DEF EntryFits, IsProcess, Sound
  <2>2. ASSUME NEW j \in DOMAIN imp'.index PROVE EntryFits(imp.index[j])'
    <3>1. PICK x : x = imp'.index[j]
      OBVIOUS
    <3>2. EntryFits(x)'
      BY <1>0, <1>3, <2>1, <3>1 DEF IndexFits
    <3> QED
      BY <3>1, <3>2 DEF EntryFits
  <2> QED
    BY <1>0, <1>3, <2>2 DEF IndexFits
<1>7. TodoFits' /\ DraftFits' /\ FreshFits'
  <2>1. Sound' = Sound
    BY <1>0 DEF Sound
  <2> QED
    BY <1>0, <1>1, <1>2, <1>3, <2>1 DEF TodoFits, DraftFits, FreshFits
<1> QED
  BY <1>4, <1>5, <1>6, <1>7 DEF ImportInv

\* An import ends.
LEMMA EndsKeeps ==
  ASSUME ImportInv, ImportEnds
  PROVE  ImportInv'
<1>1. ImportTypeOK /\ imp' = [at |-> "idle"] /\ UNCHANGED <<shelf, batch>>
  BY DEF ImportInv, ImportEnds
<1>2. imp'.at = "idle"
  BY <1>1
<1> QED
  BY <1>1, <1>2 DEF ImportInv, ImportTypeOK

\* Somebody edits a process.
LEMMA MeddleKeeps ==
  ASSUME ImportInv, Meddle
  PROVE  ImportInv'
<1>0. ImportTypeOK /\ BookFits /\ IndexFits /\ TodoFits /\ DraftFits /\ FreshFits
      /\ imp.at # "idle" /\ UNCHANGED <<batch, imp>>
  BY DEF ImportInv, Meddle
<1>1. PICK i \in DOMAIN shelf :
         /\ shelf[i].kind = "process" /\ foreign' = foreign \cup {i}
         /\ \/ shelf' = [shelf EXCEPT ![i].content = Raw("theirs"), ![i].rev = @ + 1]
            \/ shelf' = [shelf EXCEPT ![i].status = "disabled", ![i].rev = @ + 1]
  BY DEF Meddle
<1>2. shelf \in Seq(AssetRow) /\ shelf[i] \in AssetRow
  BY <1>0, RowsNumbered
<1>3. PICK row \in AssetRow : /\ shelf' = [shelf EXCEPT ![i] = row]
                              /\ row.kind = shelf[i].kind /\ row.weld = shelf[i].weld
  <2>1. CASE shelf' = [shelf EXCEPT ![i].content = Raw("theirs"), ![i].rev = @ + 1]
    <3>1. PICK row : row = [shelf[i] EXCEPT !.content = Raw("theirs"), !.rev = @ + 1]
      OBVIOUS
    <3>2. shelf' = [shelf EXCEPT ![i] = row]
      BY <1>2, <2>1, <3>1
    <3>3. Raw("theirs") \in RowContents
      BY DEF RowContents
    <3>4. row \in AssetRow
      BY <1>2, <3>1, <3>3, AssetRowWritten
    <3>5. row.kind = shelf[i].kind /\ row.weld = shelf[i].weld
      BY <1>2, <3>1 DEF AssetRow
    <3> QED
      BY <3>2, <3>4, <3>5
  <2>2. CASE shelf' = [shelf EXCEPT ![i].status = "disabled", ![i].rev = @ + 1]
    <3>1. PICK row : row = [shelf[i] EXCEPT !.status = "disabled", !.rev = @ + 1]
      OBVIOUS
    <3>2. shelf' = [shelf EXCEPT ![i] = row]
      BY <1>2, <2>2, <3>1
    <3>3. <<>> \in RowContents
      BY DEF RowContents
    <3>4. row \in AssetRow
      BY <1>2, <3>1, <3>3, AssetRowWritten
    <3>5. row.kind = shelf[i].kind /\ row.weld = shelf[i].weld
      BY <1>2, <3>1 DEF AssetRow
    <3> QED
      BY <3>2, <3>4, <3>5
  <2> QED
    BY <1>1, <2>1, <2>2
<1>4. Alone(i) /\ shelf'[i] = row
  BY <1>0, <1>1, <1>3, InPlaceAlone
<1>5. /\ shelf' \in Seq(AssetRow) /\ DOMAIN shelf' = DOMAIN shelf
      /\ \A j \in DOMAIN shelf : /\ shelf'[j].kind = shelf[j].kind /\ shelf'[j].weld = shelf[j].weld
                                 /\ j # i => shelf'[j] = shelf[j]
  BY <1>1, <1>3, <1>4 DEF Alone
<1>6. \A j : IsProcess(j)' <=> IsProcess(j)
  BY <1>5 DEF IsProcess
<1>7. foreign \subseteq foreign' /\ i \in foreign' /\ imp' = imp /\ batch' = batch
  BY <1>0, <1>1
<1>8. ImportTypeOK'
  BY <1>0, <1>5, <1>7 DEF ImportTypeOK
<1>9. BookFits'
  <2>1. ASSUME NEW j \in DOMAIN imp.book.rows
        PROVE  /\ imp.book.rows[j].kind = shelf'[j].kind
               /\ IsProcess(j)' => imp.book.rows[j].weld = shelf'[j].weld
               /\ IsProcess(j)' => \/ imp.book.rows[j].content = shelf'[j].content
                                   \/ j \in foreign' \/ j = imp.draft
    <3>1. /\ j \in DOMAIN shelf /\ imp.book.rows[j].kind = shelf[j].kind
          /\ IsProcess(j) => imp.book.rows[j].weld = shelf[j].weld
          /\ IsProcess(j) => \/ imp.book.rows[j].content = shelf[j].content
                             \/ j \in foreign \/ j = imp.draft
      BY <1>0 DEF BookFits
    <3>2. j = i \/ shelf'[j] = shelf[j]
      BY <1>5, <3>1
    <3>3. shelf'[j].kind = shelf[j].kind /\ shelf'[j].weld = shelf[j].weld
      BY <1>5, <3>1
    <3> QED
      BY <1>6, <1>7, <3>1, <3>2, <3>3
  <2> QED
    BY <1>0, <1>5, <1>6, <1>7, <2>1 DEF BookFits
<1>10. IndexFits'
  <2>1. ASSUME NEW x, EntryFits(x) PROVE EntryFits(x)'
    <3>1. /\ x.id \in imp.book.claimed /\ IsProcess(x.id) /\ x.path \in Sound
          /\ shelf[x.id].weld = x.weld
          /\ \/ shelf[x.id].content[1] = batch.files[x.path].text
             \/ <<x.path, x.weld>> \in imp.kept \/ x.id \in foreign
      BY <2>1 DEF EntryFits
    <3>2. x.id = i \/ shelf'[x.id] = shelf[x.id]
      BY <1>5, <3>1 DEF IsProcess
    <3>3. shelf'[x.id].weld = shelf[x.id].weld /\ Sound' = Sound
      BY <1>5, <1>7, <3>1 DEF IsProcess, Sound
    <3> QED
      BY <1>6, <1>7, <3>1, <3>2, <3>3 DEF EntryFits
  <2>2. ASSUME NEW j \in DOMAIN imp'.index PROVE EntryFits(imp.index[j])'
    <3>1. PICK x : x = imp'.index[j]
      OBVIOUS
    <3>2. EntryFits(x)'
      BY <1>0, <1>7, <2>1, <3>1 DEF IndexFits
    <3> QED
      BY <3>1, <3>2 DEF EntryFits
  <2> QED
    BY <1>0, <1>7, <2>2 DEF IndexFits
<1>11. TodoFits'
  BY <1>0, <1>7 DEF TodoFits, Sound
<1>12. DraftFits'
  <2>1. CASE imp.draft = 0
    BY <1>7, <2>1 DEF DraftFits
  <2>2. CASE imp.draft # 0
    <3>1. /\ IsProcess(imp.draft)
          /\ imp.at = "projects" => imp.draft = 0
          /\ imp.draft \notin imp.book.claimed /\ Upcoming(imp.todo) # {}
          /\ \A e \in Upcoming(imp.todo) :
               /\ Kinded(e) => shelf[imp.draft].weld = e.weld
               /\ \/ imp.draft \in foreign
                  \/ /\ shelf[imp.draft].status = "draft"
                     /\ shelf[imp.draft].content[1] = batch.files[e.path].text
      BY <1>0, <2>2 DEF DraftFits
    <3>2. shelf'[imp.draft].weld = shelf[imp.draft].weld
          /\ (imp.draft = i \/ shelf'[imp.draft] = shelf[imp.draft])
      BY <1>5, <3>1 DEF IsProcess
    <3> QED
      BY <1>6, <1>7, <3>1, <3>2 DEF DraftFits
  <2> QED
    BY <2>1, <2>2
<1>13. FreshFits'
  <2>1. ASSUME NEW r, RefFits(r) PROVE RefFits(r)'
    BY <1>7, <2>1 DEF RefFits
  <2>2. ASSUME NEW q \in imp.fresh PROVE shelf'[q] = shelf[q]
    <3>1. q \in DOMAIN shelf /\ shelf[q].kind = "project"
      BY <1>0 DEF ImportTypeOK, FreshFits
    <3> QED
      BY <1>1, <1>5, <3>1
  <2> QED
    BY <1>0, <1>7, <2>1, <2>2 DEF FreshFits
<1> QED
  BY <1>8, <1>9, <1>10, <1>11, <1>12, <1>13 DEF ImportInv

\* Whatever the batch and the library, nothing is under way to begin with.
LEMMA ImportStarts == ImportInit => ImportInv
<1> SUFFICES ASSUME ImportInit PROVE ImportInv
  OBVIOUS
<1>1. PICK fs \in [FilePaths -> Files], projects \in Seq(ProjectFiles), library \in Seq(AssetRow) :
        ImportStart(fs, projects, library)
  BY DEF ImportInit
<1>2. /\ batch = [files |-> fs, projects |-> projects] /\ shelf = library /\ imp = [at |-> "idle"]
  BY <1>1 DEF ImportStart
<1>3. imp.at = "idle"
  BY <1>2
<1> QED
  BY <1>2, <1>3 DEF ImportInv, ImportTypeOK

\* Nothing happens.
LEMMA ImportRests ==
  ASSUME ImportInv, UNCHANGED importVars
  PROVE  ImportInv'
<1>1. shelf' = shelf /\ batch' = batch /\ imp' = imp /\ foreign' = foreign
  BY DEF importVars
<1>2. ImportTypeOK'
  BY <1>1 DEF ImportInv, ImportTypeOK
<1>3. ASSUME imp.at # "idle" PROVE BookFits' /\ IndexFits' /\ TodoFits' /\ DraftFits' /\ FreshFits'
  <2>1. BookFits /\ IndexFits /\ TodoFits /\ DraftFits /\ FreshFits
    BY <1>3 DEF ImportInv
  <2>2. BookFits'
    BY <1>1, <2>1 DEF BookFits, IsProcess
  <2>3. IndexFits'
    BY <1>1, <2>1 DEF IndexFits, EntryFits, IsProcess, Sound
  <2>4. TodoFits'
    BY <1>1, <2>1 DEF TodoFits, Sound
  <2>5. DraftFits'
    BY <1>1, <2>1 DEF DraftFits, IsProcess
  <2>6. FreshFits'
    BY <1>1, <2>1 DEF FreshFits, RefFits
  <2> QED
    BY <2>2, <2>3, <2>4, <2>5, <2>6
<1> QED
  BY <1>1, <1>2, <1>3 DEF ImportInv

\* A factory's import keeps the invariant, ...
LEMMA ImportKeeps == ImportInv /\ [ImportNext]_importVars => ImportInv'
<1> SUFFICES ASSUME ImportInv, [ImportNext]_importVars PROVE ImportInv'
  OBVIOUS
<1>1. CASE ImportBegins
  BY <1>1, BeginsKeeps
<1>2. CASE ImportLegacyProcess
  BY <1>2, LegacyProcessKeeps
<1>3. CASE PublishImported
  BY <1>3, PublishKeeps
<1>4. CASE FilesDone
  BY <1>4, DoneKeeps
<1>5. CASE ImportProject
  BY <1>5, ProjectKeeps
<1>6. CASE ImportEnds
  BY <1>6, EndsKeeps
<1>7. CASE Meddle
  BY <1>7, MeddleKeeps
<1>8. CASE UNCHANGED importVars
  BY <1>8, ImportRests
<1> QED
  BY <1>1, <1>2, <1>3, <1>4, <1>5, <1>6, <1>7, <1>8 DEF ImportNext

\* ... and so does the WAN's.
LEMMA PlatformImportKeeps == ImportInv /\ [PlatformImportNext]_importVars => ImportInv'
<1> SUFFICES ASSUME ImportInv, [PlatformImportNext]_importVars PROVE ImportInv'
  OBVIOUS
<1>1. CASE ImportBegins
  BY <1>1, BeginsKeeps
<1>2. CASE ImportPlatformProcess
  BY <1>2, PlatformProcessKeeps
<1>3. CASE PublishImported
  BY <1>3, PublishKeeps
<1>4. CASE FilesDone
  BY <1>4, DoneKeeps
<1>5. CASE ImportPlatformProject
  BY <1>5, PlatformProjectKeeps
<1>6. CASE ImportEnds
  BY <1>6, EndsKeeps
<1>7. CASE Meddle
  BY <1>7, MeddleKeeps
<1>8. CASE UNCHANGED importVars
  BY <1>8, ImportRests
<1> QED
  BY <1>1, <1>2, <1>3, <1>4, <1>5, <1>6, <1>7, <1>8 DEF PlatformImportNext

\* The processes the projects of an import refer to are those of their files.
LEMMA ImportRefs == ImportInv => RefsAreFiles
<1> SUFFICES ASSUME ImportInv, imp.at # "idle",
                    NEW q \in imp.fresh, NEW r \in shelf[q].refs, NEW e \in Range(imp.index),
                    e.path = r.path, e.weld = r.weld
             PROVE  /\ r.id = e.id
                    /\ \/ shelf[r.id].content[1] = batch.files[r.path].text
                       \/ <<r.path, r.weld>> \in imp.kept \/ r.id \in foreign
                    /\ shelf[r.id].weld = r.weld
  BY DEF RefsAreFiles
<1>1. IndexFits /\ FreshFits
  BY DEF ImportInv
<1>2. PICK j \in DOMAIN imp.index : e = imp.index[j]
  BY DEF Range
<1>3. r.id = e.id
  BY <1>1, <1>2 DEF FreshFits, RefFits
<1>4. EntryFits(e)
  BY <1>1, <1>2 DEF IndexFits
<1> QED
  BY <1>3, <1>4 DEF EntryFits

\* What a project of a factory's import refers to is the process taken in for the file its
\* path means, of the kind the project needs, with the content of that file, whatever the
\* batch, the library, the names and the edits of others.
THEOREM ImportedRefsAreFiles == ImportSpec => []RefsAreFiles
<1>1. ImportSpec => []ImportInv
  BY ImportStarts, ImportKeeps, PTL DEF ImportSpec
<1> QED
  BY <1>1, ImportRefs, PTL

\* The same of the WAN's import, whose names are cut.
THEOREM PlatformImportedRefsAreFiles == PlatformImportSpec => []RefsAreFiles
<1>1. PlatformImportSpec => []ImportInv
  BY ImportStarts, PlatformImportKeeps, PTL DEF PlatformImportSpec
<1> QED
  BY <1>1, ImportRefs, PTL

-----------------------------------------------------------------------------
(* Importing again makes no copies                                         *)

\* What a batch must be like for an import of it to be repeated without copies.
Clean ==
  /\ foreign = {}
  /\ \A p \in FilePaths : batch.files[p].state # "unfit"
  /\ \A p, q \in FilePaths : p # q => batch.files[p].text # batch.files[q].text

\* How well a name fits a file, at the WAN or at a factory.
RankOf(wan, p, base, want, n) ==
  IF wan THEN CandidateRank(ImportCandidates(p, base, want), n) ELSE Rank(p, base, want, n)

\* The names a file goes by, if the names in known are there and those in taken are the
\* batch's: at the WAN pairs, as meant and as cut (OwnNames), ...
PairTaken(known, taken, ns) == FirstIn(ns, known) \cap taken # {}

PairAnew(known, taken, names, p, suffix) ==
  LET label == <<RawPathLabel(p, suffix), ImportPathLabel(p, suffix)>>
      root == IF label[2] # names[2] THEN label ELSE names
      numbered(s) == <<root[1] \o Serial(s), ClipAssetName(root[2], Serial(s))>>
  IN  IF label[2] # names[2] /\ ~PairTaken(known, taken, label) THEN {label}
      ELSE {numbered(s) : s \in {t \in Serials :
              ~PairTaken(known, taken, numbered(t))
              /\ \A r \in 2..(t - 1) : PairTaken(known, taken, numbered(r))}}

OwnPairs(known, taken, base, p, suffix) ==
  LET names == <<Name(base, suffix), ClipAssetName(Spelled[base], suffix)>>
  IN  IF PairTaken(known, taken, names) THEN PairAnew(known, taken, names, p, suffix) ELSE {names}

\* ... at a factory one ...
OwnName(taken, base, p, suffix) ==
  IF Name(base, suffix) \in taken THEN Elsewhere(Name(base, suffix), PathLabel(p, suffix), taken)
  ELSE {Name(base, suffix)}

\* ... and of them those that the library has.
OwnKeys(wan, known, taken, base, p, suffix) ==
  IF wan THEN UNION {FirstIn(ns, known) : ns \in OwnPairs(known, taken, base, p, suffix)}
  ELSE OwnName(taken, base, p, suffix) \cap known

\* A name an import may give.
Given(wan, n) == wan => Len(n) <= NameMax

\* The order in which files are done.
Ahead(x, e) == \/ Place(x.path) < Place(e.path)
               \/ x.path = e.path /\ WeldPlace(x.weld) < WeldPlace(e.weld)
Earlier(e) == {x \in Todo \ {e} : Ahead(x, e)}

\* The processes a name can stand for.  Files stand for rows, and A says for which: those
\* held by the files before e, and their names.
Live(i) == IsProcess(i) /\ shelf[i].status # "disabled"
Held(A, e) == {A[x] : x \in Earlier(e)}
Shown == {shelf[i].name : i \in {j \in DOMAIN shelf : Live(j)}}
HeldNames(A, e) == {shelf[i].name : i \in Held(A, e)}
Newest(i) == \A j \in DOMAIN shelf : Live(j) /\ shelf[j].name = shelf[i].name => j <= i

\* A process that has a file's content, and how well it is named for it.
Suits(i, e) ==
  /\ IsProcess(i) /\ shelf[i].status = "available"
  /\ Kinded(e) => shelf[i].weld = e.weld
  /\ shelf[i].content \in Sums(batch.files[e.path])
Ranks(wan, i, e) == RankOf(wan, e.path, batch.files[e.path].base, e.weld, shelf[i].name)
Keys(wan, A, e) == OwnKeys(wan, Shown, HeldNames(A, e), batch.files[e.path].base, e.path, e.suffix)

\* Of the processes that have the content of e and are not held, i is named best ...
Best(wan, i, e, held) ==
  /\ i \notin held /\ Suits(i, e)
  /\ \E r \in Ranks(wan, i, e) : \A j \in DOMAIN shelf \ held : Suits(j, e) =>
        \A s \in Ranks(wan, j, e) : r < s \/ (r = s /\ i >= j)
\* ... or none is named for it.
NoneNamed(wan, e, held) ==
  \A j \in DOMAIN shelf \ held : Suits(j, e) => Ranks(wan, j, e) = {}

\* File e will be given row A[e] again: because of its content, or because of its name.
ByName(wan, A, e) ==
  /\ NoneNamed(wan, e, Held(A, e)) /\ Newest(A[e]) /\ shelf[A[e]].name \in Keys(wan, A, e)
  /\ batch.files[e.path].mode # "rename"
  /\ batch.files[e.path].mode = "overwrite" =>
        shelf[A[e]].status = "available" /\ shelf[A[e]].content = Raw(batch.files[e.path].text)
Stood(wan, A, e) ==
  /\ Live(A[e]) /\ (Kinded(e) => shelf[A[e]].weld = e.weld)
  /\ Best(wan, A[e], e, Held(A, e)) \/ ByName(wan, A, e)

\* The files of D will be given their rows again, each its own.
Settled(wan, A, D) ==
  /\ A \in [Todo -> Nat] /\ \A e \in D : Stood(wan, A, e)
  /\ \A e, x \in D : A[e] = A[x] => e = x

\* A draft that will be given to file e.
Pending(wan, A, e, i) ==
  /\ i \notin Held(A, e) /\ NoneNamed(wan, e, Held(A, e))
  /\ IsProcess(i) /\ shelf[i].status = "draft" /\ (Kinded(e) => shelf[i].weld = e.weld)
  /\ shelf[i].content \in Sums(batch.files[e.path])
  /\ \/ Ranks(wan, i, e) # {}
     \/ /\ Newest(i) /\ shelf[i].name \in Keys(wan, A, e)
        /\ batch.files[e.path].mode = "overwrite"
        /\ shelf[i].content = Raw(batch.files[e.path].text)

\* What is to be done comes after what was done.
Progress(todo) == /\ todo \subseteq Todo
                  /\ \A x \in Todo \ todo, e \in todo : Ahead(x, e)

\* The book mirrors the processes of the library; the draft is not in it yet.
Mirrors(b) ==
  /\ \A i \in DOMAIN shelf : Live(i) /\ i # imp.draft => shelf[i].name \in Named(b, "process")
  /\ \A n \in Named(b, "process") :
       LET i == b.names[<<"process", n>>]
       IN  /\ Live(i) /\ shelf[i].name = n
           /\ \/ i \in b.claimed
              \/ Newest(i) /\ \A j \in b.claimed : shelf[j].name # n
  /\ \A i \in b.claimed : /\ Live(i) /\ i # imp.draft
                          /\ b.names[<<"process", shelf[i].name>>] \in b.claimed
  /\ \A i \in DOMAIN b.rows : IsProcess(i) /\ i # imp.draft => b.rows[i] = shelf[i]
  /\ \A i \in DOMAIN shelf : Live(i) /\ i # imp.draft /\ i \notin b.claimed => i \in b.procs

\* The files that have been done.
Finished ==
  IF imports = 0 THEN {} ELSE IF imports = 1 /\ imp.at = "files" THEN Todo \ imp.todo ELSE Todo

\* The import has come to the rows that A says, and a draft is of the file that comes next.
UnderWay(wan, A) ==
  /\ Progress(imp.todo) /\ Mirrors(imp.book)
  /\ imp.book.claimed = {A[x] : x \in Todo \ imp.todo}
  /\ imp.draft # 0 => imports = 1 /\ \E e \in Upcoming(imp.todo) : Pending(wan, A, e, imp.draft)

\* The library remembers what the files became, and nothing is made twice.
Memory(wan) ==
  /\ imports \in Nat /\ made = {} /\ (imp.at # "idle" => imports # 0)
  /\ \E A \in [Todo -> Nat] : Settled(wan, A, Finished) /\ (imp.at = "files" => UnderWay(wan, A))

\* The invariant.
CopiesInv(wan) == ImportInv /\ (Clean => Memory(wan))

-----------------------------------------------------------------------------
(* Names of files and their ranks                                          *)

\* The weld kind a file is used for, if there is one.
MaybeKinds == WeldKinds \cup {""}

\* The last piece of a name, and what is before it.
LEMMA TailOfName ==
  ASSUME NEW n \in Seq(Pieces), NEW x \in Pieces
  PROVE  /\ n \o <<x>> \in Seq(Pieces) /\ Len(n \o <<x>>) = Len(n) + 1
         /\ Last(n \o <<x>>) = x /\ Front(n \o <<x>>) = n
<1>1. /\ n \o <<x>> \in Seq(Pieces) /\ Len(n \o <<x>>) = Len(n) + 1
      /\ (n \o <<x>>)[Len(n) + 1] = x
      /\ \A i \in 1..Len(n) : (n \o <<x>>)[i] = n[i]
  OBVIOUS
<1> DEFINE s == n \o <<x>>
           cut == SubSeq(s, 1, Len(n))
<1>2. Last(s) = x /\ Front(s) = cut
  BY <1>1 DEF Last, Front
<1> HIDE DEF s
<1>3. s \in Seq(Pieces) /\ Len(s) = Len(n) + 1 /\ \A i \in 1..Len(n) : s[i] = n[i]
  BY <1>1 DEF s
<1>4. cut \in Seq(Pieces) /\ Len(cut) = Len(n) /\ \A i \in 1..Len(n) : cut[i] = n[i]
  BY <1>3
<1> HIDE DEF cut
<1>5. cut = n
  BY <1>4
<1> QED
  BY <1>1, <1>2, <1>5 DEF s

\* A serial number is one piece, by which a name is known to be numbered.
LEMMA SerialIs ==
  ASSUME NEW t \in Serials
  PROVE  /\ \E x \in Pieces : Serial(t) = <<x>> /\ x \in Range(Numbers)
         /\ Serial(t) \in Seq(Pieces) /\ Len(Serial(t)) <= 1
<1>1. Len(Numbers) \in Nat /\ DOMAIN Numbers = 1..Len(Numbers)
      /\ \A i \in DOMAIN Numbers : Numbers[i] \in Pieces
  BY LegacyImportConstants, SeqNumbered
<1>2. t \in DOMAIN Numbers
  BY <1>1 DEF Serials
<1>3. \E x \in Pieces : Serial(t) = <<x>> /\ x \in Range(Numbers)
  BY <1>1, <1>2 DEF Serial, Range
<1>4. \A x \in Pieces : <<x>> \in Seq(Pieces) /\ Len(<<x>>) <= 1
  OBVIOUS
<1> QED
  BY <1>3, <1>4

\* A suffix is at most one piece.
LEMMA SuffixShort ==
  ASSUME NEW want \in MaybeKinds, NEW suffix \in {<<>>, Suffix(want)}
  PROVE  suffix \in Seq(Pieces) /\ Len(suffix) <= 1
<1>1. suffix = <<>> \/ (want \in {"multi", "tbar"} /\ suffix = <<want>>)
  BY DEF Suffix
<1>2. {"multi", "tbar"} \subseteq Pieces
  BY LegacyImportConstants
<1>3. suffix = <<>> \/ \E x \in Pieces : suffix = <<x>>
  BY <1>1, <1>2
<1>4. <<>> \in Seq(Pieces) /\ Len(<<>>) <= 1
      /\ \A x \in Pieces : <<x>> \in Seq(Pieces) /\ Len(<<x>>) <= 1
  OBVIOUS
<1> QED
  BY <1>3, <1>4

\* What cutting does to a name with one piece, or none, at its end.
LEMMA ClipIs ==
  ASSUME NEW n \in Seq(Pieces), NEW tail \in Seq(Pieces), Len(tail) <= 1
  PROVE  /\ Len(ClipAssetName(n, tail)) <= NameMax
         /\ Len(n) + Len(tail) <= NameMax => ClipAssetName(n, tail) = n \o tail
         /\ \E m \in Seq(Pieces) : ClipAssetName(n, tail) = m \o tail
<1>0. NameMax \in Nat \ {0} /\ Len(tail) \in Nat /\ Len(n) \in Nat
  BY NameMaxAssumption
<1>1. CASE Len(n) + Len(tail) > NameMax
  <2> DEFINE k == NameMax - Len(tail)
             cut == SubSeq(n, 1, k)
  <2>1. k \in Nat /\ k <= Len(n)
    BY <1>0, <1>1
  <2>2. cut \in Seq(Pieces) /\ Len(cut) = k
    BY <2>1
  <2> HIDE DEF cut
  <2>3. Len(cut \o tail) = k + Len(tail)
    BY <2>2
  <2>4. ClipAssetName(n, tail) = cut \o tail
    <3>1. Len(n) + Len(tail) > NameMax /\ Len(tail) <= NameMax
      BY <1>0, <1>1
    <3> QED
      BY <3>1 DEF ClipAssetName, cut
  <2>5. Len(ClipAssetName(n, tail)) <= NameMax
    <3>1. k + Len(tail) = NameMax
      BY <1>0
    <3>2. NameMax <= NameMax
      BY <1>0
    <3> QED
      BY <2>3, <2>4, <3>1, <3>2
  <2>6. ~(Len(n) + Len(tail) <= NameMax)
    BY <1>0, <1>1
  <2>7. \E m \in Seq(Pieces) : ClipAssetName(n, tail) = m \o tail
    BY <2>2, <2>4
  <2> QED
    BY <2>5, <2>6, <2>7
<1>2. CASE ~(Len(n) + Len(tail) > NameMax)
  <2>1. ClipAssetName(n, tail) = n \o tail
    BY <1>2 DEF ClipAssetName
  <2>2. Len(n \o tail) = Len(n) + Len(tail)
    OBVIOUS
  <2>3. Len(ClipAssetName(n, tail)) <= NameMax
    BY <1>0, <1>2, <2>1, <2>2
  <2>4. \E m \in Seq(Pieces) : ClipAssetName(n, tail) = m \o tail
    BY <2>1
  <2> QED
    BY <2>1, <2>3, <2>4
<1> QED
  BY <1>1, <1>2

\* Candidates of the WAN, and where they are.
HasCandidates(cands, p, base, suffix) ==
  /\ Len(cands) \in Nat /\ DOMAIN cands = 1..Len(cands)
  /\ \E i \in DOMAIN cands : cands[i] = ClipAssetName(Spelled[p], suffix)
  /\ \E i \in DOMAIN cands : cands[i] = ClipAssetName(Spelled[base], suffix)

\* They have the path's label and the file's name as they are cut.
LEMMA CandidatesAre ==
  ASSUME NEW p \in Stems, NEW base \in Stems, NEW want \in MaybeKinds,
         NEW suffix \in {<<>>, Suffix(want)}
  PROVE  HasCandidates(ImportCandidates(p, base, want), p, base, suffix)
<1> SUFFICES ASSUME NEW cands, cands = ImportCandidates(p, base, want)
             PROVE  HasCandidates(cands, p, base, suffix)
  OBVIOUS
<1> USE DEF HasCandidates
<1> DEFINE sfx == Suffix(want)
           bases == <<Spelled[p], Spelled[base]>>
           first == <<bases[1], ClipAssetName(bases[1], <<>>), bases[2], ClipAssetName(bases[2], <<>>)>>
           more == <<ClipAssetName(bases[1], sfx), ClipAssetName(bases[2], sfx)>>
<1>1. cands = first \o (IF sfx = <<>> THEN <<>> ELSE more)
  BY DEF ImportCandidates
<1>2. <<>> \in Seq(Pieces) /\ sfx \in Seq(Pieces)
  BY SuffixShort
<1>3. bases[1] \in Seq(Pieces) /\ bases[2] \in Seq(Pieces)
  BY <1>2, NamesTyped
<1>4. /\ ClipAssetName(bases[1], <<>>) \in Seq(Pieces) /\ ClipAssetName(bases[2], <<>>) \in Seq(Pieces)
      /\ ClipAssetName(bases[1], sfx) \in Seq(Pieces) /\ ClipAssetName(bases[2], sfx) \in Seq(Pieces)
  <2> HIDE DEF bases, sfx
  <2> QED
    BY <1>2, <1>3, ClipTyped
<1>5. /\ first \in Seq(Seq(Pieces)) /\ Len(first) = 4
      /\ first[2] = ClipAssetName(Spelled[p], <<>>) /\ first[4] = ClipAssetName(Spelled[base], <<>>)
  BY <1>3, <1>4
<1>6. /\ more \in Seq(Seq(Pieces)) /\ Len(more) = 2
      /\ more[1] = ClipAssetName(Spelled[p], sfx) /\ more[2] = ClipAssetName(Spelled[base], sfx)
  BY <1>4
<1> HIDE DEF first, more
<1>7. CASE sfx = <<>>
  <2>1. suffix = <<>>
    BY <1>7 DEF sfx
  <2>2. cands = first
    BY <1>1, <1>5, <1>7
  <2>3. DOMAIN cands = 1..4 /\ 2 \in 1..4 /\ 4 \in 1..4 /\ Len(cands) = 4
    BY <1>5, <2>2
  <2>4. cands[2] = ClipAssetName(Spelled[p], suffix) /\ cands[4] = ClipAssetName(Spelled[base], suffix)
    BY <1>5, <2>1, <2>2
  <2> QED
    BY <2>3, <2>4
<1>8. CASE sfx # <<>>
  <2>1. cands = first \o more
    BY <1>1, <1>8
  <2>2. /\ DOMAIN cands = 1..6 /\ Len(cands) = 6
        /\ cands[2] = first[2] /\ cands[4] = first[4] /\ cands[5] = more[1] /\ cands[6] = more[2]
    <3> DEFINE joined == first \o more
    <3>1. /\ DOMAIN joined = 1..(Len(first) + Len(more)) /\ Len(joined) = Len(first) + Len(more)
          /\ \A i \in 1..Len(first) : joined[i] = first[i]
          /\ \A i \in 1..Len(more) : joined[Len(first) + i] = more[i]
      <4>1. first \in Seq(Seq(Pieces)) /\ more \in Seq(Seq(Pieces))
        BY <1>5, <1>6
      <4>2. ASSUME NEW s \in Seq(Seq(Pieces)), NEW t \in Seq(Seq(Pieces))
            PROVE  /\ DOMAIN (s \o t) = 1..(Len(s) + Len(t)) /\ Len(s \o t) = Len(s) + Len(t)
                   /\ \A i \in 1..Len(s) : (s \o t)[i] = s[i]
                   /\ \A i \in 1..Len(t) : (s \o t)[Len(s) + i] = t[i]
        OBVIOUS
      <4> QED
        BY <4>1, <4>2
    <3>2. Len(first) = 4 /\ Len(more) = 2 /\ cands = joined
      BY <1>5, <1>6, <2>1
    <3> HIDE DEF joined
    <3> QED
      BY <3>1, <3>2
  <2>3. 2 \in 1..6 /\ 4 \in 1..6 /\ 5 \in 1..6 /\ 6 \in 1..6
    OBVIOUS
  <2>4. suffix = <<>> \/ suffix = sfx
    BY DEF sfx
  <2> HIDE DEF sfx
  <2> QED
    BY <1>5, <1>6, <2>2, <2>3, <2>4
<1> QED
  BY <1>7, <1>8

\* Ranks are numbers.
LEMMA RanksAreNumbers ==
  ASSUME NEW wan \in BOOLEAN, NEW p \in Stems, NEW base \in Stems, NEW want \in MaybeKinds,
         NEW n
  PROVE  RankOf(wan, p, base, want, n) \subseteq Nat
<1>1. Rank(p, base, want, n) \subseteq Nat
  BY DEF Rank
<1>2. CandidateRank(ImportCandidates(p, base, want), n) \subseteq Nat
  <2>1. PICK cands : cands = ImportCandidates(p, base, want)
    OBVIOUS
  <2>2. Len(cands) \in Nat /\ DOMAIN cands = 1..Len(cands)
    <3>1. HasCandidates(cands, p, base, <<>>)
      BY <2>1, CandidatesAre
    <3> QED
      BY <3>1 DEF HasCandidates
  <2>3. CandidateRank(cands, n) \subseteq Nat
    BY <2>2 DEF CandidateRank
  <2> QED
    BY <2>1, <2>3
<1> QED
  BY <1>1, <1>2 DEF RankOf

\* Of ranks there is a best.
LEMMA BestOfRanks ==
  ASSUME NEW S \in SUBSET Nat, S # {}
  PROVE  {r \in S : \A x \in S : r <= x} # {}
<1>1. PICK r \in S : \A x \in S : r <= x
  BY LeastExists
<1> QED
  BY <1>1

\* The names an import gives: with the suffix, or of the path with a serial number.
WanNames(p, base, suffix) ==
  {ClipAssetName(Spelled[x], suffix) : x \in {p, base}}
  \cup {ClipAssetName(ClipAssetName(Spelled[p], suffix), Serial(t)) : t \in Serials}
FactoryNames(p, base, suffix) ==
  {Name(x, suffix) : x \in {p, base}} \cup {Name(p, suffix) \o Serial(t) : t \in Serials}
MadeFor(wan, p, base, suffix) ==
  IF wan THEN WanNames(p, base, suffix) ELSE FactoryNames(p, base, suffix)

\* They are names it may give ...
LEMMA MadeIsGiven ==
  ASSUME NEW wan \in BOOLEAN, NEW p \in Stems, NEW base \in Stems, NEW want \in MaybeKinds,
         NEW suffix \in {<<>>, Suffix(want)}, NEW n \in MadeFor(wan, p, base, suffix)
  PROVE  n \in Seq(Pieces) /\ Given(wan, n)
<1>1. suffix \in Seq(Pieces) /\ Len(suffix) <= 1
  BY SuffixShort
<1>2. \A x \in {p, base} : Name(x, suffix) \in Seq(Pieces) /\ Spelled[x] \in Seq(Pieces)
  BY <1>1, NamesTyped
<1>3. \A t \in Serials : Serial(t) \in Seq(Pieces) /\ Len(Serial(t)) <= 1
  BY SerialIs
<1>4. CASE wan
  <2>1. \A x \in {p, base} : /\ ClipAssetName(Spelled[x], suffix) \in Seq(Pieces)
                             /\ Len(ClipAssetName(Spelled[x], suffix)) <= NameMax
    BY <1>1, <1>2, ClipTyped, ClipIs
  <2>2. PICK m \in Seq(Pieces) : m = ClipAssetName(Spelled[p], suffix)
    BY <2>1
  <2>3. \A t \in Serials : /\ ClipAssetName(m, Serial(t)) \in Seq(Pieces)
                           /\ Len(ClipAssetName(m, Serial(t))) <= NameMax
    BY <1>3, ClipTyped, ClipIs
  <2> QED
    BY <1>4, <2>1, <2>2, <2>3 DEF MadeFor, WanNames, FactoryNames, Given
<1>5. CASE ~wan
  <2>1. PICK m \in Seq(Pieces) : m = Name(p, suffix)
    BY <1>2
  <2>2. \A t \in Serials : m \o Serial(t) \in Seq(Pieces)
    BY <1>3
  <2> QED
    BY <1>2, <1>5, <2>1, <2>2 DEF MadeFor, WanNames, FactoryNames, Given
<1> QED
  BY <1>4, <1>5

\* ... and by which it finds them again.
LEMMA MadeIsRanked ==
  ASSUME NEW wan \in BOOLEAN, NEW p \in Stems, NEW base \in Stems, NEW want \in MaybeKinds,
         NEW suffix \in {<<>>, Suffix(want)}, NEW n \in MadeFor(wan, p, base, suffix)
  PROVE  RankOf(wan, p, base, want, n) # {}
<1>1. suffix \in Seq(Pieces)
  BY SuffixShort
<1>2. \A x \in {p, base} : Name(x, suffix) \in Seq(Pieces) /\ Spelled[x] \in Seq(Pieces)
  BY <1>1, NamesTyped
<1>3. CASE wan
  <2>1. PICK cands : cands = ImportCandidates(p, base, want)
    OBVIOUS
  <2>2. /\ Len(cands) \in Nat /\ DOMAIN cands = 1..Len(cands)
        /\ \E i \in DOMAIN cands : cands[i] = ClipAssetName(Spelled[p], suffix)
        /\ \E i \in DOMAIN cands : cands[i] = ClipAssetName(Spelled[base], suffix)
    <3>1. HasCandidates(cands, p, base, suffix)
      BY <2>1, CandidatesAre
    <3> QED
      BY <3>1 DEF HasCandidates
  <2> DEFINE exact == {i \in DOMAIN cands : cands[i] = n}
             tail == <<Last(n)>>
             numbered == {Len(cands) + i : i \in
                       {j \in DOMAIN cands : IsNumbered(n) /\
                          n \in {ClipAssetName(cands[j], tail), cands[j] \o tail}}}
             ranks == IF exact # {} THEN exact ELSE numbered
  <2>3. CandidateRank(cands, n) = {r \in ranks : \A x \in ranks : r <= x}
    BY DEF CandidateRank
  <2>4. ranks \in SUBSET Nat
    BY <2>2
  <2>5. ranks # {}
    <3>1. CASE \E x \in {p, base} : n = ClipAssetName(Spelled[x], suffix)
      <4>1. exact # {}
        BY <2>2, <3>1
      <4> QED
        BY <4>1
    <3>2. CASE \E t \in Serials : n = ClipAssetName(ClipAssetName(Spelled[p], suffix), Serial(t))
      <4>1. PICK t \in Serials : n = ClipAssetName(ClipAssetName(Spelled[p], suffix), Serial(t))
        BY <3>2
      <4>2. PICK j \in DOMAIN cands : cands[j] = ClipAssetName(Spelled[p], suffix)
        BY <2>2
      <4>3. PICK x \in Pieces : Serial(t) = <<x>> /\ x \in Range(Numbers)
        BY SerialIs
      <4>4. cands[j] \in Seq(Pieces)
        BY <1>1, <1>2, <4>2, ClipTyped
      <4>5. PICK m \in Seq(Pieces) : n = m \o <<x>>
        <5>1. <<x>> \in Seq(Pieces) /\ Len(<<x>>) <= 1
          OBVIOUS
        <5>2. n = ClipAssetName(cands[j], <<x>>)
          BY <4>1, <4>2, <4>3
        <5> QED
          BY <4>4, <5>1, <5>2, ClipIs
      <4>6. Last(n) = x /\ IsNumbered(n)
        BY <4>3, <4>5, TailOfName DEF IsNumbered
      <4>7. n \in {ClipAssetName(cands[j], tail), cands[j] \o tail}
        BY <4>1, <4>2, <4>3, <4>6
      <4>8. Len(cands) + j \in numbered
        BY <4>6, <4>7
      <4> HIDE DEF exact, numbered
      <4> QED
        BY <4>8
    <3> QED
      BY <1>3, <3>1, <3>2 DEF MadeFor, WanNames, FactoryNames
  <2> HIDE DEF ranks
  <2>6. CandidateRank(cands, n) # {}
    BY <2>3, <2>4, <2>5, BestOfRanks
  <2> QED
    BY <1>3, <2>1, <2>6 DEF RankOf
<1>4. CASE ~wan
  <2> DEFINE sfx == Suffix(want)
             cands == <<PathLabel(p, <<>>), Name(base, <<>>), PathLabel(p, sfx), Name(base, sfx)>>
             exact == {i \in 1..4 : cands[i] = n}
             numbered == {4 + i : i \in {j \in 1..4 : IsNumbered(n) /\ cands[j] = Front(n)}}
             ranks == IF exact # {} THEN exact ELSE numbered
  <2>1. Rank(p, base, want, n) = {i \in ranks : \A k \in ranks : i <= k}
    BY DEF Rank
  <2>2. ranks \in SUBSET Nat
    OBVIOUS
  <2>3. /\ \E i \in 1..4 : cands[i] = Name(p, suffix)
        /\ \E i \in 1..4 : cands[i] = Name(base, suffix)
    <3>1. /\ cands[1] = Name(p, <<>>) /\ cands[2] = Name(base, <<>>)
          /\ cands[3] = Name(p, sfx) /\ cands[4] = Name(base, sfx)
      BY DEF PathLabel
    <3>2. suffix = <<>> \/ suffix = sfx
      OBVIOUS
    <3>3. 1 \in 1..4 /\ 2 \in 1..4 /\ 3 \in 1..4 /\ 4 \in 1..4
      OBVIOUS
    <3> HIDE DEF sfx, cands
    <3> QED
      BY <3>1, <3>2, <3>3
  <2> HIDE DEF cands
  <2>4. ranks # {}
    <3>1. CASE \E x \in {p, base} : n = Name(x, suffix)
      <4>1. exact # {}
        BY <2>3, <3>1
      <4> QED
        BY <4>1
    <3>2. CASE \E t \in Serials : n = Name(p, suffix) \o Serial(t)
      <4>1. PICK t \in Serials : n = Name(p, suffix) \o Serial(t)
        BY <3>2
      <4>2. PICK x \in Pieces : Serial(t) = <<x>> /\ x \in Range(Numbers)
        BY SerialIs
      <4>3. PICK j \in 1..4 : cands[j] = Name(p, suffix)
        BY <2>3
      <4>4. Name(p, suffix) \in Seq(Pieces)
        BY <1>2
      <4>5. Last(n) = x /\ Front(n) = Name(p, suffix)
        BY <4>1, <4>2, <4>4, TailOfName
      <4>6. IsNumbered(n) /\ cands[j] = Front(n)
        BY <4>2, <4>3, <4>5 DEF IsNumbered
      <4>7. 4 + j \in numbered
        BY <4>6
      <4> HIDE DEF exact, numbered
      <4> QED
        BY <4>7
    <3> QED
      BY <1>4, <3>1, <3>2 DEF MadeFor, WanNames, FactoryNames
  <2> HIDE DEF ranks
  <2>5. Rank(p, base, want, n) # {}
    BY <2>1, <2>2, <2>4, BestOfRanks
  <2> QED
    BY <1>4, <2>5 DEF RankOf
<1> QED
  BY <1>3, <1>4

\* The first of two names that is known.
LEMMA FirstOfPair ==
  ASSUME NEW x, NEW y, NEW known
  PROVE  FirstIn(<<x, y>>, known) = IF x \in known THEN {x} ELSE IF y \in known THEN {y} ELSE {}
<1> DEFINE keys == <<x, y>>
           ok(j) == keys[j] \in known /\ \A h \in 1..(j - 1) : keys[h] \notin known
<1>1. DOMAIN keys = {1, 2} /\ keys[1] = x /\ keys[2] = y
  OBVIOUS
<1>2. FirstIn(keys, known) = {keys[i] : i \in {j \in DOMAIN keys : ok(j)}}
  BY DEF FirstIn
<1>3. ok(1) <=> x \in known
  <2>1. 1..(1 - 1) = {}
    OBVIOUS
  <2> QED
    BY <1>1, <2>1
<1>4. ok(2) <=> y \in known /\ x \notin known
  <2>1. 1..(2 - 1) = {1}
    OBVIOUS
  <2> QED
    BY <1>1, <2>1
<1> HIDE DEF keys, ok
<1>5. FirstIn(keys, known) = IF x \in known THEN {x} ELSE IF y \in known THEN {y} ELSE {}
  BY <1>1, <1>2, <1>3, <1>4
<1> QED
  BY <1>5 DEF keys

\* Names in pairs, as meant and as cut: the same, or the first is too long.
Apt(ns) == ns = <<ns[1], ns[2]>> /\ (ns[1] = ns[2] \/ ~(Len(ns[1]) <= NameMax))

\* What is found under a pair is found when the import has given more names.
LEMMA FirstStays ==
  ASSUME NEW ns, Apt(ns), NEW known, NEW more, known \subseteq more,
         \A x \in more \ known : Given(TRUE, x), FirstIn(ns, known) # {}, NameMax \in Nat
  PROVE  FirstIn(ns, more) = FirstIn(ns, known)
<1> DEFINE x == ns[1]
           y == ns[2]
<1>1. ns = <<x, y>> /\ (x = y \/ ~(Len(x) <= NameMax))
  BY DEF Apt
<1>2. /\ FirstIn(ns, known) = IF x \in known THEN {x} ELSE IF y \in known THEN {y} ELSE {}
      /\ FirstIn(ns, more) = IF x \in more THEN {x} ELSE IF y \in more THEN {y} ELSE {}
  <2> HIDE DEF x, y
  <2> QED
    BY <1>1, FirstOfPair
<1>3. CASE x \in known
  BY <1>2, <1>3
<1>4. CASE x \notin known /\ y \in known
  <2>1. x # y
    BY <1>4
  <2>2. x \notin more
    <3>1. SUFFICES ASSUME x \in more PROVE FALSE
      OBVIOUS
    <3>2. Given(TRUE, x)
      BY <1>4, <3>1
    <3> QED
      BY <1>1, <2>1, <3>2 DEF Given
  <2> QED
    BY <1>2, <1>4, <2>2
<1> QED
  BY <1>2, <1>3, <1>4

\* The numbers that are tried.
LEMMA SerialsAreNumbers == Serials \subseteq Nat /\ \A t \in Serials : 2..(t - 1) \subseteq Serials
BY DEF Serials

\* Pairs that are looked for are apt.
LEMMA PairsApt ==
  ASSUME NEW p \in Stems, NEW base \in Stems, NEW want \in MaybeKinds,
         NEW suffix \in {<<>>, Suffix(want)}, NEW x \in {p, base}
  PROVE  /\ Apt(<<Spelled[x] \o suffix, ClipAssetName(Spelled[x], suffix)>>)
         /\ \A t \in Serials : Apt(<<(Spelled[x] \o suffix) \o Serial(t),
                                     ClipAssetName(ClipAssetName(Spelled[x], suffix), Serial(t))>>)
<1>1. suffix \in Seq(Pieces) /\ Len(suffix) <= 1 /\ Spelled[x] \in Seq(Pieces)
  BY SuffixShort, NamesTyped
<1>2. NameMax \in Nat \ {0} /\ Len(suffix) \in Nat /\ Len(Spelled[x]) \in Nat
  BY <1>1, NameMaxAssumption
<1>3. PICK n \in Seq(Pieces) : n = Spelled[x] \o suffix
  <2>1. Name(x, suffix) \in Seq(Pieces)
    BY <1>1, NamesTyped
  <2> QED
    BY <2>1 DEF Name
<1>4. Len(n) = Len(Spelled[x]) + Len(suffix)
  BY <1>1, <1>3
<1>5. PICK c \in Seq(Pieces) : c = ClipAssetName(Spelled[x], suffix)
  BY <1>1, ClipTyped
<1>6. Len(n) <= NameMax => c = n
  BY <1>1, <1>3, <1>4, <1>5, ClipIs
<1>7. Len(n) \in Nat
  OBVIOUS
<1>8. n = c \/ ~(Len(n) <= NameMax)
  BY <1>6
<1>9. Apt(<<n, c>>)
  BY <1>8 DEF Apt
<1>10. ASSUME NEW t \in Serials PROVE Apt(<<n \o Serial(t), ClipAssetName(c, Serial(t))>>)
  <2>1. PICK s \in Seq(Pieces) : s = Serial(t)
    BY SerialIs
  <2>2. Len(s) <= 1 /\ Len(s) \in Nat
    BY <2>1, SerialIs
  <2>3. Len(n \o s) = Len(n) + Len(s)
    OBVIOUS
  <2>4. Len(n) + Len(s) <= NameMax => ClipAssetName(c, s) = n \o s
    <3>1. SUFFICES ASSUME Len(n) + Len(s) <= NameMax PROVE ClipAssetName(c, s) = n \o s
      OBVIOUS
    <3>2. c = n
      BY <1>2, <1>6, <1>7, <2>2, <3>1
    <3> QED
      BY <2>2, <3>1, <3>2, ClipIs
  <2>5. ClipAssetName(c, s) = n \o s \/ ~(Len(n \o s) <= NameMax)
    BY <2>3, <2>4
  <2>6. Apt(<<n \o s, ClipAssetName(c, s)>>)
    BY <2>5 DEF Apt
  <2> QED
    BY <2>1, <2>6
<1> QED
  BY <1>3, <1>5, <1>9, <1>10

\* The pairs of the names of a file, of its path and of its path with a serial number.
NamePair(x, suffix) == <<Spelled[x] \o suffix, ClipAssetName(Spelled[x], suffix)>>
NumberedPair(x, suffix, t) ==
  <<(Spelled[x] \o suffix) \o Serial(t), ClipAssetName(ClipAssetName(Spelled[x], suffix), Serial(t))>>
\* With a serial number, the path is spelled as the name of the file if both are cut to one.
RootOf(base, p, suffix) == IF NamePair(p, suffix)[2] # NamePair(base, suffix)[2] THEN p ELSE base

\* The pairs a file may go by.
LEMMA OwnPairsAre ==
  ASSUME NEW known, NEW taken, NEW base, NEW p, NEW suffix, NEW x, x = RootOf(base, p, suffix)
  PROVE  OwnPairs(known, taken, base, p, suffix) =
           IF ~PairTaken(known, taken, NamePair(base, suffix)) THEN {NamePair(base, suffix)}
           ELSE IF /\ NamePair(p, suffix)[2] # NamePair(base, suffix)[2]
                   /\ ~PairTaken(known, taken, NamePair(p, suffix))
                THEN {NamePair(p, suffix)}
           ELSE {NumberedPair(x, suffix, s) : s \in {t \in Serials :
                   /\ ~PairTaken(known, taken, NumberedPair(x, suffix, t))
                   /\ \A r \in 2..(t - 1) : PairTaken(known, taken, NumberedPair(x, suffix, r))}}
<1> DEFINE names == NamePair(base, suffix)
           label == NamePair(p, suffix)
           root == IF label[2] # names[2] THEN label ELSE names
           numbered(s) == <<root[1] \o Serial(s), ClipAssetName(root[2], Serial(s))>>
           busy(ns) == PairTaken(known, taken, ns)
           free(t) == ~busy(numbered(t)) /\ \A r \in 2..(t - 1) : busy(numbered(r))
<1>1. OwnPairs(known, taken, base, p, suffix) =
        IF busy(names)
        THEN IF label[2] # names[2] /\ ~busy(label) THEN {label}
             ELSE {numbered(s) : s \in {t \in Serials : free(t)}}
        ELSE {names}
  BY DEF OwnPairs, PairAnew, NamePair, RawPathLabel, ImportPathLabel, Name
<1>2. \A s : numbered(s) = NumberedPair(x, suffix, s)
  BY DEF NumberedPair, RootOf, NamePair
<1> HIDE DEF names, label, numbered, busy
<1>3. \A t : free(t) <=> /\ ~busy(NumberedPair(x, suffix, t))
                         /\ \A r \in 2..(t - 1) : busy(NumberedPair(x, suffix, r))
  BY <1>2
<1>4. {numbered(s) : s \in {t \in Serials : free(t)}}
       = {NumberedPair(x, suffix, s) : s \in {t \in Serials :
                   /\ ~busy(NumberedPair(x, suffix, t))
                   /\ \A r \in 2..(t - 1) : busy(NumberedPair(x, suffix, r))}}
  BY <1>2, <1>3
<1> QED
  BY <1>1, <1>4 DEF names, label, busy

\* Of serial numbers that are free, with none free before, there is one.
LEMMA OneSerial ==
  ASSUME NEW busy \in SUBSET Serials, NEW t \in Serials, NEW u \in Serials,
         t \notin busy, u \notin busy,
         \A r \in 2..(t - 1) : r \in busy, \A r \in 2..(u - 1) : r \in busy
  PROVE  t = u
<1>1. t \in Nat /\ u \in Nat /\ t >= 2 /\ u >= 2
  BY DEF Serials
<1>2. t < u => t \in 2..(u - 1)
  BY <1>1
<1>3. u < t => u \in 2..(t - 1)
  BY <1>1
<1> QED
  BY <1>1, <1>2, <1>3

\* A file goes by one pair of names ...
LEMMA OnePair ==
  ASSUME NEW known, NEW taken, NEW base, NEW p, NEW suffix,
         NEW ns \in OwnPairs(known, taken, base, p, suffix), NEW ms \in OwnPairs(known, taken, base, p, suffix)
  PROVE  ns = ms
<1>1. PICK x : x = RootOf(base, p, suffix)
  OBVIOUS
<1> DEFINE busy == {t \in Serials : PairTaken(known, taken, NumberedPair(x, suffix, t))}
           free == {t \in Serials :
                   /\ ~PairTaken(known, taken, NumberedPair(x, suffix, t))
                   /\ \A r \in 2..(t - 1) : PairTaken(known, taken, NumberedPair(x, suffix, r))}
<1>2. \A t, u \in free : t = u
  <2> SUFFICES ASSUME NEW t \in free, NEW u \in free PROVE t = u
    OBVIOUS
  <2>1. /\ t \in Serials /\ u \in Serials /\ t \notin busy /\ u \notin busy
        /\ (\A r \in 2..(t - 1) : r \in busy) /\ (\A r \in 2..(u - 1) : r \in busy)
    BY SerialsAreNumbers
  <2>2. busy \in SUBSET Serials
    OBVIOUS
  <2> HIDE DEF busy
  <2> QED
    BY <2>1, <2>2, OneSerial
<1> DEFINE names == NamePair(base, suffix)
           label == NamePair(p, suffix)
           number(s) == NumberedPair(x, suffix, s)
           pairs == OwnPairs(known, taken, base, p, suffix)
<1>3. pairs = IF ~PairTaken(known, taken, names) THEN {names}
              ELSE IF label[2] # names[2] /\ ~PairTaken(known, taken, label) THEN {label}
              ELSE {number(s) : s \in free}
  BY <1>1, OwnPairsAre
<1>4. ns \in pairs /\ ms \in pairs
  OBVIOUS
<1> HIDE DEF free, names, label, number, pairs
<1>5. CASE pairs = {number(s) : s \in free}
  <2>1. PICK t \in free : ns = number(t)
    BY <1>4, <1>5
  <2>2. PICK u \in free : ms = number(u)
    BY <1>4, <1>5
  <2> QED
    BY <1>2, <2>1, <2>2
<1> QED
  BY <1>3, <1>4, <1>5

\* ... and for a factory by one name.
LEMMA OneElsewhere ==
  ASSUME NEW n, NEW label, NEW busy, NEW x \in Elsewhere(n, label, busy), NEW y \in Elsewhere(n, label, busy)
  PROVE  x = y
<1> DEFINE held == {t \in Serials : label \o Serial(t) \in busy}
           free == {t \in Serials : /\ label \o Serial(t) \notin busy
                                    /\ \A r \in 2..(t - 1) : label \o Serial(r) \in busy}
<1>1. \A t, u \in free : t = u
  <2> SUFFICES ASSUME NEW t \in free, NEW u \in free PROVE t = u
    OBVIOUS
  <2>1. /\ t \in Serials /\ u \in Serials /\ t \notin held /\ u \notin held
        /\ (\A r \in 2..(t - 1) : r \in held) /\ (\A r \in 2..(u - 1) : r \in held)
    BY SerialsAreNumbers
  <2>2. held \in SUBSET Serials
    OBVIOUS
  <2> HIDE DEF held
  <2> QED
    BY <2>1, <2>2, OneSerial
<1> DEFINE all == Elsewhere(n, label, busy)
           numbered == {label \o Serial(s) : s \in free}
<1>2. /\ x \in all /\ y \in all
      /\ \/ all = {label}
         \/ all = numbered
  BY DEF Elsewhere
<1> HIDE DEF free, held, all
<1>3. CASE all = numbered
  <2>1. PICK t \in free : x = label \o Serial(t)
    BY <1>2, <1>3
  <2>2. PICK u \in free : y = label \o Serial(u)
    BY <1>2, <1>3
  <2> QED
    BY <1>1, <2>1, <2>2
<1> HIDE DEF numbered
<1> QED
  BY <1>2, <1>3

\* The library has at most one name that a file goes by, and none of the batch has it.
LEMMA OneKey ==
  ASSUME NEW wan \in BOOLEAN, NEW known, NEW taken, NEW base, NEW p, NEW suffix,
         NEW k \in OwnKeys(wan, known, taken, base, p, suffix),
         NEW l \in OwnKeys(wan, known, taken, base, p, suffix)
  PROVE  k = l /\ k \in known /\ k \notin taken
<1>1. CASE wan
  <2>1. /\ \E ns \in OwnPairs(known, taken, base, p, suffix) : k \in FirstIn(ns, known)
        /\ \E ns \in OwnPairs(known, taken, base, p, suffix) : l \in FirstIn(ns, known)
    BY <1>1 DEF OwnKeys
  <2>2. PICK ns \in OwnPairs(known, taken, base, p, suffix) : k \in FirstIn(ns, known) /\ l \in FirstIn(ns, known)
    BY <2>1, OnePair
  <2>3. PICK x : x = RootOf(base, p, suffix)
    OBVIOUS
  <2>4. \/ ns = NamePair(base, suffix) /\ ~PairTaken(known, taken, ns)
        \/ ns = NamePair(p, suffix) /\ ~PairTaken(known, taken, ns)
        \/ \E t \in Serials : ns = NumberedPair(x, suffix, t) /\ ~PairTaken(known, taken, ns)
    BY <2>3, OwnPairsAre
  <2>5. ~PairTaken(known, taken, ns) /\ \E y, z : ns = <<y, z>>
    BY <2>4 DEF NamePair, NumberedPair
  <2>6. PICK y, z : ns = <<y, z>>
    BY <2>5
  <2>7. FirstIn(ns, known) = IF y \in known THEN {y} ELSE IF z \in known THEN {z} ELSE {}
    BY <2>6, FirstOfPair
  <2>8. k = l /\ k \in known
    BY <2>2, <2>7
  <2> QED
    BY <2>2, <2>5, <2>8 DEF PairTaken
<1>2. CASE ~wan
  <2> DEFINE n0 == Name(base, suffix)
             label == PathLabel(p, suffix)
  <2>1. /\ k \in known /\ l \in known
        /\ k \in OwnName(taken, base, p, suffix) /\ l \in OwnName(taken, base, p, suffix)
    BY <1>2 DEF OwnKeys
  <2>2. CASE n0 \in taken
    <3>1. k \in Elsewhere(n0, label, taken) /\ l \in Elsewhere(n0, label, taken)
      BY <2>1, <2>2 DEF OwnName
    <3>2. k = l
      BY <3>1, OneElsewhere
    <3>3. k \notin taken
      BY <3>1 DEF Elsewhere
    <3> QED
      BY <2>1, <3>2, <3>3
  <2>3. CASE n0 \notin taken
    BY <2>1, <2>3 DEF OwnName
  <2> QED
    BY <2>2, <2>3
<1> QED
  BY <1>1, <1>2

\* It is the same when the import has given more names.
LEMMA KeyStays ==
  ASSUME NEW wan \in BOOLEAN, NEW base \in Stems, NEW p \in Stems, NEW want \in MaybeKinds,
         NEW suffix \in {<<>>, Suffix(want)}, NEW known, NEW more, NEW taken, known \subseteq more,
         \A x \in more \ known : Given(wan, x),
         NEW k \in OwnKeys(wan, known, taken, base, p, suffix)
  PROVE  k \in OwnKeys(wan, more, taken, base, p, suffix)
<1>0. CASE ~wan
  BY <1>0 DEF OwnKeys
<1>1. CASE wan
  <2>1. PICK x : x = RootOf(base, p, suffix)
    OBVIOUS
  <2>2. x \in {p, base}
    BY <2>1 DEF RootOf
  <2>3. /\ Apt(NamePair(base, suffix)) /\ Apt(NamePair(p, suffix))
        /\ \A t \in Serials : Apt(NumberedPair(x, suffix, t))
    <3>1. \A y \in {p, base} : Apt(NamePair(y, suffix))
      BY PairsApt DEF NamePair
    <3>2. \A t \in Serials : Apt(NumberedPair(x, suffix, t))
      BY <2>2, PairsApt DEF NumberedPair
    <3> QED
      BY <3>1, <3>2
  <2>4. NameMax \in Nat /\ \A y \in more \ known : Given(TRUE, y)
    BY <1>1, NameMaxAssumption DEF Given
  <2>5. ASSUME NEW ns, Apt(ns), FirstIn(ns, known) # {}
        PROVE  /\ FirstIn(ns, more) = FirstIn(ns, known)
               /\ PairTaken(more, taken, ns) <=> PairTaken(known, taken, ns)
    <3>1. FirstIn(ns, more) = FirstIn(ns, known)
      BY <2>4, <2>5, FirstStays
    <3> QED
      BY <3>1 DEF PairTaken
  <2>6. \A ns : PairTaken(known, taken, ns) => FirstIn(ns, known) # {}
    BY DEF PairTaken
  <2>7. PICK ns \in OwnPairs(known, taken, base, p, suffix) : k \in FirstIn(ns, known)
    BY <1>1 DEF OwnKeys
  <2> DEFINE names == NamePair(base, suffix)
             label == NamePair(p, suffix)
             same == label[2] = names[2]
             number(t) == NumberedPair(x, suffix, t)
  <2>8. \/ ns = names /\ ~PairTaken(known, taken, names)
        \/ PairTaken(known, taken, names) /\ ~same /\ ~PairTaken(known, taken, label) /\ ns = label
        \/ /\ PairTaken(known, taken, names) /\ (same \/ PairTaken(known, taken, label))
           /\ \E t \in Serials : /\ ns = number(t) /\ ~PairTaken(known, taken, ns)
                                 /\ \A r \in 2..(t - 1) : PairTaken(known, taken, number(r))
    <3> HIDE DEF names, label, number
    <3> QED
      BY <2>1, <2>7, OwnPairsAre DEF names, label, number
  <2>9. Apt(ns) /\ FirstIn(ns, known) # {}
    BY <2>3, <2>7, <2>8
  <2> DEFINE free == {t \in Serials :
                   /\ ~PairTaken(more, taken, number(t))
                   /\ \A r \in 2..(t - 1) : PairTaken(more, taken, number(r))}
  <2>10. OwnPairs(more, taken, base, p, suffix) =
           IF ~PairTaken(more, taken, names) THEN {names}
           ELSE IF ~same /\ ~PairTaken(more, taken, label) THEN {label}
           ELSE {number(s) : s \in free}
    BY <2>1, OwnPairsAre
  <2> HIDE DEF names, label, number, same
  <2>11. ns \in OwnPairs(more, taken, base, p, suffix)
    <3>1. CASE ns = names /\ ~PairTaken(known, taken, names)
      <4>1. ~PairTaken(more, taken, names)
        BY <2>5, <2>9, <3>1
      <4> QED
        BY <2>10, <3>1, <4>1
    <3>2. CASE PairTaken(known, taken, names) /\ ~same /\ ~PairTaken(known, taken, label) /\ ns = label
      <4>1. ~PairTaken(more, taken, label) /\ PairTaken(more, taken, names)
        BY <2>3, <2>5, <2>6, <2>9, <3>2 DEF names
      <4> QED
        BY <2>10, <3>2, <4>1
    <3>3. CASE /\ PairTaken(known, taken, names) /\ (same \/ PairTaken(known, taken, label))
               /\ \E t \in Serials : /\ ns = number(t) /\ ~PairTaken(known, taken, ns)
                                     /\ \A r \in 2..(t - 1) : PairTaken(known, taken, number(r))
      <4>1. PICK t \in Serials : /\ ns = number(t) /\ ~PairTaken(known, taken, ns)
                                 /\ \A r \in 2..(t - 1) : PairTaken(known, taken, number(r))
        BY <3>3
      <4>2. PairTaken(more, taken, names) /\ (same \/ PairTaken(more, taken, label))
        BY <2>3, <2>5, <2>6, <3>3 DEF names, label
      <4>3. ~PairTaken(more, taken, number(t))
        BY <2>5, <2>9, <4>1
      <4>4. \A r \in 2..(t - 1) : PairTaken(more, taken, number(r))
        <5> SUFFICES ASSUME NEW r \in 2..(t - 1) PROVE PairTaken(more, taken, number(r))
          OBVIOUS
        <5>1. r \in Serials
          BY SerialsAreNumbers
        <5>2. Apt(number(r))
          BY <2>3, <5>1 DEF number
        <5> QED
          BY <2>5, <2>6, <4>1, <5>2
      <4>5. t \in free
        BY <4>3, <4>4
      <4> HIDE DEF free
      <4> QED
        BY <2>10, <4>1, <4>2, <4>5
    <3> QED
      BY <2>8, <3>1, <3>2, <3>3
  <2>12. k \in FirstIn(ns, more)
    BY <2>5, <2>7, <2>9
  <2> QED
    BY <1>1, <2>11, <2>12 DEF OwnKeys
<1> QED
  BY <1>0, <1>1

-----------------------------------------------------------------------------
(* What becomes of a file                                                  *)

\* The best of what is ranked, as it is written in the imports.
Top(ranked) ==
  {x[2] : x \in {y \in ranked : \A z \in ranked : y[1] < z[1] \/ (y[1] = z[1] /\ y[2] >= z[2])}}

\* It is ranked, nothing is ranked better, and there is one.
LEMMA TopIsBest ==
  ASSUME NEW n \in Nat, NEW ranked \in SUBSET (Nat \X (1..n))
  PROVE  /\ \A i \in Top(ranked) : \E r \in Nat :
              <<r, i>> \in ranked /\ \A z \in ranked : r < z[1] \/ (r = z[1] /\ i >= z[2])
         /\ Top(ranked) = {} => ranked = {}
<1>1. \A y \in ranked : y = <<y[1], y[2]>> /\ y[1] \in Nat /\ y[2] \in 1..n
  OBVIOUS
<1>2. ASSUME NEW i \in Top(ranked)
      PROVE  \E r \in Nat : <<r, i>> \in ranked /\ \A z \in ranked : r < z[1] \/ (r = z[1] /\ i >= z[2])
  <2>1. PICK y \in ranked : i = y[2] /\ \A z \in ranked : y[1] < z[1] \/ (y[1] = z[1] /\ y[2] >= z[2])
    BY DEF Top
  <2> QED
    BY <1>1, <2>1
<1>3. ASSUME ranked # {} PROVE Top(ranked) # {}
  <2> DEFINE firsts == {y[1] : y \in ranked}
  <2>1. firsts \in SUBSET Nat /\ firsts # {}
    BY <1>1, <1>3
  <2> HIDE DEF firsts
  <2>2. PICK r \in firsts : \A s \in firsts : r <= s
    BY <2>1, LeastExists
  <2> DEFINE seconds == {y[2] : y \in {z \in ranked : z[1] = r}}
  <2>3. seconds \in SUBSET (1..n) /\ seconds # {}
    BY <1>1, <2>2 DEF firsts
  <2> HIDE DEF seconds
  <2>4. PICK i \in seconds : \A j \in seconds : j <= i
    BY <2>3, NewestExists
  <2>5. PICK y \in ranked : y[1] = r /\ y[2] = i
    BY <2>4 DEF seconds
  <2>6. ASSUME NEW z \in ranked PROVE y[1] < z[1] \/ (y[1] = z[1] /\ y[2] >= z[2])
    <3>1. r <= z[1] /\ r \in Nat /\ z[1] \in Nat /\ i \in 1..n /\ z[2] \in 1..n
      BY <1>1, <2>1, <2>2, <2>3, <2>4 DEF firsts
    <3>2. z[1] = r => z[2] <= i
      BY <2>4 DEF seconds
    <3> QED
      BY <2>5, <3>1, <3>2
  <2>7. i \in Top(ranked)
    BY <2>5, <2>6 DEF Top
  <2> QED
    BY <2>7
<1> QED
  BY <1>2, <1>3

\* Of a task: its names and its kind are those of the batch.
LEMMA TaskIs ==
  ASSUME ImportTypeOK, NEW e \in Todo
  PROVE  /\ e \in Tasks /\ e.path \in FilePaths /\ e.path \in Stems /\ batch.files[e.path].base \in Stems
         /\ e.weld \in MaybeKinds /\ e.suffix \in {<<>>, Suffix(e.weld)}
<1>1. e \in Tasks /\ e.path \in FilePaths /\ e.path \in Stems
  BY TodoPlanned, StemsAre DEF Tasks
<1>2. e.weld \in MaybeKinds
  BY <1>1 DEF Tasks, MaybeKinds
<1>3. e.suffix \in {<<>>, Suffix(e.weld)}
  <2>1. PICK p \in Sound : e \in Planned(p)
    BY DEF Todo
  <2> DEFINE own(w) == \A v \in Uses(p) : WeldPlace(w) <= WeldPlace(v)
             task(w) == [path |-> p, weld |-> w, suffix |-> IF own(w) THEN <<>> ELSE Suffix(w)]
  <2>2. CASE Uses(p) = {}
    <3>1. PICK none : Planned(p) = {[path |-> p, weld |-> none, suffix |-> <<>>]}
      BY <2>2 DEF Planned
    <3>2. e.suffix = <<>>
      BY <2>1, <3>1
    <3> QED
      BY <3>2
  <2>3. CASE Uses(p) # {}
    <3>1. Planned(p) = {task(w) : w \in Uses(p)}
      BY <2>3 DEF Planned
    <3>2. PICK w \in Uses(p) : e = task(w)
      BY <2>1, <3>1
    <3>3. e.weld = w /\ e.suffix = IF own(w) THEN <<>> ELSE Suffix(w)
      BY <3>2
    <3> HIDE DEF own
    <3> QED
      BY <3>3
  <2> QED
    BY <2>2, <2>3
<1> QED
  BY <1>1, <1>2, <1>3, FilesTyped

\* The processes that an import may take for a file because of their content.
Fitting(b, e) ==
  {i \in b.procs \ b.claimed :
     /\ b.rows[i].status = "available"
     /\ e.weld # "" => b.rows[i].weld = e.weld
     /\ b.rows[i].content \in Sums(batch.files[e.path])}

\* The book mirrors the library, and no draft is to be published.
Mirrored == ImportInv /\ imp.at = "files" /\ imp.draft = 0 /\ Mirrors(imp.book)

\* What the parts of the book are then.
LEMMA MirroredIs ==
  ASSUME Mirrored
  PROVE  /\ ImportTypeOK /\ BookFits /\ 0 \notin DOMAIN shelf
         /\ \A i : Live(i) => i # imp.draft /\ i \in DOMAIN shelf
         /\ \A i \in imp.book.claimed : Live(i)
         /\ \A i \in DOMAIN imp.book.rows : IsProcess(i) => imp.book.rows[i] = shelf[i]
         /\ \A i : Live(i) /\ i \notin imp.book.claimed => i \in imp.book.procs
         /\ imp.book.procs \subseteq DOMAIN imp.book.rows /\ \A i \in imp.book.procs : IsProcess(i)
<1>1. ImportTypeOK /\ BookFits /\ imp.draft = 0 /\ Mirrors(imp.book)
  BY DEF Mirrored, ImportInv
<1>2. 0 \notin DOMAIN shelf /\ DOMAIN imp.book.rows \subseteq DOMAIN shelf
  BY <1>1, RowsNumbered DEF BookFits
<1>3. \A i : Live(i) => i # imp.draft /\ i \in DOMAIN shelf
  BY <1>1, <1>2 DEF Live, IsProcess
<1>4. \A i \in DOMAIN imp.book.rows : i # imp.draft
  BY <1>1, <1>2
<1>5. /\ \A i \in imp.book.claimed : Live(i)
      /\ \A i \in DOMAIN imp.book.rows : IsProcess(i) /\ i # imp.draft => imp.book.rows[i] = shelf[i]
      /\ \A i \in DOMAIN shelf : Live(i) /\ i # imp.draft /\ i \notin imp.book.claimed => i \in imp.book.procs
  BY <1>1 DEF Mirrors
<1>6. imp.book.procs \subseteq DOMAIN imp.book.rows /\ \A i \in imp.book.procs : IsProcess(i)
  BY <1>1 DEF BookFits
<1> QED
  BY <1>1, <1>2, <1>3, <1>4, <1>5, <1>6

\* They are those that suit it and that no path of the batch has.
LEMMA FittingSuits ==
  ASSUME Mirrored, NEW e
  PROVE  /\ \A i : i \in Fitting(imp.book, e) <=> i \in DOMAIN shelf \ imp.book.claimed /\ Suits(i, e)
         /\ \A i \in Fitting(imp.book, e) : imp.book.rows[i] = shelf[i]
<1>1. \A i \in imp.book.procs : IsProcess(i) /\ imp.book.rows[i] = shelf[i]
  BY MirroredIs
<1>2. \A i : IsProcess(i) /\ shelf[i].status = "available" => Live(i)
  BY DEF Live
<1>3. ASSUME NEW i, i \in Fitting(imp.book, e)
      PROVE  i \in DOMAIN shelf \ imp.book.claimed /\ Suits(i, e) /\ imp.book.rows[i] = shelf[i]
  BY <1>1, <1>3 DEF Fitting, Suits, Kinded, IsProcess
<1>4. ASSUME NEW i \in DOMAIN shelf \ imp.book.claimed, Suits(i, e) PROVE i \in Fitting(imp.book, e)
  <2>1. i \in imp.book.procs
    BY <1>2, <1>4, MirroredIs DEF Suits
  <2> QED
    BY <1>1, <1>4, <2>1 DEF Fitting, Suits, Kinded
<1> QED
  BY <1>3, <1>4

\* The process a file is taken for because of its content.
SameFor(wan, e) ==
  IF wan THEN PlatformSame(imp.book, e.path, e.weld) ELSE SameContent(imp.book, e.path, e.weld)

\* It is the best named; and if there is none, none is named for the file.
LEMMA SameIsBest ==
  ASSUME Mirrored, NEW wan \in BOOLEAN, NEW e \in Todo
  PROVE  /\ \A i \in SameFor(wan, e) : Best(wan, i, e, imp.book.claimed)
         /\ SameFor(wan, e) = {} => NoneNamed(wan, e, imp.book.claimed)
<1> DEFINE fit == Fitting(imp.book, e)
           rank(i) == RankOf(wan, e.path, batch.files[e.path].base, e.weld, imp.book.rows[i].name)
           ranked == UNION {{<<r, i>> : r \in rank(i)} : i \in fit}
<1>1. SameFor(wan, e) = Top(ranked)
  <2>1. CASE wan
    BY <2>1 DEF SameFor, PlatformSame, Top, RankOf, Fitting
  <2>2. CASE ~wan
    BY <2>2 DEF SameFor, SameContent, Top, RankOf, Fitting
  <2> QED
    BY <2>1, <2>2
<1>2. PICK n \in Nat : DOMAIN shelf = 1..n
  BY MirroredIs, RowsNumbered
<1>3. \A i \in fit : i \in 1..n /\ i \notin imp.book.claimed /\ Suits(i, e) /\ rank(i) = Ranks(wan, i, e)
  <2>1. \A i \in fit : i \in 1..n /\ i \notin imp.book.claimed /\ Suits(i, e) /\ imp.book.rows[i] = shelf[i]
    BY <1>2, FittingSuits
  <2> QED
    BY <2>1 DEF Ranks
<1>4. \A i \in DOMAIN shelf \ imp.book.claimed : Suits(i, e) => i \in fit
  BY FittingSuits
<1>5. \A i : rank(i) \subseteq Nat
  BY MirroredIs, TaskIs, RanksAreNumbers
<1> HIDE DEF fit, rank
<1>6. \A r, i : <<r, i>> \in ranked <=> i \in fit /\ r \in rank(i)
  OBVIOUS
<1>7. ranked \in SUBSET (Nat \X (1..n))
  BY <1>3, <1>5
<1> HIDE DEF ranked
<1>8. ASSUME NEW i \in Top(ranked) PROVE Best(wan, i, e, imp.book.claimed)
  <2>1. PICK r \in Nat : <<r, i>> \in ranked /\ \A z \in ranked : r < z[1] \/ (r = z[1] /\ i >= z[2])
    BY <1>7, TopIsBest
  <2>2. i \in fit /\ r \in rank(i)
    BY <1>6, <2>1
  <2>3. ASSUME NEW j \in DOMAIN shelf \ imp.book.claimed, Suits(j, e), NEW s \in Ranks(wan, j, e)
        PROVE  r < s \/ (r = s /\ i >= j)
    <3>1. <<s, j>> \in ranked
      BY <1>3, <1>4, <1>6, <2>3
    <3>2. PICK z \in ranked : z = <<s, j>>
      BY <3>1
    <3>3. z[1] = s /\ z[2] = j
      BY <3>2
    <3> QED
      BY <2>1, <3>3
  <2> QED
    BY <1>3, <2>2, <2>3 DEF Best
<1>9. ASSUME Top(ranked) = {} PROVE NoneNamed(wan, e, imp.book.claimed)
  <2>1. ranked = {}
    BY <1>7, <1>9, TopIsBest
  <2>2. \A i \in fit : rank(i) = {}
    BY <1>6, <2>1
  <2> QED
    BY <1>3, <1>4, <2>2 DEF NoneNamed
<1> QED
  BY <1>1, <1>8, <1>9

\* Names of processes are those of the book, names of the batch those of the claimed rows.
LEMMA NamesMirrored ==
  ASSUME Mirrored
  PROVE  /\ Named(imp.book, "process") = Shown
         /\ Taken(imp.book, "process") = {shelf[i].name : i \in imp.book.claimed}
<1> DEFINE b == imp.book
<1>1. /\ \A i : Live(i) => shelf[i].name \in Named(b, "process")
      /\ \A n \in Named(b, "process") :
           LET i == b.names[<<"process", n>>]
           IN  /\ Live(i) /\ shelf[i].name = n
               /\ \/ i \in b.claimed
                  \/ Newest(i) /\ \A j \in b.claimed : shelf[j].name # n
      /\ \A i \in b.claimed : Live(i) /\ b.names[<<"process", shelf[i].name>>] \in b.claimed
  <2>1. \A i : Live(i) => i # imp.draft /\ i \in DOMAIN shelf
    BY MirroredIs
  <2>2. Mirrors(b)
    BY DEF Mirrored
  <2> QED
    BY <2>1, <2>2 DEF Mirrors
<1>2. \A i : Live(i) => i \in DOMAIN shelf
  BY DEF Live, IsProcess
<1> HIDE DEF b
<1>3. Named(b, "process") = Shown
  <2>1. ASSUME NEW n \in Named(b, "process") PROVE n \in Shown
    <3>1. PICK i : Live(i) /\ shelf[i].name = n
      BY <1>1
    <3> QED
      BY <1>2, <3>1 DEF Shown
  <2>2. ASSUME NEW n \in Shown PROVE n \in Named(b, "process")
    BY <1>1 DEF Shown
  <2> QED
    BY <2>1, <2>2
<1>4. Taken(b, "process") = {shelf[i].name : i \in b.claimed}
  <2>1. ASSUME NEW n \in Taken(b, "process") PROVE n \in {shelf[i].name : i \in b.claimed}
    BY <1>1 DEF Taken
  <2>2. ASSUME NEW i \in b.claimed PROVE shelf[i].name \in Taken(b, "process")
    BY <1>1 DEF Taken
  <2> QED
    BY <2>1, <2>2
<1> QED
  BY <1>3, <1>4 DEF b

\* A factory goes by one name for a file, and none of the batch has it.
LEMMA OneOwnName ==
  ASSUME NEW taken, NEW base, NEW p, NEW suffix,
         NEW x \in OwnName(taken, base, p, suffix), NEW y \in OwnName(taken, base, p, suffix)
  PROVE  x = y /\ x \notin taken /\ x \in FactoryNames(p, base, suffix)
<1> DEFINE n0 == Name(base, suffix)
           label == PathLabel(p, suffix)
<1>1. CASE n0 \in taken
  <2>1. x \in Elsewhere(n0, label, taken) /\ y \in Elsewhere(n0, label, taken)
    BY <1>1 DEF OwnName
  <2>2. x = y
    BY <2>1, OneElsewhere
  <2>3. x \notin taken /\ (x = label \/ \E t \in Serials : x = label \o Serial(t))
    BY <2>1 DEF Elsewhere
  <2> QED
    BY <2>2, <2>3 DEF FactoryNames, PathLabel
<1>2. CASE n0 \notin taken
  BY <1>2 DEF OwnName, FactoryNames
<1> QED
  BY <1>1, <1>2

\* A row of another kind than a file is used for, the row under a name, and the names of the
\* library that a file goes by.
OtherKind(e, i) == Kinded(e) /\ imp.book.rows[i].weld # e.weld
RowNamed(k) == imp.book.names[<<"process", k>>]
KeysNow(wan, e) ==
  OwnKeys(wan, Named(imp.book, "process"), Taken(imp.book, "process"),
          batch.files[e.path].base, e.path, e.suffix)
NewNames(wan, e) ==
  MadeFor(wan, e.path, batch.files[e.path].base, e.suffix) \ Named(imp.book, "process")

\* What becomes of a file: it is taken for a process with its content, ...
TakesSame(wan, e) ==
  /\ \E i \in SameFor(wan, e) : Stands(e, i, imp.book.rows[i], IndexWeld(e, imp.book.rows[i]), FALSE)
  /\ UNCHANGED <<shelf, made>>
\* ... a new one under a name that nobody has, ...
MakesNew(wan, e) ==
  /\ SameFor(wan, e) = {} /\ \E n \in NewNames(wan, e) : CreateImported(e, n)
  /\ \A k \in KeysNow(wan, e) : OtherKind(e, RowNamed(k)) \/ batch.files[e.path].mode = "rename"
\* ... the one that has its name, written over ...
Overwrites(wan, e) ==
  /\ SameFor(wan, e) = {} /\ batch.files[e.path].mode = "overwrite"
  /\ \E k \in KeysNow(wan, e) : ~OtherKind(e, RowNamed(k)) /\ OverwriteProcess(e, RowNamed(k))
\* ... or as it is.
Keeps(wan, e) ==
  /\ SameFor(wan, e) = {} /\ batch.files[e.path].mode \notin {"overwrite", "rename"}
  /\ \E k \in KeysNow(wan, e) :
       /\ ~OtherKind(e, RowNamed(k))
       /\ Stands(e, RowNamed(k), imp.book.rows[RowNamed(k)], IndexWeld(e, imp.book.rows[RowNamed(k)]), TRUE)
  /\ UNCHANGED <<shelf, made>>
Ruled(wan, e) == TakesSame(wan, e) \/ MakesNew(wan, e) \/ Overwrites(wan, e) \/ Keeps(wan, e)

\* A factory's import does one of that, ...
LEMMA LegacyRuled ==
  ASSUME ImportInv, ImportLegacyProcess
  PROVE  \E e \in Upcoming(imp.todo) : Ruled(FALSE, e)
<1> DEFINE b == imp.book
           base(e) == batch.files[e.path].base
           mode(e) == batch.files[e.path].mode
           label(e) == PathLabel(e.path, e.suffix)
           n0(e) == Name(base(e), e.suffix)
           busy == Taken(b, "process")
           known == Named(b, "process")
           own(e) == OwnName(busy, base(e), e.path, e.suffix)
           Renamed(e, n) == \E new \in Elsewhere(n, label(e), known) : CreateImported(e, new)
           Other(e, i) == e.weld # "" /\ b.rows[i].weld # e.weld
           Judged(e, n, i) ==
             IF Other(e, i) THEN Renamed(e, n)
             ELSE IF mode(e) = "overwrite" THEN OverwriteProcess(e, i)
             ELSE IF mode(e) = "rename" THEN Renamed(e, n)
             ELSE /\ Stands(e, i, b.rows[i], IndexWeld(e, b.rows[i]), TRUE)
                  /\ UNCHANGED <<shelf, made>>
<1>1. PICK e \in Upcoming(imp.todo) :
        IF SameFor(FALSE, e) # {}
        THEN /\ \E i \in SameFor(FALSE, e) : Stands(e, i, b.rows[i], IndexWeld(e, b.rows[i]), FALSE)
             /\ UNCHANGED <<shelf, made>>
        ELSE \E n \in own(e) :
               IF n \notin known THEN CreateImported(e, n) ELSE Judged(e, n, RowNamed(n))
  BY DEF ImportLegacyProcess, SameFor, OwnName, RowNamed
<1>2. CASE SameFor(FALSE, e) # {}
  BY <1>1, <1>2 DEF Ruled, TakesSame
<1>3. CASE SameFor(FALSE, e) = {}
  <2>1. PICK n \in own(e) : IF n \notin known THEN CreateImported(e, n) ELSE Judged(e, n, RowNamed(n))
    BY <1>1, <1>3
  <2> DEFINE fresh == FactoryNames(e.path, base(e), e.suffix)
  <2>0. \A x, y \in own(e) : x = y /\ x \in fresh
    <3>1. ASSUME NEW x \in OwnName(busy, base(e), e.path, e.suffix),
                 NEW y \in OwnName(busy, base(e), e.path, e.suffix)
          PROVE  x = y /\ x \in FactoryNames(e.path, base(e), e.suffix)
      <4> HIDE DEF busy, base
      <4> QED
        BY OneOwnName
    <3> QED
      BY <3>1
  <2>2. \A k \in KeysNow(FALSE, e) : k = n /\ n \in known
    <3>1. KeysNow(FALSE, e) = own(e) \cap known
      BY DEF KeysNow, OwnKeys
    <3> HIDE DEF own, known, fresh
    <3> QED
      BY <2>0, <2>1, <3>1
  <2>3. n \in FactoryNames(e.path, base(e), e.suffix)
    BY <2>0, <2>1
  <2>4. CASE n \notin known
    <3>1. CreateImported(e, n) /\ n \in NewNames(FALSE, e)
      BY <2>1, <2>3, <2>4 DEF NewNames, MadeFor
    <3>2. MakesNew(FALSE, e)
      BY <1>3, <2>2, <2>4, <3>1 DEF MakesNew
    <3> QED
      BY <3>2 DEF Ruled
  <2>5. CASE n \in known
    <3>1. n \in KeysNow(FALSE, e)
      BY <2>5 DEF KeysNow, OwnKeys
    <3>2. Judged(e, n, RowNamed(n)) /\ (Other(e, RowNamed(n)) <=> OtherKind(e, RowNamed(n)))
      BY <2>1, <2>5 DEF OtherKind, Kinded
    <3>3. CASE Renamed(e, n) /\ (OtherKind(e, RowNamed(n)) \/ mode(e) = "rename")
      <4>1. PICK new \in Elsewhere(n, label(e), known) : CreateImported(e, new)
        BY <3>3
      <4>2. new \notin known /\ (new = label(e) \/ \E t \in Serials : new = label(e) \o Serial(t))
        BY DEF Elsewhere
      <4>3. new \in NewNames(FALSE, e)
        BY <4>2 DEF NewNames, MadeFor, FactoryNames, PathLabel
      <4>4. MakesNew(FALSE, e)
        BY <1>3, <2>2, <3>3, <4>1, <4>3 DEF MakesNew
      <4> QED
        BY <4>4 DEF Ruled
    <3>4. CASE ~OtherKind(e, RowNamed(n)) /\ mode(e) = "overwrite" /\ OverwriteProcess(e, RowNamed(n))
      <4>1. Overwrites(FALSE, e)
        BY <1>3, <3>1, <3>4 DEF Overwrites
      <4> QED
        BY <4>1 DEF Ruled
    <3>5. CASE /\ ~OtherKind(e, RowNamed(n)) /\ mode(e) # "overwrite" /\ mode(e) # "rename"
               /\ Stands(e, RowNamed(n), b.rows[RowNamed(n)], IndexWeld(e, b.rows[RowNamed(n)]), TRUE)
               /\ UNCHANGED <<shelf, made>>
      <4>1. Keeps(FALSE, e)
        BY <1>3, <3>1, <3>5 DEF Keeps
      <4> QED
        BY <4>1 DEF Ruled
    <3> HIDE DEF Other, Renamed
    <3> QED
      BY <3>2, <3>3, <3>4, <3>5
  <2> QED
    BY <2>4, <2>5
<1> QED
  BY <1>2, <1>3

\* The label of a path is told from names by how it is cut; with a serial number it is cut
\* as the label.
LEMMA AnewMade ==
  ASSUME NEW b, NEW kind, NEW p, NEW suffix, NEW names, NEW ids, NEW base,
         NEW ns \in Anew(b, kind, names, p, suffix, ids)
  PROVE  /\ ns[2] \in WanNames(p, base, suffix) /\ (\A i \in Find(b, kind, ns) : i \notin ids)
         /\ \E x, y : ns = <<x, y>>
<1> DEFINE label == <<RawPathLabel(p, suffix), ImportPathLabel(p, suffix)>>
           root == IF label[2] # names[2] THEN label ELSE names
           numbered(s) == <<root[1] \o Serial(s), ClipAssetName(root[2], Serial(s))>>
<1>1. label[2] = ClipAssetName(Spelled[p], suffix) /\ root[2] = label[2]
  BY DEF ImportPathLabel
<1>2. \/ ns = label /\ ~ImportNameTaken(b, kind, label, ids)
      \/ \E s \in Serials : ns = numbered(s) /\ ~ImportNameTaken(b, kind, numbered(s), ids)
  BY DEF Anew
<1>3. CASE ns = label /\ ~ImportNameTaken(b, kind, label, ids)
  <2>1. ns[2] \in WanNames(p, base, suffix)
    BY <1>1, <1>3 DEF WanNames
  <2> QED
    BY <1>3, <2>1 DEF ImportNameTaken
<1>4. ASSUME NEW s \in Serials, ns = numbered(s), ~ImportNameTaken(b, kind, numbered(s), ids)
      PROVE  /\ ns[2] \in WanNames(p, base, suffix) /\ (\A i \in Find(b, kind, ns) : i \notin ids)
             /\ \E x, y : ns = <<x, y>>
  <2>1. ns[2] = ClipAssetName(root[2], Serial(s)) /\ \E x, y : ns = <<x, y>>
    BY <1>4
  <2>2. ns[2] \in WanNames(p, base, suffix)
    BY <1>1, <2>1 DEF WanNames
  <2>3. (\A i \in Find(b, kind, ns) : i \notin ids)
    BY <1>4 DEF ImportNameTaken
  <2> QED
    BY <2>1, <2>2, <2>3
<1> QED
  BY <1>2, <1>3, <1>4

\* What is found under names is found by them.
LEMMA FindIs ==
  ASSUME ImportTypeOK, BookFits, NEW ns, NEW x, NEW y, ns = <<x, y>>
  PROVE  /\ Find(imp.book, "process", ns) = {RowNamed(n) : n \in FirstIn(ns, Named(imp.book, "process"))}
         /\ (\A i \in Find(imp.book, "process", ns) : i \notin DOMAIN imp.book.rows)
              => y \notin Named(imp.book, "process")
<1> DEFINE b == imp.book
           known == Named(b, "process")
<1>1. Find(b, "process", ns) = {RowNamed(n) : n \in FirstIn(ns, known)}
  BY DEF Find, RowNamed
<1>2. FirstIn(ns, known) = IF x \in known THEN {x} ELSE IF y \in known THEN {y} ELSE {}
  BY FirstOfPair
<1>3. \A n \in known : RowNamed(n) \in DOMAIN b.rows
  <2> SUFFICES ASSUME NEW n \in known PROVE RowNamed(n) \in DOMAIN b.rows
    OBVIOUS
  <2>1. PICK i : i = RowNamed(n)
    OBVIOUS
  <2>2. i \in DOMAIN b.rows
    BY <2>1, KnownRow DEF RowNamed
  <2> QED
    BY <2>1, <2>2
<1> HIDE DEF known
<1> QED
  BY <1>1, <1>2, <1>3 DEF known

\* A name found for a file that may not have its own is one of the file's, and nobody's.
LEMMA UniqueIsNew ==
  ASSUME ImportTypeOK, BookFits, NEW names, NEW p, NEW suffix, NEW base,
         NEW n \in UniqueImportName(imp.book, "process", names, p, suffix)
  PROVE  n \in WanNames(p, base, suffix) /\ n \notin Named(imp.book, "process")
<1>1. PICK ids, kind : ids = DOMAIN imp.book.rows /\ kind = "process"
  OBVIOUS
<1>2. PICK ns \in Anew(imp.book, kind, names, p, suffix, ids) : n = ns[2]
  BY <1>1 DEF UniqueImportName
<1>3. /\ ns[2] \in WanNames(p, base, suffix) /\ (\A i \in Find(imp.book, kind, ns) : i \notin ids)
      /\ \E x, y : ns = <<x, y>>
  <2>1. ASSUME NEW b, NEW ms \in Anew(b, kind, names, p, suffix, ids)
        PROVE  /\ ms[2] \in WanNames(p, base, suffix) /\ (\A i \in Find(b, kind, ms) : i \notin ids)
               /\ \E x, y : ms = <<x, y>>
    BY AnewMade
  <2> QED
    BY <1>2, <2>1
<1>4. PICK x, y : ns = <<x, y>>
  BY <1>3
<1> QED
  BY <1>1, <1>2, <1>3, <1>4, FindIs

\* The names the WAN goes by are the pairs for the names of its book.
LEMMA OwnNamesArePairs ==
  ASSUME NEW base, NEW p, NEW suffix
  PROVE  OwnNames(imp.book, "process", base, p, suffix) =
           OwnPairs(Named(imp.book, "process"), Taken(imp.book, "process"), base, p, suffix)
<1> DEFINE b == imp.book
           known == Named(b, "process")
           taken == Taken(b, "process")
<1>1. ASSUME NEW ns PROVE ImportNameTaken(b, "process", ns, b.claimed) <=> PairTaken(known, taken, ns)
  <2>1. FirstIn(ns, known) \subseteq known
    BY DEF FirstIn
  <2>2. Find(b, "process", ns) = {b.names[<<"process", n>>] : n \in FirstIn(ns, known)}
    BY DEF Find
  <2>3. taken = {n \in known : b.names[<<"process", n>>] \in b.claimed}
    BY DEF Taken
  <2> HIDE DEF b, known, taken
  <2> QED
    BY <2>1, <2>2, <2>3 DEF ImportNameTaken, PairTaken
<1> DEFINE names == <<Name(base, suffix), ClipAssetName(Spelled[base], suffix)>>
           label == <<RawPathLabel(p, suffix), ImportPathLabel(p, suffix)>>
           root == IF label[2] # names[2] THEN label ELSE names
           numbered(s) == <<root[1] \o Serial(s), ClipAssetName(root[2], Serial(s))>>
           busy(ns) == ImportNameTaken(b, "process", ns, b.claimed)
           free == {t \in Serials : ~busy(numbered(t)) /\ \A r \in 2..(t - 1) : busy(numbered(r))}
           open == {t \in Serials : /\ ~PairTaken(known, taken, numbered(t))
                                    /\ \A r \in 2..(t - 1) : PairTaken(known, taken, numbered(r))}
<1>2. OwnNames(b, "process", base, p, suffix) =
        IF busy(names) THEN IF label[2] # names[2] /\ ~busy(label) THEN {label}
                            ELSE {numbered(s) : s \in free}
        ELSE {names}
  BY DEF OwnNames, TakenByBatch, BatchFreeName, Anew
<1>3. OwnPairs(known, taken, base, p, suffix) =
        IF PairTaken(known, taken, names)
        THEN IF label[2] # names[2] /\ ~PairTaken(known, taken, label) THEN {label}
             ELSE {numbered(s) : s \in open}
        ELSE {names}
  BY DEF OwnPairs, PairAnew
<1>4. free = open /\ (busy(names) <=> PairTaken(known, taken, names))
      /\ (busy(label) <=> PairTaken(known, taken, label))
  <2> HIDE DEF numbered, names, label, known, taken, b
  <2> QED
    BY <1>1
<1> HIDE DEF free, open, busy, names, label, numbered, known, taken, b
<1> QED
  BY <1>2, <1>3, <1>4 DEF known, taken, b

\* ... and so does the WAN's.
LEMMA PlatformRuled ==
  ASSUME ImportInv, ImportPlatformProcess
  PROVE  \E e \in Upcoming(imp.todo) : Ruled(TRUE, e)
<1> DEFINE b == imp.book
           f(e) == batch.files[e.path]
           known == Named(b, "process")
           own(e) == OwnNames(b, "process", f(e).base, e.path, e.suffix)
           cur(names) == Find(b, "process", names)
           unique(e, names) == UniqueImportName(b, "process", names, e.path, e.suffix)
           Other(e, names) == \E i \in cur(names) : e.weld # "" /\ b.rows[i].weld # e.weld
<1>1. ImportTypeOK /\ BookFits
  BY DEF ImportInv, ImportPlatformProcess
<1>2. PICK e \in Upcoming(imp.todo) :
         \/ /\ \E i \in SameFor(TRUE, e) : Stands(e, i, b.rows[i], IndexWeld(e, b.rows[i]), FALSE)
            /\ UNCHANGED <<shelf, made>>
         \/ /\ SameFor(TRUE, e) = {}
            /\ \E names \in own(e) :
                  \/ cur(names) = {} /\ CreateImported(e, names[2])
                  \/ /\ cur(names) # {} /\ (Other(e, names) \/ f(e).mode = "rename")
                     /\ \E n \in unique(e, names) : CreateImported(e, n)
                  \/ /\ ~Other(e, names) /\ f(e).mode = "overwrite"
                     /\ \E i \in cur(names) : OverwriteProcess(e, i)
                  \/ /\ ~Other(e, names) /\ f(e).mode = "keep"
                     /\ \E i \in cur(names) : Stands(e, i, b.rows[i], IndexWeld(e, b.rows[i]), TRUE)
                     /\ UNCHANGED <<shelf, made>>
  BY DEF ImportPlatformProcess, SameFor
<1>3. CASE TakesSame(TRUE, e)
  BY <1>3 DEF Ruled
<1>4. ASSUME SameFor(TRUE, e) = {}, NEW names \in own(e)
      PROVE  /\ \A k \in KeysNow(TRUE, e) : cur(names) = {RowNamed(k)}
             /\ \A i \in cur(names) : \E k \in KeysNow(TRUE, e) : i = RowNamed(k)
             /\ cur(names) = {} => names[2] \in NewNames(TRUE, e)
  <2>1. own(e) = OwnPairs(known, Taken(b, "process"), f(e).base, e.path, e.suffix)
    BY OwnNamesArePairs
  <2>2. KeysNow(TRUE, e) = FirstIn(names, known)
    <3>1. \A ns \in own(e) : ns = names
      BY <1>4, <2>1, OnePair
    <3>2. KeysNow(TRUE, e) = UNION {FirstIn(ns, known) : ns \in own(e)}
      BY <2>1 DEF KeysNow, OwnKeys
    <3>3. names \in own(e)
      BY <1>4
    <3> HIDE DEF own, known
    <3> QED
      BY <3>1, <3>2, <3>3
  <2>3. /\ names[2] \in WanNames(e.path, f(e).base, e.suffix) /\ \E x, y : names = <<x, y>>
    <3> DEFINE mine == <<Name(f(e).base, e.suffix), ClipAssetName(Spelled[f(e).base], e.suffix)>>
    <3>1. CASE names = mine
      BY <3>1 DEF WanNames
    <3>2. CASE names \in Anew(b, "process", mine, e.path, e.suffix, b.claimed)
      <4>1. PICK m, base : m = mine /\ base = f(e).base
        OBVIOUS
      <4>2. names \in Anew(b, "process", m, e.path, e.suffix, b.claimed)
        BY <3>2, <4>1
      <4>3. /\ names[2] \in WanNames(e.path, base, e.suffix) /\ \E x, y : names = <<x, y>>
        BY <4>2, AnewMade
      <4> QED
        BY <4>1, <4>3
    <3> QED
      BY <1>4, <3>1, <3>2 DEF OwnNames, BatchFreeName
  <2>4. PICK x, y : names = <<x, y>>
    BY <2>3
  <2>5. /\ cur(names) = {RowNamed(n) : n \in FirstIn(names, known)}
        /\ (\A i \in cur(names) : i \notin DOMAIN b.rows) => y \notin known
    BY <1>1, <2>4, FindIs
  <2>6. FirstIn(names, known) = IF x \in known THEN {x} ELSE IF y \in known THEN {y} ELSE {}
    <3>1. FirstIn(<<x, y>>, known) = IF x \in known THEN {x} ELSE IF y \in known THEN {y} ELSE {}
      BY FirstOfPair
    <3> QED
      BY <2>4, <3>1
  <2>7. cur(names) = {} => names[2] \in NewNames(TRUE, e)
    BY <2>3, <2>4, <2>5 DEF NewNames, MadeFor
  <2> HIDE DEF cur, known
  <2> QED
    BY <2>2, <2>5, <2>6, <2>7
<1> HIDE DEF own, cur
<1>5. ASSUME SameFor(TRUE, e) = {}, NEW names \in own(e), cur(names) = {}, CreateImported(e, names[2])
      PROVE  Ruled(TRUE, e)
  BY <1>4, <1>5 DEF Ruled, MakesNew
<1>6. ASSUME SameFor(TRUE, e) = {}, NEW names \in own(e), Other(e, names) \/ f(e).mode = "rename",
             NEW n \in unique(e, names), CreateImported(e, n)
      PROVE  Ruled(TRUE, e)
  <2>2. n \in WanNames(e.path, f(e).base, e.suffix) /\ n \notin known
    <3>1. PICK base : base = f(e).base
      OBVIOUS
    <3> QED
      BY <1>1, <3>1, UniqueIsNew
  <2>4. n \in NewNames(TRUE, e)
    BY <2>2 DEF NewNames, MadeFor
  <2>5. \A k \in KeysNow(TRUE, e) : OtherKind(e, RowNamed(k)) \/ f(e).mode = "rename"
    BY <1>4, <1>6 DEF OtherKind, Kinded
  <2> QED
    BY <1>6, <2>4, <2>5 DEF Ruled, MakesNew
<1>7. ASSUME SameFor(TRUE, e) = {}, NEW names \in own(e), ~Other(e, names), f(e).mode = "overwrite",
             NEW i \in cur(names), OverwriteProcess(e, i)
      PROVE  Ruled(TRUE, e)
  <2>1. PICK k \in KeysNow(TRUE, e) : i = RowNamed(k)
    BY <1>4, <1>7
  <2>2. ~OtherKind(e, i)
    BY <1>7 DEF OtherKind, Kinded
  <2>3. Overwrites(TRUE, e)
    BY <1>7, <2>1, <2>2 DEF Overwrites
  <2> QED
    BY <2>3 DEF Ruled
<1>8. ASSUME SameFor(TRUE, e) = {}, NEW names \in own(e), ~Other(e, names), f(e).mode = "keep",
             NEW i \in cur(names), Stands(e, i, b.rows[i], IndexWeld(e, b.rows[i]), TRUE),
             UNCHANGED <<shelf, made>>
      PROVE  Ruled(TRUE, e)
  <2>1. PICK k \in KeysNow(TRUE, e) : i = RowNamed(k)
    BY <1>4, <1>8
  <2>2. ~OtherKind(e, i)
    BY <1>8 DEF OtherKind, Kinded
  <2>3. f(e).mode \notin {"overwrite", "rename"}
    BY <1>8
  <2>4. Keeps(TRUE, e)
    BY <1>8, <2>1, <2>2, <2>3 DEF Keeps
  <2> QED
    BY <2>4 DEF Ruled
<1> HIDE DEF Other
<1> QED
  BY <1>2, <1>3, <1>5, <1>6, <1>7, <1>8 DEF TakesSame

-----------------------------------------------------------------------------
(* What the files stand for                                                *)

\* Of two files one is done first.
LEMMA AheadOnce ==
  ASSUME ImportTypeOK, NEW x \in Todo, NEW e \in Todo, x # e, Ahead(x, e)
  PROVE  ~Ahead(e, x)
<1>1. Todo \subseteq Tasks /\ Apart(Todo)
  BY TodoPlanned
<1>2. x.path \in FilePaths /\ e.path \in FilePaths
  BY <1>1 DEF Tasks
<1>3. Place(x.path) \in Nat /\ Place(e.path) \in Nat
  BY <1>2, FilesPlaced
<1>4. CASE x.path = e.path
  <2>1. Kinded(x) /\ Kinded(e)
    BY <1>1, <1>4 DEF Apart
  <2>2. x.weld \in WeldKinds /\ e.weld \in WeldKinds
    BY <1>1, <2>1 DEF Tasks, Kinded
  <2>3. WeldPlace(x.weld) \in 1..3 /\ WeldPlace(e.weld) \in 1..3
    BY <2>2, WeldsPlaced
  <2> QED
    BY <1>3, <1>4, <2>3 DEF Ahead
<1>5. CASE x.path # e.path
  BY <1>3, <1>5 DEF Ahead
<1> QED
  BY <1>4, <1>5

\* What is done before the file that comes next is what has been done.
LEMMA UpcomingAhead ==
  ASSUME ImportTypeOK, NEW todo, Progress(todo), NEW e \in Upcoming(todo)
  PROVE  /\ e \in Todo /\ e \in todo /\ Earlier(e) = Todo \ todo
         /\ Progress(todo \ {e}) /\ Todo \ (todo \ {e}) = (Todo \ todo) \cup {e}
<1>1. /\ todo \subseteq Todo /\ e \in todo
      /\ \A x \in todo \ {e} : Ahead(e, x)
      /\ \A x \in Todo \ todo : \A y \in todo : Ahead(x, y)
  BY DEF Progress, Upcoming, Ahead
<1>2. \A x \in todo \ {e} : ~Ahead(x, e)
  BY <1>1, AheadOnce
<1>3. Earlier(e) = Todo \ todo
  BY <1>1, <1>2 DEF Earlier
<1>4. Progress(todo \ {e})
  BY <1>1 DEF Progress
<1> QED
  BY <1>1, <1>3, <1>4

\* The files done before one that is done are done.
Closed(D) == D \subseteq Todo /\ \A e \in D : Earlier(e) \subseteq D

\* Such are the files done while an import is under way, ...
LEMMA ProgressClosed ==
  ASSUME ImportTypeOK, NEW todo, Progress(todo)
  PROVE  Closed(Todo \ todo)
<1>1. ASSUME NEW e \in Todo \ todo, NEW x \in Earlier(e) PROVE x \in Todo \ todo
  <2>1. x \in Todo /\ x # e /\ Ahead(x, e)
    BY DEF Earlier
  <2>2. ~Ahead(e, x)
    BY <2>1, AheadOnce
  <2> QED
    BY <2>1, <2>2 DEF Progress
<1> QED
  BY <1>1 DEF Closed

\* ... and those finished with in any import.
LEMMA FinishedClosed ==
  ASSUME ImportTypeOK, imports = 1 /\ imp.at = "files" => Progress(imp.todo)
  PROVE  Closed(Finished)
<1>1. Closed({}) /\ Closed(Todo)
  BY DEF Closed, Earlier
<1> QED
  BY <1>1, ProgressClosed DEF Finished

\* The library changes, and what the files of D stand for is as it was: their rows, other
\* names, and what suits them.
Gentle(A, D, wan) ==
  /\ batch' = batch /\ DOMAIN shelf \subseteq DOMAIN shelf'
  /\ \A j \in DOMAIN shelf : shelf'[j].kind = shelf[j].kind
  /\ \A j \in DOMAIN shelf : IsProcess(j) =>
        /\ shelf'[j].name = shelf[j].name
        /\ shelf'[j].status = "disabled" <=> shelf[j].status = "disabled"
  /\ \A x \in D : /\ shelf'[A[x]].weld = shelf[A[x]].weld
                  /\ shelf'[A[x]].status = shelf[A[x]].status
                  /\ shelf'[A[x]].content = shelf[A[x]].content
  /\ \A j \in DOMAIN shelf' \ DOMAIN shelf :
        IsProcess(j)' => shelf'[j].name \notin Shown /\ Given(wan, shelf'[j].name)
  /\ \A x \in D : \A j \in DOMAIN shelf' : Suits(j, x)' => j \in DOMAIN shelf /\ Suits(j, x)

\* The tasks are those of the batch.
LEMMA TodoStays ==
  ASSUME batch' = batch
  PROVE  Todo' = Todo /\ \A e : Earlier(e)' = Earlier(e)
<1>1. Todo' = Todo
  BY DEF Todo, Planned, Sound, Uses, Meant, LastOfSlot, AllItems
<1> QED
  BY <1>1 DEF Earlier

\* Rows that are not held suit a file and are named for it as before.
LEMMA RankingStays ==
  ASSUME NEW wan, NEW A, NEW D, Gentle(A, D, wan), NEW x \in D, NEW j \in DOMAIN shelf', Suits(j, x)'
  PROVE  j \in DOMAIN shelf /\ Suits(j, x) /\ Ranks(wan, j, x)' = Ranks(wan, j, x)
<1>1. j \in DOMAIN shelf /\ Suits(j, x) /\ batch' = batch
  BY DEF Gentle
<1>2. IsProcess(j)
  BY <1>1 DEF Suits
<1>3. shelf'[j].name = shelf[j].name
  BY <1>1, <1>2 DEF Gentle
<1> QED
  BY <1>1, <1>3 DEF Ranks

\* A row that a file of D stands for is as it was.
LEMMA RowStays ==
  ASSUME NEW wan, NEW A, NEW D, Gentle(A, D, wan), NEW x \in D, IsProcess(A[x])
  PROVE  /\ IsProcess(A[x])' /\ shelf'[A[x]].name = shelf[A[x]].name
         /\ shelf'[A[x]].weld = shelf[A[x]].weld /\ shelf'[A[x]].status = shelf[A[x]].status
         /\ shelf'[A[x]].content = shelf[A[x]].content
         /\ Live(A[x]) => Live(A[x])'
         /\ Suits(A[x], x) => Suits(A[x], x)'
<1>1. /\ IsProcess(A[x])' /\ shelf'[A[x]].name = shelf[A[x]].name /\ batch' = batch
      /\ shelf'[A[x]].weld = shelf[A[x]].weld /\ shelf'[A[x]].status = shelf[A[x]].status
      /\ shelf'[A[x]].content = shelf[A[x]].content
  BY DEF Gentle, IsProcess
<1>2. PICK i : i = A[x]
  OBVIOUS
<1> QED
  BY <1>1, <1>2 DEF Live, Suits

\* The newest row of a name stays so.
LEMMA NewestStays ==
  ASSUME NEW wan, NEW A, NEW D, Gentle(A, D, wan), NEW i, Live(i), Newest(i)
  PROVE  Newest(i)'
<1>1. i \in DOMAIN shelf /\ IsProcess(i) /\ shelf'[i].name = shelf[i].name /\ shelf[i].name \in Shown
  BY DEF Gentle, Live, IsProcess, Shown
<1>2. ASSUME NEW j \in DOMAIN shelf', Live(j)', shelf'[j].name = shelf'[i].name PROVE j <= i
  <2>1. IsProcess(j)'
    BY <1>2 DEF Live
  <2>2. j \in DOMAIN shelf
    BY <1>1, <1>2, <2>1 DEF Gentle
  <2>3. Live(j) /\ shelf[j].name = shelf[i].name
    BY <1>1, <1>2, <2>1, <2>2 DEF Gentle, Live, IsProcess
  <2> QED
    BY <2>2, <2>3 DEF Newest
<1> QED
  BY <1>2 DEF Newest

\* The name a file goes by stays that of its row.
LEMMA KeysStay ==
  ASSUME ImportTypeOK, NEW wan \in BOOLEAN, NEW A, NEW D, Gentle(A, D, wan), Closed(D),
         \A x \in D : Live(A[x]), NEW x \in Todo, Earlier(x) \subseteq D, NEW k \in Keys(wan, A, x)
  PROVE  k \in Keys(wan, A, x)'
<1>1. batch' = batch /\ Todo' = Todo /\ Held(A, x)' = Held(A, x)
  <2>1. batch' = batch
    BY DEF Gentle
  <2> QED
    BY <2>1, TodoStays DEF Held
<1>2. HeldNames(A, x)' = HeldNames(A, x)
  <2>1. \A y \in D : shelf'[A[y]].name = shelf[A[y]].name
    BY DEF Gentle, Live, IsProcess
  <2>2. \A i \in Held(A, x) : shelf'[i].name = shelf[i].name
    BY <2>1 DEF Held
  <2> QED
    BY <1>1, <2>2 DEF HeldNames
<1>3. Shown \subseteq Shown' /\ \A n \in Shown' \ Shown : Given(wan, n)
  <2>1. \A j : Live(j) => Live(j)' /\ shelf'[j].name = shelf[j].name
    BY DEF Gentle, Live, IsProcess
  <2>2. \A j : Live(j) => j \in DOMAIN shelf
    BY DEF Live, IsProcess
  <2>3. \A j : Live(j)' => j \in DOMAIN shelf' /\ IsProcess(j)'
    BY DEF Live, IsProcess
  <2>4. ASSUME NEW n \in Shown PROVE n \in Shown'
    <3>1. PICK j : Live(j) /\ n = shelf[j].name
      BY DEF Shown
    <3> QED
      BY <2>1, <2>3, <3>1 DEF Shown
  <2>5. ASSUME NEW n \in Shown' \ Shown PROVE Given(wan, n)
    <3>1. PICK j \in DOMAIN shelf' : Live(j)' /\ n = shelf'[j].name
      BY DEF Shown
    <3>2. CASE j \in DOMAIN shelf
      <4>1. IsProcess(j)
        BY <2>3, <3>1, <3>2 DEF Gentle, IsProcess
      <4>2. Live(j) /\ shelf'[j].name = shelf[j].name
        BY <3>1, <3>2, <4>1 DEF Gentle, Live
      <4> QED
        BY <2>5, <3>1, <3>2, <4>2 DEF Shown
    <3>3. CASE j \notin DOMAIN shelf
      BY <2>3, <3>1, <3>3 DEF Gentle
    <3> QED
      BY <3>2, <3>3
  <2> QED
    BY <2>4, <2>5
<1>4. /\ x.path \in Stems /\ batch.files[x.path].base \in Stems
      /\ x.weld \in MaybeKinds /\ x.suffix \in {<<>>, Suffix(x.weld)}
  BY TaskIs
<1>5. PICK p, base, want, suffix, taken, known, more :
        /\ p = x.path /\ base = batch.files[x.path].base /\ want = x.weld /\ suffix = x.suffix
        /\ taken = HeldNames(A, x) /\ known = Shown /\ more = Shown'
  OBVIOUS
<1>6. k \in OwnKeys(wan, known, taken, base, p, suffix)
  BY <1>5 DEF Keys
<1>7. k \in OwnKeys(wan, more, taken, base, p, suffix)
  <2>1. p \in Stems /\ base \in Stems /\ want \in MaybeKinds /\ suffix \in {<<>>, Suffix(want)}
    BY <1>4, <1>5
  <2>2. known \subseteq more /\ \A n \in more \ known : Given(wan, n)
    BY <1>3, <1>5
  <2> QED
    BY <1>6, <2>1, <2>2, KeyStays
<1> QED
  BY <1>1, <1>2, <1>5, <1>7 DEF Keys

\* The files stand for their rows as before.
LEMMA SettledStays ==
  ASSUME ImportTypeOK, NEW wan \in BOOLEAN, NEW A, NEW D, Closed(D), Settled(wan, A, D), Gentle(A, D, wan)
  PROVE  Settled(wan, A, D)'
<1>1. batch' = batch /\ Todo' = Todo /\ \A x : Held(A, x)' = Held(A, x)
  <2>1. batch' = batch
    BY DEF Gentle
  <2> QED
    BY <2>1, TodoStays DEF Held
<1>2. \A x \in D : Live(A[x]) /\ IsProcess(A[x])
  BY DEF Settled, Stood, Live
<1>3. ASSUME NEW x \in D PROVE Stood(wan, A, x)'
  <2>1. /\ IsProcess(A[x])' /\ shelf'[A[x]].name = shelf[A[x]].name
        /\ shelf'[A[x]].weld = shelf[A[x]].weld /\ shelf'[A[x]].status = shelf[A[x]].status
        /\ shelf'[A[x]].content = shelf[A[x]].content /\ Live(A[x])'
        /\ Suits(A[x], x) => Suits(A[x], x)'
    BY <1>2, RowStays
  <2>2. Kinded(x) => shelf'[A[x]].weld = x.weld
    BY <2>1 DEF Settled, Stood
  <2>3. PICK h, i : h = Held(A, x) /\ i = A[x]
    OBVIOUS
  <2>4. CASE Best(wan, i, x, h)
    <3>1. i \notin h /\ Suits(i, x)'
      BY <2>1, <2>3, <2>4 DEF Best
    <3>2. PICK r \in Ranks(wan, i, x) : \A j \in DOMAIN shelf \ h : Suits(j, x) =>
             \A s \in Ranks(wan, j, x) : r < s \/ (r = s /\ i >= j)
      BY <2>4 DEF Best
    <3>3. r \in Ranks(wan, i, x)'
      BY <1>1, <2>1, <2>3, <3>2 DEF Ranks
    <3>4. ASSUME NEW j \in DOMAIN shelf' \ h, Suits(j, x)', NEW s \in Ranks(wan, j, x)'
          PROVE  r < s \/ (r = s /\ i >= j)
      BY <3>2, <3>4, RankingStays
    <3>5. Best(wan, i, x, h)'
      BY <3>1, <3>3, <3>4 DEF Best
    <3> QED
      BY <1>1, <2>1, <2>2, <2>3, <3>5 DEF Stood
  <2>5. CASE ByName(wan, A, x)
    <3>1. NoneNamed(wan, x, h) /\ Newest(i) /\ shelf[i].name \in Keys(wan, A, x)
      BY <2>3, <2>5 DEF ByName
    <3>2. NoneNamed(wan, x, h)'
      <4>1. ASSUME NEW j \in DOMAIN shelf' \ h, Suits(j, x)' PROVE Ranks(wan, j, x)' = {}
        BY <3>1, <4>1, RankingStays DEF NoneNamed
      <4> QED
        BY <4>1 DEF NoneNamed
    <3>3. Newest(i)'
      BY <1>2, <2>3, <3>1, NewestStays
    <3>4. shelf'[i].name \in Keys(wan, A, x)'
      <4>1. x \in Todo /\ Earlier(x) \subseteq D
        BY DEF Closed
      <4>2. PICK k : k = shelf[i].name
        OBVIOUS
      <4>3. k \in Keys(wan, A, x)'
        BY <1>2, <3>1, <4>1, <4>2, KeysStay
      <4> QED
        BY <2>1, <2>3, <4>2, <4>3
    <3>5. /\ batch'.files[x.path].mode # "rename"
          /\ batch'.files[x.path].mode = "overwrite" =>
               /\ shelf'[i].status = "available"
               /\ shelf'[i].content = Raw(batch'.files[x.path].text)
      BY <1>1, <2>1, <2>3, <2>5 DEF ByName
    <3>6. ByName(wan, A, x)'
      BY <1>1, <2>3, <3>2, <3>3, <3>4, <3>5 DEF ByName
    <3> QED
      BY <2>1, <2>2, <3>6 DEF Stood
  <2> QED
    BY <2>3, <2>4, <2>5 DEF Settled, Stood
<1> QED
  BY <1>1, <1>3 DEF Settled

\* The content of a file, in its kind, suits no other file of the batch.
LEMMA OthersNotSuited ==
  ASSUME ImportTypeOK, Clean, NEW e \in Todo, NEW x \in Todo, x # e, NEW c, NEW w,
         c \in Sums(batch.files[e.path]), Kinded(e) => w = e.weld,
         c \in Sums(batch.files[x.path]), Kinded(x) => w = x.weld
  PROVE  FALSE
<1>1. e.path \in FilePaths /\ x.path \in FilePaths
  BY TaskIs
<1>2. batch.files[e.path].text = batch.files[x.path].text
  BY SumsOf
<1>3. e.path = x.path
  BY <1>1, <1>2 DEF Clean
<1>4. Kinded(e) /\ Kinded(x) /\ e.weld # x.weld
  BY <1>3, TodoPlanned DEF Apart
<1> QED
  BY <1>4

\* A process is written, and suits none of the files that are done but those it suited.
LEMMA WrittenGentle ==
  ASSUME ImportTypeOK, NEW wan, NEW A, NEW D, \A x \in D : IsProcess(A[x]),
         NEW i, IsProcess(i), NEW row, shelf' = [shelf EXCEPT ![i] = row], batch' = batch,
         row.kind = "process", row.name = shelf[i].name,
         row.status = "disabled" <=> shelf[i].status = "disabled",
         \A x \in D : A[x] = i => row.weld = shelf[i].weld /\ row.status = shelf[i].status
                                  /\ row.content = shelf[i].content,
         \A x \in D : Suits(i, x)' => Suits(i, x)
  PROVE  Gentle(A, D, wan)
<1>1. /\ DOMAIN shelf' = DOMAIN shelf /\ i \in DOMAIN shelf /\ shelf'[i] = row
      /\ \A j \in DOMAIN shelf : j # i => shelf'[j] = shelf[j]
  BY DEF IsProcess
<1>2. \A j \in DOMAIN shelf : shelf'[j].kind = shelf[j].kind
  BY <1>1 DEF IsProcess
<1>3. \A j \in DOMAIN shelf : /\ shelf'[j].name = shelf[j].name
                              /\ shelf'[j].status = "disabled" <=> shelf[j].status = "disabled"
  BY <1>1
<1>4. ASSUME NEW x \in D
      PROVE  /\ shelf'[A[x]].weld = shelf[A[x]].weld /\ shelf'[A[x]].status = shelf[A[x]].status
             /\ shelf'[A[x]].content = shelf[A[x]].content
  BY <1>1, <1>4 DEF IsProcess
<1>5. ASSUME NEW x \in D, NEW j \in DOMAIN shelf', Suits(j, x)'
      PROVE  j \in DOMAIN shelf /\ Suits(j, x)
  BY <1>1, <1>5 DEF Suits, IsProcess
<1> QED
  BY <1>1, <1>2, <1>3, <1>4, <1>5 DEF Gentle

\* A row is added that suits no file, under a name that no process has.
LEMMA AddedGentle ==
  ASSUME ImportTypeOK, NEW wan, NEW A, NEW D, \A x \in D : IsProcess(A[x]),
         NEW row \in AssetRow, shelf' = Append(shelf, row), batch' = batch,
         row.kind = "process" => /\ row.status = "draft" /\ row.name \notin Shown
                                 /\ Given(wan, row.name)
  PROVE  Gentle(A, D, wan)
<1> DEFINE i == Len(shelf) + 1
<1>1. /\ DOMAIN shelf' = DOMAIN shelf \cup {i} /\ i \notin DOMAIN shelf /\ shelf'[i] = row
      /\ \A j \in DOMAIN shelf : shelf'[j] = shelf[j]
  <2>1. shelf \in Seq(AssetRow) /\ Len(shelf) \in Nat /\ DOMAIN shelf = 1..Len(shelf)
    BY SeqNumbered DEF ImportTypeOK
  <2>2. /\ DOMAIN shelf' = 1..(Len(shelf) + 1) /\ shelf'[Len(shelf) + 1] = row
        /\ \A j \in 1..Len(shelf) : shelf'[j] = shelf[j]
    BY <2>1, SeqAppended
  <2> QED
    BY <2>1, <2>2
<1> HIDE DEF i
<1>2. ASSUME NEW x \in D, NEW j \in DOMAIN shelf', Suits(j, x)'
      PROVE  j \in DOMAIN shelf /\ Suits(j, x)
  BY <1>1, <1>2 DEF Suits, IsProcess
<1>3. \A x \in D : A[x] \in DOMAIN shelf
  BY DEF IsProcess
<1>4. \A j \in DOMAIN shelf' \ DOMAIN shelf :
        IsProcess(j)' => shelf'[j].name \notin Shown /\ Given(wan, shelf'[j].name)
  BY <1>1 DEF IsProcess
<1> QED
  BY <1>1, <1>2, <1>3, <1>4 DEF Gentle

\* The library as it is.
LEMMA StillGentle ==
  ASSUME shelf' = shelf, batch' = batch, NEW wan, NEW A, NEW D
  PROVE  Gentle(A, D, wan)
BY DEF Gentle, Suits, IsProcess

\* A draft that is none of the batch's is left out of the book until it is published.
LEMMA DraftMirrors ==
  ASSUME Mirrored, NEW i, i \notin imp.book.claimed, imp'.draft = i, imp'.book = imp.book,
         DOMAIN shelf' = DOMAIN shelf \cup {i}, \A j \in DOMAIN shelf : j # i => shelf'[j] = shelf[j],
         i \in DOMAIN shelf => /\ shelf'[i].kind = shelf[i].kind /\ shelf'[i].name = shelf[i].name
                               /\ shelf'[i].status = shelf[i].status,
         i \notin DOMAIN shelf => shelf'[i].name \notin Named(imp.book, "process")
  PROVE  Mirrors(imp.book)'
<1> DEFINE known == Named(imp.book, "process")
<1>1. Named(imp.book, "process")' = known
  BY DEF Named
<1>2. \A j \in DOMAIN shelf : /\ Live(j)' <=> Live(j)
                              /\ shelf'[j].name = shelf[j].name
  BY DEF Live, IsProcess
<1>3. \A j : Live(j) => j \in DOMAIN shelf
  BY DEF Live, IsProcess
<1>4. \A j : Live(j)' => j \in DOMAIN shelf \cup {i}
  BY DEF Live, IsProcess
<1>5. Mirrors(imp.book) /\ 0 \notin DOMAIN shelf /\ imp.draft = 0
  BY MirroredIs DEF Mirrored
<1>6. /\ \A j \in DOMAIN shelf : Live(j) => shelf[j].name \in known
      /\ \A n \in known : /\ Live(RowNamed(n)) /\ shelf[RowNamed(n)].name = n
                          /\ \/ RowNamed(n) \in imp.book.claimed
                             \/ Newest(RowNamed(n)) /\ \A j \in imp.book.claimed : shelf[j].name # n
      /\ \A j \in imp.book.claimed : Live(j) /\ RowNamed(shelf[j].name) \in imp.book.claimed
      /\ \A j \in DOMAIN imp.book.rows : IsProcess(j) => imp.book.rows[j] = shelf[j]
      /\ \A j \in DOMAIN shelf : Live(j) /\ j \notin imp.book.claimed => j \in imp.book.procs
  <2>1. \A j : Live(j) => j # imp.draft
    BY <1>3, <1>5
  <2>2. \A j : IsProcess(j) => j # imp.draft
    BY <1>5 DEF IsProcess
  <2> QED
    BY <1>5, <2>1, <2>2 DEF Mirrors, RowNamed
<1>7. \A n : RowNamed(n)' = RowNamed(n)
  BY DEF RowNamed
<1> HIDE DEF known
<1>8. ASSUME NEW j \in DOMAIN shelf', Live(j)', j # i PROVE shelf'[j].name \in known
  BY <1>2, <1>4, <1>6, <1>8
<1>9. ASSUME NEW n \in known
      PROVE  /\ Live(RowNamed(n))' /\ shelf'[RowNamed(n)].name = n
             /\ \/ RowNamed(n) \in imp.book.claimed
                \/ Newest(RowNamed(n))' /\ \A j \in imp.book.claimed : shelf'[j].name # n
  <2>1. PICK r : r = RowNamed(n)
    OBVIOUS
  <2>2. r \in DOMAIN shelf /\ Live(r)' /\ shelf'[r].name = n /\ shelf[r].name = n
    BY <1>2, <1>3, <1>6, <2>1
  <2>3. CASE Newest(r) /\ \A j \in imp.book.claimed : shelf[j].name # n
    <3>1. \A j \in imp.book.claimed : shelf'[j].name # n
      BY <1>2, <1>3, <1>6, <2>3
    <3>2. ASSUME NEW j \in DOMAIN shelf', Live(j)', shelf'[j].name = shelf'[r].name PROVE j <= r
      <4>1. j \in DOMAIN shelf
        BY <1>4, <2>2, <3>2 DEF known
      <4> QED
        BY <1>2, <2>2, <2>3, <3>2, <4>1 DEF Newest
    <3>3. Newest(r)'
      BY <3>2 DEF Newest
    <3>4. Newest(RowNamed(n))' /\ Live(RowNamed(n))' /\ shelf'[RowNamed(n)].name = n
      BY <1>7, <2>1, <2>2, <3>3 DEF Newest, Live, IsProcess
    <3> QED
      BY <3>1, <3>4
  <2>4. CASE r \in imp.book.claimed
    BY <1>7, <2>1, <2>2, <2>4 DEF Live, IsProcess
  <2> QED
    BY <1>6, <2>1, <2>3, <2>4
<1>10. ASSUME NEW j \in imp.book.claimed
       PROVE  Live(j)' /\ j # i /\ RowNamed(shelf'[j].name) \in imp.book.claimed
  BY <1>2, <1>3, <1>6
<1>11. ASSUME NEW j \in DOMAIN imp.book.rows, IsProcess(j)', j # i PROVE imp.book.rows[j] = shelf'[j]
  <2>1. j \in DOMAIN shelf /\ shelf'[j] = shelf[j] /\ IsProcess(j)
    BY <1>11 DEF IsProcess
  <2> QED
    BY <1>6, <2>1
<1>12. ASSUME NEW j \in DOMAIN shelf', Live(j)', j # i, j \notin imp.book.claimed PROVE j \in imp.book.procs
  BY <1>2, <1>4, <1>6, <1>12
<1> QED
  BY <1>1, <1>7, <1>8, <1>9, <1>10, <1>11, <1>12 DEF Mirrors, RowNamed

\* What a claim does to the names of processes.
LEMMA ClaimNames ==
  ASSUME BookFits, NEW i, NEW row, row.kind = "process", NEW c, c = Claim(imp.book, i, row)
  PROVE  /\ Named(c, "process") = Named(imp.book, "process") \cup {row.name}
         /\ c.names[<<"process", row.name>>] = i
         /\ \A n \in Named(imp.book, "process") : n # row.name =>
               c.names[<<"process", n>>] = imp.book.names[<<"process", n>>]
<1> DEFINE b == imp.book
           mine == <<"process", row.name>>
<1>1. /\ DOMAIN c.names = DOMAIN b.names \cup {mine} /\ c.names[mine] = i
      /\ \A k \in DOMAIN b.names : k # mine => c.names[k] = b.names[k]
  BY DEF Claim
<1>2. mine[1] = "process" /\ mine[2] = row.name
  OBVIOUS
<1>3. \A k \in DOMAIN b.names : k = <<k[1], k[2]>>
  BY DEF BookFits
<1>4. \A n : <<"process", n>> = mine => n = row.name
  OBVIOUS
<1>5. mine = <<"process", row.name>>
  OBVIOUS
<1> HIDE DEF b, mine
<1>6. Named(c, "process") = Named(b, "process") \cup {row.name}
  BY <1>1, <1>2 DEF Named
<1>7. ASSUME NEW n \in Named(b, "process"), n # row.name
      PROVE  c.names[<<"process", n>>] = b.names[<<"process", n>>]
  <2>1. PICK k \in DOMAIN b.names : k[1] = "process" /\ k[2] = n
    BY DEF Named
  <2>2. k = <<"process", n>>
    BY <1>3, <2>1
  <2> QED
    BY <1>1, <1>4, <1>7, <2>1, <2>2
<1> QED
  BY <1>1, <1>5, <1>6, <1>7 DEF b

\* A claimed row is that of its name.
LEMMA ClaimMirrors ==
  ASSUME ImportTypeOK, BookFits, Mirrors(imp.book), NEW i, Live(i), imp.draft \in {0, i},
         NEW row, row.kind = "process", row.name = shelf[i].name, row.status # "disabled",
         DOMAIN shelf' = DOMAIN shelf, shelf'[i] = row,
         \A j \in DOMAIN shelf : j # i => shelf'[j] = shelf[j],
         imp'.book = Claim(imp.book, i, row), imp'.draft = 0
  PROVE  Mirrors(imp.book)'
<1>1. PICK b, c : b = imp.book /\ c = imp'.book /\ c = Claim(b, i, row)
  OBVIOUS
<1> DEFINE known == Named(b, "process")
           at(n) == b.names[<<"process", n>>]
           now(n) == c.names[<<"process", n>>]
<1>2. /\ DOMAIN c.rows = DOMAIN b.rows \cup {i} /\ c.rows[i] = row
      /\ \A j \in DOMAIN b.rows \ {i} : c.rows[j] = b.rows[j]
      /\ c.procs = b.procs /\ c.claimed = b.claimed \cup {i}
  BY <1>1 DEF Claim
<1>3. /\ Named(c, "process") = known \cup {row.name} /\ now(row.name) = i
      /\ \A n \in known : n # row.name => now(n) = at(n)
  BY <1>1, ClaimNames
<1>4. i \in DOMAIN shelf /\ 0 \notin DOMAIN shelf /\ \A j : Live(j) => j \in DOMAIN shelf
  BY RowsNumbered DEF Live, IsProcess
<1>5. /\ \A j \in DOMAIN shelf : Live(j) /\ j # imp.draft => shelf[j].name \in known
      /\ \A n \in known : /\ Live(at(n)) /\ shelf[at(n)].name = n
                          /\ \/ at(n) \in b.claimed
                             \/ Newest(at(n)) /\ \A j \in b.claimed : shelf[j].name # n
      /\ \A j \in b.claimed : Live(j) /\ j # imp.draft /\ at(shelf[j].name) \in b.claimed
      /\ \A j \in DOMAIN b.rows : IsProcess(j) /\ j # imp.draft => b.rows[j] = shelf[j]
      /\ \A j \in DOMAIN shelf : Live(j) /\ j # imp.draft /\ j \notin b.claimed => j \in b.procs
  BY <1>1 DEF Mirrors
<1>6. /\ \A j \in DOMAIN shelf : shelf'[j].name = shelf[j].name /\ (Live(j)' <=> Live(j))
      /\ \A j : Live(j)' => j \in DOMAIN shelf
  BY DEF Live, IsProcess
<1>7. \A j \in DOMAIN shelf : j # i => j # imp.draft
  BY <1>4
<1> HIDE DEF known, at, now
<1>8. ASSUME NEW j \in DOMAIN shelf', Live(j)' PROVE shelf'[j].name \in known \cup {row.name}
  BY <1>5, <1>6, <1>7, <1>8
<1>9. ASSUME NEW n \in known \cup {row.name}
      PROVE  /\ Live(now(n))' /\ shelf'[now(n)].name = n
             /\ \/ now(n) \in c.claimed
                \/ Newest(now(n))' /\ \A j \in c.claimed : shelf'[j].name # n
  <2>1. CASE n = row.name
    <3>1. now(n) = i
      BY <1>3, <2>1
    <3>2. Live(i)' /\ shelf'[i].name = n /\ i \in c.claimed
      BY <1>2, <1>4, <1>6, <2>1
    <3> QED
      BY <3>1, <3>2
  <2>2. CASE n # row.name
    <3>1. PICK r : r = now(n) /\ r = at(n)
      BY <1>3, <1>9, <2>2
    <3>2. r \in DOMAIN shelf /\ Live(r)' /\ shelf'[r].name = n /\ shelf[r].name = n
      BY <1>4, <1>5, <1>6, <1>9, <2>2, <3>1
    <3>3. CASE r \in b.claimed
      BY <1>2, <3>1, <3>2, <3>3
    <3>4. CASE Newest(r) /\ \A j \in b.claimed : shelf[j].name # n
      <4>1. Newest(r)'
        <5>1. ASSUME NEW j \in DOMAIN shelf', Live(j)', shelf'[j].name = shelf'[r].name PROVE j <= r
          BY <1>6, <3>2, <3>4, <5>1 DEF Newest
        <5> QED
          BY <5>1 DEF Newest
      <4>2. \A j \in c.claimed : shelf'[j].name # n
        BY <1>2, <1>4, <1>5, <1>6, <2>2, <3>4
      <4> QED
        BY <3>1, <3>2, <4>1, <4>2
    <3> QED
      BY <1>5, <1>9, <2>2, <3>1, <3>3, <3>4
  <2> QED
    BY <2>1, <2>2
<1>10. ASSUME NEW j \in c.claimed
       PROVE  Live(j)' /\ j # 0 /\ now(shelf'[j].name) \in c.claimed
  <2>1. j \in DOMAIN shelf /\ Live(j)' /\ j # 0
    BY <1>2, <1>4, <1>5, <1>6
  <2>2. CASE shelf[j].name = row.name
    BY <1>2, <1>3, <1>6, <2>1, <2>2
  <2>3. CASE shelf[j].name # row.name
    <3>1. j \in b.claimed /\ shelf[j].name \in known
      BY <1>2, <1>5, <1>6, <2>1, <2>3
    <3> QED
      BY <1>2, <1>3, <1>5, <1>6, <2>1, <2>3, <3>1
  <2> QED
    BY <2>2, <2>3
<1>11. ASSUME NEW j \in DOMAIN c.rows, IsProcess(j)' PROVE c.rows[j] = shelf'[j]
  <2>1. CASE j = i
    BY <1>2, <2>1
  <2>2. CASE j # i
    <3>1. j \in DOMAIN shelf /\ shelf'[j] = shelf[j] /\ IsProcess(j) /\ j \in DOMAIN b.rows
      BY <1>2, <1>11, <2>2 DEF IsProcess
    <3> QED
      BY <1>2, <1>5, <1>7, <2>2, <3>1
  <2> QED
    BY <2>1, <2>2
<1>12. ASSUME NEW j \in DOMAIN shelf', Live(j)', j \notin c.claimed PROVE j \in c.procs
  BY <1>2, <1>5, <1>6, <1>7, <1>12
<1>13. Mirrors(c)'
  BY <1>3, <1>8, <1>9, <1>10, <1>11, <1>12 DEF Mirrors, now
<1> QED
  BY <1>1, <1>13

\* A process that gets the content of a file is found for it if it is named for it.
LEMMA WrittenIsFound ==
  ASSUME ImportTypeOK, NEW wan \in BOOLEAN, NEW e \in Todo, NEW h, NoneNamed(wan, e, h),
         NEW i, IsProcess(i), i \notin h, NEW row, shelf' = [shelf EXCEPT ![i] = row], batch' = batch,
         row.kind = "process", row.name = shelf[i].name, row.status = "available",
         row.content \in Sums(batch.files[e.path]), Kinded(e) => row.weld = e.weld
  PROVE  IF Ranks(wan, i, e) = {} THEN NoneNamed(wan, e, h)' ELSE Best(wan, i, e, h)'
<1>1. /\ DOMAIN shelf' = DOMAIN shelf /\ i \in DOMAIN shelf /\ shelf'[i] = row
      /\ \A j \in DOMAIN shelf : j # i => shelf'[j] = shelf[j]
  BY DEF IsProcess
<1>2. Suits(i, e)'
  BY <1>1 DEF Suits, IsProcess
<1>3. ASSUME NEW j PROVE j \in DOMAIN shelf => Ranks(wan, j, e)' = Ranks(wan, j, e)
  BY <1>1 DEF Ranks
<1>4. ASSUME NEW j \in DOMAIN shelf' \ h, j # i, Suits(j, e)' PROVE Ranks(wan, j, e)' = {}
  <2>1. Suits(j, e)
    BY <1>1, <1>4 DEF Suits, IsProcess
  <2> QED
    BY <1>1, <1>3, <1>4, <2>1 DEF NoneNamed
<1>5. CASE Ranks(wan, i, e) = {}
  <2>1. \A j \in DOMAIN shelf' \ h : Suits(j, e)' => Ranks(wan, j, e)' = {}
    BY <1>1, <1>3, <1>4, <1>5
  <2> QED
    BY <1>5, <2>1 DEF NoneNamed
<1>6. CASE Ranks(wan, i, e) # {}
  <2>1. Ranks(wan, i, e) \in SUBSET Nat
    BY TaskIs, RanksAreNumbers DEF Ranks
  <2>2. PICK r \in Ranks(wan, i, e) : \A s \in Ranks(wan, i, e) : r <= s
    BY <1>6, <2>1, LeastExists
  <2>3. i \in Nat
    BY <1>1, RowsNumbered
  <2>4. ASSUME NEW j \in DOMAIN shelf' \ h, Suits(j, e)', NEW s \in Ranks(wan, j, e)'
        PROVE  r < s \/ (r = s /\ i >= j)
    <3>1. CASE j = i
      <4>1. s \in Ranks(wan, i, e) /\ s \in Nat /\ r \in Nat /\ r <= s
        BY <1>1, <1>3, <2>1, <2>2, <2>4, <3>1
      <4> QED
        BY <2>3, <3>1, <4>1
    <3>2. CASE j # i
      BY <1>4, <2>4, <3>2
    <3> QED
      BY <3>1, <3>2
  <2>5. r \in Ranks(wan, i, e)'
    BY <1>1, <1>3, <2>2
  <2> QED
    BY <1>2, <1>6, <2>4, <2>5 DEF Best
<1> QED
  BY <1>5, <1>6

\* The names of the library a file goes by are those of the book, and stand for one row.
LEMMA KeyRow ==
  ASSUME Mirrored, NEW wan \in BOOLEAN, NEW e, NEW k \in KeysNow(wan, e), NEW i, i = RowNamed(k)
  PROVE  /\ Live(i) /\ shelf[i].name = k /\ Newest(i) /\ i \notin imp.book.claimed
         /\ i \in DOMAIN shelf /\ i \in DOMAIN imp.book.rows /\ imp.book.rows[i] = shelf[i]
<1>1. k \in Named(imp.book, "process") /\ k \notin Taken(imp.book, "process")
  <2>1. PICK known, taken : known = Named(imp.book, "process") /\ taken = Taken(imp.book, "process")
    OBVIOUS
  <2>2. PICK base, p, suffix : k \in OwnKeys(wan, known, taken, base, p, suffix)
    BY <2>1 DEF KeysNow
  <2> QED
    BY <2>1, <2>2, OneKey
<1>2. i \notin imp.book.claimed
  BY <1>1 DEF Taken, RowNamed
<1>3. Live(i) /\ shelf[i].name = k /\ Newest(i)
  BY <1>1, <1>2 DEF Mirrored, Mirrors, RowNamed
<1>4. i \in DOMAIN imp.book.rows
  BY <1>1, MirroredIs, KnownRow DEF RowNamed
<1> QED
  BY <1>2, <1>3, <1>4, MirroredIs DEF Live

\* They are the names by which the file is found again.
LEMMA KeysNowAre ==
  ASSUME Mirrored, NEW wan, NEW A, NEW e, Held(A, e) = imp.book.claimed
  PROVE  KeysNow(wan, e) = Keys(wan, A, e)
BY NamesMirrored DEF KeysNow, Keys, HeldNames

\* One process is named best, ...
LEMMA BestOne ==
  ASSUME ImportTypeOK, NEW wan \in BOOLEAN, NEW e \in Todo, NEW h, NEW i, NEW j,
         Best(wan, i, e, h), Best(wan, j, e, h)
  PROVE  i = j
<1>1. Ranks(wan, i, e) \in SUBSET Nat /\ Ranks(wan, j, e) \in SUBSET Nat
  BY TaskIs, RanksAreNumbers DEF Ranks
<1>2. i \in DOMAIN shelf /\ j \in DOMAIN shelf /\ i \in Nat /\ j \in Nat
  BY RowsNumbered DEF Best, Suits, IsProcess
<1>3. PICK r \in Ranks(wan, i, e) : \A g \in DOMAIN shelf \ h : Suits(g, e) =>
         \A s \in Ranks(wan, g, e) : r < s \/ (r = s /\ i >= g)
  BY DEF Best
<1>4. PICK t \in Ranks(wan, j, e) : \A g \in DOMAIN shelf \ h : Suits(g, e) =>
         \A s \in Ranks(wan, g, e) : t < s \/ (t = s /\ j >= g)
  BY DEF Best
<1>5. (r < t \/ (r = t /\ i >= j)) /\ (t < r \/ (t = r /\ j >= i))
  BY <1>2, <1>3, <1>4 DEF Best
<1> QED
  BY <1>1, <1>2, <1>5

\* ... and one is the newest of its name.
LEMMA NewestOne ==
  ASSUME ImportTypeOK, NEW i, NEW j, Live(i), Live(j), Newest(i), Newest(j), shelf[i].name = shelf[j].name
  PROVE  i = j
<1>1. i \in DOMAIN shelf /\ j \in DOMAIN shelf /\ i \in Nat /\ j \in Nat
  BY RowsNumbered DEF Live, IsProcess
<1>2. i <= j /\ j <= i
  BY <1>1 DEF Newest
<1> QED
  BY <1>1, <1>2

-----------------------------------------------------------------------------
(* The first import of a batch                                             *)

\* The import goes on after file e was taken for a row.
LEMMA UnderWayMoves ==
  ASSUME ImportTypeOK, imp.at = "files", NEW wan, NEW A, NEW B, UnderWay(wan, A),
         NEW e \in Upcoming(imp.todo), NEW i, B[e] = i, \A x \in Todo \ imp.todo : B[x] = A[x],
         NEW row, NEW weld, NEW kept \in BOOLEAN, Moved(e, i, row, weld, kept),
         Mirrors(imp.book)', batch' = batch
  PROVE  UnderWay(wan, B)'
<1>1. Progress(imp.todo) /\ imp.book.claimed = {A[x] : x \in Todo \ imp.todo}
  BY DEF UnderWay
<1>2. /\ Progress(imp.todo \ {e}) /\ Todo \ (imp.todo \ {e}) = (Todo \ imp.todo) \cup {e}
  BY <1>1, UpcomingAhead
<1>3. /\ imp'.todo = imp.todo \ {e} /\ imp'.draft = 0
      /\ imp'.book.claimed = imp.book.claimed \cup {i}
  BY DEF Moved
<1>4. Todo' = Todo
  BY TodoStays
<1>5. Progress(imp.todo)'
  BY <1>2, <1>3, <1>4 DEF Progress, Ahead
<1>6. imp'.book.claimed = {B[x] : x \in Todo' \ imp'.todo}
  <2>1. imp.book.claimed = {B[x] : x \in Todo \ imp.todo}
    BY <1>1
  <2>2. {B[x] : x \in (Todo \ imp.todo) \cup {e}} = {B[x] : x \in Todo \ imp.todo} \cup {i}
    OBVIOUS
  <2>3. Todo' \ imp'.todo = (Todo \ imp.todo) \cup {e}
    BY <1>2, <1>3, <1>4
  <2> QED
    BY <1>3, <2>1, <2>2, <2>3
<1> QED
  BY <1>3, <1>5, <1>6 DEF UnderWay

\* One more file comes to stand for a row, those done before it for theirs.
LEMMA Extended ==
  ASSUME NEW D, Closed(D), NEW e \in Todo \ D, Earlier(e) = D,
         NEW A \in [Todo -> Nat], NEW i \in Nat, NEW B \in {[A EXCEPT ![e] = i]}
  PROVE  /\ B \in [Todo -> Nat] /\ B[e] = i /\ \A x \in D : B[x] = A[x]
         /\ \A x \in D \cup {e} : Held(B, x) = Held(A, x)
<1>1. B \in [Todo -> Nat] /\ B[e] = i /\ \A x \in Todo \ {e} : B[x] = A[x]
  OBVIOUS
<1>2. D \subseteq Todo \ {e}
  BY DEF Closed
<1>3. ASSUME NEW x \in D \cup {e} PROVE Held(B, x) = Held(A, x)
  <2>1. Earlier(x) \subseteq Todo \ {e}
    BY <1>2 DEF Closed
  <2>2. PICK E : E = Earlier(x)
    OBVIOUS
  <2>3. {B[y] : y \in E} = {A[y] : y \in E}
    BY <1>1, <2>1, <2>2
  <2> QED
    BY <2>2, <2>3 DEF Held
<1> QED
  BY <1>1, <1>2, <1>3

\* File e will be given row i again, h being the rows of the files done before.
Found(wan, A, e, i, h) ==
  /\ Live(i) /\ (Kinded(e) => shelf[i].weld = e.weld)
  /\ \/ Best(wan, i, e, h)
     \/ /\ NoneNamed(wan, e, h) /\ Newest(i) /\ shelf[i].name \in Keys(wan, A, e)
        /\ batch.files[e.path].mode # "rename"
        /\ batch.files[e.path].mode = "overwrite" =>
              shelf[i].status = "available" /\ shelf[i].content = Raw(batch.files[e.path].text)

\* Which row a file stands for depends on the files done before it.
LEMMA FoundIsStood ==
  ASSUME NEW wan, NEW A, NEW B, NEW e, NEW i, NEW h, B[e] = i, Held(B, e)' = h, Held(A, e)' = h,
         Found(wan, A, e, i, h)'
  PROVE  Stood(wan, B, e)'
<1>1. PICK k : k = shelf'[i].name
  OBVIOUS
<1>2. Keys(wan, B, e)' = Keys(wan, A, e)'
  BY DEF Keys, HeldNames
<1> QED
  BY <1>2 DEF Found, Stood, ByName

\* It is found by that.
LEMMA StoodIsFound ==
  ASSUME NEW wan, NEW A, NEW e, NEW i, NEW h, A[e] = i, Held(A, e)' = h, Stood(wan, A, e)'
  PROVE  Found(wan, A, e, i, h)'
BY DEF Found, Stood, ByName

\* In the first import a file is taken for a row, and will be again.
LEMMA FirstTaken ==
  ASSUME ImportInv, NEW wan \in BOOLEAN, imports = 1, imports' = 1, imp.at = "files",
         NEW e \in Upcoming(imp.todo), NEW A \in [Todo -> Nat], Settled(wan, A, Todo \ imp.todo),
         UnderWay(wan, A), Gentle(A, Todo \ imp.todo, wan), NEW i \in Nat, i \notin imp.book.claimed,
         NEW row, NEW weld, NEW kept \in BOOLEAN, Moved(e, i, row, weld, kept), Mirrors(imp.book)',
         NEW h, h = imp.book.claimed, Found(wan, A, e, i, h)'
  PROVE  \E B \in [Todo' -> Nat] : Settled(wan, B, Finished)' /\ UnderWay(wan, B)'
<1>0. PICK D : D = Todo \ imp.todo
  OBVIOUS
<1>1. /\ ImportTypeOK /\ batch' = batch /\ Progress(imp.todo) /\ h = {A[x] : x \in D}
      /\ Settled(wan, A, D) /\ Gentle(A, D, wan)
  BY <1>0 DEF ImportInv, Gentle, UnderWay
<1>2. e \in Todo /\ e \in imp.todo /\ Earlier(e) = D /\ Todo \ (imp.todo \ {e}) = D \cup {e}
  BY <1>0, <1>1, UpcomingAhead
<1>3. Closed(D)
  BY <1>0, <1>1, ProgressClosed
<1>4. Todo' = Todo /\ \A x : Earlier(x)' = Earlier(x)
  BY <1>1, TodoStays
<1>5. PICK B \in {[A EXCEPT ![e] = i]} : TRUE
  OBVIOUS
<1>6. /\ B \in [Todo -> Nat] /\ B[e] = i /\ \A x \in D : B[x] = A[x]
      /\ \A x \in D \cup {e} : Held(B, x) = Held(A, x)
  <2>1. e \in Todo \ D
    BY <1>0, <1>2
  <2> QED
    BY <1>2, <1>3, <2>1, Extended
<1>7. \A x \in D \cup {e} : Held(B, x)' = Held(A, x)'
  BY <1>4, <1>6 DEF Held
<1>8. Settled(wan, A, D)'
  BY <1>1, <1>3, SettledStays
<1>9. Held(A, e)' = h
  BY <1>1, <1>2, <1>4 DEF Held
<1>10. Stood(wan, B, e)'
  BY <1>6, <1>7, <1>9, FoundIsStood
<1>11. ASSUME NEW x \in D PROVE Stood(wan, B, x)'
  <2>1. PICK j, g : j = A[x] /\ g = Held(A, x)'
    OBVIOUS
  <2>2. Found(wan, A, x, j, g)'
    BY <1>8, <2>1, StoodIsFound DEF Settled
  <2>3. B[x] = j /\ Held(B, x)' = g
    BY <1>6, <1>7, <2>1
  <2> QED
    BY <2>1, <2>2, <2>3, FoundIsStood
<1>12. \A x, y \in D \cup {e} : B[x] = B[y] => x = y
  <2>1. \A x, y \in D : A[x] = A[y] => x = y
    BY <1>1 DEF Settled
  <2>2. \A x \in D : A[x] # i
    BY <1>1
  <2> QED
    BY <1>6, <2>1, <2>2
<1>13. Finished' = D \cup {e}
  <2>1. imp'.at = "files" /\ imp'.todo = imp.todo \ {e}
    BY DEF Moved
  <2> QED
    BY <1>2, <1>4, <2>1 DEF Finished
<1>14. PICK E : E = D \cup {e}
  OBVIOUS
<1>15. Settled(wan, B, E)'
  BY <1>4, <1>6, <1>10, <1>11, <1>12, <1>14 DEF Settled
<1>16. Settled(wan, B, Finished)'
  BY <1>13, <1>14, <1>15 DEF Settled
<1>17. UnderWay(wan, B)'
  <2>1. B[e] = i /\ \A x \in Todo \ imp.todo : B[x] = A[x]
    BY <1>0, <1>6
  <2> QED
    BY <1>1, <2>1, UnderWayMoves
<1> QED
  BY <1>4, <1>6, <1>16, <1>17

\* In the first import a draft is made that the file will be given.
LEMMA FirstDrafted ==
  ASSUME ImportInv, NEW wan \in BOOLEAN, imports = 1, imports' = 1, imp.at = "files",
         NEW e \in Upcoming(imp.todo), NEW A \in [Todo -> Nat], Settled(wan, A, Todo \ imp.todo),
         UnderWay(wan, A), Gentle(A, Todo \ imp.todo, wan), NEW i,
         imp' = [imp EXCEPT !.draft = i], Mirrors(imp.book)', Pending(wan, A, e, i)'
  PROVE  \E B \in [Todo' -> Nat] : Settled(wan, B, Finished)' /\ UnderWay(wan, B)'
<1>0. PICK D : D = Todo \ imp.todo
  OBVIOUS
<1>1. /\ ImportTypeOK /\ batch' = batch /\ Progress(imp.todo) /\ imp.book.claimed = {A[x] : x \in D}
      /\ Settled(wan, A, D) /\ Gentle(A, D, wan)
  BY <1>0 DEF ImportInv, Gentle, UnderWay
<1>2. Closed(D)
  BY <1>0, <1>1, ProgressClosed
<1>3. Todo' = Todo
  BY <1>1, TodoStays
<1>4. Settled(wan, A, D)'
  BY <1>1, <1>2, SettledStays
<1>5. imp'.at = "files" /\ imp'.todo = imp.todo /\ imp'.book = imp.book /\ imp'.draft = i
  BY <1>1 DEF ImportTypeOK, ImportFields
<1>6. Finished' = D
  BY <1>0, <1>3, <1>5 DEF Finished
<1>7. Settled(wan, A, Finished)'
  BY <1>4, <1>6 DEF Settled
<1>8. Progress(imp.todo)'
  BY <1>1, <1>3, <1>5 DEF Progress, Ahead
<1>9. e \in Upcoming(imp.todo)'
  <2>1. PICK t : t = imp.todo /\ t = imp'.todo
    BY <1>5
  <2>2. e \in Upcoming(t)
    BY <2>1
  <2> QED
    BY <2>1, <2>2 DEF Upcoming
<1>10. Pending(wan, A, e, imp.draft)'
  BY <1>5 DEF Pending
<1>11. UnderWay(wan, A)'
  BY <1>0, <1>1, <1>3, <1>5, <1>8, <1>9, <1>10 DEF UnderWay
<1> QED
  BY <1>3, <1>7, <1>11

\* File e comes next, and A says for which rows the files before it stand.
AtFile(wan, A, e) ==
  /\ ImportInv /\ Clean /\ imp.at = "files" /\ e \in Upcoming(imp.todo)
  /\ A \in [Todo -> Nat] /\ UnderWay(wan, A)

\* In the first import, for the rows they will be given again.
AtFirst(wan, A, e) ==
  /\ AtFile(wan, A, e) /\ imports = 1 /\ imports' = 1 /\ batch' = batch
  /\ Settled(wan, A, Todo \ imp.todo)

\* After a step there are such rows again.
Remembered(wan) == \E B \in [Todo' -> Nat] : Settled(wan, B, Finished)' /\ UnderWay(wan, B)'

\* What the import has when it comes to a file.
LEMMA AtFileIs ==
  ASSUME NEW wan \in BOOLEAN, NEW A, NEW e, AtFile(wan, A, e)
  PROVE  /\ ImportTypeOK /\ BookFits /\ DOMAIN imp = ImportFields /\ Mirrors(imp.book)
         /\ e \in Todo /\ Earlier(e) = Todo \ imp.todo /\ Held(A, e) = imp.book.claimed
         /\ imp.draft = 0 => Mirrored
         /\ imp.book.claimed = {A[x] : x \in Todo \ imp.todo}
         /\ Todo \ imp.todo \subseteq Todo \ {e}
<1>1. ImportTypeOK /\ BookFits /\ Mirrors(imp.book) /\ Progress(imp.todo)
      /\ imp.book.claimed = {A[x] : x \in Todo \ imp.todo}
  BY DEF AtFile, ImportInv, UnderWay
<1>2. e \in Todo /\ e \in imp.todo /\ Earlier(e) = Todo \ imp.todo
  BY <1>1, UpcomingAhead DEF AtFile
<1>3. Held(A, e) = imp.book.claimed
  BY <1>1, <1>2 DEF Held
<1>4. DOMAIN imp = ImportFields
  BY <1>1 DEF AtFile, ImportTypeOK
<1> QED
  BY <1>1, <1>2, <1>3, <1>4 DEF Mirrored, AtFile

\* What a file is found by is there while the library is as it is.
LEMMA FoundStill ==
  ASSUME shelf' = shelf, batch' = batch, NEW wan, NEW A, NEW e, NEW i, NEW h, Found(wan, A, e, i, h)
  PROVE  Found(wan, A, e, i, h)'
<1>1. Todo' = Todo /\ Held(A, e)' = Held(A, e)
  BY TodoStays DEF Held
<1>2. Live(i)' /\ shelf' = shelf /\ batch' = batch
  BY DEF Found, Live, IsProcess
<1>3. \A j : Suits(j, e)' <=> Suits(j, e)
  BY DEF Suits, IsProcess
<1>4. \A j : Ranks(wan, j, e)' = Ranks(wan, j, e)
  BY DEF Ranks
<1>5. Best(wan, i, e, h) => Best(wan, i, e, h)'
  BY <1>3, <1>4 DEF Best
<1>6. NoneNamed(wan, e, h) => NoneNamed(wan, e, h)'
  BY <1>3, <1>4 DEF NoneNamed
<1>7. Newest(i) => Newest(i)'
  BY DEF Newest, Live, IsProcess
<1>8. Keys(wan, A, e)' = Keys(wan, A, e)
  <2>1. Shown' = Shown
    BY DEF Shown, Live, IsProcess
  <2>2. HeldNames(A, e)' = HeldNames(A, e)
    BY <1>1 DEF HeldNames
  <2> QED
    BY <2>1, <2>2 DEF Keys
<1> QED
  BY <1>2, <1>5, <1>6, <1>7, <1>8 DEF Found

\* In the first import: a file is taken for a process as it is, ...
LEMMA FirstAsItIs ==
  ASSUME NEW wan \in BOOLEAN, NEW A, NEW e, AtFirst(wan, A, e), imp.draft = 0, shelf' = shelf,
         NEW i \in DOMAIN imp.book.rows, i \notin imp.book.claimed, NEW kept \in BOOLEAN,
         Stands(e, i, imp.book.rows[i], IndexWeld(e, imp.book.rows[i]), kept),
         Found(wan, A, e, i, imp.book.claimed)
  PROVE  Remembered(wan)
<1>1. /\ ImportTypeOK /\ BookFits /\ DOMAIN imp = ImportFields /\ Mirrors(imp.book)
      /\ e \in Todo /\ Held(A, e) = imp.book.claimed /\ Mirrored
  BY AtFileIs DEF AtFirst
<1>2. Live(i) /\ i \in DOMAIN shelf /\ i \in Nat
  BY <1>1, RowsNumbered DEF Found, Live, IsProcess
<1>3. PICK row, weld, h : row = imp.book.rows[i] /\ weld = IndexWeld(e, row) /\ h = imp.book.claimed
  OBVIOUS
<1>4. row = shelf[i] /\ row.kind = "process" /\ row.status # "disabled"
  BY <1>1, <1>2, <1>3, MirroredIs DEF Live, IsProcess
<1>5. Moved(e, i, row, weld, kept)
  BY <1>1, <1>3, StandsMoves
<1>6. imp'.book = Claim(imp.book, i, row) /\ imp'.draft = 0
  BY <1>5 DEF Moved
<1>7. Mirrors(imp.book)'
  <2>1. /\ row.name = shelf[i].name /\ DOMAIN shelf' = DOMAIN shelf /\ shelf'[i] = row
        /\ \A j \in DOMAIN shelf : j # i => shelf'[j] = shelf[j]
    BY <1>4
  <2> QED
    BY <1>1, <1>2, <1>4, <1>6, <2>1, ClaimMirrors
<1>8. Found(wan, A, e, i, h)'
  BY <1>3, FoundStill DEF AtFirst
<1>9. Gentle(A, Todo \ imp.todo, wan)
  <2>1. PICK D : D = Todo \ imp.todo
    OBVIOUS
  <2>2. Gentle(A, D, wan)
    BY StillGentle DEF AtFirst
  <2> QED
    BY <2>1, <2>2
<1> QED
  BY <1>2, <1>3, <1>5, <1>7, <1>8, <1>9, FirstTaken DEF AtFirst, AtFile, Remembered

\* ... because it has its content ...
LEMMA FirstSame ==
  ASSUME NEW wan \in BOOLEAN, NEW A, NEW e, AtFirst(wan, A, e), imp.draft = 0, TakesSame(wan, e)
  PROVE  Remembered(wan)
<1>1. Mirrored /\ e \in Todo
  BY AtFileIs DEF AtFirst
<1>2. PICK i \in SameFor(wan, e) :
        Stands(e, i, imp.book.rows[i], IndexWeld(e, imp.book.rows[i]), FALSE) /\ shelf' = shelf
  BY DEF TakesSame
<1>3. Best(wan, i, e, imp.book.claimed)
  BY <1>1, SameIsBest
<1>4. Live(i) /\ i \notin imp.book.claimed /\ (Kinded(e) => shelf[i].weld = e.weld)
  BY <1>3 DEF Best, Suits, Live
<1>5. i \in DOMAIN imp.book.rows
  BY <1>1, <1>4, MirroredIs
<1>6. Found(wan, A, e, i, imp.book.claimed)
  BY <1>3, <1>4 DEF Found
<1> QED
  BY <1>2, <1>4, <1>5, <1>6, FirstAsItIs

\* ... or because it has its name.
LEMMA FirstKeeps ==
  ASSUME NEW wan \in BOOLEAN, NEW A, NEW e, AtFirst(wan, A, e), imp.draft = 0, Keeps(wan, e)
  PROVE  Remembered(wan)
<1>1. Mirrored /\ e \in Todo /\ Held(A, e) = imp.book.claimed
  BY AtFileIs DEF AtFirst
<1>2. PICK k \in KeysNow(wan, e) :
        /\ ~OtherKind(e, RowNamed(k))
        /\ Stands(e, RowNamed(k), imp.book.rows[RowNamed(k)], IndexWeld(e, imp.book.rows[RowNamed(k)]), TRUE)
  BY DEF Keeps
<1>3. PICK i : i = RowNamed(k)
  OBVIOUS
<1>4. /\ Live(i) /\ shelf[i].name = k /\ Newest(i) /\ i \notin imp.book.claimed
      /\ i \in DOMAIN imp.book.rows /\ imp.book.rows[i] = shelf[i]
  BY <1>1, <1>3, KeyRow
<1>5. /\ SameFor(wan, e) = {} /\ batch.files[e.path].mode \notin {"overwrite", "rename"} /\ shelf' = shelf
  BY DEF Keeps
<1>6. NoneNamed(wan, e, imp.book.claimed) /\ k \in Keys(wan, A, e)
  BY <1>1, <1>5, SameIsBest, KeysNowAre
<1>7. Kinded(e) => shelf[i].weld = e.weld
  BY <1>2, <1>3, <1>4 DEF OtherKind
<1>8. Found(wan, A, e, i, imp.book.claimed)
  BY <1>4, <1>5, <1>6, <1>7 DEF Found
<1> QED
  BY <1>2, <1>3, <1>4, <1>5, <1>8, FirstAsItIs

\* A new one is made, ...
LEMMA FirstMakes ==
  ASSUME NEW wan \in BOOLEAN, NEW A, NEW e, AtFirst(wan, A, e), imp.draft = 0, MakesNew(wan, e)
  PROVE  Remembered(wan) /\ made' = made
<1>1. /\ ImportTypeOK /\ BookFits /\ DOMAIN imp = ImportFields /\ Mirrored
      /\ e \in Todo /\ Earlier(e) = Todo \ imp.todo /\ Held(A, e) = imp.book.claimed
  BY AtFileIs DEF AtFirst
<1>2. /\ e.path \in FilePaths /\ e.path \in Stems /\ batch.files[e.path].base \in Stems
      /\ e.weld \in MaybeKinds /\ e.suffix \in {<<>>, Suffix(e.weld)} /\ e \in Tasks
  BY <1>1, TaskIs
<1>3. PICK n \in NewNames(wan, e) : CreateImported(e, n)
  BY DEF MakesNew
<1>4. NoneNamed(wan, e, imp.book.claimed)
  BY <1>1, SameIsBest DEF MakesNew
<1>5. PICK base, p, suffix, want : /\ base = batch.files[e.path].base /\ p = e.path
                                   /\ suffix = e.suffix /\ want = e.weld
  OBVIOUS
<1>6. /\ n \in MadeFor(wan, p, base, suffix) /\ n \notin Shown /\ n \notin Named(imp.book, "process")
      /\ p \in Stems /\ base \in Stems /\ want \in MaybeKinds /\ suffix \in {<<>>, Suffix(want)}
  BY <1>1, <1>2, <1>5, NamesMirrored DEF NewNames
<1>7. n \in Seq(Pieces) /\ Given(wan, n)
  BY <1>6, MadeIsGiven
<1>8. RankOf(wan, p, base, want, n) # {}
  BY <1>6, MadeIsRanked
<1>9. PICK weld \in WeldKinds : /\ Kinded(e) => weld = e.weld
                                /\ weld = IF e.weld = "" THEN "single" ELSE e.weld
  <2>1. e.weld \in WeldKinds \cup {""}
    BY <1>2 DEF Tasks
  <2>2. "single" \in WeldKinds
    BY WeldsPlaced
  <2>3. CASE e.weld = ""
    BY <2>2, <2>3 DEF Kinded
  <2>4. CASE e.weld # ""
    BY <2>1, <2>4 DEF Kinded
  <2> QED
    BY <2>3, <2>4
<1>10. PICK row, i : row = NewProcess(n, weld, Normal(batch.files[e.path].text), "draft") /\ i = Len(shelf) + 1
  OBVIOUS
<1>11. shelf' = Append(shelf, row) /\ imp' = [imp EXCEPT !.draft = i] /\ made' = made
  <2>1. batch.files[e.path].state # "unfit" /\ ~(imports > 1)
    BY <1>2 DEF AtFirst, AtFile, Clean
  <2>2. PICK w, f : w = (IF e.weld = "" THEN "single" ELSE e.weld) /\ f = batch.files[e.path]
    OBVIOUS
  <2>3. /\ shelf' = Append(shelf, NewProcess(n, w, Normal(f.text), "draft"))
        /\ imp' = [imp EXCEPT !.draft = Len(shelf) + 1]
        /\ made' = IF imports > 1 THEN made \cup {Len(shelf) + 1} ELSE made
    BY <1>3, <2>1, <2>2, Zenon DEF CreateImported
  <2>4. weld = w
    BY <1>9, <2>2, Zenon
  <2> QED
    BY <1>10, <2>1, <2>2, <2>3, <2>4
<1>12. /\ row \in AssetRow /\ row.kind = "process" /\ row.status = "draft" /\ row.weld = weld
       /\ row.content = Normal(batch.files[e.path].text) /\ row.name = n
  <2>1. Normal(batch.files[e.path].text) \in RowContents
    BY <1>1, <1>2, FilesTyped
  <2> QED
    BY <1>7, <1>10, <2>1 DEF NewProcess, AssetRow
<1>13. /\ DOMAIN shelf' = DOMAIN shelf \cup {i} /\ i \notin DOMAIN shelf /\ shelf'[i] = row
       /\ \A j \in DOMAIN shelf : shelf'[j] = shelf[j]
  <2>1. shelf \in Seq(AssetRow) /\ Len(shelf) \in Nat /\ DOMAIN shelf = 1..Len(shelf)
    BY <1>1, SeqNumbered DEF ImportTypeOK
  <2>2. /\ DOMAIN shelf' = 1..(Len(shelf) + 1) /\ shelf'[Len(shelf) + 1] = row
        /\ \A j \in 1..Len(shelf) : shelf'[j] = shelf[j]
    BY <1>11, <1>12, <2>1, SeqAppended
  <2> QED
    BY <1>10, <2>1, <2>2
<1>14. PICK D : D = Todo \ imp.todo
  OBVIOUS
<1>15. Gentle(A, D, wan)
  <2>1. Settled(wan, A, D) /\ batch' = batch
    BY <1>14 DEF AtFirst
  <2>2. \A x \in D : IsProcess(A[x])
    BY <2>1 DEF Settled, Stood, Live
  <2> QED
    BY <1>1, <1>6, <1>7, <1>11, <1>12, <2>1, <2>2, AddedGentle
<1>16. i \notin imp.book.claimed
  BY <1>1, <1>13 DEF BookFits
<1>17. imp'.draft = i /\ imp'.book = imp.book
  BY <1>1, <1>11 DEF ImportFields
<1>18. Mirrors(imp.book)'
  BY <1>1, <1>6, <1>12, <1>13, <1>16, <1>17, DraftMirrors
<1>19. Pending(wan, A, e, i)'
  <2>1. batch' = batch /\ Todo' = Todo /\ Held(A, e)' = Held(A, e)
    BY TodoStays DEF Held, AtFirst
  <2>2. PICK h : h = imp.book.claimed /\ h = Held(A, e)'
    BY <1>1, <2>1
  <2>3. ASSUME NEW j \in DOMAIN shelf' \ h, Suits(j, e)' PROVE Ranks(wan, j, e)' = {}
    <3>1. j \in DOMAIN shelf
      BY <1>12, <1>13, <2>3 DEF Suits, IsProcess
    <3>2. Suits(j, e) /\ Ranks(wan, j, e)' = Ranks(wan, j, e)
      BY <1>13, <2>1, <2>3, <3>1 DEF Suits, IsProcess, Ranks
    <3> QED
      BY <1>4, <2>2, <2>3, <3>1, <3>2 DEF NoneNamed
  <2>4. NoneNamed(wan, e, h)'
    BY <2>3 DEF NoneNamed
  <2>5. IsProcess(i)' /\ shelf'[i].status = "draft" /\ (Kinded(e) => shelf'[i].weld = e.weld)
    BY <1>9, <1>12, <1>13 DEF IsProcess
  <2>6. shelf'[i].content \in Sums(batch'.files[e.path])
    <3>1. batch.files[e.path].state = "good"
      <4>1. batch.files[e.path].state \in {"good", "unfit", "broken"}
        BY <1>1, <1>2 DEF ImportTypeOK, Files
      <4>2. e.path \in Sound
        BY <1>1, TodoPlanned
      <4> QED
        BY <1>2, <4>1, <4>2 DEF AtFirst, AtFile, Clean, Sound
    <3> QED
      BY <1>12, <1>13, <2>1, <3>1 DEF Sums
  <2>7. Ranks(wan, i, e)' # {}
    <3>1. Ranks(wan, i, e)' = RankOf(wan, p, base, want, n)
      BY <1>5, <1>12, <1>13, <2>1 DEF Ranks
    <3> QED
      BY <1>8, <3>1
  <2> QED
    BY <1>16, <2>2, <2>4, <2>5, <2>6, <2>7 DEF Pending
<1> QED
  BY <1>11, <1>14, <1>15, <1>18, <1>19, FirstDrafted DEF AtFirst, AtFile, Remembered

\* Row i is written with the content of file e, in its kind and under its own name.
WrittenFor(e, i, row) ==
  /\ Live(i) /\ i \notin imp.book.claimed /\ shelf' = [shelf EXCEPT ![i] = row]
  /\ row.kind = "process" /\ row.name = shelf[i].name /\ row.status # "disabled"
  /\ (Kinded(e) => row.weld = e.weld) /\ row.content \in Sums(batch.files[e.path])

\* The file will find it: it is named for the file, or the file goes by its name.
FindsIt(wan, A, e, i, row) ==
  \/ Ranks(wan, i, e) # {}
  \/ /\ Newest(i) /\ shelf[i].name \in Keys(wan, A, e)
     /\ batch.files[e.path].mode = "overwrite" /\ row.content = Raw(batch.files[e.path].text)

\* The files done before have their rows still.
LEMMA WrittenForGentle ==
  ASSUME NEW wan \in BOOLEAN, NEW A, NEW e, AtFirst(wan, A, e), NEW i, NEW row, WrittenFor(e, i, row),
         NEW D, D = Todo \ imp.todo
  PROVE  Gentle(A, D, wan) /\ Closed(D) /\ (\A x \in D : Live(A[x])) /\ Earlier(e) = D /\ e \in Todo
<1>1. /\ ImportTypeOK /\ e \in Todo /\ Earlier(e) = D /\ imp.book.claimed = {A[x] : x \in D}
      /\ D \subseteq Todo \ {e}
  BY AtFileIs DEF AtFirst
<1>2. Settled(wan, A, D) /\ batch' = batch /\ Clean /\ Progress(imp.todo)
  BY DEF AtFirst, AtFile, UnderWay
<1>3. \A x \in D : Live(A[x]) /\ IsProcess(A[x]) /\ A[x] # i
  <2>1. \A x \in D : Live(A[x])
    BY <1>2 DEF Settled, Stood
  <2> QED
    BY <1>1, <2>1 DEF WrittenFor, Live
<1>4. ASSUME NEW x \in D, Suits(i, x)' PROVE FALSE
  <2>1. i \in DOMAIN shelf /\ shelf'[i] = row
    BY DEF WrittenFor, Live, IsProcess
  <2>2. row.content \in Sums(batch.files[x.path]) /\ (Kinded(x) => row.weld = x.weld)
    BY <1>2, <1>4, <2>1 DEF Suits
  <2>3. PICK c, w : c = row.content /\ w = row.weld
    OBVIOUS
  <2>4. /\ c \in Sums(batch.files[e.path]) /\ (Kinded(e) => w = e.weld)
        /\ c \in Sums(batch.files[x.path]) /\ (Kinded(x) => w = x.weld)
    BY <2>2, <2>3 DEF WrittenFor
  <2>5. x \in Todo /\ x # e
    BY <1>1
  <2> QED
    BY <1>1, <1>2, <2>4, <2>5, OthersNotSuited
<1>5. Gentle(A, D, wan)
  <2>1. IsProcess(i) /\ shelf[i].status # "disabled"
    BY DEF WrittenFor, Live
  <2> QED
    BY <1>1, <1>2, <1>3, <1>4, <2>1, WrittenGentle DEF WrittenFor
<1>6. Closed(D)
  BY <1>1, <1>2, ProgressClosed
<1> QED
  BY <1>1, <1>3, <1>5, <1>6

\* In the first import the row is published, or was, and the file is taken for it.
LEMMA FirstWritten ==
  ASSUME NEW wan \in BOOLEAN, NEW A, NEW e, AtFirst(wan, A, e), NEW i, NEW row, WrittenFor(e, i, row),
         imp.draft \in {0, i}, row.status = "available", NoneNamed(wan, e, imp.book.claimed),
         FindsIt(wan, A, e, i, row), Stands(e, i, row, IndexWeld(e, row), FALSE)
  PROVE  Remembered(wan)
<1>0. PICK D : D = Todo \ imp.todo
  OBVIOUS
<1>1. /\ ImportTypeOK /\ BookFits /\ DOMAIN imp = ImportFields /\ Mirrors(imp.book)
      /\ Held(A, e) = imp.book.claimed
  BY AtFileIs DEF AtFirst
<1>2. /\ Gentle(A, D, wan) /\ Closed(D) /\ \A x \in D : Live(A[x])
      /\ Earlier(e) = D /\ e \in Todo
  BY <1>0, WrittenForGentle
<1>3. PICK weld, h : weld = IndexWeld(e, row) /\ h = imp.book.claimed
  OBVIOUS
<1>4. Moved(e, i, row, weld, FALSE)
  <2>1. PICK kept \in BOOLEAN : kept = FALSE
    OBVIOUS
  <2>2. Moved(e, i, row, weld, kept)
    BY <1>1, <1>3, <2>1, StandsMoves
  <2> QED
    BY <2>1, <2>2
<1>5. imp'.book = Claim(imp.book, i, row) /\ imp'.draft = 0
  BY <1>4 DEF Moved
<1>6. /\ Live(i) /\ IsProcess(i) /\ i \in DOMAIN shelf /\ i \in Nat /\ i \notin h /\ batch' = batch
      /\ DOMAIN shelf' = DOMAIN shelf /\ shelf'[i] = row
      /\ \A j \in DOMAIN shelf : j # i => shelf'[j] = shelf[j]
  <2>1. Live(i) /\ IsProcess(i) /\ i \in DOMAIN shelf /\ shelf' = [shelf EXCEPT ![i] = row] /\ i \notin h
    BY <1>3 DEF WrittenFor, Live, IsProcess
  <2>2. i \in Nat /\ batch' = batch
    BY <1>1, <2>1, RowsNumbered DEF AtFirst
  <2> QED
    BY <2>1, <2>2
<1>7. Mirrors(imp.book)'
  BY <1>1, <1>5, <1>6, ClaimMirrors DEF WrittenFor
<1>8. IF Ranks(wan, i, e) = {} THEN NoneNamed(wan, e, h)' ELSE Best(wan, i, e, h)'
  <2>1. /\ ImportTypeOK /\ e \in Todo /\ NoneNamed(wan, e, h) /\ IsProcess(i) /\ i \notin h
        /\ shelf' = [shelf EXCEPT ![i] = row] /\ batch' = batch
        /\ row.kind = "process" /\ row.name = shelf[i].name /\ row.status = "available"
        /\ row.content \in Sums(batch.files[e.path]) /\ (Kinded(e) => row.weld = e.weld)
    BY <1>1, <1>2, <1>3, <1>6 DEF WrittenFor
  <2> QED
    BY <2>1, WrittenIsFound
<1>9. Live(i)' /\ (Kinded(e) => shelf'[i].weld = e.weld)
  BY <1>6 DEF WrittenFor, Live, IsProcess
<1>10. Found(wan, A, e, i, h)'
  <2>1. CASE Ranks(wan, i, e) # {}
    BY <1>8, <1>9, <2>1 DEF Found
  <2>2. CASE /\ Ranks(wan, i, e) = {} /\ Newest(i) /\ shelf[i].name \in Keys(wan, A, e)
             /\ batch.files[e.path].mode = "overwrite"
             /\ row.content = Raw(batch.files[e.path].text)
    <3>1. Newest(i)'
      BY <1>2, <1>6, <2>2, NewestStays
    <3>2. PICK k \in Keys(wan, A, e) : k = shelf[i].name
      BY <2>2
    <3>3. k \in Keys(wan, A, e)'
      BY <1>1, <1>2, <3>2, KeysStay
    <3>4. shelf'[i].name \in Keys(wan, A, e)'
      BY <1>6, <3>2, <3>3 DEF WrittenFor
    <3>5. /\ batch'.files[e.path].mode = "overwrite" /\ shelf'[i].status = "available"
          /\ shelf'[i].content = Raw(batch'.files[e.path].text)
      BY <1>6, <2>2
    <3>6. NoneNamed(wan, e, h)'
      BY <1>8, <2>2
    <3>7. batch'.files[e.path].mode # "rename"
      BY <3>5
    <3> QED
      BY <1>9, <3>1, <3>4, <3>5, <3>6, <3>7 DEF Found
  <2> QED
    BY <2>1, <2>2 DEF FindsIt
<1>11. Gentle(A, Todo \ imp.todo, wan)
  BY <1>0, <1>2
<1>12. PICK kept \in BOOLEAN : Moved(e, i, row, weld, kept)
  BY <1>4
<1>13. /\ ImportInv /\ imports = 1 /\ imports' = 1 /\ imp.at = "files" /\ e \in Upcoming(imp.todo)
       /\ A \in [Todo -> Nat] /\ Settled(wan, A, Todo \ imp.todo) /\ UnderWay(wan, A)
       /\ h = imp.book.claimed /\ i \in Nat /\ i \notin imp.book.claimed
  BY <1>3, <1>6 DEF AtFirst, AtFile
<1>14. \E B \in [Todo' -> Nat] : Settled(wan, B, Finished)' /\ UnderWay(wan, B)'
  BY <1>7, <1>10, <1>11, <1>12, <1>13, FirstTaken
<1> QED
  BY <1>14 DEF Remembered

\* In the first import a draft is written, and is published next.
LEMMA FirstWrittenDraft ==
  ASSUME NEW wan \in BOOLEAN, NEW A, NEW e, AtFirst(wan, A, e), imp.draft = 0,
         NEW i, NEW row, WrittenFor(e, i, row), row.status = "draft", shelf[i].status = "draft",
         NoneNamed(wan, e, imp.book.claimed), Newest(i), shelf[i].name \in Keys(wan, A, e),
         batch.files[e.path].mode = "overwrite", row.content = Raw(batch.files[e.path].text),
         imp' = [imp EXCEPT !.draft = i]
  PROVE  Remembered(wan)
<1>0. PICK D : D = Todo \ imp.todo
  OBVIOUS
<1>1. /\ ImportTypeOK /\ BookFits /\ DOMAIN imp = ImportFields /\ Mirrored
      /\ Held(A, e) = imp.book.claimed
  BY AtFileIs DEF AtFirst
<1>2. /\ Gentle(A, D, wan) /\ Closed(D) /\ \A x \in D : Live(A[x])
      /\ Earlier(e) = D /\ e \in Todo
  BY <1>0, WrittenForGentle
<1>3. /\ Live(i) /\ IsProcess(i) /\ i \in DOMAIN shelf /\ batch' = batch /\ i \notin imp.book.claimed
      /\ DOMAIN shelf' = DOMAIN shelf /\ shelf'[i] = row
      /\ \A j \in DOMAIN shelf : j # i => shelf'[j] = shelf[j]
  <2>1. Live(i) /\ IsProcess(i) /\ i \in DOMAIN shelf /\ shelf' = [shelf EXCEPT ![i] = row]
        /\ i \notin imp.book.claimed
    BY DEF WrittenFor, Live, IsProcess
  <2> QED
    BY <2>1 DEF AtFirst
<1>4. imp'.draft = i /\ imp'.book = imp.book
  BY <1>1 DEF ImportFields
<1>5. Mirrors(imp.book)'
  <2>1. /\ DOMAIN shelf' = DOMAIN shelf \cup {i} /\ shelf'[i].kind = shelf[i].kind
        /\ shelf'[i].name = shelf[i].name /\ shelf'[i].status = shelf[i].status
    BY <1>3 DEF WrittenFor, IsProcess
  <2> QED
    BY <1>1, <1>3, <1>4, <2>1, DraftMirrors
<1>6. Pending(wan, A, e, i)'
  <2>1. Held(A, e)' = Held(A, e)
    BY <1>3, TodoStays DEF Held
  <2>2. PICK h : h = imp.book.claimed /\ h = Held(A, e)'
    BY <1>1, <2>1
  <2>3. ASSUME NEW j \in DOMAIN shelf' \ h, Suits(j, e)' PROVE Ranks(wan, j, e)' = {}
    <3>1. j # i /\ j \in DOMAIN shelf
      BY <1>3, <2>3 DEF Suits
    <3>2. Suits(j, e) /\ Ranks(wan, j, e)' = Ranks(wan, j, e)
      BY <1>3, <2>3, <3>1 DEF Suits, IsProcess, Ranks
    <3> QED
      BY <2>2, <2>3, <3>1, <3>2 DEF NoneNamed
  <2>4. NoneNamed(wan, e, h)'
    BY <2>3 DEF NoneNamed
  <2>5. /\ IsProcess(i)' /\ shelf'[i].status = "draft" /\ (Kinded(e) => shelf'[i].weld = e.weld)
        /\ shelf'[i].content \in Sums(batch'.files[e.path])
    BY <1>3 DEF WrittenFor, IsProcess
  <2>6. Newest(i)'
    BY <1>2, <1>3, NewestStays
  <2>7. PICK k \in Keys(wan, A, e) : k = shelf[i].name
    OBVIOUS
  <2>8. k \in Keys(wan, A, e)'
    BY <1>1, <1>2, <2>7, KeysStay
  <2>9. shelf'[i].name \in Keys(wan, A, e)'
    BY <1>3, <2>7, <2>8 DEF WrittenFor
  <2>10. batch'.files[e.path].mode = "overwrite" /\ shelf'[i].content = Raw(batch'.files[e.path].text)
    BY <1>3
  <2> QED
    BY <1>3, <2>2, <2>4, <2>5, <2>6, <2>9, <2>10 DEF Pending
<1>7. Gentle(A, Todo \ imp.todo, wan)
  BY <1>0, <1>2
<1> QED
  BY <1>5, <1>6, <1>7, FirstDrafted DEF AtFirst, AtFile, Remembered

\* In the first import a process of the name is written over, ...
LEMMA FirstOverwrites ==
  ASSUME NEW wan \in BOOLEAN, NEW A, NEW e, AtFirst(wan, A, e), imp.draft = 0, Overwrites(wan, e)
  PROVE  Remembered(wan) /\ made' = made
<1>1. /\ ImportTypeOK /\ Mirrored /\ e \in Todo /\ Held(A, e) = imp.book.claimed
  BY AtFileIs DEF AtFirst
<1>2. PICK k \in KeysNow(wan, e) : ~OtherKind(e, RowNamed(k)) /\ OverwriteProcess(e, RowNamed(k))
  BY DEF Overwrites
<1>3. PICK i : i = RowNamed(k)
  OBVIOUS
<1>4. /\ Live(i) /\ shelf[i].name = k /\ Newest(i) /\ i \notin imp.book.claimed
      /\ i \in DOMAIN shelf /\ imp.book.rows[i] = shelf[i]
  BY <1>1, <1>3, KeyRow
<1>5. NoneNamed(wan, e, imp.book.claimed) /\ k \in Keys(wan, A, e)
  BY <1>1, SameIsBest, KeysNowAre DEF Overwrites
<1>6. batch.files[e.path].mode = "overwrite"
  BY DEF Overwrites
<1>7. PICK row : row = [shelf[i] EXCEPT !.content = Raw(batch.files[e.path].text), !.rev = @ + 1]
  OBVIOUS
<1>8. /\ shelf' = [shelf EXCEPT ![i] = row] /\ made' = made
      /\ IF row.status = "draft" THEN imp' = [imp EXCEPT !.draft = i]
         ELSE Stands(e, i, row, IndexWeld(e, row), FALSE)
  <2>1. shelf[i].rev = imp.book.rows[i].rev /\ shelf[i].status # "disabled"
    BY <1>4 DEF Live
  <2>2. OverwriteProcess(e, i)
    BY <1>2, <1>3
  <2> QED
    BY <1>7, <2>1, <2>2 DEF OverwriteProcess
<1>9. shelf[i] \in AssetRow /\ shelf[i].kind = "process" /\ shelf[i].status \in {"draft", "available"}
  <2>1. shelf[i] \in AssetRow
    BY <1>1, <1>4, RowsNumbered
  <2> QED
    BY <1>4, <2>1 DEF AssetRow, Live, IsProcess
<1>10. /\ row.kind = "process" /\ row.name = shelf[i].name /\ row.weld = shelf[i].weld
       /\ row.status = shelf[i].status /\ row.content = Raw(batch.files[e.path].text)
  BY <1>7, <1>9 DEF AssetRow
<1>11. WrittenFor(e, i, row)
  <2>1. Kinded(e) => row.weld = e.weld
    BY <1>2, <1>3, <1>4, <1>10 DEF OtherKind
  <2>2. row.content \in Sums(batch.files[e.path])
    BY <1>10 DEF Sums
  <2> QED
    BY <1>4, <1>8, <1>9, <1>10, <2>1, <2>2 DEF WrittenFor
<1>12. CASE row.status = "draft"
  BY <1>4, <1>5, <1>6, <1>8, <1>10, <1>11, <1>12, FirstWrittenDraft
<1>13. CASE row.status = "available"
  BY <1>4, <1>5, <1>6, <1>8, <1>10, <1>11, <1>13, FirstWritten DEF FindsIt
<1> QED
  BY <1>8, <1>9, <1>10, <1>12, <1>13

\* A says for which rows the files stand that have been done.
Standing(wan, A) ==
  /\ ImportInv /\ Clean /\ A \in [Todo -> Nat] /\ Settled(wan, A, Finished)
  /\ (imp.at = "files" => UnderWay(wan, A))

\* The draft is published, and the file it is of is taken for it.
LEMMA FirstPublishes ==
  ASSUME NEW wan \in BOOLEAN, NEW A, Standing(wan, A), PublishImported
  PROVE  Remembered(wan) /\ imp'.at = "files"
<1>1. /\ imp.at = "files" /\ imp.draft # 0 /\ ImportInv /\ ImportTypeOK /\ TodoFits /\ UnderWay(wan, A)
      /\ imp.todo \in SUBSET Tasks /\ foreign = {} /\ batch' = batch /\ imports' = imports
  BY DEF PublishImported, Standing, ImportInv, ImportTypeOK, Clean
<1> DEFINE i == imp.draft
           row == [shelf[i] EXCEPT !.status = "available", !.rev = @ + 1]
<1>2. PICK e \in Upcoming(imp.todo) :
        IF i \in foreign \/ shelf[i].status # "draft"
        THEN Rejected(e) /\ UNCHANGED shelf
        ELSE /\ shelf' = [shelf EXCEPT ![i] = row]
             /\ Stands(e, i, row, IndexWeld(e, row), FALSE)
  BY DEF PublishImported
<1>3. imports = 1 /\ Pending(wan, A, e, i)
  <2>1. PICK x \in Upcoming(imp.todo) : imports = 1 /\ Pending(wan, A, x, imp.draft)
    BY <1>1 DEF UnderWay
  <2>2. e = x
    BY <1>1, <2>1, UpcomingOne DEF TodoFits
  <2> QED
    BY <2>1, <2>2
<1>4. /\ i \notin Held(A, e) /\ NoneNamed(wan, e, Held(A, e))
      /\ IsProcess(i) /\ shelf[i].status = "draft" /\ (Kinded(e) => shelf[i].weld = e.weld)
      /\ shelf[i].content \in Sums(batch.files[e.path])
      /\ \/ Ranks(wan, i, e) # {}
         \/ /\ Newest(i) /\ shelf[i].name \in Keys(wan, A, e)
            /\ batch.files[e.path].mode = "overwrite"
            /\ shelf[i].content = Raw(batch.files[e.path].text)
  BY <1>3 DEF Pending
<1>5. shelf' = [shelf EXCEPT ![i] = row] /\ Stands(e, i, row, IndexWeld(e, row), FALSE)
  BY <1>1, <1>2, <1>4
<1>6. AtFirst(wan, A, e)
  <2>1. Finished = Todo \ imp.todo
    BY <1>1, <1>3 DEF Finished
  <2>2. Settled(wan, A, Todo \ imp.todo)
    BY <2>1 DEF Standing, Settled
  <2> QED
    BY <1>1, <1>2, <1>3, <2>2 DEF AtFirst, AtFile, Standing
<1>7. Held(A, e) = imp.book.claimed /\ DOMAIN imp = ImportFields
  BY <1>6, AtFileIs DEF AtFirst
<1>8. shelf[i] \in AssetRow /\ shelf[i].kind = "process"
  BY <1>1, <1>4, RowsNumbered DEF IsProcess
<1>9. /\ row.kind = "process" /\ row.name = shelf[i].name /\ row.weld = shelf[i].weld
      /\ row.status = "available" /\ row.content = shelf[i].content
  BY <1>8 DEF AssetRow
<1> HIDE DEF row
<1>10. PICK j, r : j = i /\ r = row
  OBVIOUS
<1>11. WrittenFor(e, j, r)
  BY <1>4, <1>5, <1>7, <1>8, <1>9, <1>10 DEF WrittenFor, Live
<1>12. NoneNamed(wan, e, imp.book.claimed) /\ FindsIt(wan, A, e, j, r)
  BY <1>4, <1>7, <1>9, <1>10 DEF FindsIt
<1>13. imp.draft \in {0, j} /\ r.status = "available" /\ Stands(e, j, r, IndexWeld(e, r), FALSE)
  BY <1>5, <1>9, <1>10
<1>14. Remembered(wan)
  BY <1>6, <1>11, <1>12, <1>13, FirstWritten
<1>15. imp'.at = "files"
  BY <1>1, <1>5, <1>7 DEF Stands, ImportFields
<1> QED
  BY <1>14, <1>15

-----------------------------------------------------------------------------
(* A repeated import                                                       *)

\* The same in an import that is repeated: all files stand for rows.
AtAgain(wan, A, e) ==
  /\ AtFile(wan, A, e) /\ imports \in Nat /\ imports > 1 /\ imports' = imports /\ batch' = batch
  /\ imp.draft = 0 /\ Settled(wan, A, Todo)

\* The file has its row, which no path of the batch has yet.
LEMMA AgainRow ==
  ASSUME NEW wan \in BOOLEAN, NEW A, NEW e, AtAgain(wan, A, e), NEW i, i = A[e]
  PROVE  /\ Live(i) /\ IsProcess(i) /\ i \in DOMAIN shelf /\ (Kinded(e) => shelf[i].weld = e.weld)
         /\ i \notin imp.book.claimed /\ i \in DOMAIN imp.book.rows /\ imp.book.rows[i] = shelf[i]
         /\ Best(wan, i, e, imp.book.claimed) \/ ByName(wan, A, e)
         /\ ByName(wan, A, e) =>
              /\ NoneNamed(wan, e, imp.book.claimed) /\ Newest(i) /\ shelf[i].name \in KeysNow(wan, e)
<1>1. /\ Mirrored /\ e \in Todo /\ Held(A, e) = imp.book.claimed
      /\ imp.book.claimed = {A[x] : x \in Todo \ imp.todo} /\ Todo \ imp.todo \subseteq Todo \ {e}
  BY AtFileIs DEF AtAgain
<1>2. Stood(wan, A, e) /\ \A x \in Todo : A[e] = A[x] => e = x
  BY <1>1 DEF AtAgain, Settled
<1>3. Live(i) /\ IsProcess(i) /\ i \in DOMAIN shelf /\ (Kinded(e) => shelf[i].weld = e.weld)
  BY <1>2 DEF Stood, Live, IsProcess
<1>4. i \notin imp.book.claimed
  BY <1>1, <1>2
<1>5. i \in DOMAIN imp.book.rows /\ imp.book.rows[i] = shelf[i]
  BY <1>1, <1>3, <1>4, MirroredIs
<1>6. Best(wan, i, e, imp.book.claimed) \/ ByName(wan, A, e)
  BY <1>1, <1>2 DEF Stood
<1>7. KeysNow(wan, e) = Keys(wan, A, e)
  BY <1>1, KeysNowAre
<1>8. ByName(wan, A, e) =>
        NoneNamed(wan, e, imp.book.claimed) /\ Newest(i) /\ shelf[i].name \in KeysNow(wan, e)
  BY <1>1, <1>7 DEF ByName
<1> QED
  BY <1>3, <1>4, <1>5, <1>6, <1>8

\* The file is taken for its row, and all files stand for theirs.
LEMMA AgainTaken ==
  ASSUME NEW wan \in BOOLEAN, NEW A, NEW e, AtAgain(wan, A, e), NEW i, i = A[e],
         NEW row, NEW kept \in BOOLEAN, Stands(e, i, row, IndexWeld(e, row), kept),
         Gentle(A, Todo, wan), row.kind = "process", row.name = shelf[i].name, row.status # "disabled",
         DOMAIN shelf' = DOMAIN shelf, shelf'[i] = row,
         \A j \in DOMAIN shelf : j # i => shelf'[j] = shelf[j]
  PROVE  Remembered(wan)
<1>1. /\ ImportTypeOK /\ BookFits /\ DOMAIN imp = ImportFields /\ Mirrors(imp.book) /\ e \in Todo
  BY AtFileIs DEF AtAgain
<1>2. /\ imp.at = "files" /\ e \in Upcoming(imp.todo) /\ A \in [Todo -> Nat] /\ UnderWay(wan, A)
      /\ Settled(wan, A, Todo) /\ batch' = batch /\ imports' = imports /\ imports > 1 /\ imports \in Nat
      /\ imp.draft = 0
  BY DEF AtAgain, AtFile
<1>3. PICK weld : weld = IndexWeld(e, row)
  OBVIOUS
<1>4. Moved(e, i, row, weld, kept)
  BY <1>1, <1>3, StandsMoves
<1>5. imp'.book = Claim(imp.book, i, row) /\ imp'.draft = 0 /\ imp'.at = "files"
  BY <1>2, <1>4 DEF Moved
<1>6. Mirrors(imp.book)'
  <2>1. Live(i)
    BY AgainRow
  <2> QED
    BY <1>1, <1>2, <1>5, <2>1, ClaimMirrors
<1>7. UnderWay(wan, A)'
  <2>1. A[e] = i /\ \A x \in Todo \ imp.todo : A[x] = A[x]
    OBVIOUS
  <2> QED
    BY <1>1, <1>2, <1>4, <1>6, <2>1, UnderWayMoves
<1>8. PICK D : D = Todo
  OBVIOUS
<1>9. Closed(D)
  BY <1>8 DEF Closed, Earlier
<1>10. Settled(wan, A, D)'
  <2>1. Settled(wan, A, D) /\ Gentle(A, D, wan)
    BY <1>2, <1>8
  <2> QED
    BY <1>1, <1>9, <2>1, SettledStays
<1>11. Todo' = Todo
  BY <1>2, TodoStays
<1>12. Finished' = D
  BY <1>2, <1>8, <1>11 DEF Finished
<1>13. Settled(wan, A, Finished)'
  BY <1>10, <1>12 DEF Settled
<1> QED
  BY <1>2, <1>7, <1>11, <1>13 DEF Remembered

\* It is taken for it as it is.
LEMMA AgainAsItIs ==
  ASSUME NEW wan \in BOOLEAN, NEW A, NEW e, AtAgain(wan, A, e), NEW i, i = A[e], shelf' = shelf,
         NEW kept \in BOOLEAN, Stands(e, i, imp.book.rows[i], IndexWeld(e, imp.book.rows[i]), kept)
  PROVE  Remembered(wan)
<1>1. Live(i) /\ imp.book.rows[i] = shelf[i]
  BY AgainRow
<1>2. PICK row : row = imp.book.rows[i]
  OBVIOUS
<1>3. /\ row.kind = "process" /\ row.name = shelf[i].name /\ row.status # "disabled"
      /\ DOMAIN shelf' = DOMAIN shelf /\ shelf'[i] = row
      /\ \A j \in DOMAIN shelf : j # i => shelf'[j] = shelf[j]
  BY <1>1, <1>2 DEF Live, IsProcess
<1>4. Gentle(A, Todo, wan)
  <2>1. batch' = batch
    BY DEF AtAgain
  <2>2. PICK D : D = Todo
    OBVIOUS
  <2>3. Gentle(A, D, wan)
    BY <2>1, StillGentle
  <2> QED
    BY <2>2, <2>3
<1>5. Stands(e, i, row, IndexWeld(e, row), kept)
  BY <1>2
<1> QED
  BY <1>3, <1>4, <1>5, AgainTaken

\* Its content finds it, ...
LEMMA AgainSame ==
  ASSUME NEW wan \in BOOLEAN, NEW A, NEW e, AtAgain(wan, A, e), TakesSame(wan, e)
  PROVE  Remembered(wan)
<1>1. Mirrored /\ e \in Todo /\ ImportTypeOK
  BY AtFileIs DEF AtAgain
<1>2. PICK i \in SameFor(wan, e) :
        Stands(e, i, imp.book.rows[i], IndexWeld(e, imp.book.rows[i]), FALSE) /\ shelf' = shelf
  BY DEF TakesSame
<1>3. Best(wan, i, e, imp.book.claimed)
  BY <1>1, SameIsBest
<1>4. PICK a, h : a = A[e] /\ h = imp.book.claimed
  OBVIOUS
<1>5. Best(wan, a, e, h) \/ NoneNamed(wan, e, h)
  BY <1>4, AgainRow
<1>6. ~NoneNamed(wan, e, h)
  <2>1. i \in DOMAIN shelf \ h /\ Suits(i, e) /\ Ranks(wan, i, e) # {}
    BY <1>3, <1>4 DEF Best, Suits, IsProcess
  <2> QED
    BY <2>1 DEF NoneNamed
<1>7. i = a
  <2>1. Best(wan, a, e, h) /\ Best(wan, i, e, h)
    BY <1>3, <1>4, <1>5, <1>6
  <2> QED
    BY <1>1, <2>1, BestOne
<1>8. PICK kept \in BOOLEAN : kept = FALSE
  OBVIOUS
<1> QED
  BY <1>2, <1>4, <1>7, <1>8, AgainAsItIs

\* ... else its name does, ...
LEMMA AgainNamed ==
  ASSUME NEW wan \in BOOLEAN, NEW A, NEW e, AtAgain(wan, A, e), SameFor(wan, e) = {}
  PROVE  /\ ByName(wan, A, e) /\ shelf[A[e]].name \in KeysNow(wan, e)
         /\ \A k \in KeysNow(wan, e) : RowNamed(k) = A[e]
<1>1. Mirrored /\ e \in Todo /\ ImportTypeOK
  BY AtFileIs DEF AtAgain
<1>2. PICK a, h : a = A[e] /\ h = imp.book.claimed
  OBVIOUS
<1>3. /\ Live(a) /\ a \in DOMAIN shelf
      /\ Best(wan, a, e, h) \/ ByName(wan, A, e)
      /\ ByName(wan, A, e) => Newest(a) /\ shelf[a].name \in KeysNow(wan, e)
  BY <1>2, AgainRow
<1>4. NoneNamed(wan, e, h)
  BY <1>1, <1>2, SameIsBest
<1>5. ~Best(wan, a, e, h)
  BY <1>3, <1>4 DEF Best, NoneNamed
<1>6. ByName(wan, A, e) /\ Newest(a) /\ shelf[a].name \in KeysNow(wan, e)
  BY <1>3, <1>5
<1>7. ASSUME NEW k \in KeysNow(wan, e) PROVE RowNamed(k) = a
  <2>1. PICK i : i = RowNamed(k)
    OBVIOUS
  <2>2. Live(i) /\ shelf[i].name = k /\ Newest(i)
    BY <1>1, <2>1, KeyRow
  <2>3. k = shelf[a].name
    <3>1. PICK l \in KeysNow(wan, e) : l = shelf[a].name
      BY <1>6
    <3>2. /\ e.path \in Stems /\ batch.files[e.path].base \in Stems
          /\ e.weld \in MaybeKinds /\ e.suffix \in {<<>>, Suffix(e.weld)}
      BY <1>1, TaskIs
    <3>3. k = l
      BY <3>2, OneKey DEF KeysNow
    <3> QED
      BY <3>1, <3>3
  <2>4. i = a
    BY <1>1, <1>3, <1>6, <2>2, <2>3, NewestOne
  <2> QED
    BY <2>1, <2>4
<1> QED
  BY <1>2, <1>6, <1>7

\* ... and none is made.
LEMMA AgainMakesNone ==
  ASSUME NEW wan \in BOOLEAN, NEW A, NEW e, AtAgain(wan, A, e), MakesNew(wan, e)
  PROVE  FALSE
<1>1. PICK k : k = shelf[A[e]].name
  OBVIOUS
<1>2. ByName(wan, A, e) /\ k \in KeysNow(wan, e) /\ RowNamed(k) = A[e]
  BY <1>1, AgainNamed DEF MakesNew
<1>3. OtherKind(e, A[e]) \/ batch.files[e.path].mode = "rename"
  BY <1>2 DEF MakesNew
<1>4. PICK i : i = A[e]
  OBVIOUS
<1>5. imp.book.rows[i] = shelf[i] /\ (Kinded(e) => shelf[i].weld = e.weld)
  BY <1>4, AgainRow
<1>6. ~OtherKind(e, A[e])
  BY <1>4, <1>5 DEF OtherKind
<1> QED
  BY <1>2, <1>3, <1>6 DEF ByName

\* It is kept, ...
LEMMA AgainKeeps ==
  ASSUME NEW wan \in BOOLEAN, NEW A, NEW e, AtAgain(wan, A, e), Keeps(wan, e)
  PROVE  Remembered(wan)
<1>1. PICK k \in KeysNow(wan, e) :
        Stands(e, RowNamed(k), imp.book.rows[RowNamed(k)], IndexWeld(e, imp.book.rows[RowNamed(k)]), TRUE)
  BY DEF Keeps
<1>2. RowNamed(k) = A[e]
  BY AgainNamed DEF Keeps
<1>3. PICK i, kept : i = A[e] /\ kept = TRUE /\ kept \in BOOLEAN
  OBVIOUS
<1>4. shelf' = shelf
  BY DEF Keeps
<1> QED
  BY <1>1, <1>2, <1>3, <1>4, AgainAsItIs

\* ... or written over with what it has.
LEMMA AgainOverwrites ==
  ASSUME NEW wan \in BOOLEAN, NEW A, NEW e, AtAgain(wan, A, e), Overwrites(wan, e)
  PROVE  Remembered(wan) /\ made' = made
<1>1. ImportTypeOK /\ e \in Todo
  BY AtFileIs DEF AtAgain
<1>2. PICK k \in KeysNow(wan, e) : OverwriteProcess(e, RowNamed(k))
  BY DEF Overwrites
<1>3. PICK i : i = A[e]
  OBVIOUS
<1>4. ByName(wan, A, e) /\ RowNamed(k) = i
  BY <1>3, AgainNamed DEF Overwrites
<1>5. /\ Live(i) /\ IsProcess(i) /\ i \in DOMAIN shelf /\ imp.book.rows[i] = shelf[i]
  BY <1>3, AgainRow
<1>6. shelf[i].status = "available" /\ shelf[i].content = Raw(batch.files[e.path].text)
  BY <1>3, <1>4 DEF ByName, Overwrites
<1>7. PICK row : row = [shelf[i] EXCEPT !.content = Raw(batch.files[e.path].text), !.rev = @ + 1]
  OBVIOUS
<1>8. shelf[i] \in AssetRow
  BY <1>1, <1>5, RowsNumbered
<1>9. /\ row.kind = "process" /\ row.name = shelf[i].name /\ row.weld = shelf[i].weld
      /\ row.status = shelf[i].status /\ row.content = shelf[i].content
  BY <1>5, <1>6, <1>7, <1>8 DEF AssetRow, IsProcess
<1>10. /\ shelf' = [shelf EXCEPT ![i] = row] /\ made' = made
       /\ Stands(e, i, row, IndexWeld(e, row), FALSE)
  <2>1. OverwriteProcess(e, i)
    BY <1>2, <1>4
  <2>2. ~(shelf[i].rev # imp.book.rows[i].rev \/ shelf[i].status = "disabled") /\ row.status # "draft"
    BY <1>5, <1>6, <1>9
  <2> QED
    BY <1>7, <2>1, <2>2 DEF OverwriteProcess
<1>11. batch' = batch /\ Settled(wan, A, Todo)
  BY DEF AtAgain
<1>12. /\ DOMAIN shelf' = DOMAIN shelf /\ shelf'[i] = row
       /\ \A j \in DOMAIN shelf : j # i => shelf'[j] = shelf[j]
  BY <1>5, <1>10
<1>13. Gentle(A, Todo, wan)
  <2>1. PICK D : D = Todo
    OBVIOUS
  <2>2. \A x \in D : IsProcess(A[x])
    BY <1>11, <2>1 DEF Settled, Stood, Live
  <2>3. \A x \in D : Suits(i, x)' => Suits(i, x)
    BY <1>5, <1>9, <1>11, <1>12 DEF Suits, IsProcess
  <2>4. Gentle(A, D, wan)
    BY <1>1, <1>5, <1>9, <1>10, <1>11, <2>2, <2>3, WrittenGentle
  <2> QED
    BY <2>1, <2>4
<1>14. Remembered(wan)
  <2>1. row.kind = "process" /\ row.name = shelf[i].name /\ row.status # "disabled"
    BY <1>6, <1>9
  <2>2. PICK kept \in BOOLEAN : kept = FALSE
    OBVIOUS
  <2>3. Stands(e, i, row, IndexWeld(e, row), kept)
    BY <1>10, <2>2
  <2> QED
    BY <1>3, <1>12, <1>13, <2>1, <2>3, AgainTaken
<1> QED
  BY <1>10, <1>14

-----------------------------------------------------------------------------
(* Both imports                                                            *)

\* Whatever becomes of the file that comes next: the files stand for rows, and an import
\* that is repeated makes none.
LEMMA FileRemembered ==
  ASSUME NEW wan \in BOOLEAN, NEW A, Standing(wan, A), imports \in Nat, imports # 0,
         imp.at = "files", imp.draft = 0, NEW e \in Upcoming(imp.todo), Ruled(wan, e),
         batch' = batch, imports' = imports
  PROVE  Remembered(wan) /\ made' = made
<1>1. AtFile(wan, A, e)
  BY DEF Standing, AtFile
<1>2. \/ TakesSame(wan, e) /\ made' = made
      \/ MakesNew(wan, e) \/ Overwrites(wan, e)
      \/ Keeps(wan, e) /\ made' = made
  BY DEF Ruled, TakesSame, Keeps
<1>3. CASE imports = 1
  <2>1. Finished = Todo \ imp.todo
    BY <1>3 DEF Finished
  <2>2. AtFirst(wan, A, e)
    <3>1. Settled(wan, A, Todo \ imp.todo)
      BY <2>1 DEF Standing, Settled
    <3> QED
      BY <1>1, <1>3, <3>1 DEF AtFirst
  <2> QED
    BY <1>2, <2>2, FirstSame, FirstMakes, FirstOverwrites, FirstKeeps
<1>4. CASE imports > 1
  <2>1. Finished = Todo
    BY <1>4 DEF Finished
  <2>2. AtAgain(wan, A, e)
    <3>1. Settled(wan, A, Todo)
      BY <2>1 DEF Standing, Settled
    <3> QED
      BY <1>1, <1>4, <3>1 DEF AtAgain
  <2> QED
    BY <1>2, <2>2, AgainSame, AgainMakesNone, AgainOverwrites, AgainKeeps
<1> QED
  BY <1>3, <1>4

\* No process of the library changes, and what is new is a project.
ProjectsOnly ==
  /\ batch' = batch /\ DOMAIN shelf \subseteq DOMAIN shelf'
  /\ \A j \in DOMAIN shelf : shelf'[j].kind = shelf[j].kind /\ (IsProcess(j) => shelf'[j] = shelf[j])
  /\ \A j \in DOMAIN shelf' \ DOMAIN shelf : shelf'[j].kind = "project"

\* The files stand for their rows then.
LEMMA ProjectsGentle ==
  ASSUME ProjectsOnly, NEW wan, NEW A, NEW D, \A x \in D : IsProcess(A[x])
  PROVE  Gentle(A, D, wan)
<1>1. \A j : IsProcess(j)' => j \in DOMAIN shelf /\ IsProcess(j) /\ shelf'[j] = shelf[j]
  BY DEF ProjectsOnly, IsProcess
<1>2. \A j : IsProcess(j) => j \in DOMAIN shelf /\ shelf'[j] = shelf[j]
  BY DEF ProjectsOnly, IsProcess
<1>3. \A x \in D : \A j : Suits(j, x)' => j \in DOMAIN shelf /\ Suits(j, x)
  BY <1>1 DEF Suits, ProjectsOnly
<1> QED
  BY <1>1, <1>2, <1>3 DEF Gentle, ProjectsOnly

\* A project is inserted.
LEMMA ProjectInserted ==
  ASSUME ImportInv, imp.at = "projects", NEW j \in DOMAIN batch.projects, NEW n \in Seq(Pieces),
         NEW row, row = ProjectRow(n, batch.projects[j], "available", 2),
         shelf' = Append(shelf, row), batch' = batch
  PROVE  ProjectsOnly
<1>1. row \in AssetRow /\ row.kind = "project"
  BY ProjectRowFits
<1>2. ImportTypeOK
  BY DEF ImportInv
<1>3. PICK i : i = Len(shelf) + 1
  OBVIOUS
<1>4. Alone(i) /\ shelf'[i] = row /\ i \notin DOMAIN shelf
  BY <1>1, <1>2, <1>3, AppendAlone
<1> QED
  BY <1>1, <1>4 DEF Alone, ProjectsOnly

\* A project is written in its place.
LEMMA ProjectReplaced ==
  ASSUME NEW i \in DOMAIN shelf, shelf[i].kind = "project", NEW row, row.kind = "project",
         shelf' = [shelf EXCEPT ![i] = row], batch' = batch
  PROVE  ProjectsOnly
BY DEF ProjectsOnly, IsProcess

\* The library is as it was.
LEMMA ProjectsAsTheyAre ==
  ASSUME shelf' = shelf, batch' = batch
  PROVE  ProjectsOnly
BY DEF ProjectsOnly, IsProcess

\* A factory's import of projects leaves the processes alone, ...
LEMMA ProjectLeaves ==
  ASSUME ImportInv, ImportProject
  PROVE  ProjectsOnly /\ imp.at = "projects" /\ imp'.at = "projects" /\ UNCHANGED <<batch, foreign, made, imports>>
<1>1. imp.at = "projects" /\ imp.next <= Len(batch.projects) /\ UNCHANGED <<batch, foreign, made, imports>>
  BY DEF ImportProject
<1>2. imp.next \in DOMAIN batch.projects /\ ImportTypeOK /\ BookFits /\ DOMAIN imp = ImportFields
  BY <1>1, NextIsAProject DEF ImportInv, ImportTypeOK
<1> DEFINE j == imp.next
           q == batch.projects[imp.next]
           b == imp.book
           label == PathLabel(q.path, <<>>)
           n0 == Name(q.base, <<>>)
           busy == Taken(b, "project")
           own == IF n0 \in busy THEN Elsewhere(n0, label, busy) ELSE {n0}
           Insert(n) ==
             LET row == ProjectRow(n, q, "available", 2)
             IN  shelf' = Append(shelf, row) /\ TakenIn(Len(shelf) + 1, row)
           Keep(cur) == /\ imp' = [imp EXCEPT !.next = @ + 1, !.book = Claim(b, cur, b.rows[cur])]
                        /\ UNCHANGED shelf
           Replace(n, cur) ==
             LET row == ProjectRow(n, q, "available", shelf[cur].rev + 1)
             IN  shelf' = [shelf EXCEPT ![cur] = row] /\ TakenIn(cur, row)
<1>3. PICK n \in own :
        LET cur == b.names[<<"project", n>>]
            known == n \in Named(b, "project")
        IN  \/ known /\ Keep(cur)
            \/ NextProject /\ UNCHANGED shelf
            \/ Insert(n)
            \/ \E new \in Elsewhere(n, label, Named(b, "project")) : Insert(new)
            \/ known /\ Replace(n, cur)
  BY <1>1 DEF ImportProject
<1>4. label \in Seq(Pieces) /\ n0 \in Seq(Pieces)
  <2>1. <<>> \in Seq(Pieces)
    OBVIOUS
  <2> QED
    BY <1>2, <2>1, ProjectTyped, NamesTyped
<1>5. n \in Seq(Pieces)
  BY <1>4, ElsewhereFree
<1>6. ASSUME NEW m \in Seq(Pieces), Insert(m) PROVE ProjectsOnly /\ imp'.at = imp.at
  <2>1. PICK row : row = ProjectRow(m, q, "available", 2)
    OBVIOUS
  <2>2. shelf' = Append(shelf, row) /\ TakenIn(Len(shelf) + 1, row)
    BY <1>6, <2>1
  <2>3. imp'.at = imp.at
    BY <1>2, <2>2 DEF TakenIn, ImportFields
  <2> QED
    BY <1>1, <1>2, <2>1, <2>2, <2>3, ProjectInserted
<1>7. PICK cur : cur = b.names[<<"project", n>>]
  OBVIOUS
<1>8. n \in Named(b, "project") => cur \in DOMAIN shelf /\ shelf[cur].kind = "project"
  BY <1>2, <1>7, KnownRow
<1>9. CASE n \in Named(b, "project") /\ Keep(cur)
  <2>1. imp'.at = imp.at
    BY <1>2, <1>9 DEF ImportFields
  <2> QED
    BY <1>1, <1>9, <2>1, ProjectsAsTheyAre
<1>10. CASE NextProject /\ UNCHANGED shelf
  <2>1. imp'.at = imp.at
    BY <1>2, <1>10 DEF NextProject, ImportFields
  <2> QED
    BY <1>1, <1>10, <2>1, ProjectsAsTheyAre
<1>11. CASE Insert(n)
  BY <1>1, <1>5, <1>6, <1>11
<1>12. CASE \E new \in Elsewhere(n, label, Named(b, "project")) : Insert(new)
  <2>1. PICK new \in Elsewhere(n, label, Named(b, "project")) : Insert(new)
    BY <1>12
  <2>2. new \in Seq(Pieces)
    BY <1>4, ElsewhereFree
  <2> QED
    BY <1>1, <1>6, <2>1, <2>2
<1>13. CASE n \in Named(b, "project") /\ Replace(n, cur)
  <2>1. PICK row : row = ProjectRow(n, q, "available", shelf[cur].rev + 1)
    OBVIOUS
  <2>2. shelf' = [shelf EXCEPT ![cur] = row] /\ TakenIn(cur, row)
    BY <1>13, <2>1
  <2>3. row.kind = "project" /\ imp'.at = imp.at
    <3>1. row.kind = "project"
      BY <2>1 DEF ProjectRow
    <3>2. imp'.at = imp.at
      BY <1>2, <2>2 DEF TakenIn, ImportFields
    <3> QED
      BY <3>1, <3>2
  <2> QED
    BY <1>1, <1>8, <1>13, <2>2, <2>3, ProjectReplaced
<1> QED
  BY <1>1, <1>3, <1>7, <1>9, <1>10, <1>11, <1>12, <1>13

\* ... and so does the WAN's.
LEMMA PlatformProjectLeaves ==
  ASSUME ImportInv, ImportPlatformProject
  PROVE  ProjectsOnly /\ imp.at = "projects" /\ imp'.at = "projects" /\ UNCHANGED <<batch, foreign, made, imports>>
<1>1. imp.at = "projects" /\ imp.next <= Len(batch.projects) /\ UNCHANGED <<batch, foreign, made, imports>>
  BY DEF ImportPlatformProject
<1>2. imp.next \in DOMAIN batch.projects /\ ImportTypeOK /\ BookFits /\ DOMAIN imp = ImportFields
  BY <1>1, NextIsAProject DEF ImportInv, ImportTypeOK
<1> DEFINE j == imp.next
           q == batch.projects[imp.next]
           b == imp.book
           own == OwnNames(b, "project", q.base, q.path, <<>>)
           cur(names) == Find(b, "project", names)
           unique(names) == UniqueImportName(b, "project", names, q.path, <<>>)
           Keep(i) == imp' = [imp EXCEPT !.next = @ + 1, !.book = Claim(b, i, b.rows[i])]
<1>3. PICK names \in own :
         \/ UNCHANGED shelf /\ \E i \in cur(names) : Keep(i)
         \/ NextProject /\ UNCHANGED shelf
         \/ \E i \in cur(names) : OverwriteProject(q, i)
         \/ \E n \in unique(names) : InsertImported(q, n)
         \/ InsertImported(q, names[2])
  BY DEF ImportPlatformProject
<1>4. /\ names[2] \in Seq(Pieces) /\ \A n \in unique(names) : n \in Seq(Pieces)
  <2>1. <<>> \in Seq(Pieces) /\ q.path \in Stems /\ q.base \in Stems
    BY <1>2, ProjectTyped
  <2>2. names[2] \in Seq(Pieces)
    BY <2>1, OwnNamesFree
  <2> QED
    BY <2>1, <2>2, UniqueTyped
<1>5. \A i \in cur(names) : i \in DOMAIN shelf /\ shelf[i].kind = "project"
  BY <1>2, FoundRow
<1> HIDE DEF own, cur, unique
<1>6. ASSUME NEW m \in Seq(Pieces), InsertImported(q, m) PROVE ProjectsOnly /\ imp'.at = imp.at
  <2>1. PICK row : row = ProjectRow(m, q, "available", 2)
    OBVIOUS
  <2>2. shelf' = Append(shelf, row) /\ TakenIn(Len(shelf) + 1, row)
    BY <1>6, <2>1 DEF InsertImported
  <2>3. imp'.at = imp.at
    BY <1>2, <2>2 DEF TakenIn, ImportFields
  <2> QED
    BY <1>1, <1>2, <2>1, <2>2, <2>3, ProjectInserted
<1>7. ASSUME NEW i \in cur(names), Keep(i), UNCHANGED shelf PROVE ProjectsOnly /\ imp'.at = imp.at
  <2>1. imp'.at = imp.at
    BY <1>2, <1>7 DEF ImportFields
  <2> QED
    BY <1>1, <1>7, <2>1, ProjectsAsTheyAre
<1>8. ASSUME NextProject, UNCHANGED shelf PROVE ProjectsOnly /\ imp'.at = imp.at
  <2>1. imp'.at = imp.at
    BY <1>2, <1>8 DEF NextProject, ImportFields
  <2> QED
    BY <1>1, <1>8, <2>1, ProjectsAsTheyAre
<1>9. ASSUME NEW i \in cur(names), OverwriteProject(q, i) PROVE ProjectsOnly /\ imp'.at = imp.at
  <2>1. PICK row : row = ProjectRow(shelf[i].name, q, "available", shelf[i].rev + 1)
    OBVIOUS
  <2>2. CASE NextProject /\ UNCHANGED shelf
    BY <1>8, <2>2
  <2>3. CASE shelf' = [shelf EXCEPT ![i] = row] /\ TakenIn(i, row)
    <3>1. row.kind = "project"
      BY <2>1 DEF ProjectRow
    <3>2. imp'.at = imp.at
      BY <1>2, <2>3 DEF TakenIn, ImportFields
    <3>3. i \in DOMAIN shelf /\ shelf[i].kind = "project"
      BY <1>5
    <3> QED
      BY <1>1, <2>3, <3>1, <3>2, <3>3, ProjectReplaced
  <2> QED
    BY <1>9, <2>1, <2>2, <2>3 DEF OverwriteProject
<1>10. CASE \E n \in unique(names) : InsertImported(q, n)
  BY <1>1, <1>4, <1>6, <1>10
<1>11. CASE InsertImported(q, names[2])
  BY <1>1, <1>4, <1>6, <1>11
<1> QED
  BY <1>1, <1>3, <1>7, <1>8, <1>9, <1>10, <1>11

\* The files done stand for their rows when the processes are as they were.
LEMMA StandingStays ==
  ASSUME NEW wan \in BOOLEAN, NEW A, Standing(wan, A), NEW D, D = Finished, D = Finished', Closed(D), ProjectsOnly
  PROVE  A \in [Todo' -> Nat] /\ Settled(wan, A, Finished)' /\ Todo' = Todo
<1>1. ImportTypeOK /\ Settled(wan, A, D) /\ A \in [Todo -> Nat] /\ batch' = batch
  BY DEF Standing, ImportInv, Settled, ProjectsOnly
<1>2. \A x \in D : IsProcess(A[x])
  BY <1>1 DEF Settled, Stood, Live
<1>3. Gentle(A, D, wan)
  BY <1>2, ProjectsGentle
<1>4. Settled(wan, A, D)'
  BY <1>1, <1>3, SettledStays
<1>5. Todo' = Todo
  BY <1>1, TodoStays
<1> QED
  BY <1>1, <1>4, <1>5 DEF Settled

\* The files of a batch are closed, and so are none.
LEMMA AllClosed == Closed(Todo) /\ Closed({})
BY DEF Closed, Earlier

\* The book an import begins with mirrors the library.
LEMMA BookMirrors ==
  ASSUME ImportTypeOK, shelf' = shelf, imp'.book = Book, imp'.draft = 0
  PROVE  Mirrors(imp.book)'
<1> DEFINE ids == {i \in DOMAIN shelf : shelf[i].status # "disabled"}
           key(i) == <<shelf[i].kind, shelf[i].name>>
           keys == {key(i) : i \in ids}
           newest(k) == CHOOSE i \in ids : key(i) = k /\ \A j \in ids : key(j) = k => j <= i
<1>0. PICK b : b = Book
  OBVIOUS
<1>1. /\ b.rows = shelf /\ b.claimed = {} /\ b.procs = {i \in ids : shelf[i].kind = "process"}
      /\ b.names = [k \in keys |-> newest(k)]
  BY <1>0 DEF Book
<1>2. ASSUME NEW k \in keys
      PROVE  newest(k) \in ids /\ key(newest(k)) = k /\ \A j \in ids : key(j) = k => j <= newest(k)
  <2> DEFINE S == {i \in ids : key(i) = k}
  <2>1. S \in SUBSET (1..Len(shelf)) /\ Len(shelf) \in Nat /\ S # {}
    BY DEF ImportTypeOK
  <2>2. \E i \in S : \A j \in S : j <= i
    <3> HIDE DEF S
    <3> QED
      BY <2>1, NewestExists
  <2>3. \E i \in ids : key(i) = k /\ \A j \in ids : key(j) = k => j <= i
    BY <2>2
  <2> HIDE DEF ids, key
  <2> QED
    BY <2>3
<1>3. \A i : Live(i) <=> i \in ids /\ shelf[i].kind = "process"
  BY DEF Live, IsProcess
<1>4. ASSUME NEW i, Live(i) PROVE shelf[i].name \in Named(b, "process")
  <2>1. i \in ids /\ key(i) = <<"process", shelf[i].name>>
    BY <1>3, <1>4
  <2>2. key(i) \in DOMAIN b.names
    BY <1>1, <2>1
  <2>3. <<"process", shelf[i].name>>[1] = "process" /\ <<"process", shelf[i].name>>[2] = shelf[i].name
    OBVIOUS
  <2> QED
    BY <2>1, <2>2, <2>3 DEF Named
<1>5. ASSUME NEW n \in Named(b, "process"), NEW i, i = b.names[<<"process", n>>]
      PROVE  Live(i) /\ shelf[i].name = n /\ Newest(i)
  <2>1. PICK k \in keys : k[1] = "process" /\ k[2] = n
    BY <1>1 DEF Named
  <2>2. k = <<"process", n>>
    BY <2>1
  <2>3. i = newest(k)
    <3>1. b.names = [x \in keys |-> newest(x)]
      BY <1>1
    <3> HIDE DEF newest, keys, ids, key
    <3>2. b.names[k] = newest(k)
      BY <3>1
    <3> QED
      BY <1>5, <2>2, <3>2
  <2>4. i \in ids /\ key(i) = k /\ \A j \in ids : key(j) = k => j <= i
    <3> HIDE DEF newest, ids, key, keys
    <3> QED
      BY <1>2, <2>3
  <2>5. shelf[i].kind = "process" /\ shelf[i].name = n
    BY <2>2, <2>4
  <2>6. Newest(i)
    <3> SUFFICES ASSUME NEW j \in DOMAIN shelf, Live(j), shelf[j].name = shelf[i].name PROVE j <= i
      BY DEF Newest
    <3>1. j \in ids /\ key(j) = k
      BY <1>3, <2>2, <2>5
    <3> QED
      BY <2>4, <3>1
  <2> QED
    BY <1>3, <2>4, <2>5, <2>6
<1>6. 0 \notin DOMAIN shelf
  BY RowsNumbered
<1>7. \A i : Live(i) => i \in b.procs
  BY <1>1, <1>3
<1> HIDE DEF ids, key, keys, newest
<1>8. \A i : (Live(i)' <=> Live(i)) /\ (Newest(i)' <=> Newest(i)) /\ (IsProcess(i)' <=> IsProcess(i))
  BY DEF Live, Newest, IsProcess
<1>9. Named(b, "process")' = Named(b, "process")
  BY DEF Named
<1>10. /\ \A i \in DOMAIN shelf' : Live(i)' /\ i # imp'.draft => shelf'[i].name \in Named(b, "process")
       /\ \A n \in Named(b, "process") :
            LET i == b.names[<<"process", n>>]
            IN  /\ Live(i)' /\ shelf'[i].name = n
                /\ Newest(i)' /\ \A j \in b.claimed : shelf'[j].name # n
  BY <1>1, <1>4, <1>5, <1>8
<1>11. /\ b.claimed = {} /\ \A i \in DOMAIN b.rows : b.rows[i] = shelf'[i]
       /\ \A i \in DOMAIN shelf' : Live(i)' => i \in b.procs
  BY <1>1, <1>7, <1>8
<1>12. Mirrors(b)'
  BY <1>9, <1>10, <1>11 DEF Mirrors
<1>13. imp'.book = b
  BY <1>0
<1> QED
  BY <1>12, <1>13 DEF Mirrors

\* What the files stand for is remembered by every step.
Memorised(wan) ==
  \E B \in [Todo' -> Nat] : Settled(wan, B, Finished)' /\ (imp'.at = "files" => UnderWay(wan, B)')

\* An import begins.
LEMMA BeginsMemorises ==
  ASSUME NEW wan \in BOOLEAN, NEW A, Standing(wan, A), imports \in Nat, ImportBegins
  PROVE  Memorised(wan) /\ made' = made /\ imports' = imports + 1
<1>1. /\ imp.at = "idle" /\ imports' = imports + 1 /\ UNCHANGED <<shelf, batch, foreign, made>>
      /\ imp' = [at |-> "files", book |-> Book, index |-> <<>>, todo |-> Todo,
                 next |-> 1, kept |-> {}, fresh |-> {}, draft |-> 0]
  BY DEF ImportBegins
<1>2. PICK b, todo : b = Book /\ todo = Todo
  OBVIOUS
<1>3. imp'.at = "files" /\ imp'.book = b /\ imp'.todo = todo /\ imp'.draft = 0
  BY <1>1, <1>2
<1>4. ImportTypeOK
  BY DEF Standing, ImportInv
<1>5. Todo' = Todo
  BY <1>1, TodoStays
<1>6. PICK D : D = Finished
  OBVIOUS
<1>7. D = Finished' /\ Closed(D)
  <2>1. CASE imports = 0
    <3>1. D = {} /\ Finished' = {}
      BY <1>1, <1>2, <1>3, <1>5, <1>6, <2>1 DEF Finished
    <3> QED
      BY <3>1, AllClosed
  <2>2. CASE imports # 0
    <3>1. D = Todo /\ Finished' = Todo
      BY <1>1, <1>5, <1>6, <2>2 DEF Finished
    <3> QED
      BY <3>1, AllClosed
  <2> QED
    BY <2>1, <2>2
<1>8. A \in [Todo' -> Nat] /\ Settled(wan, A, Finished)'
  BY <1>1, <1>6, <1>7, ProjectsAsTheyAre, StandingStays
<1>9. Mirrors(imp.book)'
  BY <1>1, <1>2, <1>3, <1>4, BookMirrors
<1>10. Progress(imp.todo)'
  BY <1>2, <1>3, <1>5 DEF Progress
<1>11. imp'.book.claimed = {A[x] : x \in Todo' \ imp'.todo}
  <2>1. b.claimed = {}
    BY <1>2, <1>4, BookFitsAtStart
  <2>2. Todo' \ imp'.todo = {}
    BY <1>2, <1>3, <1>5
  <2> QED
    BY <1>3, <2>1, <2>2
<1>12. UnderWay(wan, A)'
  BY <1>3, <1>9, <1>10, <1>11 DEF UnderWay
<1> QED
  BY <1>1, <1>8, <1>12 DEF Memorised

\* It goes on to the projects.
LEMMA DoneMemorises ==
  ASSUME NEW wan \in BOOLEAN, NEW A, Standing(wan, A), imports # 0, FilesDone
  PROVE  Memorised(wan)
<1>1. /\ imp.at = "files" /\ imp.todo = {} /\ imp' = [imp EXCEPT !.at = "projects"]
      /\ UNCHANGED <<shelf, batch, foreign, made, imports>>
  BY DEF FilesDone
<1>2. DOMAIN imp = ImportFields
  BY <1>1 DEF Standing, ImportInv, ImportTypeOK
<1>3. imp'.at = "projects"
  BY <1>1, <1>2 DEF ImportFields
<1>4. PICK D : D = Todo
  OBVIOUS
<1>5. Todo' = Todo
  BY <1>1, TodoStays
<1>6. D = Finished /\ D = Finished' /\ Closed(D)
  BY <1>1, <1>3, <1>4, <1>5, AllClosed DEF Finished
<1>7. A \in [Todo' -> Nat] /\ Settled(wan, A, Finished)'
  BY <1>1, <1>6, ProjectsAsTheyAre, StandingStays
<1> QED
  BY <1>3, <1>7 DEF Memorised

\* Projects leave what the files stand for.
LEMMA ProjectsMemorise ==
  ASSUME NEW wan \in BOOLEAN, NEW A, Standing(wan, A), imports # 0, imports' = imports,
         ProjectsOnly, imp.at = "projects", imp'.at # "files"
  PROVE  Memorised(wan)
<1>1. PICK D : D = Todo
  OBVIOUS
<1>2. Todo' = Todo
  BY TodoStays DEF ProjectsOnly
<1>3. D = Finished /\ D = Finished' /\ Closed(D)
  BY <1>1, <1>2, AllClosed DEF Finished
<1>4. A \in [Todo' -> Nat] /\ Settled(wan, A, Finished)'
  BY <1>3, StandingStays
<1> QED
  BY <1>4 DEF Memorised

\* A batch that is clean was so before.
LEMMA CleanBefore ==
  ASSUME Clean', batch' = batch, foreign' = foreign
  PROVE  Clean
BY DEF Clean

\* A step of either import, taken with what the files stand for.
Remembers(wan) ==
  /\ Memorised(wan) /\ made' = made /\ imports' \in Nat
  /\ imp'.at # "idle" => imports' # 0

\* What does not take files in remembers.
LEMMA OthersRemember ==
  ASSUME NEW wan \in BOOLEAN, NEW A, Standing(wan, A), imports \in Nat, imp.at # "idle" => imports # 0,
         ImportBegins \/ PublishImported \/ FilesDone \/ ImportEnds
  PROVE  Remembers(wan)
<1>1. CASE ImportBegins
  <2>1. Memorised(wan) /\ made' = made /\ imports' = imports + 1
    BY <1>1, BeginsMemorises
  <2> QED
    BY <2>1 DEF Remembers
<1>2. CASE PublishImported
  <2>1. Remembered(wan) /\ imp'.at = "files"
    BY <1>2, FirstPublishes
  <2>2. imp.at = "files" /\ UNCHANGED <<made, imports>>
    BY <1>2 DEF PublishImported
  <2>3. Memorised(wan)
    BY <2>1 DEF Remembered, Memorised
  <2> QED
    BY <2>2, <2>3 DEF Remembers
<1>3. CASE FilesDone
  <2>1. imp.at = "files" /\ UNCHANGED <<made, imports>>
    BY <1>3 DEF FilesDone
  <2>2. Memorised(wan)
    BY <1>3, <2>1, DoneMemorises
  <2> QED
    BY <2>1, <2>2 DEF Remembers
<1>4. CASE ImportEnds
  <2>1. imp.at = "projects" /\ imp' = [at |-> "idle"] /\ UNCHANGED <<shelf, batch, foreign, made, imports>>
    BY <1>4 DEF ImportEnds
  <2>2. imp'.at = "idle"
    BY <2>1
  <2>3. Memorised(wan)
    BY <2>1, <2>2, ProjectsAsTheyAre, ProjectsMemorise
  <2> QED
    BY <2>1, <2>2, <2>3 DEF Remembers
<1> QED
  BY <1>1, <1>2, <1>3, <1>4

\* A file is taken in.
LEMMA FilesRemember ==
  ASSUME NEW wan \in BOOLEAN, NEW A, Standing(wan, A), imports \in Nat, imp.at # "idle" => imports # 0,
         imp.at = "files", imp.draft = 0, NEW e \in Upcoming(imp.todo), Ruled(wan, e),
         UNCHANGED <<batch, foreign, imports>>
  PROVE  Remembers(wan)
<1>1. Remembered(wan) /\ made' = made
  BY FileRemembered
<1>2. Memorised(wan)
  BY <1>1 DEF Remembered, Memorised
<1> QED
  BY <1>1, <1>2 DEF Remembers

\* A project is.
LEMMA ProjectsRemember ==
  ASSUME NEW wan \in BOOLEAN, NEW A, Standing(wan, A), imports \in Nat, imp.at # "idle" => imports # 0,
         ProjectsOnly, imp.at = "projects", imp'.at = "projects", UNCHANGED <<made, imports>>
  PROVE  Remembers(wan)
<1>1. Memorised(wan)
  BY ProjectsMemorise
<1> QED
  BY <1>1 DEF Remembers

\* Once somebody has edited a process the batch is no longer clean.
LEMMA MeddledIsNotClean ==
  ASSUME Meddle
  PROVE  ~Clean'
<1>1. foreign' # {}
  BY DEF Meddle
<1> QED
  BY <1>1 DEF Clean

\* A step that remembers keeps the invariant.
LEMMA RememberedKeeps ==
  ASSUME NEW wan \in BOOLEAN, CopiesInv(wan), ImportInv', batch' = batch, foreign' = foreign,
         \A A : Standing(wan, A) /\ imports \in Nat /\ (imp.at # "idle" => imports # 0) => Remembers(wan)
  PROVE  CopiesInv(wan)'
<1> SUFFICES ASSUME Clean' PROVE Memory(wan)'
  BY DEF CopiesInv
<1>1. Clean
  BY CleanBefore
<1>2. /\ ImportInv /\ imports \in Nat /\ made = {} /\ (imp.at # "idle" => imports # 0)
  BY <1>1 DEF CopiesInv, Memory
<1>3. PICK A \in [Todo -> Nat] : Settled(wan, A, Finished) /\ (imp.at = "files" => UnderWay(wan, A))
  BY <1>1 DEF CopiesInv, Memory
<1>4. Standing(wan, A)
  BY <1>1, <1>2, <1>3 DEF Standing
<1>5. Remembers(wan)
  BY <1>2, <1>4
<1>6. made' = {} /\ imports' \in Nat /\ (imp'.at # "idle" => imports' # 0)
  BY <1>2, <1>5 DEF Remembers
<1>7. \E B \in [Todo' -> Nat] : Settled(wan, B, Finished)' /\ (imp'.at = "files" => UnderWay(wan, B)')
  BY <1>5 DEF Remembers, Memorised
<1> QED
  BY <1>6, <1>7 DEF Memory

\* Nothing is remembered, and nothing made, before the first import.
LEMMA CopiesStart ==
  ASSUME NEW wan \in BOOLEAN, ImportInit
  PROVE  CopiesInv(wan)
<1>1. PICK fs \in [FilePaths -> Files], projects \in Seq(ProjectFiles), library \in Seq(AssetRow) :
        ImportStart(fs, projects, library)
  BY DEF ImportInit
<1>2. imp.at = "idle" /\ made = {} /\ imports = 0
  BY <1>1 DEF ImportStart
<1>3. [x \in Todo |-> 0] \in [Todo -> Nat]
  OBVIOUS
<1>4. Finished = {}
  BY <1>2 DEF Finished
<1>5. PICK A \in [Todo -> Nat] : TRUE
  BY <1>3
<1>6. Settled(wan, A, Finished)
  BY <1>4 DEF Settled
<1>7. Memory(wan)
  BY <1>2, <1>6 DEF Memory
<1> QED
  BY <1>7, ImportStarts DEF CopiesInv

\* Nothing happens.
LEMMA CopiesRest ==
  ASSUME NEW wan \in BOOLEAN, CopiesInv(wan), UNCHANGED importVars
  PROVE  CopiesInv(wan)'
<1>1. UNCHANGED <<shelf, batch, imp, foreign, made, imports>> /\ ImportInv'
  BY ImportRests DEF importVars, CopiesInv
<1> SUFFICES ASSUME Clean' PROVE Memory(wan)'
  BY <1>1 DEF CopiesInv
<1>2. Clean
  BY <1>1, CleanBefore
<1>3. /\ ImportInv /\ imports \in Nat /\ made = {} /\ (imp.at # "idle" => imports # 0)
  BY <1>2 DEF CopiesInv, Memory
<1>4. PICK A \in [Todo -> Nat] : Settled(wan, A, Finished) /\ (imp.at = "files" => UnderWay(wan, A))
  BY <1>2 DEF CopiesInv, Memory
<1>5. Standing(wan, A)
  BY <1>2, <1>3, <1>4 DEF Standing
<1>6. Todo' = Todo
  BY <1>1, TodoStays
<1>7. PICK D : D = Finished
  OBVIOUS
<1>8. D = Finished'
  BY <1>1, <1>6, <1>7 DEF Finished
<1>9. Closed(D)
  <2>1. imports = 1 /\ imp.at = "files" => Progress(imp.todo)
    BY <1>4 DEF UnderWay
  <2>2. ImportTypeOK
    BY <1>3 DEF ImportInv
  <2> QED
    BY <1>7, <2>1, <2>2, FinishedClosed
<1>10. A \in [Todo' -> Nat] /\ Settled(wan, A, Finished)'
  BY <1>1, <1>5, <1>7, <1>8, <1>9, ProjectsAsTheyAre, StandingStays
<1>11. imp'.at = "files" => UnderWay(wan, A)'
  <2> SUFFICES ASSUME imp.at = "files" PROVE UnderWay(wan, A)'
    BY <1>1
  <2>1. UnderWay(wan, A)
    BY <1>4
  <2>2. Progress(imp.todo)'
    BY <1>1, <1>6, <2>1 DEF UnderWay, Progress, Ahead
  <2>3. Mirrors(imp.book)'
    <3>1. PICK b : b = imp.book
      OBVIOUS
    <3>2. Mirrors(b)
      BY <2>1, <3>1 DEF UnderWay
    <3>3. \A i : (Live(i)' <=> Live(i)) /\ (Newest(i)' <=> Newest(i)) /\ (IsProcess(i)' <=> IsProcess(i))
      BY <1>1 DEF Live, Newest, IsProcess
    <3>4. Named(b, "process")' = Named(b, "process")
      BY DEF Named
    <3>5. Mirrors(b)'
      BY <1>1, <3>2, <3>3, <3>4 DEF Mirrors
    <3> QED
      BY <1>1, <3>1, <3>5 DEF Mirrors
  <2>4. imp'.book.claimed = {A[x] : x \in Todo' \ imp'.todo}
    BY <1>1, <1>6, <2>1 DEF UnderWay
  <2>5. ASSUME imp.draft # 0
        PROVE  imports' = 1 /\ \E e \in Upcoming(imp.todo)' : Pending(wan, A, e, imp.draft)'
    <3>1. imports = 1 /\ \E e \in Upcoming(imp.todo) : Pending(wan, A, e, imp.draft)
      BY <2>1, <2>5 DEF UnderWay
    <3>2. PICK e \in Upcoming(imp.todo) : Pending(wan, A, e, imp.draft)
      BY <3>1
    <3>3. Upcoming(imp.todo)' = Upcoming(imp.todo)
      BY <1>1 DEF Upcoming
    <3>4. Pending(wan, A, e, imp.draft)'
      <4>1. PICK i : i = imp.draft
        OBVIOUS
      <4>2. Held(A, e)' = Held(A, e)
        BY <1>1, TodoStays DEF Held
      <4>3. PICK h : h = Held(A, e)
        OBVIOUS
      <4>4. \A j : (Suits(j, e)' <=> Suits(j, e)) /\ Ranks(wan, j, e)' = Ranks(wan, j, e)
        BY <1>1 DEF Suits, IsProcess, Ranks
      <4>5. NoneNamed(wan, e, h)' <=> NoneNamed(wan, e, h)
        BY <1>1, <4>4 DEF NoneNamed
      <4>6. /\ (Newest(i)' <=> Newest(i)) /\ (IsProcess(i)' <=> IsProcess(i))
        BY <1>1 DEF Live, Newest, IsProcess
      <4>7. Keys(wan, A, e)' = Keys(wan, A, e)
        <5>1. Shown' = Shown
          BY <1>1 DEF Shown, Live, IsProcess
        <5>2. HeldNames(A, e)' = HeldNames(A, e)
          BY <1>1, <4>2 DEF HeldNames
        <5> QED
          BY <1>1, <5>1, <5>2 DEF Keys
      <4>8. Pending(wan, A, e, i)'
        BY <1>1, <3>2, <4>1, <4>2, <4>3, <4>4, <4>5, <4>6, <4>7 DEF Pending
      <4> QED
        BY <1>1, <4>1, <4>8 DEF Pending
    <3> QED
      BY <1>1, <3>1, <3>3, <3>4
  <2>6. imp'.draft # 0 => imports' = 1 /\ \E e \in Upcoming(imp.todo)' : Pending(wan, A, e, imp.draft)'
    BY <1>1, <2>5
  <2> QED
    BY <2>2, <2>3, <2>4, <2>6 DEF UnderWay
<1> QED
  BY <1>1, <1>3, <1>10, <1>11 DEF Memory

\* What a factory's import takes in, it finds again, ...
LEMMA CopiesKept == CopiesInv(FALSE) /\ [ImportNext]_importVars => CopiesInv(FALSE)'
<1>1. PICK wan \in BOOLEAN : wan = FALSE
  OBVIOUS
<1> SUFFICES ASSUME CopiesInv(wan), [ImportNext]_importVars PROVE CopiesInv(wan)'
  BY <1>1
<1>2. ImportInv /\ ImportInv'
  BY ImportKeeps DEF CopiesInv
<1>3. CASE ImportBegins \/ PublishImported \/ FilesDone \/ ImportEnds
  <2>1. batch' = batch /\ foreign' = foreign
    BY <1>3 DEF ImportBegins, PublishImported, FilesDone, ImportEnds
  <2>2. \A A : Standing(wan, A) /\ imports \in Nat /\ (imp.at # "idle" => imports # 0) => Remembers(wan)
    BY <1>3, OthersRemember
  <2> QED
    BY <1>2, <2>1, <2>2, RememberedKeeps
<1>4. CASE ImportLegacyProcess
  <2>1. imp.at = "files" /\ imp.draft = 0 /\ UNCHANGED <<batch, foreign, imports>>
    BY <1>4 DEF ImportLegacyProcess
  <2>2. PICK e \in Upcoming(imp.todo) : Ruled(wan, e)
    BY <1>1, <1>2, <1>4, LegacyRuled
  <2>3. \A A : Standing(wan, A) /\ imports \in Nat /\ (imp.at # "idle" => imports # 0) => Remembers(wan)
    BY <2>1, <2>2, FilesRemember
  <2> QED
    BY <1>2, <2>1, <2>3, RememberedKeeps
<1>5. CASE ImportProject
  <2>1. ProjectsOnly /\ imp.at = "projects" /\ imp'.at = "projects" /\ UNCHANGED <<batch, foreign, made, imports>>
    BY <1>2, <1>5, ProjectLeaves
  <2>2. \A A : Standing(wan, A) /\ imports \in Nat /\ (imp.at # "idle" => imports # 0) => Remembers(wan)
    BY <2>1, ProjectsRemember
  <2> QED
    BY <1>2, <2>1, <2>2, RememberedKeeps
<1>6. CASE Meddle
  BY <1>2, <1>6, MeddledIsNotClean DEF CopiesInv
<1>7. CASE UNCHANGED importVars
  BY <1>7, CopiesRest
<1> QED
  BY <1>3, <1>4, <1>5, <1>6, <1>7 DEF ImportNext

\* ... and so does the WAN's.
LEMMA PlatformCopiesKept == CopiesInv(TRUE) /\ [PlatformImportNext]_importVars => CopiesInv(TRUE)'
<1>1. PICK wan \in BOOLEAN : wan = TRUE
  OBVIOUS
<1> SUFFICES ASSUME CopiesInv(wan), [PlatformImportNext]_importVars PROVE CopiesInv(wan)'
  BY <1>1
<1>2. ImportInv /\ ImportInv'
  BY PlatformImportKeeps DEF CopiesInv
<1>3. CASE ImportBegins \/ PublishImported \/ FilesDone \/ ImportEnds
  <2>1. batch' = batch /\ foreign' = foreign
    BY <1>3 DEF ImportBegins, PublishImported, FilesDone, ImportEnds
  <2>2. \A A : Standing(wan, A) /\ imports \in Nat /\ (imp.at # "idle" => imports # 0) => Remembers(wan)
    BY <1>3, OthersRemember
  <2> QED
    BY <1>2, <2>1, <2>2, RememberedKeeps
<1>4. CASE ImportPlatformProcess
  <2>1. imp.at = "files" /\ imp.draft = 0 /\ UNCHANGED <<batch, foreign, imports>>
    BY <1>4 DEF ImportPlatformProcess
  <2>2. PICK e \in Upcoming(imp.todo) : Ruled(wan, e)
    BY <1>1, <1>2, <1>4, PlatformRuled
  <2>3. \A A : Standing(wan, A) /\ imports \in Nat /\ (imp.at # "idle" => imports # 0) => Remembers(wan)
    BY <2>1, <2>2, FilesRemember
  <2> QED
    BY <1>2, <2>1, <2>3, RememberedKeeps
<1>5. CASE ImportPlatformProject
  <2>1. ProjectsOnly /\ imp.at = "projects" /\ imp'.at = "projects" /\ UNCHANGED <<batch, foreign, made, imports>>
    BY <1>2, <1>5, PlatformProjectLeaves
  <2>2. \A A : Standing(wan, A) /\ imports \in Nat /\ (imp.at # "idle" => imports # 0) => Remembers(wan)
    BY <2>1, ProjectsRemember
  <2> QED
    BY <1>2, <2>1, <2>2, RememberedKeeps
<1>6. CASE Meddle
  BY <1>2, <1>6, MeddledIsNotClean DEF CopiesInv
<1>7. CASE UNCHANGED importVars
  BY <1>7, CopiesRest
<1> QED
  BY <1>3, <1>4, <1>5, <1>6, <1>7 DEF PlatformImportNext

\* Nothing is made that was there.
LEMMA CopiesNone == \A wan \in BOOLEAN : CopiesInv(wan) => NoCopies
BY DEF CopiesInv, Memory, NoCopies, Clean

\* Importing a batch into a factory's library again makes no copies: each of its files finds
\* the process it became, whatever name it had to take, if nobody has edited it in between
\* (service/legacy.go:347).
THEOREM ImportedOnce == ImportSpec => []NoCopies
<1>1. ImportInit => CopiesInv(FALSE)
  BY CopiesStart
<1>2. CopiesInv(FALSE) => NoCopies
  BY CopiesNone
<1> QED
  BY <1>1, <1>2, CopiesKept, PTL DEF ImportSpec

\* The same of the WAN's import, whose names are cut.
THEOREM PlatformImportedOnce == PlatformImportSpec => []NoCopies
<1>1. ImportInit => CopiesInv(TRUE)
  BY CopiesStart
<1>2. CopiesInv(TRUE) => NoCopies
  BY CopiesNone
<1> QED
  BY <1>1, <1>2, PlatformCopiesKept, PTL DEF PlatformImportSpec
=============================================================================
