---------------------------- MODULE TreesProofs ----------------------------
(***************************************************************************)
(* The directory trees of the WAN and of a factory stay trees, and what a  *)
(* factory has applied it shows.                                           *)
(*                                                                         *)
(* Operator by operator first: inserting, removing and renaming keep a     *)
(* tree one, and so does a move whose destination is not below the node    *)
(* moved (Ready).  A move waits between its check and its commit; it stays *)
(* harmless because meanwhile nothing else moves a folder (Stays): the     *)
(* lock is what ReadyStays needs (WanInv, FacInv).                         *)
(*                                                                         *)
(* Applying a layout moves many folders at once.  It closes no circle and  *)
(* takes no name twice because the folders it lists are those of a tree    *)
(* the WAN had at one moment (IsLayout), which is what Told says of every  *)
(* layout on its way.  A layout that names a folder below one it leaves    *)
(* out would be no such thing; the WAN climbs Walk levels from a file, so  *)
(* the theorems about the factory suppose that no file lies deeper         *)
(* (ShallowTree), and FewFoldersShallow says when that is so.              *)
(*                                                                         *)
(* A closure's path was read folder by folder (IsPath): it may be no path  *)
(* of any tree, and applying it may close a circle.  It closes none if it  *)
(* leads from the root and meets no folder twice (UpsertPathKeeps), so     *)
(* lemmas that say what stays a tree name the roots under which that is    *)
(* known (IsTree(t, A)): both until another path was applied, and then the *)
(* factory's own (Sure), which names and parents do not depend on.         *)
(***************************************************************************)
EXTENDS TreeSync, FiniteSetTheorems, TLAPS

-----------------------------------------------------------------------------
(* Directory trees: what one transaction does to a tree.                   *)

\* A table of nodes.
Table(t) == t \in [DOMAIN t -> Entry] /\ DOMAIN t \subseteq Nodes

\* A file goes by its identity; a folder by a name somebody gave it, or by its identity
\* when it had to give its name up.
Labelled(t) ==
    /\ \A n \in DOMAIN t \cap Files : t[n].name = n
    /\ \A n \in DOMAIN t \cap Folders : t[n].name \in Names \cup {n}

IsTree(t, A) == Table(t) /\ Labelled(t) /\ RootedIn(t, A) /\ Sound(t)

\* What a table says of one node.
LEMMA EntryOf ==
  ASSUME NEW t, Table(t), NEW n \in DOMAIN t
  PROVE  /\ t[n] \in Entry
         /\ n \in Nodes /\ t[n].parent \in Nodes \cup {Top}
         /\ t[n].area \in Areas /\ t[n].name \in Names \cup Nodes
  BY DEF Table, Entry

\* A folder without a parent in S, for every set S of folders that was there already, is
\* also found with one more node that has nothing below it.
LEMMA InsertKeepsTree ==
  ASSUME NEW A, NEW t, IsTree(t, A), NEW n \in Folders \cup Files, n \notin DOMAIN t,
         NEW p, IsFolder(t, p), NEW name,
         n \in Files => name = n,
         n \in Folders => name \in Names /\ NameFree(t, p, name, None)
  PROVE  IsTree(Inserted(t, n, p, name), A)
<1> PICK u : u = Inserted(t, n, p, name)
  OBVIOUS
<1>1. /\ DOMAIN u = DOMAIN t \cup {n} /\ u = [k \in DOMAIN u |-> u[k]]
      /\ u[n] = [parent |-> p, name |-> name, area |-> t[p].area]
      /\ u[n].parent = p /\ u[n].name = name /\ u[n].area = t[p].area
      /\ \A k \in DOMAIN t : u[k] = t[k]
  BY DEF Inserted
<1>2. p \in DOMAIN t /\ p \notin Files /\ n \notin Areas /\ p # n /\ n \in Nodes
  BY DirConstants DEF IsFolder, Nodes
<1>3. Table(t) /\ Labelled(t) /\ RootedIn(t, A) /\ Sound(t)
  BY DEF IsTree
<1>4. Table(u)
  <2>1. u[n] \in Entry
    <3>1. t[p].area \in Areas /\ p \in Nodes
      BY <1>2, <1>3, EntryOf
    <3>2. name \in Names \cup Nodes
      BY <1>2
    <3> QED
      BY <1>1, <3>1, <3>2 DEF Entry
  <2>2. \A k \in DOMAIN u : u[k] \in Entry
    BY <2>1, <1>1, <1>3, EntryOf
  <2> QED
    BY <2>2, <1>1, <1>2, <1>3 DEF Table
<1>5. Labelled(u)
  BY <1>1, <1>3, DirConstants DEF Labelled
<1>6. \A k \in DOMAIN t : t[k].parent # n
  <2> SUFFICES ASSUME NEW k \in DOMAIN t, t[k].parent = n PROVE FALSE
    OBVIOUS
  <2>1. n # Top
    BY <1>2, DirConstants
  <2> QED
    BY <2>1, <1>3 DEF Sound, IsFolder
<1>7. RootedIn(u, A)
  <2> SUFFICES ASSUME NEW S \in SUBSET DirsIn(u, A), S # {} PROVE \E k \in S : u[k].parent \notin S
    BY DEF RootedIn
  <2>1. S \ {n} \subseteq DirsIn(t, A)
    BY <1>1 DEF DirsIn, Dirs
  <2>2. CASE S \ {n} = {}
    BY <2>2, <1>1, <1>2
  <2>3. CASE S \ {n} # {}
    <3>1. PICK k \in S \ {n} : t[k].parent \notin S \ {n}
      BY <2>1, <2>3, <1>3 DEF RootedIn
    <3>2. k \in DOMAIN t
      BY <2>1 DEF DirsIn, Dirs
    <3> QED
      BY <3>1, <3>2, <1>1, <1>6
  <2> QED
    BY <2>2, <2>3
<1>8. Sound(u)
  <2>1. \A k \in DOMAIN u : u[k].parent # Top =>
           IsFolder(u, u[k].parent) /\ u[k].area = u[u[k].parent].area
    <3> SUFFICES ASSUME NEW k \in DOMAIN u, u[k].parent # Top
                 PROVE IsFolder(u, u[k].parent) /\ u[k].area = u[u[k].parent].area
      OBVIOUS
    <3>1. CASE k = n
      BY <3>1, <1>1, <1>2 DEF IsFolder
    <3>2. CASE k # n
      BY <3>2, <1>1, <1>3 DEF IsFolder, Sound
    <3> QED
      BY <3>1, <3>2
  <2>2. \A k \in DOMAIN t \ Areas : t[k].parent = p => t[k].name # name
    <3> SUFFICES ASSUME NEW k \in DOMAIN t \ Areas, t[k].parent = p, t[k].name = name PROVE FALSE
      OBVIOUS
    <3>1. CASE n \in Folders
      <4>1. k # None
        BY <1>3, DirConstants DEF Table
      <4> QED
        BY <3>1, <4>1 DEF NameFree, Kids
    <3>2. CASE n \in Files
      <4>1. t[k].name \in Names \cup {k}
        BY <1>3 DEF Labelled, Table, Nodes
      <4> QED
        BY <3>2, <4>1, <1>2, DirConstants
    <3> QED
      BY <3>1, <3>2
  <2>3. \A j, k \in DOMAIN u \ Areas : u[j].parent = u[k].parent /\ u[j].name = u[k].name => j = k
    <3>1. \A j, k \in DOMAIN t \ Areas : t[j].parent = t[k].parent /\ t[j].name = t[k].name => j = k
      BY <1>3 DEF Sound
    <3> QED
      BY <2>2, <3>1, <1>1
  <2>4. \A k \in DOMAIN u : u[k].parent = Top <=> k \in Areas
    <3>1. p # Top
      BY <1>2, <1>3, DirConstants DEF Table
    <3>2. \A k \in DOMAIN t : t[k].parent = Top <=> k \in Areas
      BY <1>3 DEF Sound
    <3> QED
      BY <3>1, <3>2, <1>1, <1>2
  <2> QED
    BY <2>1, <2>3, <2>4 DEF Sound
<1> QED
  BY <1>4, <1>5, <1>7, <1>8 DEF IsTree

\* A row without children goes.
LEMMA RemoveKeepsTree ==
  ASSUME NEW A, NEW t, IsTree(t, A), NEW n, Kids(t, n) = {}
  PROVE  IsTree(Removed(t, n), A)
<1> DEFINE u == Removed(t, n)
<1>1. DOMAIN u = DOMAIN t \ {n} /\ u = [k \in DOMAIN u |-> u[k]] /\ \A k \in DOMAIN u : u[k] = t[k]
  BY DEF Removed
<1> HIDE DEF u
<1>2. Table(t) /\ Labelled(t) /\ RootedIn(t, A) /\ Sound(t)
  BY DEF IsTree
<1>3. \A k \in DOMAIN t : t[k].parent # n
  BY DEF Kids
<1>4. Table(u)
  BY <1>1, <1>2, EntryOf DEF Table
<1>5. Labelled(u)
  BY <1>1, <1>2 DEF Labelled
<1>6. RootedIn(u, A)
  <2> SUFFICES ASSUME NEW S \in SUBSET DirsIn(u, A), S # {} PROVE \E k \in S : u[k].parent \notin S
    BY DEF RootedIn
  <2>1. S \subseteq DirsIn(t, A) /\ S \subseteq DOMAIN u
    BY <1>1 DEF DirsIn, Dirs
  <2> QED
    BY <2>1, <1>1, <1>2 DEF RootedIn
<1>7. Sound(u)
  BY <1>1, <1>2, <1>3 DEF Sound, IsFolder
<1> QED
  BY <1>4, <1>5, <1>6, <1>7 DEF IsTree, u

\* A folder gets a name that is free.
LEMMA RenameKeepsTree ==
  ASSUME NEW A, NEW t, IsTree(t, A), NEW n \in Folders, NEW name \in Names, CanRename(t, n, name)
  PROVE  IsTree(Renamed(t, n, name), A)
<1> DEFINE u == Renamed(t, n, name)
<1>1. Table(t) /\ Labelled(t) /\ RootedIn(t, A) /\ Sound(t)
  BY DEF IsTree
<1>2. n \in DOMAIN t /\ n \notin Areas /\ n \notin Files /\ NameFree(t, t[n].parent, name, n)
  BY DirConstants DEF CanRename
<1>3. t[n] \in Entry
  BY <1>1, <1>2, EntryOf
<1>4. /\ DOMAIN u = DOMAIN t /\ u = [k \in DOMAIN u |-> u[k]]
      /\ \A k \in DOMAIN t \ {n} : u[k] = t[k]
      /\ u[n] = [t[n] EXCEPT !.name = name]
  BY <1>1, <1>2 DEF Renamed, Table
<1>5. u[n].parent = t[n].parent /\ u[n].area = t[n].area /\ u[n].name = name /\ u[n] \in Entry
  BY <1>3, <1>4 DEF Entry
<1> HIDE DEF u
<1>6. \A k \in DOMAIN t : u[k].parent = t[k].parent /\ u[k].area = t[k].area
  BY <1>4, <1>5
<1>7. Table(u)
  BY <1>1, <1>4, <1>5, EntryOf DEF Table
<1>8. Labelled(u)
  BY <1>1, <1>2, <1>4, <1>5 DEF Labelled
<1>9. RootedIn(u, A)
  <2> SUFFICES ASSUME NEW S \in SUBSET DirsIn(u, A), S # {} PROVE \E k \in S : u[k].parent \notin S
    BY DEF RootedIn
  <2>1. S \subseteq DirsIn(t, A) /\ S \subseteq DOMAIN t
    BY <1>4, <1>6 DEF DirsIn, Dirs
  <2> QED
    BY <2>1, <1>1, <1>6 DEF RootedIn
<1>10. Sound(u)
  <2>1. \A k \in DOMAIN u : u[k].parent # Top =>
           IsFolder(u, u[k].parent) /\ u[k].area = u[u[k].parent].area
    BY <1>1, <1>4, <1>6 DEF Sound, IsFolder
  <2>2. \A k \in DOMAIN t \ {n} : t[k].parent = t[n].parent => t[k].name # name
    BY <1>2 DEF NameFree, Kids
  <2>3. \A j, k \in DOMAIN u \ Areas : u[j].parent = u[k].parent /\ u[j].name = u[k].name => j = k
    <3>1. \A j, k \in DOMAIN t \ Areas : t[j].parent = t[k].parent /\ t[j].name = t[k].name => j = k
      BY <1>1 DEF Sound
    <3> SUFFICES ASSUME NEW j \in DOMAIN t \ Areas, NEW k \in DOMAIN t \ Areas,
                        u[j].parent = u[k].parent, u[j].name = u[k].name
                 PROVE  j = k
      BY <1>4
    <3>2. t[j].parent = t[k].parent
      BY <1>6
    <3>3. CASE j # n /\ k # n
      BY <3>1, <3>2, <3>3, <1>4
    <3>4. CASE j = n /\ k # n
      BY <2>2, <3>2, <3>4, <1>4, <1>5
    <3>5. CASE j # n /\ k = n
      BY <2>2, <3>2, <3>5, <1>4, <1>5
    <3> QED
      BY <3>3, <3>4, <3>5
  <2>4. \A k \in DOMAIN u : u[k].parent = Top <=> k \in Areas
    BY <1>1, <1>4, <1>6 DEF Sound
  <2> QED
    BY <2>1, <2>3, <2>4 DEF Sound
<1> QED
  BY <1>7, <1>8, <1>9, <1>10 DEF IsTree, u

\* The folders above p, and p, are a set that a move of n into p does not enter from
\* outside when n is not among them: whatever set of folders one looks at, it has a way
\* out, by that set or as before.
LEMMA MoveKeepsTree ==
  ASSUME NEW A, NEW t, IsTree(t, A), NEW n \in DOMAIN t, n \notin Areas, NEW p, IsFolder(t, p),
         t[p].area = t[n].area, NameFree(t, p, t[n].name, n),
         n \in Files \/ ~Within(t, p, n)
  PROVE  IsTree(Moved(t, n, p), A)
<1> DEFINE u == Moved(t, n, p)
<1>1. Table(t) /\ Labelled(t) /\ RootedIn(t, A) /\ Sound(t)
  BY DEF IsTree
<1>2. p \in DOMAIN t /\ p \notin Files /\ p \in Nodes /\ p # Top
  BY <1>1, DirConstants DEF IsFolder, Table
<1>3. t[n] \in Entry
  BY <1>1, EntryOf
<1>4. /\ DOMAIN u = DOMAIN t /\ u = [k \in DOMAIN u |-> u[k]]
      /\ \A k \in DOMAIN t \ {n} : u[k] = t[k]
      /\ u[n] = [t[n] EXCEPT !.parent = p]
  BY <1>1, <1>2 DEF Moved, Table
<1>5. u[n].parent = p /\ u[n].area = t[n].area /\ u[n].name = t[n].name /\ u[n] \in Entry
  BY <1>2, <1>3, <1>4 DEF Entry
<1> HIDE DEF u
<1>6. \A k \in DOMAIN t : u[k].name = t[k].name /\ u[k].area = t[k].area
  BY <1>4, <1>5
<1>7. Table(u)
  BY <1>1, <1>4, <1>5, EntryOf DEF Table
<1>8. Labelled(u)
  BY <1>1, <1>4, <1>6 DEF Labelled
<1>9. RootedIn(u, A)
  <2> SUFFICES ASSUME NEW S \in SUBSET DirsIn(u, A), S # {} PROVE \E k \in S : u[k].parent \notin S
    BY DEF RootedIn
  <2>1. S \subseteq DirsIn(t, A) /\ S \subseteq DOMAIN t
    BY <1>4, <1>6 DEF DirsIn, Dirs
  <2>2. CASE n \in Files
    <3>1. \A k \in S : u[k] = t[k]
      BY <2>1, <2>2, <1>4 DEF DirsIn, Dirs
    <3> QED
      BY <2>1, <3>1, <1>1 DEF RootedIn
  <2>3. CASE ~Within(t, p, n)
    <3>1. PICK C \in SUBSET Dirs(t) : p \in C /\ Closed(t, C) /\ n \notin C
      BY <2>3 DEF Within
    <3>2. CASE S \cap C # {}
      <4>1. PICK k \in S \cap C : t[k].parent \notin S \cap C
        BY <2>1, <3>2, <1>1 DEF RootedIn
      <4>2. t[k].parent \in C \cup {Top} /\ k # n
        BY <4>1, <3>1 DEF Closed
      <4>3. Top \notin S
        BY <2>1, <1>1, DirConstants DEF Table
      <4> QED
        BY <4>1, <4>2, <4>3, <2>1, <1>4
    <3>3. CASE S \cap C = {}
      <4>1. PICK k \in S : t[k].parent \notin S
        BY <2>1, <1>1 DEF RootedIn
      <4> QED
        BY <4>1, <3>1, <3>3, <2>1, <1>4, <1>5
    <3> QED
      BY <3>2, <3>3
  <2> QED
    BY <2>2, <2>3
<1>10. Sound(u)
  <2>1. \A k \in DOMAIN u : u[k].parent # Top =>
           IsFolder(u, u[k].parent) /\ u[k].area = u[u[k].parent].area
    <3> SUFFICES ASSUME NEW k \in DOMAIN u, u[k].parent # Top
                 PROVE IsFolder(u, u[k].parent) /\ u[k].area = u[u[k].parent].area
      OBVIOUS
    <3>1. CASE k = n
      BY <3>1, <1>2, <1>4, <1>5, <1>6 DEF IsFolder
    <3>2. CASE k # n
      BY <3>2, <1>1, <1>4, <1>6 DEF Sound, IsFolder
    <3> QED
      BY <3>1, <3>2
  <2>2. \A k \in DOMAIN t \ {n} : t[k].parent = p => t[k].name # t[n].name
    BY DEF NameFree, Kids
  <2>3. \A j, k \in DOMAIN u \ Areas : u[j].parent = u[k].parent /\ u[j].name = u[k].name => j = k
    <3>1. \A j, k \in DOMAIN t \ Areas : t[j].parent = t[k].parent /\ t[j].name = t[k].name => j = k
      BY <1>1 DEF Sound
    <3> SUFFICES ASSUME NEW j \in DOMAIN t \ Areas, NEW k \in DOMAIN t \ Areas,
                        u[j].parent = u[k].parent, u[j].name = u[k].name
                 PROVE  j = k
      BY <1>4
    <3>2. t[j].name = t[k].name
      BY <1>6
    <3>3. CASE j # n /\ k # n
      BY <3>1, <3>2, <3>3, <1>4
    <3>4. CASE j = n /\ k # n
      BY <2>2, <3>2, <3>4, <1>4, <1>5
    <3>5. CASE j # n /\ k = n
      BY <2>2, <3>2, <3>5, <1>4, <1>5
    <3> QED
      BY <3>3, <3>4, <3>5
  <2>4. \A k \in DOMAIN u : u[k].parent = Top <=> k \in Areas
    BY <1>1, <1>2, <1>4, <1>5 DEF Sound
  <2> QED
    BY <2>1, <2>3, <2>4 DEF Sound
<1> QED
  BY <1>7, <1>8, <1>9, <1>10 DEF IsTree, u

\* The name of a file is free in every folder.
LEMMA FileNameFree ==
  ASSUME NEW A, NEW t, IsTree(t, A), NEW f \in Files, NEW p, NEW self \in {f, None}, f \notin DOMAIN t \/ self = f
  PROVE  p \in Nodes => NameFree(t, p, f, self)
<1> SUFFICES ASSUME p \in Nodes, NEW k \in DOMAIN t, t[k].parent = p, k # self, t[k].name = f PROVE FALSE
  BY DEF NameFree, Kids
<1>1. Table(t) /\ Labelled(t) /\ Sound(t)
  BY DEF IsTree
<1>2. k \in Nodes /\ k \notin Areas
  BY <1>1, DirConstants DEF Sound, Table
<1>3. t[k].name \in Names \cup {k}
  BY <1>1, <1>2 DEF Labelled, Nodes
<1> QED
  BY <1>2, <1>3, DirConstants DEF Nodes

\* Nothing lies in a file.
LEMMA FilesHoldNothing ==
  ASSUME NEW A, NEW t, IsTree(t, A), NEW f \in Files
  PROVE  Kids(t, f) = {}
  BY DirConstants DEF IsTree, Sound, IsFolder, Kids, Nodes

-----------------------------------------------------------------------------
(* Moves that wait for their commit.                                       *)

\* Folders keep their parents, and nodes their trees.
Stays(t, u) ==
    \A n \in DOMAIN t \cap DOMAIN u :
      u[n].area = t[n].area /\ (n \notin Files => u[n].parent = t[n].parent)

\* n may go to p, as long as both are there.
Ready(t, n, p) ==
    n \in DOMAIN t /\ p \in DOMAIN t =>
      /\ n \notin Areas /\ IsFolder(t, p) /\ t[p].area = t[n].area
      /\ n \in Files \/ ~Within(t, p, n)

\* A move that was harmless stays so while folders come, go and change their names: the
\* folders that were above its destination and are still there are all that is above it.
LEMMA ReadyStays ==
  ASSUME NEW A, NEW t, IsTree(t, A), NEW B, NEW u, IsTree(u, B), Stays(t, u),
         NEW n, NEW p, Ready(t, n, p),
         n \in DOMAIN u => n \in DOMAIN t, p \in DOMAIN u => p \in DOMAIN t
  PROVE  Ready(u, n, p)
<1> SUFFICES ASSUME n \in DOMAIN u, p \in DOMAIN u
             PROVE  /\ n \notin Areas /\ IsFolder(u, p) /\ u[p].area = u[n].area
                    /\ n \in Files \/ ~Within(u, p, n)
  BY DEF Ready
<1>1. /\ n \notin Areas /\ IsFolder(t, p) /\ t[p].area = t[n].area
      /\ n \in Files \/ ~Within(t, p, n)
  BY DEF Ready
<1>2. IsFolder(u, p) /\ u[p].area = u[n].area
  BY <1>1 DEF IsFolder, Stays
<1>3. ASSUME n \notin Files PROVE ~Within(u, p, n)
  <2>1. PICK C \in SUBSET Dirs(t) : p \in C /\ Closed(t, C) /\ n \notin C
    BY <1>1, <1>3 DEF Within
  <2>2. PICK D : D = C \cap DOMAIN u
    OBVIOUS
  <2>3. D \in SUBSET Dirs(u) /\ p \in D /\ n \notin D
    BY <2>1, <2>2 DEF Dirs
  <2>4. Closed(u, D)
    <3> SUFFICES ASSUME NEW k \in D, u[k].parent # Top PROVE u[k].parent \in D
      BY DEF Closed
    <3>1. k \in DOMAIN t \cap DOMAIN u /\ k \notin Files /\ k \in C
      BY <2>1, <2>2 DEF Dirs
    <3>2. u[k].parent = t[k].parent
      BY <3>1 DEF Stays
    <3>3. u[k].parent \in C
      BY <2>1, <3>1, <3>2 DEF Closed
    <3>4. u[k].parent \in DOMAIN u
      BY <3>1 DEF IsTree, Sound, IsFolder
    <3> QED
      BY <3>3, <3>4, <2>2
  <2> QED
    BY <2>3, <2>4 DEF Within
<1> QED
  BY <1>1, <1>2, <1>3

-----------------------------------------------------------------------------
(* Copies and deletions of folders, step by step.                          *)

Frames == [src : Nodes \cup {Top}, made : Nodes, kids : (SUBSET Nodes) \cup {None}]
Calls == [op : {"copy", "delete"}, top : Folders \cup {None}, stack : Seq(Frames) \ {<<>>},
          file : Files \cup {None}, from : Files \cup {None}]

\* A call that copies into folders of mine only.
IsCall(e, mine) ==
    /\ e \in Calls
    /\ e.op = "copy" => /\ \A i \in DOMAIN e.stack : e.stack[i].made \in mine
                        /\ e.file \in mine \cup {None}

CallOrNone(e, mine) == e = None \/ IsCall(e, mine)

\* The fields of a call.
LEMMA CallFields ==
  ASSUME NEW mine, NEW e, IsCall(e, mine)
  PROVE  /\ e.op \in {"copy", "delete"} /\ e.top \in Folders \cup {None}
         /\ e.file \in Files \cup {None} /\ e.from \in Files \cup {None}
         /\ e.stack \in Seq(Frames) /\ e.stack # <<>> /\ Len(e.stack) \in Nat \ {0}
         /\ 1 \in DOMAIN e.stack /\ e.stack[1] \in Frames /\ Head(e.stack) = e.stack[1]
         /\ e.stack[1].made \in Nodes /\ e.stack[1].kids \in (SUBSET Nodes) \cup {None}
         /\ e.op = "copy" => e.stack[1].made \in mine
<1>1. /\ e.op \in {"copy", "delete"} /\ e.top \in Folders \cup {None}
      /\ e.file \in Files \cup {None} /\ e.from \in Files \cup {None}
      /\ e.stack \in Seq(Frames) /\ e.stack # <<>>
  BY DEF IsCall, Calls
<1>2. Len(e.stack) \in Nat \ {0} /\ 1 \in DOMAIN e.stack /\ Head(e.stack) = e.stack[1]
  BY <1>1
<1>3. e.stack[1] \in Frames
  BY <1>1, <1>2
<1>4. e.stack[1].made \in Nodes /\ e.stack[1].kids \in (SUBSET Nodes) \cup {None}
  BY <1>3 DEF Frames
<1> QED
  BY <1>1, <1>2, <1>3, <1>4 DEF IsCall

\* A call whose stack is exchanged.
LEMMA OtherStack ==
  ASSUME NEW mine, NEW e, IsCall(e, mine), NEW s \in Seq(Frames) \ {<<>>},
         e.op = "copy" => \A i \in DOMAIN s : s[i].made \in mine
  PROVE  /\ IsCall([e EXCEPT !.stack = s], mine)
         /\ [e EXCEPT !.stack = s].op = e.op
  BY DEF IsCall, Calls

\* Other children in the topmost frame.
LEMMA OtherKids ==
  ASSUME NEW mine, NEW e, IsCall(e, mine), NEW c \in (SUBSET Nodes) \cup {None},
         NEW s, s = [e.stack EXCEPT ![1].kids = c]
  PROVE  /\ s \in Seq(Frames) \ {<<>>} /\ Len(s) = Len(e.stack)
         /\ e.op = "copy" => \A i \in DOMAIN s : s[i].made \in mine
<1>1. e.stack \in Seq(Frames) /\ 1 \in DOMAIN e.stack /\ e.stack[1] \in Frames /\ Len(e.stack) \in Nat \ {0}
  BY CallFields
<1>2. PICK f : f = [e.stack[1] EXCEPT !.kids = c]
  OBVIOUS
<1>3. f \in Frames /\ f.made = e.stack[1].made
  BY <1>1, <1>2 DEF Frames
<1>4. s = [e.stack EXCEPT ![1] = f]
  BY <1>2
<1>5. s \in Seq(Frames) /\ Len(s) = Len(e.stack) /\ DOMAIN s = DOMAIN e.stack
  BY <1>1, <1>3, <1>4
<1>6. \A i \in DOMAIN s : s[i].made = e.stack[i].made
  BY <1>1, <1>3, <1>4, <1>5
<1> QED
  BY <1>1, <1>5, <1>6 DEF IsCall

\* The topmost folder's children are listed.
LEMMA ListKidsIsCall ==
  ASSUME NEW mine, NEW e, IsCall(e, mine), NEW c \in (SUBSET Nodes) \cup {None}
  PROVE  /\ IsCall([e EXCEPT !.stack[1].kids = c], mine)
         /\ [e EXCEPT !.stack[1].kids = c].op = e.op
<1>1. PICK s : s = [e.stack EXCEPT ![1].kids = c]
  OBVIOUS
<1>2. [e EXCEPT !.stack[1].kids = c] = [e EXCEPT !.stack = s]
  BY <1>1
<1>3. /\ s \in Seq(Frames) \ {<<>>}
      /\ e.op = "copy" => \A i \in DOMAIN s : s[i].made \in mine
  BY <1>1, OtherKids
<1>4. IsCall([e EXCEPT !.stack = s], mine) /\ [e EXCEPT !.stack = s].op = e.op
  BY <1>3, OtherStack
<1> QED
  BY <1>2, <1>4

\* One child is dealt with.
LEMMA SkipIsCall ==
  ASSUME NEW mine, NEW e, IsCall(e, mine), NEW k, e.stack[1].kids # None
  PROVE  IsCall(Skip(e, k), mine) /\ Skip(e, k).op = e.op
<1>1. PICK c : c = e.stack[1].kids \ {k}
  OBVIOUS
<1>2. c \in (SUBSET Nodes) \cup {None}
  BY <1>1, CallFields
<1>3. Skip(e, k) = [e EXCEPT !.stack[1].kids = c]
  BY <1>1 DEF Skip
<1> QED
  BY <1>2, <1>3, ListKidsIsCall

\* One child is dealt with after a folder has been put on top.
LEMMA PushIsCall ==
  ASSUME NEW mine, NEW e, IsCall(e, mine), NEW k, e.stack[1].kids # None,
         NEW f \in Frames, e.op = "copy" => f.made \in mine
  PROVE  IsCall(Push(e, k, f), mine) /\ Push(e, k, f).op = e.op /\ Push(e, k, f).top = e.top
<1>1. PICK s : s = Skip(e, k).stack
  OBVIOUS
<1>2. /\ s \in Seq(Frames) \ {<<>>}
      /\ e.op = "copy" => \A i \in DOMAIN s : s[i].made \in mine
  BY <1>1, SkipIsCall DEF IsCall, Calls
<1>3. PICK w : w = <<f>> \o s
  OBVIOUS
<1>4. w \in Seq(Frames) /\ Len(w) = Len(s) + 1 /\ Len(s) \in Nat
  BY <1>2, <1>3
<1>5. w # <<>>
  BY <1>4
<1>6. w[1] = f /\ \A i \in 1..Len(w) : i # 1 => i - 1 \in 1..Len(s) /\ w[i] = s[i - 1]
  BY <1>2, <1>3
<1>7. e.op = "copy" => \A i \in DOMAIN w : w[i].made \in mine
  BY <1>2, <1>4, <1>6
<1>8. Push(e, k, f) = [e EXCEPT !.stack = w]
  BY <1>1, <1>3 DEF Push
<1>9. Push(e, k, f).top = e.top
  BY <1>8 DEF IsCall, Calls
<1>10. IsCall([e EXCEPT !.stack = w], mine) /\ [e EXCEPT !.stack = w].op = e.op
  BY <1>4, <1>5, <1>7, OtherStack
<1> QED
  BY <1>8, <1>9, <1>10

\* The topmost folder is done with, and with the last one the call.
LEMMA PopIsCall ==
  ASSUME NEW mine, NEW e, IsCall(e, mine)
  PROVE  CallOrNone(Pop(e), mine) /\ (Pop(e) = None \/ Pop(e).op = e.op)
<1>1. e.stack \in Seq(Frames) /\ e.stack # <<>> /\ Len(e.stack) \in Nat \ {0}
  BY CallFields
<1>2. CASE Len(e.stack) = 1
  BY <1>2 DEF Pop, CallOrNone
<1>3. CASE Len(e.stack) # 1
  <2>1. PICK s : s = Tail(e.stack)
    OBVIOUS
  <2>2. s \in Seq(Frames) /\ Len(s) = Len(e.stack) - 1 /\ Len(s) # 0
    BY <1>1, <1>3, <2>1
  <2>3. \A i \in 1..Len(s) : s[i] = e.stack[i + 1] /\ i + 1 \in 1..Len(e.stack)
    BY <1>1, <1>3, <2>1, <2>2
  <2>8. s # <<>>
    <3>1. Len(<<>>) = 0
      OBVIOUS
    <3> QED
      BY <2>2, <3>1
  <2>4. DOMAIN s = 1..Len(s) /\ DOMAIN e.stack = 1..Len(e.stack)
    BY <1>1, <2>2
  <2>5. e.op = "copy" => \A i \in DOMAIN s : s[i].made \in mine
    BY <2>3, <2>4 DEF IsCall
  <2>6. IsCall([e EXCEPT !.stack = s], mine) /\ [e EXCEPT !.stack = s].op = e.op
    BY <2>2, <2>8, <2>5, OtherStack
  <2>7. Pop(e) = [e EXCEPT !.stack = s]
    BY <1>3, <2>1 DEF Pop
  <2> QED
    BY <2>6, <2>7 DEF CallOrNone
<1> QED
  BY <1>2, <1>3

\* A deletion that begins.
LEMMA DeletingIsCall ==
  ASSUME NEW mine, NEW n \in Folders
  PROVE  IsCall(Deleting(n), mine) /\ Deleting(n).op = "delete"
<1>1. PICK f : f = [src |-> n, made |-> n, kids |-> None]
  OBVIOUS
<1>2. f \in Frames
  BY <1>1 DEF Frames, Nodes
<1>3. <<f>> \in Seq(Frames) \ {<<>>}
  BY <1>2
<1>4. Deleting(n) = [op |-> "delete", top |-> n, stack |-> <<f>>, file |-> None, from |-> None]
  BY <1>1 DEF Deleting, Call, Frame
<1> QED
  BY <1>3, <1>4 DEF IsCall, Calls

\* A copy that begins.
LEMMA CopyingIsCall ==
  ASSUME NEW mine, NEW n \in Nodes, NEW p \in mine \cap Nodes
  PROVE  IsCall(Copying(n, p), mine) /\ Copying(n, p).op = "copy"
<1>1. PICK f : f = [src |-> Top, made |-> p, kids |-> {n}]
  OBVIOUS
<1>2. f \in Frames /\ f.made \in mine
  BY <1>1 DEF Frames
<1>3. PICK s : s = <<f>>
  OBVIOUS
<1>4. s \in Seq(Frames) \ {<<>>} /\ \A i \in DOMAIN s : s[i].made \in mine
  BY <1>2, <1>3
<1>5. Copying(n, p) = [op |-> "copy", top |-> None, stack |-> s, file |-> None, from |-> None]
  BY <1>1, <1>3 DEF Copying, Call, Frame
<1> QED
  BY <1>4, <1>5 DEF IsCall, Calls

\* A copy that gives up deletes what it made, if it made anything.
LEMMA GiveUpIsCall ==
  ASSUME NEW mine, NEW e, IsCall(e, mine)
  PROVE  CallOrNone(GiveUp(e), mine)
  BY CallFields, DeletingIsCall DEF GiveUp, CallOrNone

\* A step of a deletion removes a file or an empty folder that is no root, or nothing.
LEMMA DeleteStepKeeps ==
  ASSUME NEW A, NEW t, IsTree(t, A), NEW mine, NEW e, IsCall(e, mine), e.op = "delete",
         NEW r \in DeleteStep(t, e)
  PROVE  /\ IsTree(r.tree, A) /\ Stays(t, r.tree)
         /\ DOMAIN r.tree \subseteq DOMAIN t /\ DOMAIN t \cap Areas \subseteq DOMAIN r.tree
         /\ CallOrNone(r.call, mine) /\ (r.call = None \/ r.call.op = "delete")
<1> DEFINE Good == /\ IsTree(r.tree, A) /\ Stays(t, r.tree)
                   /\ DOMAIN r.tree \subseteq DOMAIN t /\ DOMAIN t \cap Areas \subseteq DOMAIN r.tree
           Goes == CallOrNone(r.call, mine) /\ (r.call = None \/ r.call.op = "delete")
<1>1. PICK f : f = Head(e.stack)
  OBVIOUS
<1>2. f = e.stack[1] /\ f.kids \in (SUBSET Nodes) \cup {None} /\ f \in Frames
  BY <1>1, CallFields
<1>4. ASSUME NEW c, r \in To(t, c), CallOrNone(c, mine), c = None \/ c.op = "delete" PROVE Good /\ Goes
  BY <1>4 DEF To, Stays
<1>5. ASSUME NEW c, NEW k, r \in To(Removed(t, k), c), Kids(t, k) = {}, k \notin Areas,
             CallOrNone(c, mine), c = None \/ c.op = "delete"
      PROVE  Good /\ Goes
  <2>1. r.tree = Removed(t, k) /\ r.call = c
    BY <1>5 DEF To
  <2>2. IsTree(Removed(t, k), A)
    BY <1>5, RemoveKeepsTree
  <2>3. DOMAIN Removed(t, k) = DOMAIN t \ {k} /\ \A n \in DOMAIN t \ {k} : Removed(t, k)[n] = t[n]
    BY DEF Removed
  <2> QED
    BY <2>1, <2>2, <2>3, <1>5 DEF Stays
<1>6. CASE f.kids = None
  <2>1. r \in To(t, [e EXCEPT !.stack[1].kids = Kids(t, f.src)])
    BY <1>1, <1>6 DEF DeleteStep
  <2>2. Kids(t, f.src) \in SUBSET Nodes
    BY DEF Kids, IsTree, Table
  <2>3. IsCall([e EXCEPT !.stack[1].kids = Kids(t, f.src)], mine)
        /\ [e EXCEPT !.stack[1].kids = Kids(t, f.src)].op = "delete"
    BY <2>2, ListKidsIsCall
  <2> QED
    BY <2>1, <2>3, <1>4 DEF CallOrNone
<1>7. CASE f.kids # None /\ f.kids = {}
  <2>1. CASE CanDelete(t, f.src)
    <3>1. r \in To(Removed(t, f.src), Pop(e))
      BY <1>1, <1>7, <2>1 DEF DeleteStep
    <3>2. Kids(t, f.src) = {} /\ f.src \notin Areas
      BY <2>1 DEF CanDelete, IsTree, Sound
    <3> QED
      BY <3>1, <3>2, <1>5, PopIsCall
  <2>2. CASE ~CanDelete(t, f.src)
    <3>1. r \in To(t, None)
      BY <1>1, <1>7, <2>2 DEF DeleteStep
    <3> QED
      BY <3>1, <1>4 DEF CallOrNone
  <2> QED
    BY <2>1, <2>2
<1>8. CASE f.kids # None /\ f.kids # {}
  <2>1. PICK k \in f.kids : r \in IF k \notin Files THEN To(t, Push(e, k, Frame(k, k, None)))
                                  ELSE To(t, None) \cup (IF k \in DOMAIN t THEN To(Removed(t, k), Skip(e, k))
                                                         ELSE {})
    BY <1>1, <1>8 DEF DeleteStep
  <2>2. k \in Nodes
    BY <1>2, <1>8, <2>1
  <2>3. CASE k \notin Files
    <3>1. Frame(k, k, None) \in Frames
      BY <2>2 DEF Frame, Frames
    <3>2. IsCall(Push(e, k, Frame(k, k, None)), mine) /\ Push(e, k, Frame(k, k, None)).op = "delete"
      BY <3>1, <1>2, <1>8, PushIsCall
    <3> QED
      BY <2>1, <2>3, <3>2, <1>4 DEF CallOrNone
  <2>4. CASE k \in Files
    <3>1. CASE r \in To(t, None)
      BY <3>1, <1>4 DEF CallOrNone
    <3>2. CASE r \in To(Removed(t, k), Skip(e, k))
      <4>1. IsCall(Skip(e, k), mine) /\ Skip(e, k).op = "delete"
        BY <1>2, <1>8, SkipIsCall
      <4>2. Kids(t, k) = {} /\ k \notin Areas
        BY <2>4, FilesHoldNothing, DirConstants
      <4> QED
        BY <3>2, <4>1, <4>2, <1>5 DEF CallOrNone
    <3> QED
      BY <2>1, <2>4, <3>1, <3>2
  <2> QED
    BY <2>3, <2>4
<1> QED
  BY <1>6, <1>7, <1>8

\* One step of a copy makes a folder or a file in the copy's tree, puts a file that it
\* made somewhere else in that tree, removes one again, or changes nothing.
LEMMA CopyStepKeeps ==
  ASSUME NEW A, NEW t, IsTree(t, A), NEW root \in DOMAIN t \cap Areas,
         NEW mine, \A n \in mine \cap DOMAIN t : t[n].area = t[root].area,
         NEW folders \in SUBSET (Folders \cap mine), folders \cap DOMAIN t = {},
         NEW files \in SUBSET (Files \cap mine), files \cap DOMAIN t = {},
         NEW e, IsCall(e, mine), e.op = "copy",
         NEW r \in CopyStep(t, e, root, folders, files)
  PROVE  /\ IsTree(r.tree, A) /\ Stays(t, r.tree)
         /\ DOMAIN r.tree \subseteq DOMAIN t \cup folders \cup files
         /\ \A n \in DOMAIN r.tree \ DOMAIN t : r.tree[n].area = t[root].area
         /\ DOMAIN t \cap Areas \subseteq DOMAIN r.tree
         /\ CallOrNone(r.call, mine)
<1> DEFINE Good == /\ IsTree(r.tree, A) /\ Stays(t, r.tree)
                   /\ DOMAIN r.tree \subseteq DOMAIN t \cup folders \cup files
                   /\ \A n \in DOMAIN r.tree \ DOMAIN t : r.tree[n].area = t[root].area
                   /\ DOMAIN t \cap Areas \subseteq DOMAIN r.tree
           Goes == CallOrNone(r.call, mine)
<1>1. PICK f : f = Head(e.stack)
  OBVIOUS
<1>2. /\ f = e.stack[1] /\ f.kids \in (SUBSET Nodes) \cup {None} /\ f \in Frames
      /\ f.made \in mine
  BY <1>1, CallFields
<1>3. e.file \in (Files \cap mine) \cup {None} /\ e.from \in Files \cup {None} /\ e \in Calls
      /\ e.top \in Folders \cup {None}
  BY CallFields DEF IsCall
<1>4. Table(t) /\ Sound(t)
  BY DEF IsTree
<1>5. ASSUME r.tree = t PROVE Good
  BY <1>5 DEF Stays
<1>6. ASSUME NEW n \in folders \cup files, NEW p \in mine \cup {root}, IsFolder(t, p), NEW name,
             n \in files => name = n, n \in folders => name \in Names /\ NameFree(t, p, name, None),
             r.tree = Inserted(t, n, p, name)
      PROVE  Good
  <2>1. n \in Folders \cup Files /\ n \notin DOMAIN t
    OBVIOUS
  <2>2. (n \in Files => name = n) /\ (n \in Folders => name \in Names /\ NameFree(t, p, name, None))
    BY <1>6, DirConstants
  <2>3. IsTree(Inserted(t, n, p, name), A)
    BY <1>6, <2>1, <2>2, InsertKeepsTree
  <2>4. /\ DOMAIN Inserted(t, n, p, name) = DOMAIN t \cup {n}
        /\ Inserted(t, n, p, name)[n].area = t[p].area
        /\ \A k \in DOMAIN t : Inserted(t, n, p, name)[k] = t[k]
    BY <2>1 DEF Inserted
  <2>5. t[p].area = t[root].area
    BY <1>6 DEF IsFolder
  <2> QED
    BY <2>3, <2>4, <2>5, <1>6 DEF Stays
<1>7. ASSUME NEW x \in DOMAIN t \cap Files, NEW p, IsFolder(t, p), t[p].area = t[x].area,
             r.tree = Moved(t, x, p)
      PROVE  Good
  <2>1. x \notin Areas /\ p \in Nodes
    BY <1>4, <1>7, DirConstants DEF Table, IsFolder
  <2>2. NameFree(t, p, t[x].name, x)
    <3>1. t[x].name = x
      BY DEF IsTree, Labelled
    <3> QED
      BY <3>1, <2>1, FileNameFree
  <2>3. IsTree(Moved(t, x, p), A)
    BY <1>7, <2>1, <2>2, MoveKeepsTree
  <2>4. t[x] \in Entry
    BY <1>4, EntryOf
  <2>5. /\ DOMAIN Moved(t, x, p) = DOMAIN t
        /\ \A k \in DOMAIN t \ {x} : Moved(t, x, p)[k] = t[k]
        /\ Moved(t, x, p)[x].area = t[x].area
    BY <2>4, <1>4 DEF Moved, Table, Entry
  <2> QED
    BY <2>3, <2>5, <1>7 DEF Stays
<1>8. ASSUME NEW x \in Files, r.tree = Removed(t, x) PROVE Good
  <2>1. IsTree(Removed(t, x), A)
    BY FilesHoldNothing, RemoveKeepsTree
  <2>2. DOMAIN Removed(t, x) = DOMAIN t \ {x} /\ \A n \in DOMAIN t \ {x} : Removed(t, x)[n] = t[n]
    BY DEF Removed
  <2> QED
    BY <2>1, <2>2, <1>8, DirConstants DEF Stays
<1>9. CallOrNone(GiveUp(e), mine)
  BY GiveUpIsCall
<1>10. CASE e.file # None /\ e.from # None
  <2>1. r \in PlaceBeside(t, e)
    BY <1>10 DEF CopyStep
  <2>2. PICK next : next = [e EXCEPT !.from = None]
    OBVIOUS
  <2>3. IsCall(next, mine)
    BY <2>2 DEF IsCall, Calls
  <2>4. CASE e.file \in DOMAIN t /\ e.from \in DOMAIN t /\ t[e.from].area = t[e.file].area
    <3>1. r.tree = Moved(t, e.file, t[e.from].parent) /\ r.call = next
      BY <2>1, <2>2, <2>4 DEF PlaceBeside, To
    <3>2. e.from \in Files /\ e.file \in Files /\ e.from \notin Areas
      BY <1>3, <1>10, DirConstants
    <3>3. IsFolder(t, t[e.from].parent) /\ t[t[e.from].parent].area = t[e.file].area
      BY <1>4, <2>4, <3>2 DEF Sound
    <3>4. Good
      BY <2>4, <3>1, <3>2, <3>3, <1>7
    <3> QED
      BY <3>1, <3>4, <2>3 DEF CallOrNone
  <2>5. CASE ~(e.file \in DOMAIN t /\ e.from \in DOMAIN t /\ t[e.from].area = t[e.file].area)
    <3>1. r.tree = t /\ r.call = next
      BY <2>1, <2>2, <2>5 DEF PlaceBeside, To
    <3> QED
      BY <3>1, <2>3, <1>5 DEF CallOrNone
  <2> QED
    BY <2>4, <2>5
<1>11. CASE e.file # None /\ e.from = None
  <2>1. r \in MoveCopy(t, e)
    BY <1>11 DEF CopyStep
  <2>2. PICK next : next = [e EXCEPT !.file = None]
    OBVIOUS
  <2>3. IsCall(next, mine)
    BY <2>2 DEF IsCall, Calls
  <2>4. e.file \in Files \cap mine
    BY <1>3, <1>11
  <2>5. CASE e.file \notin DOMAIN t
    <3>1. r.tree = t /\ r.call = GiveUp(e)
      BY <2>1, <2>5 DEF MoveCopy, To
    <3> QED
      BY <3>1, <1>5, <1>9
  <2>6. CASE e.file \in DOMAIN t /\ IsFolder(t, f.made)
    <3>1. r.tree = Moved(t, e.file, f.made) /\ r.call = next
      BY <2>1, <2>2, <2>6, <1>1 DEF MoveCopy, To
    <3>2. t[f.made].area = t[e.file].area
      BY <2>4, <2>6, <1>2 DEF IsFolder
    <3>3. Good
      BY <2>4, <2>6, <3>1, <3>2, <1>7
    <3> QED
      BY <3>1, <3>3, <2>3 DEF CallOrNone
  <2>7. CASE e.file \in DOMAIN t /\ ~IsFolder(t, f.made)
    <3>1. r.tree = Removed(t, e.file) /\ r.call = GiveUp(e)
      BY <2>1, <2>7, <1>1 DEF MoveCopy, To
    <3> QED
      BY <3>1, <2>4, <1>8, <1>9
  <2> QED
    BY <2>5, <2>6, <2>7
<1>12. CASE e.file = None /\ f.kids = None
  <2>1. r.tree = t /\ r.call = [e EXCEPT !.stack[1].kids = Kids(t, f.src)]
    BY <1>1, <1>12 DEF CopyStep, To
  <2>2. Kids(t, f.src) \in SUBSET Nodes
    BY <1>4 DEF Kids, Table
  <2> QED
    BY <2>1, <2>2, <1>5, ListKidsIsCall DEF CallOrNone
<1>13. CASE e.file = None /\ f.kids # None /\ f.kids = {}
  <2>1. r.tree = t /\ r.call = Pop(e)
    BY <1>1, <1>13 DEF CopyStep, To
  <2> QED
    BY <2>1, <1>5, PopIsCall
<1>14. CASE e.file = None /\ f.kids # None /\ f.kids # {}
  <2>1. CASE r \in To(t, GiveUp(e))
    BY <2>1, <1>5, <1>9 DEF To
  <2>2. CASE r \notin To(t, GiveUp(e))
    <3>1. PICK k \in f.kids : r \in IF k \in Files THEN CopyFile(t, e, k, root, files)
                                    ELSE CopyFolder(t, e, k, folders)
      BY <1>1, <1>14, <2>2 DEF CopyStep
    <3>2. k \in Nodes /\ e.stack[1].kids # None
      BY <1>2, <1>14, <3>1
    <3>3. CASE k \in Files
      <4>1. PICK x \in files : /\ r.tree = Inserted(t, x, root, x)
                               /\ r.call = [Skip(e, k) EXCEPT !.file = x, !.from = k]
        <5>1. PICK x \in IF k \in DOMAIN t THEN files ELSE {} :
                 r = [tree |-> Inserted(t, x, root, x),
                      call |-> [Skip(e, k) EXCEPT !.file = x, !.from = k]]
          BY <3>1, <3>3, Zenon DEF CopyFile
        <5>2. x \in files
          BY <5>1
        <5> QED
          BY <5>1, <5>2
      <4>2. IsFolder(t, root)
        BY DirConstants DEF IsFolder
      <4>3. x \notin folders /\ x \in Files \cap mine
        BY DirConstants
      <4>4. Good
        BY <4>1, <4>2, <4>3, <1>6
      <4>5. IsCall(Skip(e, k), mine)
        BY <3>2, SkipIsCall
      <4>6. IsCall([Skip(e, k) EXCEPT !.file = x, !.from = k], mine)
        BY <4>5, <4>3, <3>3 DEF IsCall, Calls
      <4> QED
        BY <4>1, <4>4, <4>6 DEF CallOrNone
    <3>4. CASE k \notin Files
      <4>1. PICK n \in folders, name \in Names :
               /\ CanInsert(t, f.made, name)
               /\ r.tree = Inserted(t, n, f.made, name)
               /\ r.call = [Push(e, k, Frame(k, n, None)) EXCEPT !.top = IF @ = None THEN n ELSE @]
        BY <3>1, <3>4, <1>1 DEF CopyFolder
      <4>2. IsFolder(t, f.made) /\ NameFree(t, f.made, name, None) /\ n \notin files
        BY <4>1, DirConstants DEF CanInsert
      <4>3. Good
        BY <4>1, <4>2, <1>2, <1>6
      <4>4. Frame(k, n, None) \in Frames /\ Frame(k, n, None).made \in mine
        BY <3>2 DEF Frame, Frames, Nodes
      <4>5. PICK q : q = Push(e, k, Frame(k, n, None))
        OBVIOUS
      <4>6. IsCall(q, mine)
        BY <4>4, <4>5, <3>2, PushIsCall
      <4>7. PICK top \in Folders \cup {None} : r.call = [q EXCEPT !.top = top]
        <5>1. q.top \in Folders \cup {None} /\ n \in Folders \cup {None}
          BY <4>6, CallFields
        <5>2. r.call = [q EXCEPT !.top = IF q.top = None THEN n ELSE q.top]
          BY <4>1, <4>5
        <5> QED
          BY <5>1, <5>2
      <4>8. IsCall([q EXCEPT !.top = top], mine)
        BY <4>6 DEF IsCall, Calls
      <4> QED
        BY <4>3, <4>7, <4>8 DEF CallOrNone
    <3> QED
      BY <3>3, <3>4
  <2> QED
    BY <2>1, <2>2
<1> QED
  BY <1>10, <1>11, <1>12, <1>13, <1>14

-----------------------------------------------------------------------------
(* The platform's tree at the WAN.                                         *)

Edits == [op : {"create", "rename", "move"}, node : Nodes \cup {None}, to : Nodes \cup {None},
          name : Names \cup {None}]

IsEdit(e) ==
    /\ e \in Edits
    /\ e.op \in {"create", "rename"} => e.name \in Names
    /\ e.op = "rename" => e.node \in Folders

\* What an admin may have under way.
Pending(e) ==
    \/ e = None
    \/ IsEdit(e)
    \/ IsCall(e, Nodes)
    \/ \E c : CallOrNone(c, Nodes) /\ e = Notify(c)
    \/ \E c, l : CallOrNone(c, Nodes) /\ e = [op |-> "publish", rest |-> c, layout |-> l]

\* A move holds the lock from its check to its commit, and what was checked still is so.
MoveHolds(a) ==
    Doing(a, "move") =>
      /\ plock = a
      /\ pedit[a].node \in pused \cup Areas /\ pedit[a].to \in pused \cup Areas
      /\ Ready(ptree, pedit[a].node, pedit[a].to)

OnePlatform(t) ==
    /\ DOMAIN t \cap Areas = {Platform}
    /\ \A n \in DOMAIN t : t[n].area = Platform

GivenOut == DOMAIN ptree \ Areas \subseteq pused /\ pused \subseteq (Folders \cup Files) \ Elsewhere

WanInv ==
    /\ IsTree(ptree, Areas) /\ OnePlatform(ptree)
    /\ GivenOut
    /\ plock \in Admins \cup {None}
    /\ pedit = [a \in Admins |-> pedit[a]]
    /\ \A a \in Admins : Pending(pedit[a])
    /\ \A a \in Admins : MoveHolds(a)

\* What is under way has one of the kinds of calls.
LEMMA PendingIsOK == ASSUME NEW e, Pending(e) PROVE EditOK(e)
<1>1. CASE IsEdit(e)
  BY <1>1 DEF IsEdit, Edits, EditOK
<1>2. CASE IsCall(e, Nodes)
  BY <1>2 DEF IsCall, Calls, EditOK
<1>3. ASSUME NEW c, e = Notify(c) PROVE EditOK(e)
  BY <1>3 DEF Notify, EditOK
<1>4. ASSUME NEW c, NEW l, e = [op |-> "publish", rest |-> c, layout |-> l] PROVE EditOK(e)
  BY <1>4 DEF EditOK
<1> QED
  BY <1>1, <1>2, <1>3, <1>4 DEF Pending, EditOK

\* The kind of a call says what the call is.
LEMMA PendingKinds ==
  ASSUME NEW e, Pending(e), e # None
  PROVE  /\ e.op \in {"create", "rename", "move"} => IsEdit(e)
         /\ e.op \in {"copy", "delete"} => IsCall(e, Nodes)
         /\ e.op \in {"notify", "publish"} => CallOrNone(e.rest, Nodes)
<1>1. CASE IsEdit(e)
  BY <1>1 DEF IsEdit, Edits
<1>2. CASE IsCall(e, Nodes)
  BY <1>2 DEF IsCall, Calls
<1>3. ASSUME NEW c, CallOrNone(c, Nodes), e = Notify(c)
      PROVE  e.op = "notify" /\ CallOrNone(e.rest, Nodes)
  BY <1>3 DEF Notify
<1>4. ASSUME NEW c, NEW l, CallOrNone(c, Nodes), e = [op |-> "publish", rest |-> c, layout |-> l]
      PROVE  e.op = "publish" /\ CallOrNone(e.rest, Nodes)
  BY <1>4
<1> QED
  BY <1>1, <1>2, <1>3, <1>4 DEF Pending

\* Every folder lies under some root.
LEMMA RootedEverywhere ==
  ASSUME NEW t, Table(t)
  PROVE  Rooted(t) <=> RootedIn(t, Areas)
<1>1. DirsIn(t, Areas) = Dirs(t)
  BY EntryOf DEF DirsIn, Dirs
<1> QED
  BY <1>1 DEF Rooted, RootedIn

\* The strengthened invariant implies what the run checks.
LEMMA WanGivesPTreeInv == WanInv => PTreeInv
<1> SUFFICES ASSUME WanInv PROVE PTreeInv
  OBVIOUS
<1>1. \A a \in Admins : EditOK(pedit[a])
  BY PendingIsOK DEF WanInv
<1> QED
  BY <1>1, RootedEverywhere DEF WanInv, PTreeInv, IsTree, Table, TreeStaysRooted, TreeStaysSound

\* What can be made of the start nodes is a tree.
LEMMA StartIsTree ==
  ASSUME NEW t \in StartTrees
  PROVE  IsTree(t, Areas) /\ OnePlatform(t) /\ DOMAIN t = {Platform} \cup StartFolders \cup StartFiles
<1>1. PICK parent \in [StartFolders \cup StartFiles -> StartFolders \cup {Platform}],
           name \in [StartFolders -> Names] : t = StartTree(parent, name)
  <2>1. t \in {StartTree(parent, name) :
                parent \in [StartFolders \cup StartFiles -> StartFolders \cup {Platform}],
                name \in [StartFolders -> Names]}
    BY DEF StartTrees
  <2> QED
    BY <2>1
<1>2. Rooted(t) /\ Sound(t)
  BY DEF StartTrees
<1>3. EmptyTree({Platform})[Platform] = [parent |-> Top, name |-> Platform, area |-> Platform]
  BY DEF EmptyTree
<1>4. DOMAIN t = {Platform} \cup StartFolders \cup StartFiles /\ t = [n \in DOMAIN t |-> t[n]]
  BY <1>1 DEF StartTree
<1>5. t[Platform] = [parent |-> Top, name |-> Platform, area |-> Platform]
  BY <1>1, <1>3 DEF StartTree
<1>6. \A n \in StartFolders : t[n] = [parent |-> parent[n], area |-> Platform, name |-> name[n]]
  BY <1>1, PlatformTreeConstants, DirConstants DEF StartTree
<1>7. \A n \in StartFiles : t[n] = [parent |-> parent[n], area |-> Platform, name |-> n]
  BY <1>1, PlatformTreeConstants, DirConstants DEF StartTree
<1>11. (\A n \in StartFolders \cup StartFiles : parent[n] \in Nodes) /\ (\A n \in StartFolders : name[n] \in Names)
  BY PlatformTreeConstants DEF Nodes
<1>8. Table(t)
  <2>1. t[Platform] \in Entry
    BY <1>5, PlatformTreeConstants DEF Entry, Nodes
  <2>2. \A n \in StartFolders : t[n] \in Entry
    <3> SUFFICES ASSUME NEW n \in StartFolders PROVE t[n] \in Entry
      OBVIOUS
    <3>1. parent[n] \in Nodes /\ name[n] \in Names /\ Platform \in Areas
      BY <1>11, PlatformTreeConstants
    <3>2. t[n] = [parent |-> parent[n], area |-> Platform, name |-> name[n]]
      BY <1>6
    <3> QED
      BY <3>1, <3>2 DEF Entry
  <2>3. \A n \in StartFiles : t[n] \in Entry
    <3> SUFFICES ASSUME NEW n \in StartFiles PROVE t[n] \in Entry
      OBVIOUS
    <3>1. parent[n] \in Nodes /\ n \in Nodes /\ Platform \in Areas
      BY <1>11, PlatformTreeConstants DEF Nodes
    <3>2. t[n] = [parent |-> parent[n], area |-> Platform, name |-> n]
      BY <1>7
    <3> QED
      BY <3>1, <3>2 DEF Entry
  <2>4. DOMAIN t \subseteq Nodes
    BY <1>4, PlatformTreeConstants DEF Nodes
  <2> QED
    BY <2>1, <2>2, <2>3, <2>4, <1>4 DEF Table
<1>9. Labelled(t)
  BY <1>4, <1>6, <1>7, PlatformTreeConstants, DirConstants DEF Labelled
<1>10. OnePlatform(t)
  BY <1>4, <1>5, <1>6, <1>7, PlatformTreeConstants, DirConstants DEF OnePlatform
<1> QED
  BY <1>2, <1>4, <1>8, <1>9, <1>10, RootedEverywhere DEF IsTree

\* To begin with there is a tree of the start nodes and nothing under way.
LEMMA PTreeInitKeeps == PTreeInit => WanInv
<1> SUFFICES ASSUME PTreeInit PROVE WanInv
  OBVIOUS
<1>1. IsTree(ptree, Areas) /\ OnePlatform(ptree) /\ DOMAIN ptree = {Platform} \cup StartFolders \cup StartFiles
  BY StartIsTree DEF PTreeInit
<1>2. GivenOut
  BY <1>1, PlatformTreeConstants DEF GivenOut, PTreeInit
<1>3. \A a \in Admins : pedit[a] = None
  BY DEF PTreeInit
<1> QED
  BY <1>1, <1>2, <1>3 DEF WanInv, PTreeInit, Pending, MoveHolds, Doing

\* An admin's step keeps the invariant if it leaves a tree, given out for good what is new
\* in it, and does not touch the folders above those that another admin is moving.
LEMMA WanStep ==
  ASSUME WanInv, NEW a \in Admins, NEW e, pedit' = [pedit EXCEPT ![a] = e], Pending(e),
         e # None /\ e.op = "move" =>
           /\ plock' = a
           /\ e.node \in pused' \cup Areas /\ e.to \in pused' \cup Areas
           /\ Ready(ptree', e.node, e.to),
         \/ plock' = plock
         \/ plock = None /\ plock' = a
         \/ plock = a /\ plock' = None,
         IsTree(ptree', Areas), OnePlatform(ptree)', Stays(ptree, ptree') \/ plock = a,
         DOMAIN ptree' \subseteq DOMAIN ptree \cup FreshFolders \cup FreshFiles,
         pused \subseteq pused', pused' \subseteq pused \cup FreshFolders \cup FreshFiles,
         DOMAIN ptree' \ Areas \subseteq pused'
  PROVE  WanInv'
<1>1. GivenOut'
  BY DEF WanInv, GivenOut, FreshFolders, FreshFiles
<1>2. plock' \in Admins \cup {None}
  BY DEF WanInv
<1>3. /\ pedit' = [b \in Admins |-> pedit'[b]] /\ pedit'[a] = e
      /\ \A b \in Admins \ {a} : pedit'[b] = pedit[b]
  BY DEF WanInv
<1>4. \A b \in Admins : Pending(pedit'[b])
  BY <1>3 DEF WanInv
<1>5. ASSUME NEW b \in Admins PROVE MoveHolds(b)'
  <2>1. CASE b = a
    BY <2>1, <1>3 DEF MoveHolds, Doing
  <2>2. CASE b # a
    <3> SUFFICES ASSUME pedit[b] # None, pedit[b].op = "move"
                 PROVE  /\ plock' = b
                        /\ pedit[b].node \in pused' \cup Areas /\ pedit[b].to \in pused' \cup Areas
                        /\ Ready(ptree', pedit[b].node, pedit[b].to)
      BY <2>2, <1>3 DEF MoveHolds, Doing
    <3>1. /\ plock = b
          /\ pedit[b].node \in pused \cup Areas /\ pedit[b].to \in pused \cup Areas
          /\ Ready(ptree, pedit[b].node, pedit[b].to)
      BY DEF WanInv, MoveHolds, Doing
    <3>2. plock' = b /\ Stays(ptree, ptree')
      BY <3>1, <2>2, PlatformTreeConstants
    <3>3. \A n \in pused \cup Areas : n \in DOMAIN ptree' => n \in DOMAIN ptree
      BY DirConstants DEF FreshFolders, FreshFiles
    <3>4. IsTree(ptree, Areas)
      BY DEF WanInv
    <3>5. Ready(ptree', pedit[b].node, pedit[b].to)
      BY <3>1, <3>2, <3>3, <3>4, ReadyStays
    <3> QED
      BY <3>1, <3>2, <3>5
  <2> QED
    BY <2>1, <2>2
<1> QED
  BY <1>1, <1>2, <1>3, <1>4, <1>5 DEF WanInv

\* A call begins or ends, or reads or sends the layout: the tree is as it was.
LEMMA WanCallStep ==
  ASSUME WanInv, NEW a \in Admins, NEW e, pedit' = [pedit EXCEPT ![a] = e], Pending(e),
         e = None \/ e.op # "move", UNCHANGED <<ptree, plock, pused>>
  PROVE  WanInv'
<1>1. IsTree(ptree', Areas) /\ OnePlatform(ptree)' /\ Stays(ptree, ptree')
  BY DEF WanInv, Stays, OnePlatform
<1>2. DOMAIN ptree' \ Areas \subseteq pused'
  BY DEF WanInv, GivenOut
<1> QED
  BY <1>1, <1>2, WanStep

\* The edits that a call can carry.
LEMMA EditIsEdit ==
  ASSUME NEW op \in {"create", "rename", "move"}, NEW n \in Nodes \cup {None},
         NEW p \in Nodes \cup {None}, NEW name \in Names \cup {None},
         op \in {"create", "rename"} => name \in Names, op = "rename" => n \in Folders
  PROVE  /\ IsEdit(Edit(op, n, p, name)) /\ Edit(op, n, p, name).op = op
         /\ Edit(op, n, p, name).node = n /\ Edit(op, n, p, name).to = p
  BY DEF Edit, IsEdit, Edits

\* A notification with the rest of a deletion is something an admin may have under way.
LEMMA NotifyIsPending ==
  ASSUME NEW c, CallOrNone(c, Nodes)
  PROVE  Pending(Notify(c)) /\ Notify(c).op = "notify"
  BY DEF Pending, Notify

\* So is a copy or a deletion, or nothing.
LEMMA CallIsPending ==
  ASSUME NEW c, CallOrNone(c, Nodes)
  PROVE  Pending(c) /\ (c = None \/ c.op # "move")
  BY DEF Pending, CallOrNone, IsCall, Calls

\* A new folder is asked for.
LEMMA CreateKeepsWan ==
  ASSUME WanInv, NEW a \in Admins, CreateFSFolder(a)
  PROVE  WanInv'
<1>1. PICK p \in DOMAIN ptree, name \in Names : Begin(a, Edit("create", None, p, name))
  BY DEF CreateFSFolder
<1>2. p \in Nodes
  BY DEF WanInv, IsTree, Table
<1>3. IsEdit(Edit("create", None, p, name)) /\ Edit("create", None, p, name).op = "create"
  BY <1>2, EditIsEdit
<1> QED
  BY <1>1, <1>3, WanCallStep DEF CreateFSFolder, Begin, Pending

\* The folder is inserted under an identity nobody has had, or the name is taken.
LEMMA InsertKeepsWan ==
  ASSUME WanInv, NEW a \in Admins, InsertFSFolder(a)
  PROVE  WanInv'
<1>1. PICK e : e = pedit[a]
  OBVIOUS
<1>2. e # None /\ e.op = "create" /\ Pending(e)
  BY <1>1 DEF InsertFSFolder, Doing, WanInv
<1>3. e.name \in Names
  BY <1>2, PendingKinds DEF IsEdit
<1>4. PICK n \in FreshFolders :
         /\ Commit(a, CanInsert(ptree, e.to, e.name), Inserted(ptree, n, e.to, e.name), None)
         /\ pused' = pused \cup {n}
  BY <1>1 DEF InsertFSFolder
<1>5. UNCHANGED plock /\ pedit' = [pedit EXCEPT ![a] = None]
  BY <1>4 DEF InsertFSFolder, Commit
<1>6. IsTree(ptree, Areas) /\ OnePlatform(ptree) /\ GivenOut
  BY DEF WanInv
<1>7. n \in Folders /\ n \notin Areas /\ n \notin Files /\ n \notin DOMAIN ptree
  BY <1>6, DirConstants DEF FreshFolders, GivenOut
<1>8. CASE CanInsert(ptree, e.to, e.name)
  <2>1. PICK u : u = Inserted(ptree, n, e.to, e.name)
    OBVIOUS
  <2>2. ptree' = u
    BY <1>4, <1>8, <2>1 DEF Commit
  <2>3. IsFolder(ptree, e.to) /\ NameFree(ptree, e.to, e.name, None)
    BY <1>8 DEF CanInsert
  <2>4. IsTree(u, Areas)
    BY <1>3, <1>6, <1>7, <2>1, <2>3, InsertKeepsTree
  <2>5. /\ DOMAIN u = DOMAIN ptree \cup {n} /\ u[n].area = ptree[e.to].area
        /\ \A k \in DOMAIN ptree : u[k] = ptree[k]
    BY <1>7, <2>1 DEF Inserted
  <2>6. OnePlatform(u) /\ Stays(ptree, u)
    BY <1>6, <1>7, <2>3, <2>5 DEF OnePlatform, Stays, IsFolder
  <2>7. DOMAIN ptree' \ Areas \subseteq pused'
    BY <1>4, <1>6, <2>2, <2>5 DEF GivenOut
  <2>8. OnePlatform(ptree)' /\ IsTree(ptree', Areas) /\ Stays(ptree, ptree')
    BY <2>2, <2>4, <2>6 DEF OnePlatform
  <2> QED
    BY <1>4, <1>5, <2>2, <2>5, <2>7, <2>8, WanStep DEF Pending
<1>9. CASE ~CanInsert(ptree, e.to, e.name)
  <2>1. ptree' = ptree
    BY <1>4, <1>9 DEF Commit
  <2>2. OnePlatform(ptree)' /\ IsTree(ptree', Areas) /\ Stays(ptree, ptree')
    BY <1>6, <2>1 DEF OnePlatform, Stays
  <2>3. DOMAIN ptree' \ Areas \subseteq pused'
    BY <1>4, <1>6, <2>1 DEF GivenOut
  <2> QED
    BY <1>4, <1>5, <2>1, <2>2, <2>3, WanStep DEF Pending
<1> QED
  BY <1>8, <1>9

\* A rename is asked for.
LEMMA RenameKeepsWan ==
  ASSUME WanInv, NEW a \in Admins, RenameFSNode(a)
  PROVE  WanInv'
<1>1. PICK n \in DOMAIN ptree \cap Folders, name \in Names : Begin(a, Edit("rename", n, None, name))
  BY DEF RenameFSNode
<1>2. IsEdit(Edit("rename", n, None, name)) /\ Edit("rename", n, None, name).op = "rename"
  BY EditIsEdit DEF Nodes
<1> QED
  BY <1>1, <1>2, WanCallStep DEF RenameFSNode, Begin, Pending

\* The name is written, unless it is taken by now or the folder is gone.
LEMMA SaveNameKeepsWan ==
  ASSUME WanInv, NEW a \in Admins, SaveName(a)
  PROVE  WanInv'
<1>1. PICK e : e = pedit[a]
  OBVIOUS
<1>2. e # None /\ e.op = "rename" /\ Pending(e)
  BY <1>1 DEF SaveName, Doing, WanInv
<1>3. e.name \in Names /\ e.node \in Folders
  BY <1>2, PendingKinds DEF IsEdit
<1>4. Commit(a, CanRename(ptree, e.node, e.name), Renamed(ptree, e.node, e.name), Notify(None))
  BY <1>1 DEF SaveName
<1>5. UNCHANGED <<plock, pused>>
  BY DEF SaveName
<1>6. IsTree(ptree, Areas) /\ OnePlatform(ptree) /\ GivenOut
  BY DEF WanInv
<1>7. Pending(Notify(None)) /\ Notify(None).op = "notify"
  BY NotifyIsPending DEF CallOrNone
<1>8. CASE CanRename(ptree, e.node, e.name)
  <2>1. PICK u : u = Renamed(ptree, e.node, e.name)
    OBVIOUS
  <2>2. ptree' = u /\ pedit' = [pedit EXCEPT ![a] = Notify(None)]
    BY <1>4, <1>8, <2>1 DEF Commit
  <2>3. IsTree(u, Areas)
    BY <1>3, <1>6, <1>8, <2>1, RenameKeepsTree
  <2>4. e.node \in DOMAIN ptree /\ ptree[e.node] \in Entry
    BY <1>6, <1>8, EntryOf DEF CanRename, IsTree
  <2>5. /\ DOMAIN u = DOMAIN ptree
        /\ \A k \in DOMAIN ptree : u[k].parent = ptree[k].parent /\ u[k].area = ptree[k].area
    BY <2>1, <2>4 DEF Renamed, Entry
  <2>6. OnePlatform(u) /\ Stays(ptree, u)
    BY <1>6, <2>5 DEF OnePlatform, Stays
  <2>7. DOMAIN ptree' \ Areas \subseteq pused'
    BY <1>5, <1>6, <2>2, <2>5 DEF GivenOut
  <2>8. OnePlatform(ptree)' /\ IsTree(ptree', Areas) /\ Stays(ptree, ptree')
    BY <2>2, <2>3, <2>6 DEF OnePlatform
  <2> QED
    BY <1>5, <1>7, <2>2, <2>5, <2>7, <2>8, WanStep
<1>9. CASE ~CanRename(ptree, e.node, e.name)
  <2>1. ptree' = ptree /\ pedit' = [pedit EXCEPT ![a] = None]
    BY <1>4, <1>9 DEF Commit
  <2> QED
    BY <1>5, <2>1, WanCallStep DEF Pending
<1> QED
  BY <1>8, <1>9

\* A move takes the lock and finds that it closes no circle.
LEMMA MoveKeepsWan ==
  ASSUME WanInv, NEW a \in Admins, MoveFSNode(a)
  PROVE  WanInv'
<1>1. PICK n \in DOMAIN ptree, p \in DOMAIN ptree :
         MayMove(ptree, n, p) /\ Begin(a, Edit("move", n, p, None))
  BY DEF MoveFSNode
<1>2. IsTree(ptree, Areas) /\ OnePlatform(ptree) /\ GivenOut
  BY DEF WanInv
<1>3. n \in Nodes /\ p \in Nodes /\ n \notin Areas
  BY <1>1, <1>2 DEF IsTree, Table, Sound, MayMove
<1>4. PICK e : e = Edit("move", n, p, None)
  OBVIOUS
<1>5. IsEdit(e) /\ e.op = "move" /\ e.node = n /\ e.to = p
  BY <1>3, <1>4, EditIsEdit
<1>6. Ready(ptree, n, p)
  BY <1>1, <1>3 DEF MayMove, Ready
<1>7. pedit' = [pedit EXCEPT ![a] = e] /\ plock = None /\ plock' = a /\ UNCHANGED <<ptree, pused>>
  BY <1>1, <1>4 DEF MoveFSNode, Begin, LockFSTree
<1>8. n \in pused' \cup Areas /\ p \in pused' \cup Areas /\ DOMAIN ptree' \ Areas \subseteq pused'
  BY <1>2, <1>7 DEF GivenOut
<1>9. IsTree(ptree', Areas) /\ OnePlatform(ptree)' /\ Stays(ptree, ptree') /\ Ready(ptree', n, p)
  BY <1>2, <1>6, <1>7 DEF OnePlatform, Stays
<1> QED
  BY <1>5, <1>7, <1>8, <1>9, WanStep DEF Pending

\* The move commits: what was checked under the lock still holds.
LEMMA SaveMoveKeepsWan ==
  ASSUME WanInv, NEW a \in Admins, SaveMove(a)
  PROVE  WanInv'
<1>1. PICK e : e = pedit[a]
  OBVIOUS
<1>2. e # None /\ e.op = "move" /\ Doing(a, "move")
  BY <1>1 DEF SaveMove, Doing
<1>3. plock = a /\ Ready(ptree, e.node, e.to)
  BY <1>1, <1>2 DEF WanInv, MoveHolds
<1>4. plock' = None /\ UNCHANGED pused
  BY DEF SaveMove
<1>5. IsTree(ptree, Areas) /\ OnePlatform(ptree) /\ GivenOut
  BY DEF WanInv
<1>6. Pending(Notify(None)) /\ Notify(None).op = "notify" /\ Pending(None)
  BY NotifyIsPending DEF CallOrNone, Pending
<1>7. CASE e.node \in DOMAIN ptree /\ CanMove(ptree, e.node, e.to)
  <2>1. PICK u : u = Moved(ptree, e.node, e.to)
    OBVIOUS
  <2>2. ptree' = u /\ pedit' = [pedit EXCEPT ![a] = Notify(None)]
    BY <1>1, <1>7, <2>1 DEF SaveMove, Commit
  <2>3. /\ e.node \notin Areas /\ IsFolder(ptree, e.to) /\ ptree[e.to].area = ptree[e.node].area
        /\ e.node \in Files \/ ~Within(ptree, e.to, e.node)
        /\ NameFree(ptree, e.to, ptree[e.node].name, e.node)
    BY <1>3, <1>7 DEF Ready, CanMove
  <2>4. IsTree(u, Areas)
    BY <1>5, <1>7, <2>1, <2>3, MoveKeepsTree
  <2>5. ptree[e.node] \in Entry
    BY <1>5, <1>7, EntryOf DEF IsTree
  <2>6. DOMAIN u = DOMAIN ptree /\ \A k \in DOMAIN ptree : u[k].area = ptree[k].area
    BY <2>1, <2>5 DEF Moved, Entry
  <2>7. OnePlatform(ptree)' /\ DOMAIN ptree' \ Areas \subseteq pused'
    BY <1>4, <1>5, <2>2, <2>6 DEF OnePlatform, GivenOut
  <2> QED
    BY <1>3, <1>4, <1>6, <2>2, <2>4, <2>6, <2>7, WanStep
<1>8. CASE ~(e.node \in DOMAIN ptree /\ CanMove(ptree, e.node, e.to))
  <2>1. ptree' = ptree
    BY <1>1, <1>8 DEF SaveMove, Commit
  <2>2. PICK d \in {None, Notify(None)} : pedit' = [pedit EXCEPT ![a] = d]
    BY <1>1, <1>8 DEF SaveMove, Commit
  <2>3. OnePlatform(ptree)' /\ IsTree(ptree', Areas) /\ DOMAIN ptree' \ Areas \subseteq pused'
    BY <1>4, <1>5, <2>1 DEF OnePlatform, GivenOut
  <2>4. Pending(d) /\ (d = None \/ d.op # "move")
    BY <1>6, <2>2
  <2> QED
    BY <1>3, <1>4, <2>1, <2>2, <2>3, <2>4, WanStep
<1> QED
  BY <1>7, <1>8

\* A copy is asked for.
LEMMA CopyKeepsWan ==
  ASSUME WanInv, NEW a \in Admins, CopyFSNode(a)
  PROVE  WanInv'
<1>1. PICK n \in DOMAIN ptree \ Areas, p \in DOMAIN ptree : Begin(a, Copying(n, p))
  BY DEF CopyFSNode
<1>2. n \in Nodes /\ p \in Nodes
  BY DEF WanInv, IsTree, Table
<1>3. IsCall(Copying(n, p), Nodes) /\ Copying(n, p).op = "copy"
  BY <1>2, CopyingIsCall
<1> QED
  BY <1>1, <1>3, WanCallStep DEF CopyFSNode, Begin, Pending

\* A step of a copy touches nothing that another admin is moving, but what it made
\* itself.
LEMMA CopyIntoKeepsWan ==
  ASSUME WanInv, NEW a \in Admins, CopyFSInto(a)
  PROVE  WanInv'
<1>1. PICK e : e = pedit[a]
  OBVIOUS
<1>2. e # None /\ e.op = "copy" /\ Pending(e)
  BY <1>1 DEF CopyFSInto, Doing, WanInv
<1>3. IsCall(e, Nodes)
  BY <1>2, PendingKinds
<1>4. IsTree(ptree, Areas) /\ OnePlatform(ptree) /\ GivenOut
  BY DEF WanInv
<1>5. PICK r \in CopyStep(ptree, e, Platform, FreshFolders, FreshFiles) :
         /\ ptree' = r.tree
         /\ pedit' = [pedit EXCEPT ![a] = IF r.call = None /\ e.stack[1].kids = {}
                                          THEN Notify(None) ELSE r.call]
         /\ pused' = pused \cup (DOMAIN r.tree \ Areas)
  BY <1>1 DEF CopyFSInto
<1>6. UNCHANGED plock
  BY DEF CopyFSInto
<1>7. /\ Platform \in DOMAIN ptree \cap Areas
      /\ \A n \in Nodes \cap DOMAIN ptree : ptree[n].area = ptree[Platform].area
      /\ FreshFolders \in SUBSET (Folders \cap Nodes) /\ FreshFolders \cap DOMAIN ptree = {}
      /\ FreshFiles \in SUBSET (Files \cap Nodes) /\ FreshFiles \cap DOMAIN ptree = {}
  BY <1>4, DirConstants DEF OnePlatform, GivenOut, FreshFolders, FreshFiles, Nodes
<1>8. /\ IsTree(r.tree, Areas) /\ Stays(ptree, r.tree)
      /\ DOMAIN r.tree \subseteq DOMAIN ptree \cup FreshFolders \cup FreshFiles
      /\ \A n \in DOMAIN r.tree \ DOMAIN ptree : r.tree[n].area = ptree[Platform].area
      /\ DOMAIN ptree \cap Areas \subseteq DOMAIN r.tree
      /\ CallOrNone(r.call, Nodes)
  BY <1>2, <1>3, <1>4, <1>7, CopyStepKeeps
<1>9. OnePlatform(ptree)'
  <2>1. DOMAIN r.tree \cap Areas = {Platform}
    BY <1>4, <1>8, DirConstants DEF OnePlatform, FreshFolders, FreshFiles
  <2>2. \A n \in DOMAIN r.tree : r.tree[n].area = Platform
    BY <1>4, <1>7, <1>8 DEF OnePlatform, Stays
  <2> QED
    BY <1>5, <2>1, <2>2 DEF OnePlatform
<1>10. /\ pused \subseteq pused' /\ DOMAIN ptree' \ Areas \subseteq pused'
       /\ pused' \subseteq pused \cup FreshFolders \cup FreshFiles
  BY <1>4, <1>5, <1>8 DEF GivenOut
<1>11. PICK d : pedit' = [pedit EXCEPT ![a] = d] /\ Pending(d) /\ (d = None \/ d.op # "move")
  BY <1>5, <1>8, NotifyIsPending, CallIsPending DEF CallOrNone
<1> QED
  BY <1>5, <1>6, <1>8, <1>9, <1>10, <1>11, WanStep

\* A deletion is asked for.
LEMMA DeleteKeepsWan ==
  ASSUME WanInv, NEW a \in Admins, DeleteFSNode(a)
  PROVE  WanInv'
<1>1. PICK n \in DOMAIN ptree \cap Folders : Begin(a, Deleting(n))
  BY DEF DeleteFSNode
<1>2. IsCall(Deleting(n), Nodes) /\ Deleting(n).op = "delete"
  BY DeletingIsCall
<1> QED
  BY <1>1, <1>2, WanCallStep DEF DeleteFSNode, Begin, Pending

\* A step of a deletion takes away, and moves nothing.
LEMMA DeleteTreeKeepsWan ==
  ASSUME WanInv, NEW a \in Admins, DeleteFSTree(a)
  PROVE  WanInv'
<1>1. PICK e : e = pedit[a]
  OBVIOUS
<1>2. e # None /\ e.op = "delete" /\ Pending(e)
  BY <1>1 DEF DeleteFSTree, Doing, WanInv
<1>3. IsCall(e, Nodes)
  BY <1>2, PendingKinds
<1>4. IsTree(ptree, Areas) /\ OnePlatform(ptree) /\ GivenOut
  BY DEF WanInv
<1>5. PICK r \in DeleteStep(ptree, e) :
         /\ ptree' = r.tree
         /\ pedit' = [pedit EXCEPT ![a] = IF \E n \in Folders : n \in DOMAIN ptree \ DOMAIN r.tree
                                          THEN Notify(r.call) ELSE r.call]
  BY <1>1 DEF DeleteFSTree
<1>6. UNCHANGED <<plock, pused>>
  BY DEF DeleteFSTree
<1>7. /\ IsTree(r.tree, Areas) /\ Stays(ptree, r.tree)
      /\ DOMAIN r.tree \subseteq DOMAIN ptree /\ DOMAIN ptree \cap Areas \subseteq DOMAIN r.tree
      /\ CallOrNone(r.call, Nodes)
  BY <1>2, <1>3, <1>4, DeleteStepKeeps
<1>8. OnePlatform(ptree)'
  BY <1>4, <1>5, <1>7 DEF OnePlatform, Stays
<1>9. DOMAIN ptree' \ Areas \subseteq pused'
  BY <1>4, <1>5, <1>6, <1>7 DEF GivenOut
<1>10. PICK d : pedit' = [pedit EXCEPT ![a] = d] /\ Pending(d) /\ (d = None \/ d.op # "move")
  BY <1>5, <1>7, NotifyIsPending, CallIsPending
<1> QED
  BY <1>5, <1>6, <1>7, <1>8, <1>9, <1>10, WanStep

\* A layout is read and sent.
LEMMA LayoutStepsKeepWan ==
  ASSUME WanInv, NEW a \in Admins, ReadLayout(a) \/ PublishLayout(a)
  PROVE  WanInv'
<1>1. pedit[a] # None /\ pedit[a].op \in {"notify", "publish"} /\ Pending(pedit[a])
  BY DEF ReadLayout, PublishLayout, Doing, WanInv
<1>2. CallOrNone(pedit[a].rest, Nodes)
  BY <1>1, PendingKinds
<1>3. CASE ReadLayout(a)
  <2>1. PICK d : d = [op |-> "publish", rest |-> pedit[a].rest, layout |-> PlatformFSLayout(ptree)]
    OBVIOUS
  <2>2. pedit' = [pedit EXCEPT ![a] = d] /\ UNCHANGED <<ptree, plock, pused>>
    BY <1>3, <2>1 DEF ReadLayout
  <2>3. Pending(d) /\ d.op = "publish"
    BY <1>2, <2>1 DEF Pending
  <2> QED
    BY <2>2, <2>3, WanCallStep
<1>4. CASE PublishLayout(a)
  <2>1. pedit' = [pedit EXCEPT ![a] = pedit[a].rest] /\ UNCHANGED <<ptree, plock, pused>>
    BY <1>4 DEF PublishLayout
  <2> QED
    BY <1>2, <2>1, CallIsPending, WanCallStep
<1> QED
  BY <1>3, <1>4

\* Every step of an admin keeps the WAN's invariant ...
LEMMA PTreeNextKeeps ==
  ASSUME WanInv, PTreeNext
  PROVE  WanInv'
<1>1. PICK a \in Admins : PTreeStep(a)
  BY DEF PTreeNext
<1> QED
  BY <1>1, CreateKeepsWan, InsertKeepsWan, RenameKeepsWan, SaveNameKeepsWan, MoveKeepsWan,
     SaveMoveKeepsWan, CopyKeepsWan, CopyIntoKeepsWan, DeleteKeepsWan, DeleteTreeKeepsWan,
     LayoutStepsKeepWan
     DEF PTreeStep

\* What does not touch the WAN's tree and the calls on it.
LEMMA WanUntouched ==
  ASSUME WanInv, UNCHANGED <<ptree, pedit, plock, pused>>
  PROVE  WanInv'
<1>1. \A a \in Admins : MoveHolds(a)'
  BY DEF WanInv, MoveHolds, Doing
<1>2. OnePlatform(ptree)' /\ GivenOut'
  BY DEF WanInv, OnePlatform, GivenOut
<1> QED
  BY <1>1, <1>2 DEF WanInv

\* ... and the factory's steps do not touch it.
LEMMA SyncNextKeepsWan == WanInv /\ [SyncNext]_syncVars => WanInv'
<1> SUFFICES ASSUME WanInv, [SyncNext]_syncVars PROVE WanInv'
  OBVIOUS
<1>1. CASE AtWAN
  BY <1>1, PTreeNextKeeps DEF AtWAN
<1>2. CASE AtFactory
  BY <1>2, WanUntouched DEF AtFactory, ptreeVars
<1>3. CASE FetchClosure \/ ReadFolder \/ PathLost \/ FetchIndex
  BY <1>3, WanUntouched DEF FetchClosure, ReadFolder, PathLost, FetchIndex, Fetch, ReadOn, ptreeVars
<1>4. CASE ApplyClosure \/ ApplyIndex \/ Retract
  BY <1>4, WanUntouched DEF ApplyClosure, ApplyIndex, Retract, ptreeVars
<1>5. CASE ApplyMail
  BY <1>5, WanUntouched DEF ApplyMail
<1>6. CASE UNCHANGED syncVars
  BY <1>6, WanUntouched DEF syncVars, ptreeVars
<1> QED
  BY <1>1, <1>2, <1>3, <1>4, <1>5, <1>6 DEF SyncNext

\* However the calls of admins cross, the WAN's tree stays a tree, whatever is published,
\* fetched and applied meanwhile: no folder is ever above itself, siblings keep names of
\* their own and every node has its parent in its own tree.
THEOREM WanStaysATree == SyncSpec => []PTreeInv
<1>1. SyncInit => WanInv
  BY PTreeInitKeeps DEF SyncInit
<1>2. WanInv /\ [SyncNext]_syncVars => WanInv'
  BY SyncNextKeepsWan
<1>3. WanInv => PTreeInv
  BY WanGivesPTreeInv
<1> QED
  BY <1>1, <1>2, <1>3, PTL DEF SyncSpec

-----------------------------------------------------------------------------
(* The factory's table: what applying a layout does to it.                 *)

\* Identities of the factory's own tree.
OwnIds == {Own} \cup ((Folders \cup Files) \cap Elsewhere)

TwoTrees(t) ==
    /\ DOMAIN t \cap Areas = {Platform, Own}
    /\ \A n \in DOMAIN t : t[n].area = IF n \in OwnIds THEN Own ELSE Platform

\* The own tree is as it was.
OwnKept(t, u) ==
    /\ OwnIds \cap DOMAIN u = OwnIds \cap DOMAIN t
    /\ \A n \in OwnIds \cap DOMAIN t : u[n] = t[n]

\* Folders as the WAN tells of them: each under another, or the root, in no circle.
IsHints(fs) ==
    /\ DOMAIN fs \subseteq Folders \ Elsewhere
    /\ \A n \in DOMAIN fs : /\ fs[n].parent \in (Folders \ Elsewhere) \cup {None}
                            /\ fs[n].name \in Names \cup {n}
    /\ \A m, n \in DOMAIN fs : fs[m].parent = fs[n].parent /\ fs[m].name = fs[n].name => m = n
    /\ \A S \in SUBSET DOMAIN fs : S # {} => \E k \in S : fs[k].parent \notin S

\* Every folder is told of with those above it.
Complete(fs) == \A n \in DOMAIN fs : fs[n].parent \in DOMAIN fs \cup {None}

\* Files are told of with a folder among those of D, or with the root.
FilesFit(files, D) ==
    /\ DOMAIN files \subseteq Files \ Elsewhere
    /\ \A f \in DOMAIN files : files[f] \in D \cup {None}

\* The platform's and the own identities are apart.
LEMMA IdsApart ==
    /\ Platform \notin OwnIds /\ Platform # Own /\ Platform \in Nodes /\ Own \in Nodes
    /\ Platform \notin Folders \cup Files /\ Own \notin Folders \cup Files
    /\ \A n \in (Folders \cup Files) \ Elsewhere : n \notin OwnIds /\ n \notin Areas
    /\ OwnIds \subseteq Nodes
  BY DirConstants, PlatformTreeConstants, FactoryTreeConstants DEF OwnIds, Nodes

\* Where a listed folder, or file, comes to lie.
LEMMA UnderFacts ==
  ASSUME NEW p \in (Folders \ Elsewhere) \cup {None}
  PROVE  /\ Under(p) \in Nodes /\ Under(p) # Top /\ Under(p) \notin Files /\ Under(p) \notin OwnIds
         /\ p # None => Under(p) = p
         /\ p = None => Under(p) = Platform
         /\ \A q \in (Folders \ Elsewhere) \cup {None} : Under(p) = Under(q) => p = q
<1>1. p # None => p \in Folders \ Elsewhere
  OBVIOUS
<1>2. Platform \in Nodes /\ Platform \notin Folders \cup Files
  BY IdsApart
<1> QED
  BY <1>1, <1>2, IdsApart, DirConstants DEF Under, Nodes

\* In a tree of the factory the parents of own nodes are own nodes.
LEMMA OwnAbove ==
  ASSUME NEW A, NEW t, IsTree(t, A), TwoTrees(t), NEW n \in DOMAIN t, t[n].parent # Top
  PROVE  n \in OwnIds <=> t[n].parent \in OwnIds
<1>1. t[n].parent \in DOMAIN t /\ t[n].area = t[t[n].parent].area
  BY DEF IsTree, Sound, IsFolder
<1> QED
  BY <1>1, FactoryTreeConstants DEF TwoTrees

\* The folders listed are where and what the layout says; of the others one may have
\* given its name to a listed one.
Upserted(t, fs, u) ==
    /\ DOMAIN u = DOMAIN t \cup DOMAIN fs /\ u = [k \in DOMAIN u |-> u[k]]
    /\ \A k \in DOMAIN fs :
         /\ u[k] = [parent |-> Under(fs[k].parent), name |-> fs[k].name, area |-> Platform]
         /\ u[k].parent = Under(fs[k].parent) /\ u[k].name = fs[k].name /\ u[k].area = Platform
    /\ \A k \in DOMAIN t \ DOMAIN fs :
         /\ u[k].parent = t[k].parent /\ u[k].area = t[k].area
         /\ \/ /\ u[k] = t[k]
               /\ \A n \in DOMAIN fs : ~(Under(fs[n].parent) = t[k].parent /\ fs[n].name = t[k].name)
            \/ /\ u[k] = [t[k] EXCEPT !.name = k]
               /\ u[k].name = k
               /\ \E n \in DOMAIN fs : Under(fs[n].parent) = t[k].parent /\ fs[n].name = t[k].name

\* That is what inserting and updating the listed folders comes to.
LEMMA UpsertShape ==
  ASSUME NEW A, NEW t, IsTree(t, A), TwoTrees(t), NEW fs, IsHints(fs),
         NEW u, u = UpsertFolders(t, fs)
  PROVE  Upserted(t, fs, u)
<1>1. DOMAIN u = DOMAIN t \cup DOMAIN fs /\ u = [k \in DOMAIN u |-> u[k]]
  BY DEF UpsertFolders
<1>2. ASSUME NEW k \in DOMAIN fs
      PROVE  u[k] = [parent |-> Under(fs[k].parent), name |-> fs[k].name, area |-> Platform]
  BY DEF UpsertFolders
<1>3. ASSUME NEW k \in DOMAIN t \ DOMAIN fs PROVE u[k] = YieldName(t, fs, k)
  BY DEF UpsertFolders
<1>4. ASSUME NEW k \in DOMAIN t \ DOMAIN fs
      PROVE  /\ u[k].parent = t[k].parent /\ u[k].area = t[k].area
             /\ \/ /\ u[k] = t[k]
                   /\ \A n \in DOMAIN fs : ~(Under(fs[n].parent) = t[k].parent /\ fs[n].name = t[k].name)
                \/ /\ u[k] = [t[k] EXCEPT !.name = k]
                   /\ u[k].name = k
                   /\ \E n \in DOMAIN fs : Under(fs[n].parent) = t[k].parent /\ fs[n].name = t[k].name
  <2>1. u[k] = YieldName(t, fs, k) /\ t[k] \in Entry
    BY <1>3, EntryOf DEF IsTree
  <2>2. CASE \E n \in DOMAIN fs : Under(fs[n].parent) = t[k].parent /\ fs[n].name = t[k].name
    <3>1. u[k] = [t[k] EXCEPT !.name = k]
      BY <2>1, <2>2 DEF YieldName
    <3> QED
      BY <2>1, <2>2, <3>1 DEF Entry
  <2>3. CASE ~(\E n \in DOMAIN fs : Under(fs[n].parent) = t[k].parent /\ fs[n].name = t[k].name)
    BY <2>1, <2>3 DEF YieldName
  <2> QED
    BY <2>2, <2>3
<1> QED
  BY <1>1, <1>2, <1>4 DEF Upserted

\* What is listed closes no circle: all of it is told of, or it is one folder and the one it
\* goes into is not below it.
Harmless(t, fs) ==
    \/ Complete(fs)
    \/ \E n \in DOMAIN fs : DOMAIN fs = {n} /\ ~Within(t, Under(fs[n].parent), n)

\* A circle would go through listed folders, which have a way out among themselves, or
\* stay outside of them, where nothing moved; a single folder leaves a closed set for
\* another.  Two of one name in a folder would be two that are listed so, or one of them
\* would have yielded.
LEMMA UpsertKeeps ==
  ASSUME NEW A, NEW t, IsTree(t, A), TwoTrees(t), NEW fs, IsHints(fs), FoldersFit(t, fs),
         Platform \in A => Harmless(t, fs),
         NEW u, u = UpsertFolders(t, fs)
  PROVE  IsTree(u, A) /\ TwoTrees(u) /\ OwnKept(t, u)
<1>1. /\ DOMAIN u = DOMAIN t \cup DOMAIN fs /\ u = [k \in DOMAIN u |-> u[k]]
      /\ \A k \in DOMAIN fs :
           /\ u[k] = [parent |-> Under(fs[k].parent), name |-> fs[k].name, area |-> Platform]
           /\ u[k].parent = Under(fs[k].parent) /\ u[k].name = fs[k].name /\ u[k].area = Platform
      /\ \A k \in DOMAIN t \ DOMAIN fs :
           /\ u[k].parent = t[k].parent /\ u[k].area = t[k].area
           /\ \/ /\ u[k] = t[k]
                 /\ \A n \in DOMAIN fs : ~(Under(fs[n].parent) = t[k].parent /\ fs[n].name = t[k].name)
              \/ /\ u[k] = [t[k] EXCEPT !.name = k]
                 /\ u[k].name = k
                 /\ \E n \in DOMAIN fs : Under(fs[n].parent) = t[k].parent /\ fs[n].name = t[k].name
  <2>1. Upserted(t, fs, u)
    BY UpsertShape
  <2> QED
    BY <2>1 DEF Upserted
<1>2. Table(t) /\ Labelled(t) /\ RootedIn(t, A) /\ Sound(t)
  BY DEF IsTree
<1>3. /\ DOMAIN fs \subseteq Folders \ Elsewhere
      /\ \A n \in DOMAIN fs : /\ fs[n].parent \in (Folders \ Elsewhere) \cup {None}
                              /\ fs[n].name \in Names \cup {n}
  BY DEF IsHints
<1>4. \A k \in DOMAIN fs : k \in Nodes /\ k \notin OwnIds /\ k \notin Areas /\ k \notin Files /\ k # Top
  BY <1>3, IdsApart, DirConstants DEF Nodes
<1>5. ASSUME NEW k \in DOMAIN fs
      PROVE  Under(fs[k].parent) \in DOMAIN fs \cup {Platform} \cup (PlatformNodes(t) \ Files)
  BY <1>3, UnderFacts DEF FoldersFit
<1>6. Platform \in DOMAIN t /\ t[Platform].area = Platform /\ Platform \notin Files /\ Platform \notin DOMAIN fs
      /\ t[Platform].parent = Top
  BY <1>2, <1>4, IdsApart, PlatformTreeConstants DEF TwoTrees, Sound
<1>7. Table(u)
  <2>1. ASSUME NEW k \in DOMAIN fs PROVE u[k] \in Entry
    <3>1. Under(fs[k].parent) \in Nodes /\ fs[k].name \in Names \cup Nodes /\ Platform \in Areas
      BY <1>3, <1>4, UnderFacts, PlatformTreeConstants
    <3> QED
      BY <1>1, <3>1 DEF Entry
  <2>2. ASSUME NEW k \in DOMAIN t \ DOMAIN fs PROVE u[k] \in Entry
    <3>1. t[k] \in Entry /\ k \in Nodes
      BY <1>2, EntryOf
    <3>2. [t[k] EXCEPT !.name = k] \in Entry
      BY <3>1 DEF Entry
    <3> QED
      BY <1>1, <3>1, <3>2
  <2>3. DOMAIN u \subseteq Nodes
    BY <1>1, <1>2, <1>4 DEF Table
  <2> QED
    BY <2>1, <2>2, <2>3, <1>1 DEF Table
<1>8. Labelled(u)
  <2>1. ASSUME NEW n \in DOMAIN u \cap Files PROVE u[n].name = n
    BY <1>1, <1>2, <1>4 DEF Labelled
  <2>2. ASSUME NEW n \in DOMAIN u \cap Folders PROVE u[n].name \in Names \cup {n}
    BY <1>1, <1>2, <1>3 DEF Labelled
  <2> QED
    BY <2>1, <2>2 DEF Labelled
<1>9. RootedIn(u, A)
  <2> SUFFICES ASSUME NEW S \in SUBSET DirsIn(u, A), S # {} PROVE \E k \in S : u[k].parent \notin S
    BY DEF RootedIn
  <2>1. \A k \in DOMAIN t : u[k].area = t[k].area
    <3>1. \A k \in DOMAIN fs \cap DOMAIN t : t[k].area = Platform
      BY <1>4 DEF TwoTrees
    <3> QED
      BY <1>1, <3>1
  <2>2. Top \notin S
    BY <1>7, DirConstants DEF Table, DirsIn, Dirs
  <2>3. S \subseteq DOMAIN u /\ (S \cap DOMAIN fs # {} => Platform \in A)
    BY <1>1 DEF DirsIn, Dirs
  <2>4. S \ DOMAIN fs \subseteq DirsIn(t, A)
    BY <1>1, <2>1 DEF DirsIn, Dirs
  <2>5. CASE S \cap DOMAIN fs = {}
    BY <2>3, <2>4, <2>5, <1>1, <1>2 DEF RootedIn
  <2>6. CASE S \cap DOMAIN fs # {} /\ Complete(fs)
    <3>1. PICK k \in S \cap DOMAIN fs : fs[k].parent \notin S \cap DOMAIN fs
      BY <2>6 DEF IsHints
    <3>2. CASE fs[k].parent = None
      <4>1. u[k].parent = Platform
        BY <1>1, <1>3, <3>1, <3>2, UnderFacts
      <4>2. u[Platform].parent = Top
        BY <1>1, <1>6
      <4> QED
        BY <3>1, <4>1, <4>2, <2>2
    <3>3. CASE fs[k].parent # None
      <4>1. u[k].parent = fs[k].parent /\ fs[k].parent \in DOMAIN fs
        BY <1>1, <1>3, <2>6, <3>1, <3>3, UnderFacts DEF Complete
      <4> QED
        BY <3>1, <4>1
    <3> QED
      BY <3>2, <3>3
  <2>7. CASE S \cap DOMAIN fs # {} /\ ~Complete(fs)
    <3>1. PICK n \in DOMAIN fs : DOMAIN fs = {n} /\ ~Within(t, Under(fs[n].parent), n)
      BY <2>3, <2>7 DEF Harmless
    <3>2. PICK C \in SUBSET Dirs(t) : Under(fs[n].parent) \in C /\ Closed(t, C) /\ n \notin C
      BY <3>1 DEF Within
    <3>3. CASE S \cap C # {}
      <4>1. S \cap C \subseteq DirsIn(t, A)
        BY <2>4, <3>1, <3>2
      <4>2. PICK k \in S \cap C : t[k].parent \notin S \cap C
        BY <4>1, <3>3, <1>2 DEF RootedIn
      <4>3. t[k].parent \in C \cup {Top} /\ k # n /\ k \in DOMAIN t
        BY <4>2, <3>2 DEF Closed, Dirs
      <4> QED
        BY <4>2, <4>3, <2>2, <3>1, <1>1
    <3>4. CASE S \cap C = {}
      <4>1. n \in S
        BY <2>7, <3>1
      <4>2. u[n].parent = Under(fs[n].parent)
        BY <1>1
      <4> QED
        BY <4>1, <4>2, <3>2, <3>4
    <3> QED
      BY <3>3, <3>4
  <2> QED
    BY <2>5, <2>6, <2>7
<1>10. TwoTrees(u)
  <2>1. DOMAIN u \cap Areas = {Platform, Own}
    BY <1>1, <1>4 DEF TwoTrees
  <2> QED
    BY <2>1, <1>1, <1>4 DEF TwoTrees
<1>11. Sound(u)
  <2>1. ASSUME NEW n \in DOMAIN u, u[n].parent # Top
        PROVE  IsFolder(u, u[n].parent) /\ u[n].area = u[u[n].parent].area
    <3>1. CASE n \in DOMAIN fs
      <4>1. /\ u[n].parent \in DOMAIN fs \cup {Platform} \cup (PlatformNodes(t) \ Files)
            /\ u[n].area = Platform
        BY <1>1, <1>5, <3>1
      <4>2. u[Platform].area = Platform
        BY <1>1, <1>6
      <4>3. \A k \in PlatformNodes(t) : k \in DOMAIN u /\ u[k].area = Platform
        BY <1>1 DEF PlatformNodes
      <4> QED
        BY <4>1, <4>2, <4>3, <1>1, <1>4, <1>6 DEF IsFolder
    <3>2. CASE n \notin DOMAIN fs
      <4>1. n \in DOMAIN t /\ u[n].parent = t[n].parent /\ u[n].area = t[n].area
        BY <1>1, <3>2
      <4>2. IsFolder(t, t[n].parent) /\ t[n].area = t[t[n].parent].area
        BY <1>2, <2>1, <4>1 DEF Sound
      <4>3. t[n].parent \in DOMAIN u /\ t[n].parent \in DOMAIN t /\ t[n].parent \notin Files
        BY <1>1, <4>2 DEF IsFolder
      <4>4. u[t[n].parent].area = t[t[n].parent].area
        BY <1>10, <4>3 DEF TwoTrees
      <4> QED
        BY <4>1, <4>2, <4>3, <4>4 DEF IsFolder
    <3> QED
      BY <3>1, <3>2
  <2>2. ASSUME NEW j \in DOMAIN u \ Areas, NEW k \in DOMAIN u \ Areas,
               u[j].parent = u[k].parent, u[j].name = u[k].name
        PROVE  j = k
    <3>1. /\ u[j].name \in Names \cup {j} /\ u[k].name \in Names \cup {k}
          /\ j \in Nodes /\ k \in Nodes /\ j \notin Names /\ k \notin Names
      BY <1>7, <1>8, DirConstants DEF Table, Labelled, Nodes
    <3>2. CASE j \in DOMAIN fs /\ k \in DOMAIN fs
      <4>1. fs[j].parent = fs[k].parent /\ fs[j].name = fs[k].name
        BY <1>1, <1>3, <2>2, <3>2, UnderFacts
      <4> QED
        BY <3>2, <4>1 DEF IsHints
    <3>3. CASE j \in DOMAIN fs /\ k \notin DOMAIN fs
      BY <1>1, <2>2, <3>1, <3>3
    <3>4. CASE j \notin DOMAIN fs /\ k \in DOMAIN fs
      BY <1>1, <2>2, <3>1, <3>4
    <3>5. CASE j \notin DOMAIN fs /\ k \notin DOMAIN fs
      <4>1. CASE u[j].name \in Names
        <5>1. u[j] = t[j] /\ u[k] = t[k] /\ j \in DOMAIN t \ Areas /\ k \in DOMAIN t \ Areas
          BY <1>1, <2>2, <3>1, <3>5, <4>1
        <5> QED
          BY <1>2, <2>2, <5>1 DEF Sound
      <4>2. CASE u[j].name \notin Names
        BY <2>2, <3>1, <4>2
      <4> QED
        BY <4>1, <4>2
    <3> QED
      BY <3>2, <3>3, <3>4, <3>5
  <2>3. ASSUME NEW n \in DOMAIN u PROVE u[n].parent = Top <=> n \in Areas
    <3>1. CASE n \in DOMAIN fs
      BY <1>1, <1>3, <1>4, <3>1, UnderFacts
    <3>2. CASE n \notin DOMAIN fs
      BY <1>1, <1>2, <3>2 DEF Sound
    <3> QED
      BY <3>1, <3>2
  <2> QED
    BY <2>1, <2>2, <2>3 DEF Sound
<1>12. OwnKept(t, u)
  <2>1. OwnIds \cap DOMAIN u = OwnIds \cap DOMAIN t
    BY <1>1, <1>4
  <2>2. ASSUME NEW n \in OwnIds \cap DOMAIN t PROVE u[n] = t[n]
    <3>1. n \in DOMAIN t \ DOMAIN fs
      BY <1>4
    <3>2. ASSUME NEW k \in DOMAIN fs PROVE Under(fs[k].parent) # t[n].parent
      <4>1. Under(fs[k].parent) # Top /\ Under(fs[k].parent) \notin OwnIds
        BY <1>3, UnderFacts
      <4>2. t[n].parent # Top => t[n].parent \in OwnIds
        BY OwnAbove
      <4> QED
        BY <4>1, <4>2
    <3> QED
      BY <1>1, <3>1, <3>2
  <2> QED
    BY <2>1, <2>2 DEF OwnKept
<1> QED
  BY <1>7, <1>8, <1>9, <1>10, <1>11, <1>12 DEF IsTree

\* In a tree the unique index holds.
LEMMA TreeNamesApart == ASSUME NEW A, NEW t, IsTree(t, A) PROVE NamesApart(t)
<1> SUFFICES ASSUME NEW n \in PlatformNodes(t) \cap Folders,
                    NEW k \in Kids(t, t[n].parent) \ {n}, t[k].name = t[n].name
             PROVE  FALSE
  BY DEF NamesApart, NameFree
<1>1. n \in DOMAIN t \ Areas /\ k \in DOMAIN t /\ k # n /\ t[k].parent = t[n].parent
  BY DirConstants DEF PlatformNodes, Kids
<1>2. k \notin Areas
  BY <1>1 DEF IsTree, Sound
<1> QED
  BY <1>1, <1>2 DEF IsTree, Sound

\* Files come to lie in folders that are there.
LEMMA PlaceKeeps ==
  ASSUME NEW A, NEW t, IsTree(t, A), TwoTrees(t),
         NEW D, D \subseteq DOMAIN t, D \subseteq Folders \ Elsewhere,
         NEW files, FilesFit(files, D), NEW arrived,
         NEW v, v = PlaceFiles(t, files, arrived)
  PROVE  IsTree(v, A) /\ TwoTrees(v) /\ OwnKept(t, v)
<1>1. PICK placed : placed = {f \in DOMAIN files : f \in DOMAIN t \cup arrived}
  OBVIOUS
<1>2. v = [k \in DOMAIN t \cup placed |->
             IF k \in placed THEN [parent |-> Under(files[k]), name |-> k, area |-> Platform] ELSE t[k]]
  BY <1>1 DEF PlaceFiles
<1>3. /\ DOMAIN v = DOMAIN t \cup placed /\ v = [k \in DOMAIN v |-> v[k]]
      /\ \A k \in placed : /\ v[k] = [parent |-> Under(files[k]), name |-> k, area |-> Platform]
                           /\ v[k].parent = Under(files[k]) /\ v[k].name = k /\ v[k].area = Platform
      /\ \A k \in DOMAIN t \ placed : v[k] = t[k]
  BY <1>2
<1>4. Table(t) /\ Labelled(t) /\ RootedIn(t, A) /\ Sound(t)
  BY DEF IsTree
<1>5. /\ placed \subseteq Files \ Elsewhere
      /\ \A f \in placed : files[f] \in (Folders \ Elsewhere) \cup {None}
      /\ \A f \in placed : files[f] \in D \cup {None}
  BY <1>1 DEF FilesFit
<1>6. \A k \in placed : k \in Nodes /\ k \notin OwnIds /\ k \notin Areas /\ k \in Files
  BY <1>5, IdsApart, DirConstants DEF Nodes
<1>7. ASSUME NEW k \in placed
      PROVE  /\ Under(files[k]) \in DOMAIN t /\ Under(files[k]) \notin Files
             /\ Under(files[k]) # Top /\ Under(files[k]) \in Nodes /\ t[Under(files[k])].area = Platform
  <2>1. /\ Under(files[k]) # Top /\ Under(files[k]) \notin Files /\ Under(files[k]) \in Nodes
        /\ Under(files[k]) \notin OwnIds
        /\ Under(files[k]) \in D \cup {Platform}
    BY <1>5, UnderFacts
  <2> QED
    BY <2>1 DEF TwoTrees
<1>8. Table(v)
  <2>1. ASSUME NEW k \in placed PROVE v[k] \in Entry
    <3>1. Under(files[k]) \in Nodes /\ k \in Nodes /\ Platform \in Areas
      BY <1>6, <1>7, PlatformTreeConstants
    <3> QED
      BY <1>3, <3>1 DEF Entry
  <2> QED
    BY <2>1, <1>3, <1>4, <1>6, EntryOf DEF Table
<1>9. Labelled(v)
  BY <1>3, <1>4, <1>6, DirConstants DEF Labelled
<1>10. TwoTrees(v)
  BY <1>3, <1>6 DEF TwoTrees
<1>11. \A n \in DOMAIN v \ Files : n \in DOMAIN t /\ v[n] = t[n]
  BY <1>3, <1>6
<1>12. RootedIn(v, A)
  <2> SUFFICES ASSUME NEW S \in SUBSET DirsIn(v, A), S # {} PROVE \E k \in S : v[k].parent \notin S
    BY DEF RootedIn
  <2>1. S \subseteq DirsIn(t, A) /\ \A k \in S : v[k] = t[k]
    BY <1>11 DEF DirsIn, Dirs
  <2> QED
    BY <2>1, <1>4 DEF RootedIn
<1>13. Sound(v)
  <2>1. ASSUME NEW n \in DOMAIN v, v[n].parent # Top
        PROVE  IsFolder(v, v[n].parent) /\ v[n].area = v[v[n].parent].area
    <3>1. CASE n \in placed
      <4>1. v[n].parent \in DOMAIN t /\ v[n].parent \notin Files /\ t[v[n].parent].area = Platform
        BY <1>3, <1>7, <3>1
      <4>2. v[n].parent \in DOMAIN v /\ v[v[n].parent] = t[v[n].parent]
        BY <4>1, <1>3, <1>6
      <4> QED
        BY <4>1, <4>2, <3>1, <1>3 DEF IsFolder
    <3>2. CASE n \notin placed
      <4>1. n \in DOMAIN t /\ v[n] = t[n]
        BY <3>2, <1>3
      <4>2. IsFolder(t, t[n].parent) /\ t[n].area = t[t[n].parent].area
        BY <2>1, <4>1, <1>4 DEF Sound
      <4>3. v[t[n].parent] = t[t[n].parent]
        BY <4>2, <1>3, <1>6 DEF IsFolder
      <4> QED
        BY <4>1, <4>2, <4>3, <1>3 DEF IsFolder
    <3> QED
      BY <3>1, <3>2
  <2>2. ASSUME NEW j \in DOMAIN v \ Areas, NEW k \in DOMAIN v \ Areas,
               v[j].parent = v[k].parent, v[j].name = v[k].name
        PROVE  j = k
    <3>1. /\ v[j].name \in Names \cup {j} /\ v[k].name \in Names \cup {k}
          /\ j \notin Names /\ k \notin Names
          /\ j \in Files => v[j].name = j
          /\ k \in Files => v[k].name = k
      BY <1>8, <1>9, DirConstants DEF Table, Labelled, Nodes
    <3>2. CASE j \in Files \/ k \in Files
      BY <2>2, <3>1, <3>2
    <3>3. CASE j \notin Files /\ k \notin Files
      <4>1. j \in DOMAIN t \ Areas /\ k \in DOMAIN t \ Areas /\ v[j] = t[j] /\ v[k] = t[k]
        BY <3>3, <1>11
      <4> QED
        BY <2>2, <4>1, <1>4 DEF Sound
    <3> QED
      BY <3>2, <3>3
  <2>3. ASSUME NEW n \in DOMAIN v PROVE v[n].parent = Top <=> n \in Areas
    <3>1. CASE n \in placed
      BY <3>1, <1>3, <1>6, <1>7
    <3>2. CASE n \notin placed
      BY <3>2, <1>3, <1>4 DEF Sound
    <3> QED
      BY <3>1, <3>2
  <2> QED
    BY <2>1, <2>2, <2>3 DEF Sound
<1>14. OwnKept(t, v)
  BY <1>3, <1>6 DEF OwnKept
<1> QED
  BY <1>8, <1>9, <1>10, <1>12, <1>13, <1>14 DEF IsTree

\* Files that are there, or have arrived, are where they are told to be; folders stay.
LEMMA PlaceShows ==
  ASSUME NEW t, NEW files, DOMAIN files \subseteq Files, NEW arrived,
         NEW v, v = PlaceFiles(t, files, arrived)
  PROVE  /\ DOMAIN t \subseteq DOMAIN v /\ DOMAIN files \cap arrived \subseteq DOMAIN v
         /\ \A f \in DOMAIN files \cap DOMAIN v : v[f].parent = Under(files[f])
         /\ \A n \in DOMAIN v \ Files : n \in DOMAIN t /\ v[n] = t[n]
<1>1. PICK placed : placed = {f \in DOMAIN files : f \in DOMAIN t \cup arrived}
  OBVIOUS
<1>2. v = [k \in DOMAIN t \cup placed |->
             IF k \in placed THEN [parent |-> Under(files[k]), name |-> k, area |-> Platform] ELSE t[k]]
  BY <1>1 DEF PlaceFiles
<1>3. /\ DOMAIN v = DOMAIN t \cup placed
      /\ \A k \in placed : v[k].parent = Under(files[k])
      /\ \A k \in DOMAIN t \ placed : v[k] = t[k]
  BY <1>2
<1> QED
  BY <1>1, <1>3

\* A folder with a file somewhere below it.
Holding(t, n) == \E f \in DOMAIN t \cap Files : Within(t, t[f].parent, n)

\* Where there is no circle nobody is above himself.
LEMMA NoCircle ==
  ASSUME NEW A, NEW t, IsTree(t, A), NEW n \in DOMAIN t \cap Folders, t[n].area \in A
  PROVE  ~Within(t, t[n].parent, n)
<1> SUFFICES ASSUME Within(t, t[n].parent, n) PROVE FALSE
  OBVIOUS
<1>1. Table(t) /\ RootedIn(t, A) /\ Sound(t)
  BY DEF IsTree
<1>2. n \in Dirs(t) /\ n \notin Areas /\ t[n].parent # Top
  BY <1>1, DirConstants DEF Dirs, Sound
<1>3. PICK p : p = t[n].parent
  OBVIOUS
<1>4. PICK M : M = {x \in Dirs(t) : Within(t, p, x) /\ Within(t, x, n)}
  OBVIOUS
<1>5. n \in M
  BY <1>2, <1>3, <1>4 DEF Within
<1>6. M \in SUBSET DirsIn(t, A)
  <2>1. PICK R : R = {x \in Dirs(t) : t[x].area = t[n].area}
    OBVIOUS
  <2>2. p \in R /\ Closed(t, R)
    BY <1>1, <1>2, <1>3, <2>1 DEF Closed, Dirs, Sound, IsFolder
  <2>3. \A x \in M : x \in R
    BY <1>4, <2>1, <2>2 DEF Within
  <2> QED
    BY <1>4, <2>1, <2>3 DEF DirsIn
<1>7. PICK x \in M : t[x].parent \notin M
  BY <1>1, <1>5, <1>6 DEF RootedIn
<1>8. x \in Dirs(t) /\ Within(t, p, x) /\ Within(t, x, n) /\ x \in DOMAIN t
  BY <1>4, <1>7 DEF Dirs
<1>9. x # n
  <2> SUFFICES ASSUME x = n PROVE FALSE
    OBVIOUS
  <2>1. p \in Dirs(t) /\ Within(t, p, p)
    BY <1>1, <1>2, <1>3 DEF Dirs, Sound, IsFolder, Within
  <2> QED
    BY <1>3, <1>4, <1>7, <2>1
<1>10. t[x].parent # Top
  <2> SUFFICES ASSUME t[x].parent = Top PROVE FALSE
    OBVIOUS
  <2>1. {x} \in SUBSET Dirs(t) /\ Closed(t, {x})
    BY <1>8 DEF Closed
  <2> QED
    BY <1>8, <1>9, <2>1 DEF Within
<1>11. PICK y : y = t[x].parent
  OBVIOUS
<1>12. y \in Dirs(t)
  BY <1>1, <1>8, <1>10, <1>11 DEF Sound, IsFolder, Dirs
<1>13. Within(t, p, y)
  <2> SUFFICES ASSUME NEW S \in SUBSET Dirs(t), p \in S, Closed(t, S) PROVE y \in S
    BY DEF Within
  <2> QED
    BY <1>8, <1>10, <1>11 DEF Within, Closed
<1>14. Within(t, y, n)
  <2> SUFFICES ASSUME NEW S \in SUBSET Dirs(t), y \in S, Closed(t, S) PROVE n \in S
    BY DEF Within
  <2>1. S \cup {x} \in SUBSET Dirs(t) /\ Closed(t, S \cup {x})
    BY <1>8, <1>11 DEF Closed
  <2> QED
    BY <1>8, <1>9, <2>1 DEF Within
<1> QED
  BY <1>4, <1>7, <1>11, <1>12, <1>13, <1>14

\* What holds something, and what is kept, is kept with all that is above it.
LEMMA PruneKeeps ==
  ASSUME NEW A, NEW t, IsTree(t, A), TwoTrees(t), NEW keep \in SUBSET DOMAIN t,
         NEW w, w = Prune(t, keep)
  PROVE  /\ IsTree(w, A) /\ TwoTrees(w) /\ OwnKept(t, w)
         /\ DOMAIN w \subseteq DOMAIN t /\ DOMAIN w \cap Files = DOMAIN t \cap Files
         /\ \A n \in DOMAIN w : w[n] = t[n]
         /\ keep = {} /\ Platform \in A => \A n \in PlatformNodes(w) \cap Folders : Holding(w, n)
<1> DEFINE stays == (DOMAIN t \cap Files) \cup keep
           holding(n) == (\E k \in stays : Within(t, t[k].parent, n)) \/ Within(t, t[n].parent, n)
<1>1. /\ DOMAIN w = {k \in DOMAIN t : t[k].area = Platform /\ k \in Folders \ keep => holding(k)}
      /\ w = [k \in DOMAIN w |-> w[k]]
      /\ \A k \in DOMAIN w : w[k] = t[k]
  BY DEF Prune
<1> HIDE DEF holding
<1>2. Table(t) /\ Labelled(t) /\ RootedIn(t, A) /\ Sound(t)
  BY DEF IsTree
<1>3. DOMAIN w \cap Files = DOMAIN t \cap Files /\ DOMAIN w \cap Areas = DOMAIN t \cap Areas
  BY <1>1, DirConstants
<1>4. ASSUME NEW n \in DOMAIN w, w[n].parent # Top PROVE w[n].parent \in DOMAIN w
  <2>1. n \in DOMAIN t /\ w[n] = t[n]
    BY <1>1
  <2>2. PICK p : p = t[n].parent
    OBVIOUS
  <2>3. p \in DOMAIN t /\ p \notin Files /\ t[n].area = t[p].area /\ n \in Nodes /\ p # Top
    BY <1>2, <1>4, <2>1, <2>2 DEF Sound, IsFolder, Table
  <2> SUFFICES ASSUME t[p].area = Platform, p \in Folders PROVE holding(p)
    BY <2>1, <2>2, <2>3, <1>1
  <2>4. CASE n \in stays
    <3>1. Within(t, p, p)
      BY DEF Within
    <3> QED
      BY <2>2, <2>4, <3>1 DEF holding
  <2>5. CASE n \in Folders \ keep
    <3>1. holding(n)
      BY <1>1, <2>1, <2>3, <2>5
    <3>2. ASSUME NEW k \in stays, Within(t, t[k].parent, n) PROVE holding(p)
      <4>1. Within(t, t[k].parent, p)
        <5> SUFFICES ASSUME NEW S \in SUBSET Dirs(t), t[k].parent \in S, Closed(t, S) PROVE p \in S
          BY DEF Within
        <5>1. n \in S
          BY <3>2 DEF Within
        <5> QED
          BY <5>1, <2>2, <2>3 DEF Closed
      <4> QED
        BY <4>1 DEF holding
    <3>3. ASSUME Within(t, p, n) PROVE holding(p)
      <4>1. Within(t, t[p].parent, p)
        <5> SUFFICES ASSUME NEW S \in SUBSET Dirs(t), t[p].parent \in S, Closed(t, S), p \notin S
                     PROVE  FALSE
          BY DEF Within
        <5>1. S \cup {p} \in SUBSET Dirs(t) /\ Closed(t, S \cup {p})
          BY <2>3 DEF Closed, Dirs
        <5>2. n \in S \cup {p}
          BY <3>3, <5>1 DEF Within
        <5>3. n \in S
          BY <5>2, <2>2
        <5> QED
          BY <5>3, <2>2, <2>3 DEF Closed
      <4> QED
        BY <4>1 DEF holding
    <3> QED
      BY <3>1, <3>2, <3>3, <2>2 DEF holding
  <2>6. CASE n \in Areas
    BY <1>4, <2>1, <2>6, <1>2 DEF Sound
  <2> QED
    BY <2>1, <2>3, <2>4, <2>5, <2>6 DEF Nodes
<1>5. Table(w)
  BY <1>1, <1>2, EntryOf DEF Table
<1>6. Labelled(w)
  BY <1>1, <1>2 DEF Labelled
<1>7. RootedIn(w, A)
  <2> SUFFICES ASSUME NEW S \in SUBSET DirsIn(w, A), S # {} PROVE \E k \in S : w[k].parent \notin S
    BY DEF RootedIn
  <2>1. S \subseteq DirsIn(t, A) /\ \A k \in S : w[k] = t[k]
    BY <1>1 DEF DirsIn, Dirs
  <2> QED
    BY <2>1, <1>2 DEF RootedIn
<1>8. Sound(w)
  <2>1. ASSUME NEW n \in DOMAIN w, w[n].parent # Top
        PROVE  IsFolder(w, w[n].parent) /\ w[n].area = w[w[n].parent].area
    <3>1. w[n].parent \in DOMAIN w
      BY <1>4, <2>1
    <3>2. w[n] = t[n] /\ w[w[n].parent] = t[w[n].parent] /\ n \in DOMAIN t
      BY <1>1, <3>1
    <3>3. IsFolder(t, t[n].parent) /\ t[n].area = t[t[n].parent].area
      BY <1>2, <2>1, <3>2 DEF Sound
    <3> QED
      BY <3>1, <3>2, <3>3 DEF IsFolder
  <2>2. \A j, k \in DOMAIN w \ Areas : w[j].parent = w[k].parent /\ w[j].name = w[k].name => j = k
    BY <1>1, <1>2 DEF Sound
  <2>3. \A n \in DOMAIN w : w[n].parent = Top <=> n \in Areas
    BY <1>1, <1>2 DEF Sound
  <2> QED
    BY <2>1, <2>2, <2>3 DEF Sound
<1>9. TwoTrees(w)
  BY <1>1, <1>3 DEF TwoTrees
<1>10. OwnKept(t, w)
  <2>1. ASSUME NEW n \in OwnIds \cap DOMAIN t PROVE n \in DOMAIN w
    <3>1. t[n].area # Platform
      BY FactoryTreeConstants DEF TwoTrees
    <3> QED
      BY <3>1, <1>1
  <2> QED
    BY <2>1, <1>1 DEF OwnKept
<1>11. ASSUME keep = {}, Platform \in A, NEW n \in PlatformNodes(w) \cap Folders PROVE Holding(w, n)
  <2>1. n \in DOMAIN w /\ n \in DOMAIN t /\ t[n].area = Platform /\ n \in Folders
    BY <1>1 DEF PlatformNodes
  <2>2. ~Within(t, t[n].parent, n)
    BY <1>11, <2>1, NoCircle
  <2>3. PICK f \in DOMAIN t \cap Files : Within(t, t[f].parent, n)
    BY <1>11, <2>1, <2>2, <1>1 DEF holding
  <2>4. f \in DOMAIN w \cap Files /\ w[f] = t[f]
    BY <2>3, <1>1, <1>3
  <2>5. Within(w, w[f].parent, n)
    <3> SUFFICES ASSUME NEW S \in SUBSET Dirs(w), w[f].parent \in S, Closed(w, S) PROVE n \in S
      BY DEF Within
    <3>1. S \in SUBSET Dirs(t) /\ \A k \in S : w[k] = t[k]
      BY <1>1 DEF Dirs
    <3>2. Closed(t, S)
      BY <3>1 DEF Closed
    <3> QED
      BY <2>3, <2>4, <3>1, <3>2 DEF Within
  <2> QED
    BY <2>4, <2>5 DEF Holding
<1> QED
  BY <1>1, <1>3, <1>5, <1>6, <1>7, <1>8, <1>9, <1>10, <1>11 DEF IsTree

\* What leaves the own tree alone twice leaves it alone.
LEMMA OwnKeptTwice ==
  ASSUME NEW t, NEW u, NEW v, OwnKept(t, u), OwnKept(u, v)
  PROVE  OwnKept(t, v)
  BY DEF OwnKept

\* A layout is applied whole or not at all, and what comes of it are two trees, the own
\* one as it was.
LEMMA AppliedKeeps ==
  ASSUME NEW A, NEW t, IsTree(t, A), TwoTrees(t),
         NEW l, IsHints(l.folders), FoldersFit(t, l.folders) => Complete(l.folders),
         FilesFit(l.files, DOMAIN l.folders), NEW w, w = ApplyLayout(t, l)
  PROVE  IsTree(w, A) /\ TwoTrees(w) /\ OwnKept(t, w)
<1>1. PICK fs, files : fs = l.folders /\ files = l.files
  OBVIOUS
<1>2. PICK u : u = UpsertFolders(t, fs)
  OBVIOUS
<1>3. CASE FoldersFit(t, fs) /\ NamesApart(u)
  <2>1. IsTree(u, A) /\ TwoTrees(u) /\ OwnKept(t, u)
    BY <1>1, <1>2, <1>3, UpsertKeeps DEF Harmless
  <2>2. PICK D : D = DOMAIN fs /\ D \subseteq DOMAIN u /\ D \subseteq Folders \ Elsewhere /\ FilesFit(files, D)
    BY <1>1, <1>2 DEF UpsertFolders, IsHints
  <2>3. PICK v : v = PlaceFiles(u, files, held)
    OBVIOUS
  <2>4. IsTree(v, A) /\ TwoTrees(v) /\ OwnKept(u, v)
    BY <1>1, <2>1, <2>2, <2>3, PlaceKeeps
  <2>5. w = Prune(v, {})
    BY <1>1, <1>2, <1>3, <2>3 DEF ApplyLayout
  <2>6. IsTree(w, A) /\ TwoTrees(w) /\ OwnKept(v, w)
    BY <2>4, <2>5, PruneKeeps
  <2> QED
    BY <2>1, <2>4, <2>6, OwnKeptTwice
<1>4. CASE ~(FoldersFit(t, fs) /\ NamesApart(u))
  <2>1. w = t
    BY <1>1, <1>2, <1>4 DEF ApplyLayout
  <2> QED
    BY <2>1 DEF OwnKept
<1> QED
  BY <1>3, <1>4

\* A layout whose folders are all told of always goes through, and the table then shows it;
\* without a circle every folder left holds something.
LEMMA AppliedShows ==
  ASSUME NEW A, NEW t, IsTree(t, A), TwoTrees(t), NEW l, IsHints(l.folders), Complete(l.folders),
         FilesFit(l.files, DOMAIN l.folders), NEW w, w = ApplyLayout(t, l)
  PROVE  /\ Shows(w, l)
         /\ Platform \in A => \A n \in PlatformNodes(w) \cap Folders : Holding(w, n)
<1>1. PICK fs, files : fs = l.folders /\ files = l.files
  OBVIOUS
<1>2. PICK u : u = UpsertFolders(t, fs)
  OBVIOUS
<1>3. FoldersFit(t, fs)
  BY <1>1 DEF FoldersFit, Complete
<1>4. IsTree(u, A) /\ TwoTrees(u)
  BY <1>1, <1>2, <1>3, UpsertKeeps DEF Harmless
<1>5. PICK v : v = PlaceFiles(u, files, held)
  OBVIOUS
<1>6. w = Prune(v, {})
  <2>1. NamesApart(u)
    BY <1>4, TreeNamesApart
  <2> QED
    BY <1>1, <1>2, <1>3, <1>5, <2>1 DEF ApplyLayout
<1>7. PICK D : D = DOMAIN fs /\ D \subseteq DOMAIN u /\ D \subseteq Folders \ Elsewhere /\ FilesFit(files, D)
  BY <1>1, <1>2 DEF UpsertFolders, IsHints
<1>8. IsTree(v, A) /\ TwoTrees(v)
  BY <1>1, <1>4, <1>5, <1>7, PlaceKeeps
<1>9. /\ DOMAIN u \subseteq DOMAIN v /\ DOMAIN files \cap held \subseteq DOMAIN v
      /\ \A f \in DOMAIN files \cap DOMAIN v : v[f].parent = Under(files[f])
      /\ \A n \in DOMAIN v \ Files : n \in DOMAIN u /\ v[n] = u[n]
  BY <1>5, <1>7, PlaceShows DEF FilesFit
<1>10. /\ IsTree(w, A)
       /\ DOMAIN w \subseteq DOMAIN v /\ DOMAIN w \cap Files = DOMAIN v \cap Files
       /\ \A n \in DOMAIN w : w[n] = v[n]
       /\ Platform \in A => \A n \in PlatformNodes(w) \cap Folders : Holding(w, n)
  BY <1>6, <1>8, PruneKeeps
<1>11. DOMAIN files \subseteq Files /\ DOMAIN fs \subseteq Folders
  BY <1>1 DEF FilesFit, IsHints
<1>12. DOMAIN files \cap DOMAIN w = DOMAIN files \cap DOMAIN v
  BY <1>10, <1>11
<1>13. \A f \in DOMAIN files \cap held : f \in DOMAIN files \cap DOMAIN w
  BY <1>9, <1>12
<1>14. \A f \in DOMAIN files \cap DOMAIN w : w[f].parent = Under(files[f])
  BY <1>9, <1>10, <1>12
<1>15. ASSUME NEW n \in DOMAIN fs, NEW f \in DOMAIN files \cap DOMAIN w, Within(w, w[f].parent, n)
       PROVE  w[n].parent = Under(fs[n].parent) /\ w[n].name = fs[n].name
  <2>1. Dirs(w) \in SUBSET Dirs(w) /\ Closed(w, Dirs(w))
    BY <1>10 DEF Closed, Dirs, IsTree, Sound, IsFolder
  <2>2. w[f].parent \in Dirs(w)
    <3>1. f \in DOMAIN w /\ f \notin Areas
      BY <1>11, DirConstants
    <3> QED
      BY <3>1, <1>10 DEF Dirs, IsTree, Sound, IsFolder
  <2>3. n \in Dirs(w)
    BY <1>15, <2>1, <2>2 DEF Within
  <2>4. n \in DOMAIN w /\ n \notin Files
    BY <2>3 DEF Dirs
  <2>5. w[n] = u[n]
    BY <2>4, <1>9, <1>10
  <2>6. u[n] = [parent |-> Under(fs[n].parent), name |-> fs[n].name, area |-> Platform]
    BY <1>2 DEF UpsertFolders
  <2> QED
    BY <2>5, <2>6
<1>16. Shows(w, l)
  BY <1>1, <1>13, <1>14, <1>15 DEF Shows
<1> QED
  BY <1>10, <1>16

-----------------------------------------------------------------------------
(* A path that is applied.                                                 *)

\* A set of numbers has a least one.
LEMMA LeastExists ==
    ASSUME NEW S \in SUBSET Nat, S # {}
    PROVE  \E n \in S : \A m \in S : n <= m
<1>1. PICK k \in S : TRUE
  OBVIOUS
<1> DEFINE U == 0..k
           Below(v) == 0..v
           T == {Below(v) : v \in S \cap U}
<1>2. IsFiniteSet(U)
  BY <1>1, FS_Interval
<1>3. T \subseteq FiniteSubsetsOf(U) /\ T # {}
  <2>1. FiniteSubsetsOf(U) = SUBSET U
    BY <1>2, FS_FiniteSubsetsOfFinite
  <2>2. \A v \in S \cap U : Below(v) \subseteq U
    OBVIOUS
  <2>3. k \in S \cap U
    BY <1>1
  <2> QED
    BY <2>1, <2>2, <2>3
<1>4. IsWellFoundedOn(StrictSubsetOrdering(U), FiniteSubsetsOf(U))
  BY <1>2, FS_StrictSubsetOrderingWellFounded
<1>5. \E x \in T : \A y \in T : ~(<<y, x>> \in StrictSubsetOrdering(U))
  <2> HIDE DEF T, U
  <2> QED
    BY <1>3, <1>4, WFMin
<1>6. PICK n \in S \cap U : \A y \in T : <<y, Below(n)>> \notin StrictSubsetOrdering(U)
  BY <1>5
<1>7. ASSUME NEW m \in S, m < n PROVE FALSE
  <2>1. m \in S \cap U /\ n \in Nat /\ m \in Nat
    BY <1>1, <1>7
  <2>2. Below(m) \subseteq Below(n) /\ Below(m) # Below(n) /\ Below(n) \subseteq U
    <3>1. n \in Below(n) /\ n \notin Below(m)
      BY <1>7, <2>1
    <3> QED
      BY <1>7, <2>1, <3>1
  <2>3. <<Below(m), Below(n)>> \in StrictSubsetOrdering(U)
    BY <2>2 DEF StrictSubsetOrdering
  <2> QED
    BY <1>6, <2>1, <2>3
<1> QED
  BY <1>7

\* One entry of a path as the folder it brings in.
One(h) == [n \in {h.node} |-> [parent |-> h.parent, name |-> h.name]]

\* A path as the WAN reads it: each entry was true of its folder, and names the one before
\* it for its parent.
IsPath(path) ==
    /\ \E H : path \in Seq(H)
    /\ \A i \in 1..Len(path) :
         /\ IsHints(One(path[i]))
         /\ i # 1 => path[i].parent = path[i - 1].node

\* u brings in the path entry by entry.
Brings(t, path, m, u) ==
    u = [i \in 0..m |-> IF i = 0 THEN t ELSE UpsertFolders(u[i - 1], One(path[i]))]

LEMMA BringsExists == ASSUME NEW t, NEW path, NEW m \in Nat PROVE \E u : Brings(t, path, m, u)
<1> DEFINE S == {i \in Nat : ~\E u : Brings(t, path, i, u)}
<1> SUFFICES ASSUME S # {} PROVE FALSE
  OBVIOUS
<1>1. PICK i \in S : \A j \in S : i <= j
  <2>1. S \in SUBSET Nat
    OBVIOUS
  <2> HIDE DEF S
  <2> QED
    BY <2>1, LeastExists
<1>2. CASE i = 0
  <2> DEFINE u == [j \in 0..0 |-> t]
  <2>1. u = [j \in 0..0 |-> IF j = 0 THEN t ELSE UpsertFolders(u[j - 1], One(path[j]))]
    OBVIOUS
  <2> QED
    BY <1>2, <2>1 DEF Brings
<1>3. CASE i # 0
  <2>1. PICK g : Brings(t, path, i - 1, g)
    <3>1. i - 1 \in Nat /\ ~(i <= i - 1)
      BY <1>3
    <3> QED
      BY <1>1, <3>1
  <2>2. g = [j \in 0..i - 1 |-> IF j = 0 THEN t ELSE UpsertFolders(g[j - 1], One(path[j]))]
    BY <2>1 DEF Brings
  <2> DEFINE last == UpsertFolders(g[i - 1], One(path[i]))
             h == [j \in 0..i |-> IF j = i THEN last ELSE g[j]]
  <2>3. ASSUME NEW j \in 0..i
        PROVE  h[j] = IF j = 0 THEN t ELSE UpsertFolders(h[j - 1], One(path[j]))
    <3>1. CASE j = i
      <4>1. i - 1 \in 0..i /\ i - 1 # i
        BY <1>3
      <4>2. h[i - 1] = g[i - 1]
        BY <4>1
      <4> QED
        BY <3>1, <4>2, <1>3
    <3>2. CASE j # i
      <4>1. j \in 0..i - 1 /\ (j # 0 => j - 1 \in 0..i /\ j - 1 # i)
        BY <3>2
      <4>2. g[j] = IF j = 0 THEN t ELSE UpsertFolders(g[j - 1], One(path[j]))
        BY <2>2, <4>1
      <4>3. h[j] = g[j] /\ (j # 0 => h[j - 1] = g[j - 1])
        BY <3>2, <4>1
      <4> QED
        BY <4>2, <4>3
    <3> QED
      BY <3>1, <3>2
  <2>4. h = [j \in 0..i |-> h[j]]
    OBVIOUS
  <2> HIDE DEF h
  <2>5. h = [j \in 0..i |-> IF j = 0 THEN t ELSE UpsertFolders(h[j - 1], One(path[j]))]
    BY <2>3, <2>4
  <2> QED
    BY <2>5 DEF Brings
<1> QED
  BY <1>2, <1>3

\* So UpsertPath is the last of what its equation describes.
LEMMA UpsertPathBrings ==
  ASSUME NEW t, NEW path, Len(path) \in Nat
  PROVE  \E u : Brings(t, path, Len(path), u) /\ UpsertPath(t, path) = u[Len(path)]
<1> DEFINE one(h) == [n \in {h.node} |-> [parent |-> h.parent, name |-> h.name]]
           u == CHOOSE u : u = [i \in 0..Len(path) |->
                                  IF i = 0 THEN t ELSE UpsertFolders(u[i - 1], one(path[i]))]
<1>1. PICK g : Brings(t, path, Len(path), g)
  BY BringsExists
<1>2. g = [i \in 0..Len(path) |-> IF i = 0 THEN t ELSE UpsertFolders(g[i - 1], one(path[i]))]
  BY <1>1, Zenon DEF Brings, One
<1>3. u = [i \in 0..Len(path) |-> IF i = 0 THEN t ELSE UpsertFolders(u[i - 1], one(path[i]))]
  BY <1>2, Zenon
<1>4. UpsertPath(t, path) = u[Len(path)]
  BY Zenon DEF UpsertPath
<1>5. Brings(t, path, Len(path), u)
  BY <1>3, Zenon DEF Brings, One
<1> QED
  BY <1>4, <1>5

\* The root and the first i folders of a path.
Upper(path, i) == {Platform} \cup {path[j].node : j \in 1..i}

\* Along a way from the root each folder comes into one that nothing leads out of, but to
\* the root; so it closes no circle.
LEMMA PathStep ==
  ASSUME NEW A, NEW t, IsTree(t, A), TwoTrees(t), NEW path, IsPath(path), NEW i \in 1..Len(path),
         Len(path) \in Nat,
         IF i = 1 THEN path[1].parent \in (PlatformNodes(t) \ Files) \cup {None} ELSE TRUE,
         Upper(path, i - 1) \subseteq Dirs(t),
         Platform \in A => IsWay(path) /\ Closed(t, Upper(path, i - 1)),
         NEW u, u = UpsertFolders(t, One(path[i]))
  PROVE  /\ IsTree(u, A) /\ TwoTrees(u) /\ OwnKept(t, u)
         /\ Upper(path, i) \subseteq Dirs(u)
         /\ Platform \in A => Closed(u, Upper(path, i))
<1>1. PICK n, fs : n = path[i].node /\ fs = One(path[i])
  OBVIOUS
<1>2. DOMAIN fs = {n} /\ fs[n].parent = path[i].parent
  BY <1>1 DEF One
<1>3. IsHints(fs) /\ (i # 1 => path[i].parent = path[i - 1].node)
  BY <1>1 DEF IsPath
<1>4. n \in Folders \ Elsewhere /\ fs[n].parent \in (Folders \ Elsewhere) \cup {None}
  BY <1>2, <1>3 DEF IsHints
<1>5. Upper(path, i) = Upper(path, i - 1) \cup {n} /\ Platform \in Upper(path, i - 1)
  <2>1. \A j : j \in 1..i <=> j \in 1..(i - 1) \/ j = i
    OBVIOUS
  <2> QED
    BY <2>1, <1>1 DEF Upper
<1>6. i # 1 => fs[n].parent \in Upper(path, i - 1) /\ fs[n].parent # Platform
  <2>1. i # 1 => i - 1 \in 1..(i - 1)
    OBVIOUS
  <2>2. Platform # None /\ Platform \notin Folders
    BY IdsApart, DirConstants
  <2> QED
    BY <2>1, <2>2, <1>2, <1>3, <1>4 DEF Upper
<1>7. Upper(path, i - 1) \subseteq PlatformNodes(t) \ Files
  <2>1. \A j \in 1..(i - 1) : path[j].node \in Folders \ Elsewhere
    <3> SUFFICES ASSUME NEW j \in 1..(i - 1) PROVE path[j].node \in Folders \ Elsewhere
      OBVIOUS
    <3>1. IsHints(One(path[j]))
      BY DEF IsPath
    <3>2. path[j].node \in DOMAIN One(path[j])
      BY DEF One
    <3> QED
      BY <3>1, <3>2 DEF IsHints
  <2>2. \A x \in Upper(path, i - 1) : x \notin OwnIds
    BY <2>1, IdsApart DEF Upper
  <2> QED
    BY <2>2 DEF PlatformNodes, TwoTrees, Dirs
<1>8. FoldersFit(t, fs)
  BY <1>2, <1>6, <1>7 DEF FoldersFit
<1>9. ASSUME Platform \in A
      PROVE  /\ ~Within(t, Under(fs[n].parent), n) /\ Under(fs[n].parent) \in Upper(path, i - 1)
             /\ n \notin Upper(path, i - 1)
  <2>1. IsWay(path) /\ Closed(t, Upper(path, i - 1))
    BY <1>9
  <2>2. Under(fs[n].parent) \in Upper(path, i - 1)
    <3>1. CASE i = 1
      <4>1. path # <<>>
        BY <3>1
      <4>2. fs[n].parent = None
        BY <2>1, <3>1, <4>1, <1>2 DEF IsWay
      <4> QED
        BY <4>2, <1>5 DEF Under
    <3>2. CASE i # 1
      BY <3>2, <1>4, <1>5, <1>6 DEF Under
    <3> QED
      BY <3>1, <3>2
  <2>3. n \notin Upper(path, i - 1)
    <3>1. n # Platform
      BY <1>4, IdsApart
    <3>2. DOMAIN path = 1..Len(path)
      BY DEF IsPath
    <3>3. \A j \in 1..(i - 1) : path[j].node # n
      BY <1>1, <2>1, <3>2 DEF IsWay
    <3> QED
      BY <3>1, <3>3 DEF Upper
  <2> QED
    BY <2>1, <2>2, <2>3 DEF Within
<1>10. Platform \in A => Harmless(t, fs)
  BY <1>2, <1>9 DEF Harmless
<1>11. IsTree(u, A) /\ TwoTrees(u) /\ OwnKept(t, u)
  BY <1>1, <1>3, <1>8, <1>10, UpsertKeeps
<1>12. Upserted(t, fs, u)
  BY <1>1, <1>3, UpsertShape
<1>13. DOMAIN u = DOMAIN t \cup {n} /\ u[n].parent = Under(fs[n].parent)
  BY <1>2, <1>12 DEF Upserted
<1>14. \A k \in DOMAIN t \ {n} : u[k].parent = t[k].parent
  BY <1>2, <1>12 DEF Upserted
<1>15. Upper(path, i) \subseteq Dirs(u)
  BY <1>4, <1>5, <1>13, DirConstants DEF Dirs
<1>16. ASSUME Platform \in A PROVE Closed(u, Upper(path, i))
  <2>1. Closed(t, Upper(path, i - 1))
    BY <1>16
  <2> QED
    BY <1>5, <1>9, <1>13, <1>14, <1>16, <2>1 DEF Closed, Dirs
<1> QED
  BY <1>11, <1>15, <1>16

\* So a path is brought in, whatever it is; and if it is a way from the root, without a
\* circle.
LEMMA UpsertPathKeeps ==
  ASSUME NEW A, NEW t, IsTree(t, A), TwoTrees(t), NEW path, IsPath(path), path # <<>>,
         path[1].parent \in (PlatformNodes(t) \ Files) \cup {None},
         Platform \in A => IsWay(path),
         NEW v, v = UpsertPath(t, path)
  PROVE  /\ IsTree(v, A) /\ TwoTrees(v) /\ OwnKept(t, v)
         /\ Upper(path, Len(path)) \subseteq Dirs(v)
<1>1. PICK m \in Nat : m = Len(path)
  BY DEF IsPath
<1>2. PICK u : Brings(t, path, m, u) /\ v = u[m]
  BY <1>1, UpsertPathBrings
<1>3. u = [i \in 0..m |-> IF i = 0 THEN t ELSE UpsertFolders(u[i - 1], One(path[i]))]
  BY <1>2 DEF Brings
<1>4. u[0] = t /\ \A i \in 1..m : u[i] = UpsertFolders(u[i - 1], One(path[i]))
  BY <1>3
<1> DEFINE Good(i) == /\ IsTree(u[i], A) /\ TwoTrees(u[i]) /\ OwnKept(t, u[i])
                      /\ Upper(path, i) \subseteq Dirs(u[i])
                      /\ Platform \in A => Closed(u[i], Upper(path, i))
           S == {i \in Nat : i <= m /\ ~Good(i)}
<1>5. Good(0)
  <2>1. Upper(path, 0) = {Platform}
    BY DEF Upper
  <2>2. Platform \in Dirs(t) /\ t[Platform].parent = Top
    BY IdsApart, PlatformTreeConstants DEF Dirs, TwoTrees, IsTree, Sound
  <2>3. OwnKept(t, t)
    BY DEF OwnKept
  <2> QED
    BY <1>4, <2>1, <2>2, <2>3 DEF Closed
<1>6. S = {}
  <2> SUFFICES ASSUME S # {} PROVE FALSE
    OBVIOUS
  <2>1. PICK i \in S : \A j \in S : i <= j
    <3>1. S \in SUBSET Nat
      OBVIOUS
    <3> HIDE DEF S
    <3> QED
      BY <3>1, LeastExists
  <2>2. i \in Nat /\ i <= m /\ ~Good(i)
    OBVIOUS
  <2>3. i # 0
    BY <1>5, <2>2
  <2>4. i \in 1..m /\ i - 1 \in Nat /\ i - 1 <= m /\ ~(i <= i - 1)
    BY <2>2, <2>3
  <2>5. Good(i - 1)
    BY <2>1, <2>4
  <2>6. PICK x, y : x = u[i - 1] /\ y = u[i]
    OBVIOUS
  <2>7. y = UpsertFolders(x, One(path[i]))
    BY <1>4, <2>4, <2>6
  <2>8. /\ IsTree(x, A) /\ TwoTrees(x) /\ OwnKept(t, x)
        /\ Upper(path, i - 1) \subseteq Dirs(x)
        /\ Platform \in A => Closed(x, Upper(path, i - 1))
    BY <2>5, <2>6
  <2>9. IF i = 1 THEN path[1].parent \in (PlatformNodes(x) \ Files) \cup {None} ELSE TRUE
    BY <1>4, <2>6
  <2>10. /\ IsTree(y, A) /\ TwoTrees(y) /\ OwnKept(x, y)
         /\ Upper(path, i) \subseteq Dirs(y)
         /\ Platform \in A => Closed(y, Upper(path, i))
    <3> HIDE DEF Good
    <3> QED
      BY <1>1, <2>4, <2>7, <2>8, <2>9, PathStep
  <2>11. OwnKept(t, y)
    BY <2>8, <2>10, OwnKeptTwice
  <2> QED
    BY <2>2, <2>6, <2>10, <2>11
<1>7. Good(m)
  BY <1>6
<1> QED
  BY <1>1, <1>2, <1>7

\* A closure's path is applied whole or not at all.
LEMMA ApplyPathKeeps ==
  ASSUME NEW A, NEW t, IsTree(t, A), TwoTrees(t), NEW f \in Files \ Elsewhere,
         NEW path, IsPath(path), path # <<>>, Platform \in A => IsWay(path),
         NEW w, w = ApplyPath(t, f, path)
  PROVE  IsTree(w, A) /\ TwoTrees(w) /\ OwnKept(t, w)
<1>1. PICK m \in Nat : m = Len(path) /\ m # 0 /\ DOMAIN path = 1..m
  BY DEF IsPath
<1>2. PICK D : D = {path[i].node : i \in DOMAIN path}
  OBVIOUS
<1>3. PICK dest : dest = [x \in {f} |-> path[m].node]
  OBVIOUS
<1>4. CASE path[1].parent \in (PlatformNodes(t) \ Files) \cup {None}
  <2>1. PICK u : u = UpsertPath(t, path)
    OBVIOUS
  <2>2. IsTree(u, A) /\ TwoTrees(u) /\ OwnKept(t, u) /\ Upper(path, m) \subseteq Dirs(u)
    BY <1>1, <1>4, <2>1, UpsertPathKeeps
  <2>3. \A i \in 1..m : path[i].node \in Folders \ Elsewhere
    <3> SUFFICES ASSUME NEW i \in 1..m PROVE path[i].node \in Folders \ Elsewhere
      OBVIOUS
    <3>1. IsHints(One(path[i]))
      BY <1>1 DEF IsPath
    <3>2. path[i].node \in DOMAIN One(path[i])
      BY DEF One
    <3> QED
      BY <3>1, <3>2 DEF IsHints
  <2>4. D \subseteq DOMAIN u /\ D \subseteq Folders \ Elsewhere
    BY <1>1, <1>2, <2>2, <2>3 DEF Upper, Dirs
  <2>5. FilesFit(dest, D)
    BY <1>1, <1>2, <1>3 DEF FilesFit
  <2>6. PICK v, none : none = {} /\ v = PlaceFiles(u, dest, none)
    OBVIOUS
  <2>7. IsTree(v, A) /\ TwoTrees(v) /\ OwnKept(u, v)
    BY <2>2, <2>4, <2>5, <2>6, PlaceKeeps
  <2>8. w = Prune(v, D)
    BY <1>1, <1>2, <1>3, <1>4, <2>1, <2>6 DEF ApplyPath
  <2>9. D \in SUBSET DOMAIN v
    BY <2>4, <2>5, <2>6, PlaceShows DEF FilesFit
  <2>10. IsTree(w, A) /\ TwoTrees(w) /\ OwnKept(v, w)
    BY <2>7, <2>8, <2>9, PruneKeeps
  <2> QED
    BY <2>2, <2>7, <2>10, OwnKeptTwice
<1>5. CASE path[1].parent \notin (PlatformNodes(t) \ Files) \cup {None}
  <2>1. w = t
    BY <1>5 DEF ApplyPath
  <2> QED
    BY <2>1 DEF OwnKept
<1> QED
  BY <1>4, <1>5

-----------------------------------------------------------------------------
(* The way up from a file.                                                 *)

\* g climbs m levels from n.
Climbs(t, n, m, g) == g = [i \in 1..m |-> Above(t, IF i = 1 THEN n ELSE g[i - 1])]

\* One can climb any number of levels, on top of the roots if need be.
LEMMA ClimbExists == ASSUME NEW t, NEW n, NEW m \in Nat PROVE \E g : Climbs(t, n, m, g)
<1> DEFINE S == {i \in Nat : ~\E g : Climbs(t, n, i, g)}
<1> SUFFICES ASSUME S # {} PROVE FALSE
  OBVIOUS
<1>1. PICK i \in S : \A j \in S : i <= j
  <2>1. S \in SUBSET Nat
    OBVIOUS
  <2> HIDE DEF S
  <2> QED
    BY <2>1, LeastExists
<1>2. CASE i = 0
  <2>1. Climbs(t, n, 0, [j \in 1..0 |-> Top])
    BY DEF Climbs
  <2> QED
    BY <1>2, <2>1
<1>3. CASE i # 0
  <2>1. PICK g : Climbs(t, n, i - 1, g)
    <3>1. i - 1 \in Nat /\ ~(i <= i - 1)
      BY <1>3
    <3> QED
      BY <1>1, <3>1
  <2>2. g = [j \in 1..i - 1 |-> Above(t, IF j = 1 THEN n ELSE g[j - 1])]
    BY <2>1 DEF Climbs
  <2> DEFINE last == Above(t, IF i = 1 THEN n ELSE g[i - 1])
             h == [j \in 1..i |-> IF j = i THEN last ELSE g[j]]
  <2>3. ASSUME NEW j \in 1..i PROVE h[j] = Above(t, IF j = 1 THEN n ELSE h[j - 1])
    <3>1. CASE j = i
      <4>1. i # 1 => i - 1 \in 1..i /\ i - 1 # i
        BY <1>3
      <4>2. i # 1 => h[i - 1] = g[i - 1]
        BY <4>1
      <4> QED
        BY <3>1, <4>2
    <3>2. CASE j # i
      <4>1. j \in 1..i - 1 /\ (j # 1 => j - 1 \in 1..i /\ j - 1 # i)
        BY <3>2
      <4>2. g[j] = Above(t, IF j = 1 THEN n ELSE g[j - 1])
        BY <2>2, <4>1
      <4>3. h[j] = g[j] /\ (j # 1 => h[j - 1] = g[j - 1])
        BY <3>2, <4>1
      <4> QED
        BY <4>2, <4>3
    <3> QED
      BY <3>1, <3>2
  <2>4. h = [j \in 1..i |-> h[j]]
    OBVIOUS
  <2> HIDE DEF h
  <2>5. h = [j \in 1..i |-> Above(t, IF j = 1 THEN n ELSE h[j - 1])]
    BY <2>3, <2>4
  <2> QED
    BY <2>5 DEF Climbs
<1> QED
  BY <1>2, <1>3

\* So the way up is the function its equation describes.
LEMMA AscentClimbs ==
  ASSUME NEW t, NEW n, NEW m \in Nat
  PROVE  Climbs(t, n, m, Ascent(t, n, m))
<1>1. PICK g : Climbs(t, n, m, g)
  BY ClimbExists
<1>2. g = [i \in 1..m |-> Above(t, IF i = 1 THEN n ELSE g[i - 1])]
  BY <1>1 DEF Climbs
<1> DEFINE up == CHOOSE up : up = [i \in 1..m |-> Above(t, IF i = 1 THEN n ELSE up[i - 1])]
<1>3. up = [i \in 1..m |-> Above(t, IF i = 1 THEN n ELSE up[i - 1])]
  BY <1>2, Zenon
<1>4. Ascent(t, n, m) = up
  BY Zenon DEF Ascent
<1> QED
  BY <1>3, <1>4, Zenon DEF Climbs

\* Level by level: the parent of the file, then the parent of each.
LEMMA AscentSteps ==
  ASSUME NEW t, NEW n
  PROVE  /\ Walk \in Nat /\ 1 \in 1..Walk
         /\ Ascent(t, n, Walk)[1] = Above(t, n)
         /\ \A i \in 1..Walk : i # 1 =>
              i - 1 \in 1..Walk /\ Ascent(t, n, Walk)[i] = Above(t, Ascent(t, n, Walk)[i - 1])
<1>1. Walk \in Nat /\ 1 \in 1..Walk
  BY PlatformTreeConstants
<1>2. PICK up : up = Ascent(t, n, Walk)
  OBVIOUS
<1>3. up = [i \in 1..Walk |-> Above(t, IF i = 1 THEN n ELSE up[i - 1])]
  BY <1>1, <1>2, AscentClimbs DEF Climbs
<1>4. \A i \in 1..Walk : up[i] = Above(t, IF i = 1 THEN n ELSE up[i - 1])
  BY <1>3
<1>5. \A i \in 1..Walk : i # 1 => i - 1 \in 1..Walk
  BY <1>1
<1> QED
  BY <1>1, <1>2, <1>4, <1>5

\* The folder of a file and the folders above it, but those too far up, make its lineage.
LEMMA LineageFacts ==
  ASSUME NEW t, IsTree(t, Areas), NEW f \in DOMAIN t \cap Files
  PROVE  /\ Lineage(t, f, Walk) \subseteq DOMAIN t \cap Folders
         /\ t[f].parent \in Lineage(t, f, Walk) \cup Areas
<1> DEFINE up == Ascent(t, f, Walk)
<1>1. Table(t) /\ Sound(t)
  BY DEF IsTree
<1>2. Lineage(t, f, Walk) = {up[i] : i \in 1..Walk} \ (Areas \cup {Top})
  BY DEF Lineage
<1>3. \A x : Above(t, x) = Top \/ (Above(t, x) \in DOMAIN t /\ Above(t, x) \notin Files)
  BY <1>1 DEF Above, Sound, IsFolder
<1>4. \A i \in 1..Walk : up[i] = Top \/ (up[i] \in DOMAIN t /\ up[i] \notin Files)
  BY <1>3, AscentSteps
<1>5. 1 \in 1..Walk /\ up[1] = t[f].parent
  BY AscentSteps DEF Above
<1> HIDE DEF up
<1>6. Lineage(t, f, Walk) \subseteq DOMAIN t \cap Folders
  BY <1>1, <1>2, <1>4 DEF Table, Nodes
<1>7. t[f].parent # Top
  <2>1. f \notin Areas
    BY DirConstants
  <2> QED
    BY <1>1, <2>1 DEF Sound
<1> QED
  BY <1>2, <1>5, <1>6, <1>7

-----------------------------------------------------------------------------
(* What the WAN tells the factory.                                         *)

\* No file of the WAN lies below more folders than a layout reaches up.
Shallow(t) ==
    \A f \in DOMAIN t \cap Files : \A n \in Lineage(t, f, Walk) :
      t[n].parent \in Lineage(t, f, Walk) \cup Areas
ShallowTree == Shallow(ptree)

\* A tree of the WAN.
IsWan(t) == IsTree(t, Areas) /\ OnePlatform(t) /\ DOMAIN t \cap Elsewhere \subseteq Areas

IsLayout(l) == IsHints(l.folders) /\ Complete(l.folders) /\ FilesFit(l.files, DOMAIN l.folders)
IsClosure(h) == h.file \in Files \ Elsewhere /\ IsPath(h.path)

\* A climb has read a path, and goes on at the parent of its uppermost folder.
IsClimb(c) ==
    /\ c.file \in Files \ Elsewhere /\ IsPath(c.path)
    /\ c.at \in Folders \ Elsewhere
    /\ c.path # <<>> => c.path[1].parent = c.at

\* What is said of a folder is its place in the tree.
LEMMA HintFacts ==
  ASSUME NEW t, IsWan(t), NEW n \in DOMAIN t, n \notin Areas
  PROVE  /\ Hint(t, n).name = t[n].name
         /\ t[n].parent \in Areas => Hint(t, n).parent = None /\ t[n].parent = Platform
         /\ t[n].parent \notin Areas => /\ Hint(t, n).parent = t[n].parent
                                        /\ t[n].parent \in (Folders \ Elsewhere) /\ t[n].parent # None
<1>1. t[n].parent # Top /\ t[n].parent \in DOMAIN t /\ t[n].parent \notin Files
  BY DEF IsWan, IsTree, Sound, IsFolder
<1>2. t[n].parent \in Nodes /\ t[n].parent # None
  BY <1>1, DirConstants DEF IsWan, IsTree, Table
<1>3. t[n].parent \in Areas => t[n].parent = Platform
  BY <1>1 DEF IsWan, OnePlatform
<1>4. t[n].parent \notin Areas => t[n].parent \in Folders \ Elsewhere
  BY <1>1, <1>2 DEF IsWan, Nodes
<1> QED
  BY <1>2, <1>3, <1>4 DEF Hint

\* The WAN's tree has no circle.
LEMMA WanRooted ==
  ASSUME NEW t, IsWan(t)
  PROVE  \A S \in SUBSET Dirs(t) : S # {} => \E k \in S : t[k].parent \notin S
<1>1. Table(t) /\ RootedIn(t, Areas)
  BY DEF IsWan, IsTree
<1> QED
  BY <1>1, RootedEverywhere DEF Rooted

\* Folders of the WAN's tree, told of, are in no circle and have names of their own.
LEMMA HintsOfTree ==
  ASSUME NEW t, IsWan(t), NEW D \in SUBSET (DOMAIN t \cap Folders)
  PROVE  IsHints([n \in D |-> Hint(t, n)])
<1> PICK fs : fs = [n \in D |-> Hint(t, n)]
  OBVIOUS
<1>1. DOMAIN fs = D /\ \A n \in D : fs[n] = Hint(t, n)
  OBVIOUS
<1>2. \A n \in D : n \in DOMAIN t /\ n \in Folders /\ n \notin Areas /\ n # None /\ n \notin Files
  BY DirConstants DEF Nodes
<1>3. ASSUME NEW n \in D
      PROVE  /\ fs[n].name = t[n].name
             /\ t[n].parent \in Areas => fs[n].parent = None /\ t[n].parent = Platform
             /\ t[n].parent \notin Areas => /\ fs[n].parent = t[n].parent
                                            /\ t[n].parent \in (Folders \ Elsewhere) /\ t[n].parent # None
  BY <1>1, <1>2, HintFacts
<1>4. DOMAIN fs \subseteq Folders \ Elsewhere
  BY <1>1, <1>2 DEF IsWan
<1>5. \A n \in DOMAIN fs : /\ fs[n].parent \in (Folders \ Elsewhere) \cup {None}
                           /\ fs[n].name \in Names \cup {n}
  BY <1>1, <1>2, <1>3 DEF IsWan, IsTree, Labelled
<1>6. ASSUME NEW m \in D, NEW n \in D, fs[m].parent = fs[n].parent, fs[m].name = fs[n].name
      PROVE  m = n
  <2>1. t[m].parent = t[n].parent /\ t[m].name = t[n].name
    BY <1>3, <1>6
  <2> QED
    BY <1>2, <2>1 DEF IsWan, IsTree, Sound
<1>7. ASSUME NEW S \in SUBSET D, S # {} PROVE \E k \in S : fs[k].parent \notin S
  <2>1. S \in SUBSET Dirs(t)
    BY <1>2 DEF Dirs
  <2>2. PICK k \in S : t[k].parent \notin S
    BY <2>1, <1>7, WanRooted
  <2>3. fs[k].parent \in {None, t[k].parent}
    BY <1>3
  <2> QED
    BY <2>2, <2>3, <1>2
<1> QED
  BY <1>1, <1>4, <1>5, <1>6, <1>7 DEF IsHints

\* A layout puts folders and files where the WAN has them.
LEMMA LayoutFacts ==
  ASSUME NEW t, IsWan(t), NEW l, l = PlatformFSLayout(t)
  PROVE  /\ IsHints(l.folders) /\ FilesFit(l.files, DOMAIN l.folders)
         /\ Shallow(t) => Complete(l.folders)
<1>1. PICK D : D = UNION {Lineage(t, f, Walk) : f \in DOMAIN t \cap Files}
  OBVIOUS
<1>2. l.folders = [n \in D |-> Hint(t, n)] /\ l.files = [f \in DOMAIN t \cap Files |-> Hint(t, f).parent]
  BY <1>1 DEF PlatformFSLayout
<1>3. IsTree(t, Areas)
  BY DEF IsWan
<1>4. D \in SUBSET (DOMAIN t \cap Folders)
  BY <1>1, <1>3, LineageFacts
<1>5. IsHints(l.folders)
  BY <1>2, <1>4, HintsOfTree
<1>6. DOMAIN l.folders = D /\ DOMAIN l.files = DOMAIN t \cap Files
  BY <1>2
<1>7. ASSUME NEW f \in DOMAIN l.files PROVE l.files[f] \in D \cup {None}
  <2>1. f \in DOMAIN t \cap Files /\ f \notin Areas /\ l.files[f] = Hint(t, f).parent
    BY <1>2, <1>6, DirConstants
  <2>2. t[f].parent \in D \cup Areas
    BY <1>1, <1>3, <2>1, LineageFacts
  <2> QED
    BY <2>1, <2>2, HintFacts
<1>8. FilesFit(l.files, DOMAIN l.folders)
  <2>1. DOMAIN l.files \subseteq Files \ Elsewhere
    BY <1>6, DirConstants DEF IsWan
  <2> QED
    BY <2>1, <1>6, <1>7 DEF FilesFit
<1>9. ASSUME Shallow(t), NEW n \in D PROVE l.folders[n].parent \in D \cup {None}
  <2>1. PICK f \in DOMAIN t \cap Files : n \in Lineage(t, f, Walk)
    BY <1>1
  <2>2. t[n].parent \in D \cup Areas
    BY <1>1, <1>9, <2>1 DEF Shallow
  <2>3. n \in DOMAIN t /\ n \notin Areas /\ l.folders[n] = Hint(t, n)
    BY <1>2, <1>4, DirConstants
  <2> QED
    BY <2>2, <2>3, HintFacts
<1> QED
  BY <1>5, <1>6, <1>8, <1>9 DEF Complete

\* One read of a folder is true of it.
LEMMA FolderReadFacts ==
  ASSUME NEW t, IsWan(t), NEW n \in DOMAIN t \cap Folders
  PROVE  /\ IsHints(One(FolderRead(t, n))) /\ FolderRead(t, n).node = n
         /\ t[n].parent \notin Areas =>
              FolderRead(t, n).parent = t[n].parent /\ t[n].parent \in Folders \ Elsewhere
<1>1. PICK h : h = FolderRead(t, n)
  OBVIOUS
<1>2. h.node = n /\ h.parent = Hint(t, n).parent /\ h.name = Hint(t, n).name
  BY <1>1 DEF FolderRead
<1>3. n \notin Areas
  BY DirConstants
<1>4. PICK D : D = {n}
  OBVIOUS
<1>5. One(h) = [k \in D |-> Hint(t, k)]
  BY <1>2, <1>4 DEF One, Hint
<1>6. IsHints(One(h))
  BY <1>4, <1>5, HintsOfTree
<1>7. t[n].parent \notin Areas => h.parent = t[n].parent /\ t[n].parent \in Folders \ Elsewhere
  BY <1>2, <1>3, HintFacts
<1> QED
  BY <1>1, <1>2, <1>6, <1>7

\* A path that is read goes on at the top.
LEMMA PathGrows ==
  ASSUME NEW path, IsPath(path), NEW h, IsHints(One(h)),
         path # <<>> => path[1].parent = h.node,
         NEW longer, longer = <<h>> \o path
  PROVE  IsPath(longer) /\ longer # <<>> /\ longer[1] = h
<1>1. PICK H : path \in Seq(H)
  BY DEF IsPath
<1>2. PICK G : G = H \cup {h}
  OBVIOUS
<1>3. path \in Seq(G) /\ <<h>> \in Seq(G)
  BY <1>1, <1>2
<1>4. longer \in Seq(G) /\ Len(longer) = Len(path) + 1 /\ longer[1] = h
  BY <1>3
<1>5. ASSUME NEW i \in 1..Len(longer), i # 1
      PROVE  i - 1 \in 1..Len(path) /\ longer[i] = path[i - 1]
  BY <1>3, <1>4, <1>5
<1>6. ASSUME NEW i \in 1..Len(longer) PROVE IsHints(One(longer[i]))
  <2>1. CASE i = 1
    BY <2>1, <1>4
  <2>2. CASE i # 1
    BY <2>2, <1>5 DEF IsPath
  <2> QED
    BY <2>1, <2>2
<1>7. ASSUME NEW i \in 1..Len(longer), i # 1 PROVE longer[i].parent = longer[i - 1].node
  <2>1. i - 1 \in 1..Len(path) /\ longer[i] = path[i - 1]
    BY <1>5, <1>7
  <2>2. CASE i = 2
    <3>1. path # <<>>
      BY <1>3, <2>1
    <3> QED
      BY <2>1, <2>2, <3>1, <1>4
  <2>3. CASE i # 2
    <3>1. i - 1 # 1 /\ i - 1 \in 1..Len(longer) /\ i - 1 - 1 \in 1..Len(path)
      BY <2>1, <2>3, <1>4
    <3>2. longer[i - 1] = path[i - 1 - 1]
      BY <1>5, <3>1
    <3>3. path[i - 1].parent = path[i - 1 - 1].node
      BY <2>1, <3>1 DEF IsPath
    <3> QED
      BY <2>1, <3>2, <3>3
  <2> QED
    BY <2>2, <2>3
<1>8. longer # <<>>
  BY <1>3, <1>4
<1> QED
  BY <1>4, <1>6, <1>7, <1>8 DEF IsPath

\* What is on its way of a closure.
OfClosure(w) ==
    /\ DOMAIN w # {"layout"}
    /\ DOMAIN w = {"closure"} => IsClosure(w.closure)
    /\ DOMAIN w = {"climb"} => IsClimb(w.climb)

\* A climb goes on, or has come to the root or as far as it goes.
LEMMA ClimbFacts ==
  ASSUME NEW f \in Files \ Elsewhere, NEW path, IsPath(path), NEW at,
         at \notin Areas => at \in Folders \ Elsewhere /\ (path # <<>> => path[1].parent = at)
  PROVE  OfClosure(Climb(f, at, path))
<1>1. PICK c, h, w : /\ c = [file |-> f, at |-> at, path |-> path]
                     /\ h = [file |-> f, path |-> path]
                     /\ w = Climb(f, at, path)
  OBVIOUS
<1>2. CASE at \in Areas \/ Len(path) = Walk
  <2>1. w = [closure |-> h]
    BY <1>1, <1>2 DEF Climb
  <2>2. DOMAIN w = {"closure"} /\ w.closure = h /\ IsClosure(h)
    BY <1>1, <2>1 DEF IsClosure
  <2>3. "closure" # "layout" /\ "closure" # "climb"
    OBVIOUS
  <2> QED
    BY <1>1, <2>2, <2>3, Zenon DEF OfClosure
<1>3. CASE ~(at \in Areas \/ Len(path) = Walk)
  <2>1. w = [climb |-> c]
    BY <1>1, <1>3 DEF Climb
  <2>2. DOMAIN w = {"climb"} /\ w.climb = c /\ IsClimb(c)
    BY <1>1, <1>3, <2>1 DEF IsClimb
  <2>3. "climb" # "layout" /\ "climb" # "closure"
    OBVIOUS
  <2> QED
    BY <1>1, <2>2, <2>3, Zenon DEF OfClosure
<1> QED
  BY <1>2, <1>3

\* Nothing read yet, or nothing left of it.
LEMMA EmptyPath == IsPath(<<>>)
<1>1. <<>> \in Seq({}) /\ Len(<<>>) = 0
  OBVIOUS
<1>2. 1..0 = {}
  OBVIOUS
<1> QED
  BY <1>1, <1>2 DEF IsPath

-----------------------------------------------------------------------------
(* The factory's trees.                                                    *)

\* The trees that are known to have no circle: the own one, and the platform's as long as
\* every path that was applied was a way from the root.
Sure == IF torn THEN {Own} ELSE Areas

LEMMA SureFacts ==
    /\ Own \in Sure /\ Sure \subseteq Areas
    /\ Platform \in Sure <=> ~torn
    /\ ~torn => Sure = Areas
    /\ torn => Sure = {Own}
<1>1. CASE torn
  BY <1>1, FactoryTreeConstants, PlatformTreeConstants, IdsApart DEF Sure
<1>2. CASE ~torn
  BY <1>2, FactoryTreeConstants, PlatformTreeConstants DEF Sure
<1> QED
  BY <1>1, <1>2

\* A tree without a circle has none in a part of it.
LEMMA PartOfTree ==
  ASSUME NEW A, NEW B \in SUBSET A, NEW t, IsTree(t, A)
  PROVE  IsTree(t, B)
<1>1. DirsIn(t, B) \subseteq DirsIn(t, A)
  BY DEF DirsIn
<1>2. RootedIn(t, B)
  BY <1>1 DEF IsTree, RootedIn
<1> QED
  BY <1>2 DEF IsTree

\* Layouts on their way are what the WAN once had, and so is what each closure says of the
\* file and of every folder, each at its own moment.
Told ==
    /\ \A a \in Admins : Doing(a, "publish") => IsLayout(pedit[a].layout)
    /\ \E L : mail \in Seq(L) /\ \A l \in L : IsLayout(l)
    /\ \A w \in fetched : OfClosure(w) \/ (DOMAIN w = {"layout"} /\ IsLayout(w.layout))

\* What people have under way is about the own tree.
IsOwnEdit(e) ==
    /\ IsEdit(e)
    /\ e.op = "create" => e.to \in OwnIds

FPending(e) == e = None \/ IsOwnEdit(e) \/ IsCall(e, OwnIds)

FMoveHolds(p) ==
    FDoing(p, "move") =>
      /\ flock = p
      /\ fedit[p].node \in fused \cup {Own} /\ fedit[p].to \in fused \cup {Own}
      /\ Ready(ftree, fedit[p].node, fedit[p].to)

FGivenOut == DOMAIN ftree \cap OwnIds \subseteq fused \cup {Own} /\ fused \subseteq OwnIds \ {Own}

FacInv ==
    /\ IsTree(ftree, Sure) /\ TwoTrees(ftree)
    /\ FGivenOut
    /\ held \subseteq Files \ Elsewhere
    /\ fedit = [p \in People |-> fedit[p]]
    /\ \A p \in People : FPending(fedit[p])
    /\ \A p \in People : FMoveHolds(p)

\* The WAN's invariant says what its tree is like.
LEMMA WanIsWan == WanInv => IsWan(ptree)
  BY DEF WanInv, IsWan, GivenOut

\* The kind of a person's call says what the call is.
LEMMA FPendingKinds ==
  ASSUME NEW e, FPending(e), e # None
  PROVE  /\ e.op \in {"create", "rename", "move"} => IsOwnEdit(e)
         /\ e.op \in {"copy", "delete"} => IsCall(e, OwnIds)
<1>1. CASE IsOwnEdit(e)
  BY <1>1 DEF IsOwnEdit, IsEdit, Edits
<1>2. CASE IsCall(e, OwnIds)
  BY <1>2 DEF IsCall, Calls
<1> QED
  BY <1>1, <1>2 DEF FPending

\* The roots alone.
LEMMA EmptyIsTree ==
  LET t == EmptyTree({Platform, Own})
  IN  IsTree(t, Areas) /\ TwoTrees(t) /\ DOMAIN t = {Platform, Own}
<1> PICK t : t = EmptyTree({Platform, Own})
  OBVIOUS
<1>1. /\ DOMAIN t = {Platform, Own} /\ t = [k \in DOMAIN t |-> t[k]]
      /\ \A k \in DOMAIN t : /\ t[k] = [parent |-> Top, name |-> k, area |-> k]
                             /\ t[k].parent = Top /\ t[k].area = k
  BY DEF EmptyTree
<1>2. Platform \in Areas /\ Own \in Areas /\ Platform # Own /\ {Platform, Own} \cap (Folders \cup Files) = {}
  BY DirConstants, PlatformTreeConstants, FactoryTreeConstants
<1>3. Table(t)
  <2>1. \A k \in DOMAIN t : k \in Areas /\ k \in Nodes
    BY <1>1, <1>2 DEF Nodes
  <2>2. ASSUME NEW k \in DOMAIN t PROVE t[k] \in Entry
    <3>1. t[k] = [parent |-> Top, name |-> k, area |-> k]
      BY <1>1
    <3>2. k \in Areas /\ k \in Nodes
      BY <2>1
    <3> QED
      BY <3>1, <3>2 DEF Entry
  <2> QED
    BY <1>1, <2>1, <2>2 DEF Table
<1>4. Top \notin DOMAIN t
  BY <1>1, IdsApart, DirConstants
<1>5. RootedIn(t, Areas)
  <2> SUFFICES ASSUME NEW S \in SUBSET DirsIn(t, Areas), NEW k \in S PROVE t[k].parent \notin S
    BY DEF RootedIn
  <2>1. S \subseteq DOMAIN t
    BY DEF DirsIn, Dirs
  <2>2. t[k].parent = Top
    BY <2>1, <1>1
  <2> QED
    BY <2>1, <2>2, <1>4
<1>6. Sound(t) /\ Labelled(t)
  BY <1>1, <1>2 DEF Sound, Labelled
<1>7. TwoTrees(t)
  <2>1. Own \in OwnIds /\ Platform \notin OwnIds
    BY IdsApart DEF OwnIds
  <2>2. t[Own].area = Own /\ t[Platform].area = Platform
    BY <1>1
  <2>3. DOMAIN t \cap Areas = {Platform, Own}
    BY <1>1, <1>2
  <2>4. \A n \in DOMAIN t : n = Own \/ n = Platform
    BY <1>1
  <2> QED
    BY <2>1, <2>2, <2>3, <2>4 DEF TwoTrees
<1> QED
  BY <1>1, <1>3, <1>5, <1>6, <1>7 DEF IsTree

\* To begin with the factory has the roots, and what a layout of the WAN made of them.
LEMMA SyncInitFac == SyncInit => FacInv /\ Told
<1> SUFFICES ASSUME SyncInit PROVE FacInv /\ Told
  OBVIOUS
<1>1. PTreeInit /\ FTreeInit /\ fetched = {} /\ torn = FALSE
  BY DEF SyncInit
<1>2. PICK s \in StartTrees : ftree = ApplyLayout(EmptyTree({Platform, Own}), PlatformFSLayout(s))
  BY <1>1 DEF FTreeInit, PTreeInit
<1>3. IsWan(s)
  BY StartIsTree, PlatformTreeConstants, DirConstants DEF IsWan
<1>4. PICK t : t = EmptyTree({Platform, Own})
  OBVIOUS
<1>5. IsTree(t, Areas) /\ TwoTrees(t) /\ DOMAIN t = {Platform, Own}
  BY <1>4, EmptyIsTree
<1>6. PICK l : l = PlatformFSLayout(s)
  OBVIOUS
<1>7. IsHints(l.folders) /\ FilesFit(l.files, DOMAIN l.folders)
  BY <1>3, <1>6, LayoutFacts
<1>8. ASSUME FoldersFit(t, l.folders) PROVE Complete(l.folders)
  <2>1. PlatformNodes(t) \cap Folders = {}
    BY <1>5, IdsApart DEF PlatformNodes
  <2>2. None \notin PlatformNodes(t)
    BY <1>5, IdsApart, DirConstants DEF PlatformNodes
  <2> QED
    BY <1>7, <1>8, <2>1, <2>2 DEF FoldersFit, Complete, IsHints
<1>9. ftree = ApplyLayout(t, l)
  BY <1>2, <1>4, <1>6
<1>10. IsTree(ftree, Sure) /\ TwoTrees(ftree) /\ OwnKept(t, ftree)
  <2>1. IsTree(ftree, Areas) /\ TwoTrees(ftree) /\ OwnKept(t, ftree)
    BY <1>5, <1>7, <1>8, <1>9, AppliedKeeps
  <2> QED
    BY <1>1, <2>1, SureFacts
<1>11. FGivenOut
  BY <1>1, <1>5, <1>10, IdsApart DEF FTreeInit, FGivenOut, OwnKept
<1>12. held \subseteq Files \ Elsewhere
  BY <1>1, PlatformTreeConstants DEF FTreeInit
<1>13. fedit = [p \in People |-> fedit[p]] /\ \A p \in People : fedit[p] = None
  BY <1>1 DEF FTreeInit
<1>14. FacInv
  BY <1>10, <1>11, <1>12, <1>13 DEF FacInv, FPending, FMoveHolds, FDoing
<1>15. Told
  <2>1. \A a \in Admins : ~Doing(a, "publish")
    BY <1>1 DEF PTreeInit, Doing
  <2>2. mail \in Seq({})
    BY <1>1 DEF PTreeInit
  <2> QED
    BY <1>1, <2>1, <2>2 DEF Told
<1> QED
  BY <1>14, <1>15

\* A move within the own tree stays harmless while that tree stays as it is.
LEMMA ReadyKept ==
  ASSUME NEW A, NEW t, IsTree(t, A), TwoTrees(t), NEW B, NEW u, IsTree(u, B), OwnKept(t, u),
         NEW n \in OwnIds, NEW p \in OwnIds, Ready(t, n, p)
  PROVE  Ready(u, n, p)
<1> SUFFICES ASSUME n \in DOMAIN u, p \in DOMAIN u
             PROVE  /\ n \notin Areas /\ IsFolder(u, p) /\ u[p].area = u[n].area
                    /\ n \in Files \/ ~Within(u, p, n)
  BY DEF Ready
<1>1. n \in DOMAIN t /\ p \in DOMAIN t /\ u[n] = t[n] /\ u[p] = t[p]
  BY DEF OwnKept
<1>2. /\ n \notin Areas /\ IsFolder(t, p) /\ t[p].area = t[n].area
      /\ n \in Files \/ ~Within(t, p, n)
  BY <1>1 DEF Ready
<1>3. ASSUME n \notin Files PROVE ~Within(u, p, n)
  <2>1. PICK C \in SUBSET Dirs(t) : p \in C /\ Closed(t, C) /\ n \notin C
    BY <1>2, <1>3 DEF Within
  <2>2. PICK D : D = C \cap OwnIds
    OBVIOUS
  <2>3. \A k \in D : k \in DOMAIN t /\ k \in DOMAIN u /\ u[k] = t[k] /\ k \notin Files /\ k \in C /\ k \in OwnIds
    BY <2>1, <2>2 DEF OwnKept, Dirs
  <2>4. D \in SUBSET Dirs(u) /\ p \in D /\ n \notin D
    BY <2>1, <2>2, <2>3 DEF Dirs
  <2>5. Closed(u, D)
    <3> SUFFICES ASSUME NEW k \in D, t[k].parent # Top PROVE t[k].parent \in D
      BY <2>3 DEF Closed
    <3>1. t[k].parent \in C
      BY <2>1, <2>3 DEF Closed
    <3>2. t[k].parent \in OwnIds
      BY <2>3, OwnAbove
    <3> QED
      BY <2>2, <3>1, <3>2
  <2> QED
    BY <2>4, <2>5 DEF Within
<1> QED
  BY <1>1, <1>2, <1>3 DEF IsFolder

\* What the factory does to follow the WAN leaves people's calls and their tree alone.
LEMMA FollowStep ==
  ASSUME FacInv, IsTree(ftree', Sure'), TwoTrees(ftree'), OwnKept(ftree, ftree'),
         held' \subseteq Files \ Elsewhere, UNCHANGED <<fedit, flock, fused>>
  PROVE  FacInv'
<1>1. FGivenOut'
  BY DEF FacInv, FGivenOut, OwnKept
<1>2. ASSUME NEW p \in People PROVE FMoveHolds(p)'
  <2> SUFFICES ASSUME FDoing(p, "move")
               PROVE  /\ flock = p
                      /\ fedit[p].node \in fused \cup {Own} /\ fedit[p].to \in fused \cup {Own}
                      /\ Ready(ftree', fedit[p].node, fedit[p].to)
    BY DEF FMoveHolds, FDoing
  <2>1. /\ flock = p
        /\ fedit[p].node \in fused \cup {Own} /\ fedit[p].to \in fused \cup {Own}
        /\ Ready(ftree, fedit[p].node, fedit[p].to)
    BY DEF FacInv, FMoveHolds
  <2>2. fedit[p].node \in OwnIds /\ fedit[p].to \in OwnIds
    BY <2>1 DEF FacInv, FGivenOut, OwnIds
  <2>3. PICK t, u, A, B : t = ftree /\ u = ftree' /\ A = Sure /\ B = Sure'
    OBVIOUS
  <2>4. IsTree(t, A) /\ TwoTrees(t) /\ IsTree(u, B) /\ OwnKept(t, u)
    BY <2>3 DEF FacInv
  <2> QED
    BY <2>1, <2>2, <2>3, <2>4, ReadyKept
<1>3. TwoTrees(ftree)'
  BY DEF TwoTrees
<1> QED
  BY <1>1, <1>2, <1>3 DEF FacInv

\* A person's step, as an admin's at the WAN.
LEMMA FacStep ==
  ASSUME FacInv, NEW p \in People, NEW e, fedit' = [fedit EXCEPT ![p] = e], FPending(e),
         e # None /\ e.op = "move" =>
           /\ flock' = p
           /\ e.node \in fused' \cup {Own} /\ e.to \in fused' \cup {Own}
           /\ Ready(ftree', e.node, e.to),
         \/ flock' = flock
         \/ flock = None /\ flock' = p
         \/ flock = p /\ flock' = None,
         IsTree(ftree', Sure'), TwoTrees(ftree'), Stays(ftree, ftree') \/ flock = p,
         DOMAIN ftree' \subseteq DOMAIN ftree \cup FreshOwnFolders \cup FreshOwnFiles,
         fused \subseteq fused', fused' \subseteq fused \cup FreshOwnFolders \cup FreshOwnFiles,
         DOMAIN ftree' \cap OwnIds \subseteq fused' \cup {Own},
         UNCHANGED <<held, torn>>
  PROVE  FacInv'
<1>1. FGivenOut'
  BY IdsApart DEF FacInv, FGivenOut, FreshOwnFolders, FreshOwnFiles, OwnIds
<1>2. /\ fedit' = [q \in People |-> fedit'[q]] /\ fedit'[p] = e
      /\ \A q \in People \ {p} : fedit'[q] = fedit[q]
  BY DEF FacInv
<1>3. \A q \in People : FPending(fedit'[q])
  BY <1>2 DEF FacInv
<1>4. ASSUME NEW q \in People PROVE FMoveHolds(q)'
  <2>1. CASE q = p
    BY <2>1, <1>2 DEF FMoveHolds, FDoing
  <2>2. CASE q # p
    <3> SUFFICES ASSUME fedit[q] # None, fedit[q].op = "move"
                 PROVE  /\ flock' = q
                        /\ fedit[q].node \in fused' \cup {Own} /\ fedit[q].to \in fused' \cup {Own}
                        /\ Ready(ftree', fedit[q].node, fedit[q].to)
      BY <2>2, <1>2 DEF FMoveHolds, FDoing
    <3>1. /\ flock = q
          /\ fedit[q].node \in fused \cup {Own} /\ fedit[q].to \in fused \cup {Own}
          /\ Ready(ftree, fedit[q].node, fedit[q].to)
      BY DEF FacInv, FMoveHolds, FDoing
    <3>2. flock' = q /\ Stays(ftree, ftree')
      BY <3>1, <2>2, FactoryTreeConstants
    <3>3. \A n \in fused \cup {Own} : n \in DOMAIN ftree' => n \in DOMAIN ftree
      BY IdsApart DEF FreshOwnFolders, FreshOwnFiles
    <3>4. PICK t, u, A, B : t = ftree /\ u = ftree' /\ A = Sure /\ B = Sure'
      OBVIOUS
    <3>5. Ready(ftree', fedit[q].node, fedit[q].to)
      <4>1. IsTree(t, A) /\ IsTree(u, B) /\ Stays(t, u)
        BY <3>2, <3>4 DEF FacInv
      <4> QED
        BY <3>1, <3>3, <3>4, <4>1, ReadyStays
    <3> QED
      BY <3>1, <3>2, <3>5
  <2> QED
    BY <2>1, <2>2
<1>5. TwoTrees(ftree)'
  BY DEF TwoTrees
<1> QED
  BY <1>1, <1>2, <1>3, <1>4, <1>5 DEF FacInv

\* A person's call begins or ends: the trees are as they were.
LEMMA FacCallStep ==
  ASSUME FacInv, NEW p \in People, NEW e, fedit' = [fedit EXCEPT ![p] = e], FPending(e),
         e = None \/ e.op # "move", UNCHANGED <<ftree, flock, fused, held, torn>>
  PROVE  FacInv'
<1>1. IsTree(ftree', Sure') /\ TwoTrees(ftree') /\ Stays(ftree, ftree')
  BY DEF FacInv, Stays, Sure
<1>2. DOMAIN ftree' \cap OwnIds \subseteq fused' \cup {Own}
  BY DEF FacInv, FGivenOut
<1> QED
  BY <1>1, <1>2, FacStep

\* Who may be written is own.
LEMMA WritableIsOwn ==
  ASSUME FacInv, NEW n, CanWriteFS(n)
  PROVE  n \in DOMAIN ftree /\ n \in OwnIds /\ n \in Nodes /\ n \in fused \cup {Own}
  BY DEF FacInv, CanWriteFS, TwoTrees, IsTree, Table, FGivenOut

\* The calls people begin are about the own tree only.
LEMMA FBeginsKeep ==
  ASSUME FacInv, UNCHANGED torn, NEW p \in People,
         FCreateFSFolder(p) \/ FRenameFSNode(p) \/ FCopyFSNode(p) \/ FDeleteFSNode(p)
  PROVE  FacInv'
<1>1. CASE FCreateFSFolder(p)
  <2>1. PICK d \in DOMAIN ftree, name \in Names : CanWriteFS(d) /\ FBegin(p, Edit("create", None, d, name))
    BY <1>1 DEF FCreateFSFolder
  <2>2. /\ IsEdit(Edit("create", None, d, name)) /\ Edit("create", None, d, name).op = "create"
        /\ Edit("create", None, d, name).to \in OwnIds
    BY <2>1, WritableIsOwn, EditIsEdit
  <2> QED
    BY <1>1, <2>1, <2>2, FacCallStep DEF FCreateFSFolder, FBegin, FPending, IsOwnEdit
<1>2. CASE FRenameFSNode(p)
  <2>1. PICK n \in Folders, name \in Names : FBegin(p, Edit("rename", n, None, name))
    BY <1>2 DEF FRenameFSNode
  <2>2. IsEdit(Edit("rename", n, None, name)) /\ Edit("rename", n, None, name).op = "rename"
    BY EditIsEdit DEF Nodes
  <2> QED
    BY <1>2, <2>1, <2>2, FacCallStep DEF FRenameFSNode, FBegin, FPending, IsOwnEdit
<1>3. CASE FCopyFSNode(p)
  <2>1. PICK n \in DOMAIN ftree, d \in DOMAIN ftree : CanWriteFS(d) /\ FBegin(p, Copying(n, d))
    BY <1>3 DEF FCopyFSNode
  <2>2. n \in Nodes
    BY DEF FacInv, IsTree, Table
  <2>3. IsCall(Copying(n, d), OwnIds) /\ Copying(n, d).op = "copy"
    BY <2>1, <2>2, WritableIsOwn, CopyingIsCall
  <2> QED
    BY <1>3, <2>1, <2>3, FacCallStep DEF FCopyFSNode, FBegin, FPending
<1>4. CASE FDeleteFSNode(p)
  <2>1. PICK n \in Folders : FBegin(p, Deleting(n))
    BY <1>4 DEF FDeleteFSNode
  <2>2. IsCall(Deleting(n), OwnIds) /\ Deleting(n).op = "delete"
    BY DeletingIsCall
  <2> QED
    BY <1>4, <2>1, <2>2, FacCallStep DEF FDeleteFSNode, FBegin, FPending
<1> QED
  BY <1>1, <1>2, <1>3, <1>4

\* A folder of the factory's own is inserted.
LEMMA FInsertKeeps ==
  ASSUME FacInv, UNCHANGED torn, NEW p \in People, FInsertFSFolder(p)
  PROVE  FacInv'
<1>0. Sure' = Sure
  BY DEF Sure
<1>1. PICK e : e = fedit[p]
  OBVIOUS
<1>2. e # None /\ e.op = "create" /\ FPending(e)
  BY <1>1 DEF FInsertFSFolder, FDoing, FacInv
<1>3. e.name \in Names /\ e.to \in OwnIds
  BY <1>2, FPendingKinds DEF IsOwnEdit, IsEdit
<1>4. PICK n \in FreshOwnFolders :
         /\ FCommit(p, CanInsert(ftree, e.to, e.name), Inserted(ftree, n, e.to, e.name))
         /\ fused' = fused \cup {n}
  BY <1>1 DEF FInsertFSFolder
<1>5. UNCHANGED <<flock, held>> /\ fedit' = [fedit EXCEPT ![p] = None]
  BY <1>4 DEF FInsertFSFolder, FCommit
<1>6. IsTree(ftree, Sure) /\ TwoTrees(ftree) /\ FGivenOut
  BY DEF FacInv
<1>7. n \in Folders /\ n \notin Areas /\ n \notin Files /\ n \in OwnIds /\ n \notin DOMAIN ftree
  <2>1. n \in Folders /\ n \notin Areas /\ n \notin Files /\ n \in OwnIds /\ n # Own /\ n \notin fused
    BY DirConstants, IdsApart DEF FreshOwnFolders, OwnIds
  <2> QED
    BY <2>1, <1>6 DEF FGivenOut
<1>8. CASE CanInsert(ftree, e.to, e.name)
  <2>1. PICK u : u = Inserted(ftree, n, e.to, e.name)
    OBVIOUS
  <2>2. ftree' = u
    BY <1>4, <1>8, <2>1 DEF FCommit
  <2>3. IsFolder(ftree, e.to) /\ NameFree(ftree, e.to, e.name, None)
    BY <1>8 DEF CanInsert
  <2>4. IsTree(u, Sure)
    BY <1>3, <1>6, <1>7, <2>1, <2>3, InsertKeepsTree
  <2>5. /\ DOMAIN u = DOMAIN ftree \cup {n} /\ u[n].area = ftree[e.to].area
        /\ \A k \in DOMAIN ftree : u[k] = ftree[k]
    BY <1>7, <2>1 DEF Inserted
  <2>6. ftree[e.to].area = Own
    BY <1>3, <1>6, <2>3 DEF TwoTrees, IsFolder
  <2>7. TwoTrees(u)
    <3>1. DOMAIN u \cap Areas = {Platform, Own}
      BY <1>6, <1>7, <2>5 DEF TwoTrees
    <3> QED
      BY <1>6, <1>7, <2>5, <2>6, <3>1 DEF TwoTrees
  <2>8. Stays(ftree, u)
    BY <2>5 DEF Stays
  <2>9. DOMAIN ftree' \cap OwnIds \subseteq fused' \cup {Own}
    BY <1>4, <1>6, <2>2, <2>5 DEF FGivenOut
  <2> QED
    BY <1>0, <1>4, <1>5, <2>2, <2>4, <2>5, <2>7, <2>8, <2>9, FacStep DEF FPending
<1>9. CASE ~CanInsert(ftree, e.to, e.name)
  <2>1. ftree' = ftree
    BY <1>4, <1>9 DEF FCommit
  <2>2. IsTree(ftree', Sure') /\ TwoTrees(ftree') /\ Stays(ftree, ftree')
    BY <1>0, <1>6, <2>1 DEF Stays
  <2>3. DOMAIN ftree' \cap OwnIds \subseteq fused' \cup {Own}
    BY <1>4, <1>6, <2>1 DEF FGivenOut
  <2> QED
    BY <1>0, <1>4, <1>5, <2>1, <2>2, <2>3, FacStep DEF FPending
<1> QED
  BY <1>8, <1>9

\* A folder of the own tree gets another name.
LEMMA FSaveNameKeeps ==
  ASSUME FacInv, UNCHANGED torn, NEW p \in People, FSaveName(p)
  PROVE  FacInv'
<1>0. Sure' = Sure
  BY DEF Sure
<1>1. PICK e : e = fedit[p]
  OBVIOUS
<1>2. e # None /\ e.op = "rename" /\ FPending(e)
  BY <1>1 DEF FSaveName, FDoing, FacInv
<1>3. e.name \in Names /\ e.node \in Folders
  BY <1>2, FPendingKinds DEF IsOwnEdit, IsEdit
<1>4. FCommit(p, CanRename(ftree, e.node, e.name), Renamed(ftree, e.node, e.name))
  BY <1>1 DEF FSaveName
<1>5. UNCHANGED <<flock, fused, held>> /\ fedit' = [fedit EXCEPT ![p] = None]
  BY <1>4 DEF FSaveName, FCommit
<1>6. IsTree(ftree, Sure) /\ TwoTrees(ftree) /\ FGivenOut
  BY DEF FacInv
<1>7. CASE CanRename(ftree, e.node, e.name)
  <2>1. PICK u : u = Renamed(ftree, e.node, e.name)
    OBVIOUS
  <2>2. ftree' = u
    BY <1>4, <1>7, <2>1 DEF FCommit
  <2>3. IsTree(u, Sure)
    BY <1>3, <1>6, <1>7, <2>1, RenameKeepsTree
  <2>4. e.node \in DOMAIN ftree /\ ftree[e.node] \in Entry
    BY <1>6, <1>7, EntryOf DEF CanRename, IsTree
  <2>5. /\ DOMAIN u = DOMAIN ftree
        /\ \A k \in DOMAIN ftree : u[k].parent = ftree[k].parent /\ u[k].area = ftree[k].area
    BY <2>1, <2>4 DEF Renamed, Entry
  <2>6. TwoTrees(u) /\ Stays(ftree, u)
    BY <1>6, <2>5 DEF TwoTrees, Stays
  <2>7. DOMAIN ftree' \cap OwnIds \subseteq fused' \cup {Own}
    BY <1>5, <1>6, <2>2, <2>5 DEF FGivenOut
  <2> QED
    BY <1>0, <1>5, <2>2, <2>3, <2>5, <2>6, <2>7, FacStep DEF FPending
<1>8. CASE ~CanRename(ftree, e.node, e.name)
  <2>1. ftree' = ftree
    BY <1>4, <1>8 DEF FCommit
  <2> QED
    BY <1>5, <2>1, FacCallStep DEF FPending
<1> QED
  BY <1>7, <1>8

\* A move within the own tree takes its lock.
LEMMA FMoveKeeps ==
  ASSUME FacInv, UNCHANGED torn, NEW p \in People, FMoveFSNode(p)
  PROVE  FacInv'
<1>0. Sure' = Sure
  BY DEF Sure
<1>1. PICK n \in DOMAIN ftree, d \in DOMAIN ftree :
         /\ CanWriteFS(n) /\ CanWriteFS(d) /\ MayMove(ftree, n, d)
         /\ FBegin(p, Edit("move", n, d, None))
  BY DEF FMoveFSNode
<1>2. IsTree(ftree, Sure) /\ TwoTrees(ftree) /\ FGivenOut
  BY DEF FacInv
<1>3. n \in Nodes /\ d \in Nodes /\ n \in fused \cup {Own} /\ d \in fused \cup {Own}
  BY <1>1, WritableIsOwn
<1>4. n \notin Areas
  BY <1>1, <1>2 DEF IsTree, Sound, MayMove
<1>5. PICK e : e = Edit("move", n, d, None)
  OBVIOUS
<1>6. IsEdit(e) /\ e.op = "move" /\ e.node = n /\ e.to = d
  BY <1>3, <1>5, EditIsEdit
<1>7. FPending(e)
  BY <1>6 DEF FPending, IsOwnEdit
<1>8. Ready(ftree, n, d)
  BY <1>1, <1>4 DEF MayMove, Ready
<1>9. /\ fedit' = [fedit EXCEPT ![p] = e] /\ flock = None /\ flock' = p
      /\ UNCHANGED <<ftree, fused, held>>
  BY <1>1, <1>5 DEF FMoveFSNode, FBegin
<1>10. DOMAIN ftree' \cap OwnIds \subseteq fused' \cup {Own}
  BY <1>2, <1>9 DEF FGivenOut
<1>11. IsTree(ftree', Sure') /\ TwoTrees(ftree') /\ Stays(ftree, ftree') /\ Ready(ftree', n, d)
  BY <1>0, <1>2, <1>8, <1>9 DEF Stays
<1> QED
  BY <1>0, <1>3, <1>6, <1>7, <1>9, <1>10, <1>11, FacStep

\* The move commits, whatever was applied to the platform's tree since.
LEMMA FSaveMoveKeeps ==
  ASSUME FacInv, UNCHANGED torn, NEW p \in People, FSaveMove(p)
  PROVE  FacInv'
<1>0. Sure' = Sure
  BY DEF Sure
<1>1. PICK e : e = fedit[p]
  OBVIOUS
<1>2. e # None /\ e.op = "move" /\ FDoing(p, "move")
  BY <1>1 DEF FSaveMove, FDoing
<1>3. flock = p /\ Ready(ftree, e.node, e.to)
  BY <1>1, <1>2 DEF FacInv, FMoveHolds
<1>4. /\ FCommit(p, e.node \in DOMAIN ftree /\ CanMove(ftree, e.node, e.to),
                    Moved(ftree, e.node, e.to))
      /\ flock' = None /\ UNCHANGED <<fused, held>>
  BY <1>1 DEF FSaveMove
<1>5. fedit' = [fedit EXCEPT ![p] = None] /\ FPending(None)
  BY <1>4 DEF FCommit, FPending
<1>6. IsTree(ftree, Sure) /\ TwoTrees(ftree) /\ FGivenOut
  BY DEF FacInv
<1>7. CASE e.node \in DOMAIN ftree /\ CanMove(ftree, e.node, e.to)
  <2>1. PICK u : u = Moved(ftree, e.node, e.to)
    OBVIOUS
  <2>2. ftree' = u
    BY <1>4, <1>7, <2>1 DEF FCommit
  <2>3. /\ e.node \notin Areas /\ IsFolder(ftree, e.to) /\ ftree[e.to].area = ftree[e.node].area
        /\ e.node \in Files \/ ~Within(ftree, e.to, e.node)
        /\ NameFree(ftree, e.to, ftree[e.node].name, e.node)
    BY <1>3, <1>7 DEF Ready, CanMove
  <2>4. IsTree(u, Sure)
    BY <1>6, <1>7, <2>1, <2>3, MoveKeepsTree
  <2>5. ftree[e.node] \in Entry
    BY <1>6, <1>7, EntryOf DEF IsTree
  <2>6. DOMAIN u = DOMAIN ftree /\ \A k \in DOMAIN ftree : u[k].area = ftree[k].area
    BY <2>1, <2>5 DEF Moved, Entry
  <2>7. TwoTrees(ftree') /\ DOMAIN ftree' \cap OwnIds \subseteq fused' \cup {Own}
    BY <1>4, <1>6, <2>2, <2>6 DEF TwoTrees, FGivenOut
  <2> QED
    BY <1>0, <1>3, <1>4, <1>5, <2>2, <2>4, <2>6, <2>7, FacStep
<1>8. CASE ~(e.node \in DOMAIN ftree /\ CanMove(ftree, e.node, e.to))
  <2>1. ftree' = ftree
    BY <1>4, <1>8 DEF FCommit
  <2>2. IsTree(ftree', Sure') /\ TwoTrees(ftree') /\ DOMAIN ftree' \cap OwnIds \subseteq fused' \cup {Own}
    BY <1>0, <1>4, <1>6, <2>1 DEF FGivenOut
  <2> QED
    BY <1>0, <1>3, <1>4, <1>5, <2>1, <2>2, FacStep
<1> QED
  BY <1>7, <1>8

\* A step of a copy, which may read the platform's tree and writes to the own.
LEMMA FCopyIntoKeeps ==
  ASSUME FacInv, UNCHANGED torn, NEW p \in People, FCopyFSInto(p)
  PROVE  FacInv'
<1>0. Sure' = Sure
  BY DEF Sure
<1>1. PICK e : e = fedit[p]
  OBVIOUS
<1>2. e # None /\ e.op = "copy" /\ FPending(e)
  BY <1>1 DEF FCopyFSInto, FDoing, FacInv
<1>3. IsCall(e, OwnIds)
  BY <1>2, FPendingKinds
<1>4. IsTree(ftree, Sure) /\ TwoTrees(ftree) /\ FGivenOut
  BY DEF FacInv
<1>5. PICK r \in CopyStep(ftree, e, Own, FreshOwnFolders, FreshOwnFiles) :
         /\ ftree' = r.tree
         /\ fedit' = [fedit EXCEPT ![p] = r.call]
         /\ fused' = fused \cup (DOMAIN r.tree \ DOMAIN ftree)
  BY <1>1 DEF FCopyFSInto
<1>6. UNCHANGED <<flock, held>>
  BY DEF FCopyFSInto
<1>7. /\ FreshOwnFolders \cup FreshOwnFiles \subseteq OwnIds \ {Own}
      /\ (FreshOwnFolders \cup FreshOwnFiles) \cap Areas = {}
      /\ (FreshOwnFolders \cup FreshOwnFiles) \cap fused = {}
  BY DirConstants, IdsApart DEF FreshOwnFolders, FreshOwnFiles, OwnIds
<1>8. /\ Own \in DOMAIN ftree \cap Areas /\ Own \in OwnIds /\ ftree[Own].area = Own
      /\ \A n \in OwnIds \cap DOMAIN ftree : ftree[n].area = ftree[Own].area
      /\ FreshOwnFolders \in SUBSET (Folders \cap OwnIds) /\ FreshOwnFolders \cap DOMAIN ftree = {}
      /\ FreshOwnFiles \in SUBSET (Files \cap OwnIds) /\ FreshOwnFiles \cap DOMAIN ftree = {}
  <2>1. Own \in OwnIds /\ Own \in DOMAIN ftree \cap Areas
    BY <1>4 DEF OwnIds, TwoTrees
  <2>2. \A n \in OwnIds \cap DOMAIN ftree : ftree[n].area = Own
    BY <1>4 DEF TwoTrees
  <2>3. FreshOwnFolders \subseteq Folders /\ FreshOwnFiles \subseteq Files
    BY DEF FreshOwnFolders, FreshOwnFiles
  <2> QED
    BY <1>4, <1>7, <2>1, <2>2, <2>3 DEF FGivenOut
<1>9. /\ IsTree(r.tree, Sure) /\ Stays(ftree, r.tree)
      /\ DOMAIN r.tree \subseteq DOMAIN ftree \cup FreshOwnFolders \cup FreshOwnFiles
      /\ \A n \in DOMAIN r.tree \ DOMAIN ftree : r.tree[n].area = ftree[Own].area
      /\ DOMAIN ftree \cap Areas \subseteq DOMAIN r.tree
      /\ CallOrNone(r.call, OwnIds)
  BY <1>2, <1>3, <1>4, <1>8, CopyStepKeeps
<1>10. TwoTrees(r.tree)
  <2>1. DOMAIN r.tree \cap Areas = {Platform, Own}
    BY <1>4, <1>7, <1>9 DEF TwoTrees
  <2>2. ASSUME NEW n \in DOMAIN r.tree PROVE r.tree[n].area = IF n \in OwnIds THEN Own ELSE Platform
    <3>1. CASE n \in DOMAIN ftree
      BY <3>1, <1>4, <1>9 DEF TwoTrees, Stays
    <3>2. CASE n \notin DOMAIN ftree
      BY <3>2, <1>7, <1>8, <1>9
    <3> QED
      BY <3>1, <3>2
  <2> QED
    BY <2>1, <2>2 DEF TwoTrees
<1>11. /\ fused \subseteq fused' /\ DOMAIN ftree' \cap OwnIds \subseteq fused' \cup {Own}
       /\ fused' \subseteq fused \cup FreshOwnFolders \cup FreshOwnFiles
  BY <1>4, <1>5, <1>9 DEF FGivenOut
<1>12. FPending(r.call) /\ (r.call = None \/ r.call.op # "move")
  BY <1>9 DEF FPending, CallOrNone, IsCall, Calls
<1> QED
  BY <1>0, <1>5, <1>6, <1>9, <1>10, <1>11, <1>12, FacStep

\* A step of a deletion.
LEMMA FDeleteTreeKeeps ==
  ASSUME FacInv, UNCHANGED torn, NEW p \in People, FDeleteFSTree(p)
  PROVE  FacInv'
<1>0. Sure' = Sure
  BY DEF Sure
<1>1. PICK e : e = fedit[p]
  OBVIOUS
<1>2. e # None /\ e.op = "delete" /\ FPending(e)
  BY <1>1 DEF FDeleteFSTree, FDoing, FacInv
<1>3. IsCall(e, OwnIds)
  BY <1>2, FPendingKinds
<1>4. IsTree(ftree, Sure) /\ TwoTrees(ftree) /\ FGivenOut
  BY DEF FacInv
<1>5. PICK r \in DeleteStep(ftree, e) : ftree' = r.tree /\ fedit' = [fedit EXCEPT ![p] = r.call]
  BY <1>1 DEF FDeleteFSTree
<1>6. UNCHANGED <<flock, fused, held>>
  BY DEF FDeleteFSTree
<1>7. /\ IsTree(r.tree, Sure) /\ Stays(ftree, r.tree)
      /\ DOMAIN r.tree \subseteq DOMAIN ftree /\ DOMAIN ftree \cap Areas \subseteq DOMAIN r.tree
      /\ CallOrNone(r.call, OwnIds)
  BY <1>2, <1>3, <1>4, DeleteStepKeeps
<1>8. TwoTrees(ftree')
  BY <1>4, <1>5, <1>7 DEF TwoTrees, Stays
<1>9. DOMAIN ftree' \cap OwnIds \subseteq fused' \cup {Own}
  BY <1>4, <1>5, <1>6, <1>7 DEF FGivenOut
<1>10. FPending(r.call) /\ (r.call = None \/ r.call.op # "move")
  BY <1>7 DEF FPending, CallOrNone, IsCall, Calls
<1> QED
  BY <1>0, <1>5, <1>6, <1>7, <1>8, <1>9, <1>10, FacStep

\* So every step of a person keeps both trees.
LEMMA AtFactoryKeeps ==
  ASSUME FacInv, AtFactory
  PROVE  FacInv'
<1>1. PICK p \in People : FTreeStep(p) /\ UNCHANGED torn
  BY DEF AtFactory
<1> QED
  BY <1>1, FBeginsKeep, FInsertKeeps, FSaveNameKeeps, FMoveKeeps, FSaveMoveKeeps, FCopyIntoKeeps,
     FDeleteTreeKeeps
     DEF FTreeStep

\* A layout that is applied.
LEMMA ApplyLayoutKeeps ==
  ASSUME FacInv, UNCHANGED torn, NEW l, IsLayout(l), ApplyPlatformFSLayout(l)
  PROVE  /\ FacInv' /\ Shows(ftree, l)'
         /\ ~torn => \A n \in PlatformNodes(ftree') \cap Folders : Holding(ftree', n)
<1>0. Sure' = Sure
  BY DEF Sure
<1>1. PICK w, A : w = ApplyLayout(ftree, l) /\ A = Sure
  OBVIOUS
<1>2. ftree' = w /\ UNCHANGED <<fedit, flock, fused, held>>
  BY <1>1 DEF ApplyPlatformFSLayout
<1>3. IsTree(ftree, A) /\ TwoTrees(ftree) /\ held \subseteq Files \ Elsewhere
  BY <1>1 DEF FacInv
<1>4. IsHints(l.folders) /\ Complete(l.folders) /\ FilesFit(l.files, DOMAIN l.folders)
  BY DEF IsLayout
<1>6. IsTree(w, A) /\ TwoTrees(w) /\ OwnKept(ftree, w)
  BY <1>1, <1>3, <1>4, AppliedKeeps
<1>7. Shows(w, l) /\ (~torn => \A n \in PlatformNodes(w) \cap Folders : Holding(w, n))
  <2>1. ~torn => Platform \in A
    BY <1>1, SureFacts
  <2>2. Shows(w, l) /\ (Platform \in A => \A n \in PlatformNodes(w) \cap Folders : Holding(w, n))
    BY <1>1, <1>3, <1>4, AppliedShows
  <2> QED
    BY <2>1, <2>2
<1>8. Shows(ftree, l)'
  BY <1>2, <1>7 DEF Shows
<1>9. FacInv'
  BY <1>0, <1>1, <1>2, <1>3, <1>6, FollowStep
<1> QED
  BY <1>2, <1>7, <1>8, <1>9

\* A replica that is accepted with the path above it.  Unless that is a way from the root,
\* the platform's tree counts for nothing from here on.
LEMMA AcceptReplicaKeeps ==
  ASSUME FacInv, NEW h, IsClosure(h), AcceptReplica(h), torn' = (torn \/ ~IsWay(h.path))
  PROVE  FacInv'
<1>1. PICK born, A : born = Placed(ftree, h.file, Platform) /\ A = Sure'
  OBVIOUS
<1>2. IsTree(ftree, A) /\ TwoTrees(ftree) /\ held \subseteq Files \ Elsewhere
  <2>1. IsTree(ftree, Sure) /\ TwoTrees(ftree) /\ held \subseteq Files \ Elsewhere
    BY DEF FacInv
  <2>2. A \in SUBSET Sure
    <3>1. CASE torn'
      BY <3>1, <1>1, SureFacts DEF Sure
    <3>2. CASE ~torn'
      BY <3>2, <1>1 DEF Sure
    <3> QED
      BY <3>1, <3>2
  <2> QED
    BY <2>1, <2>2, PartOfTree
<1>3. h.file \in Files /\ h.file \notin Areas /\ h.file \notin OwnIds /\ h.file \notin Folders
  BY IdsApart, DirConstants DEF IsClosure
<1>4. IsTree(born, A) /\ TwoTrees(born) /\ OwnKept(ftree, born)
  <2>1. CASE h.file \in DOMAIN ftree
    BY <2>1, <1>1, <1>2 DEF Placed, OwnKept
  <2>2. CASE h.file \notin DOMAIN ftree
    <3>1. born = Inserted(ftree, h.file, Platform, h.file)
      BY <2>2, <1>1 DEF Placed
    <3>2. IsFolder(ftree, Platform) /\ ftree[Platform].area = Platform
      BY <1>2, IdsApart DEF TwoTrees, IsFolder
    <3>3. IsTree(born, A)
      BY <1>2, <1>3, <2>2, <3>1, <3>2, InsertKeepsTree
    <3>4. /\ DOMAIN born = DOMAIN ftree \cup {h.file} /\ born[h.file].area = Platform
          /\ \A k \in DOMAIN ftree : born[k] = ftree[k]
      BY <2>2, <3>1, <3>2 DEF Inserted
    <3>5. DOMAIN born \cap Areas = {Platform, Own}
      BY <1>2, <1>3, <3>4 DEF TwoTrees
    <3>6. TwoTrees(born)
      BY <1>2, <1>3, <3>4, <3>5 DEF TwoTrees
    <3> QED
      BY <1>3, <3>3, <3>4, <3>6 DEF OwnKept
  <2> QED
    BY <2>1, <2>2
<1>5. UNCHANGED <<fedit, flock, fused>> /\ held' \subseteq Files \ Elsewhere
  BY <1>2 DEF AcceptReplica, IsClosure
<1>6. CASE h.path = <<>>
  <2>1. ftree' = born
    BY <1>1, <1>6 DEF AcceptReplica
  <2> QED
    BY <2>1, <1>1, <1>4, <1>5, FollowStep
<1>7. CASE h.path # <<>>
  <2>1. PICK f, path, w : f = h.file /\ path = h.path /\ w = ApplyPath(born, f, path)
    OBVIOUS
  <2>2. ftree' = w
    BY <1>1, <1>7, <2>1 DEF AcceptReplica
  <2>3. f \in Files \ Elsewhere /\ IsPath(path) /\ path # <<>>
    BY <1>7, <2>1 DEF IsClosure
  <2>4. Platform \in A => IsWay(path)
    <3>1. CASE torn'
      <4>1. A = {Own}
        BY <3>1, <1>1 DEF Sure
      <4> QED
        BY <4>1, IdsApart
    <3>2. CASE ~torn'
      BY <3>2, <2>1
    <3> QED
      BY <3>1, <3>2
  <2>5. IsTree(w, A) /\ TwoTrees(w) /\ OwnKept(born, w)
    BY <1>4, <2>1, <2>3, <2>4, ApplyPathKeeps
  <2> QED
    BY <1>1, <1>4, <1>5, <2>2, <2>5, OwnKeptTwice, FollowStep
<1> QED
  BY <1>6, <1>7

\* A replica that is retracted has nothing below it.
LEMMA RetractKeeps ==
  ASSUME FacInv, UNCHANGED torn, NEW f, RetractReplica(f)
  PROVE  FacInv'
<1>0. Sure' = Sure
  BY DEF Sure
<1>1. IsTree(ftree, Sure) /\ TwoTrees(ftree) /\ held \subseteq Files \ Elsewhere
  BY DEF FacInv
<1>2. f \in Files \ Elsewhere /\ f \notin Areas /\ f \notin OwnIds
  BY <1>1, IdsApart DEF RetractReplica
<1>3. UNCHANGED <<fedit, flock, fused, held>>
  BY DEF RetractReplica
<1>4. CASE f \in DOMAIN ftree
  <2>1. PICK u : u = Removed(ftree, f)
    OBVIOUS
  <2>2. ftree' = u
    BY <1>4, <2>1 DEF RetractReplica
  <2>3. IsTree(u, Sure)
    BY <1>1, <1>2, <2>1, FilesHoldNothing, RemoveKeepsTree
  <2>4. DOMAIN u = DOMAIN ftree \ {f} /\ \A k \in DOMAIN u : u[k] = ftree[k]
    BY <2>1 DEF Removed
  <2>5. TwoTrees(u) /\ OwnKept(ftree, u)
    BY <1>1, <1>2, <2>4 DEF TwoTrees, OwnKept
  <2> QED
    BY <1>0, <1>1, <1>3, <2>2, <2>3, <2>5, FollowStep
<1>5. CASE f \notin DOMAIN ftree
  <2>1. ftree' = ftree
    BY <1>5 DEF RetractReplica
  <2>2. OwnKept(ftree, ftree')
    BY <2>1 DEF OwnKept
  <2> QED
    BY <1>0, <1>1, <1>3, <2>1, <2>2, FollowStep
<1> QED
  BY <1>4, <1>5

\* What the WAN does for itself leaves the factory's trees alone.
LEMMA FacUntouched ==
  ASSUME FacInv, UNCHANGED <<ftreeVars, torn>>
  PROVE  FacInv'
<1>1. IsTree(ftree', Sure') /\ TwoTrees(ftree') /\ OwnKept(ftree, ftree') /\ held' \subseteq Files \ Elsewhere
  BY DEF FacInv, ftreeVars, OwnKept, Sure
<1> QED
  BY <1>1, FollowStep DEF ftreeVars

-----------------------------------------------------------------------------
(* Everything on its way was once true at the WAN.                         *)

\* What an admin is about to publish is a layout.
Truthful(d) == d # None /\ d.op = "publish" => IsLayout(d.layout)

\* Other calls than a publication say nothing.
LEMMA CallsSayNothing ==
  /\ Truthful(None) /\ \A c : Truthful(Notify(c))
  /\ \A c : CallOrNone(c, Nodes) => Truthful(c)
  /\ \A op, n, p, name : op # "publish" => Truthful(Edit(op, n, p, name))
<1>1. \A c : Notify(c).op = "notify"
  BY DEF Notify
<1>2. \A c : CallOrNone(c, Nodes) /\ c # None => c.op \in {"copy", "delete"}
  BY DEF CallOrNone, IsCall, Calls
<1>3. \A op, n, p, name : Edit(op, n, p, name).op = op
  BY DEF Edit
<1> QED
  BY <1>1, <1>2, <1>3 DEF Truthful

\* One admin's call goes on, and nothing is sent, fetched or applied.
LEMMA ToldStep ==
  ASSUME WanInv, Told, NEW a \in Admins, NEW d, pedit' = [pedit EXCEPT ![a] = d], Truthful(d),
         UNCHANGED <<mail, fetched>>
  PROVE  Told'
<1>1. \A b \in Admins : pedit'[b] = IF b = a THEN d ELSE pedit[b]
  BY DEF WanInv
<1>2. \A b \in Admins : Truthful(pedit[b])
  BY DEF Told, Doing, Truthful
<1>3. \A b \in Admins : Truthful(pedit'[b])
  BY <1>1, <1>2
<1>4. \A b \in Admins : Doing(b, "publish")' => IsLayout(pedit'[b].layout)
  BY <1>3 DEF Doing, Truthful
<1> QED
  BY <1>4 DEF Told

\* The calls that change the tree, or begin to.
LEMMA EditsKeepTold ==
  ASSUME WanInv, Told, UNCHANGED fetched, NEW a \in Admins,
         \/ CreateFSFolder(a) \/ InsertFSFolder(a)
         \/ RenameFSNode(a) \/ SaveName(a)
         \/ MoveFSNode(a) \/ SaveMove(a)
  PROVE  Told'
<1>1. CASE CreateFSFolder(a) \/ RenameFSNode(a) \/ MoveFSNode(a)
  <2>1. CASE CreateFSFolder(a)
    <3>1. PICK p, name : Begin(a, Edit("create", None, p, name)) /\ UNCHANGED mail
      BY <2>1 DEF CreateFSFolder
    <3> QED
      BY <3>1, CallsSayNothing, ToldStep DEF Begin
  <2>2. CASE RenameFSNode(a)
    <3>1. PICK n, name : Begin(a, Edit("rename", n, None, name)) /\ UNCHANGED mail
      BY <2>2 DEF RenameFSNode
    <3> QED
      BY <3>1, CallsSayNothing, ToldStep DEF Begin
  <2>3. CASE MoveFSNode(a)
    <3>1. PICK n, p : Begin(a, Edit("move", n, p, None)) /\ UNCHANGED mail
      BY <2>3 DEF MoveFSNode
    <3> QED
      BY <3>1, CallsSayNothing, ToldStep DEF Begin
  <2> QED
    BY <1>1, <2>1, <2>2, <2>3
<1>2. CASE InsertFSFolder(a) \/ SaveName(a) \/ SaveMove(a)
  <2>1. PICK d \in {None, Notify(None)} : pedit' = [pedit EXCEPT ![a] = d]
    BY <1>2 DEF InsertFSFolder, SaveName, SaveMove, Commit
  <2>2. Truthful(d) /\ UNCHANGED mail
    BY <1>2, CallsSayNothing DEF InsertFSFolder, SaveName, SaveMove
  <2> QED
    BY <2>1, <2>2, ToldStep
<1> QED
  BY <1>1, <1>2

\* Copies and deletions.
LEMMA WalksKeepTold ==
  ASSUME WanInv, Told, UNCHANGED fetched, NEW a \in Admins,
         CopyFSNode(a) \/ CopyFSInto(a) \/ DeleteFSNode(a) \/ DeleteFSTree(a)
  PROVE  Told'
<1>1. PICK e : e = pedit[a]
  OBVIOUS
<1>2. IsTree(ptree, Areas) /\ OnePlatform(ptree) /\ GivenOut /\ Pending(e)
  BY <1>1 DEF WanInv
<1>3. CASE CopyFSNode(a)
  <2>1. PICK n \in DOMAIN ptree \ Areas, p \in DOMAIN ptree : Begin(a, Copying(n, p))
    BY <1>3 DEF CopyFSNode
  <2>2. n \in Nodes /\ p \in Nodes
    BY <1>2 DEF IsTree, Table
  <2>3. Truthful(Copying(n, p)) /\ UNCHANGED mail
    BY <1>3, <2>2, CopyingIsCall, CallsSayNothing DEF CallOrNone, CopyFSNode
  <2> QED
    BY <2>1, <2>3, ToldStep DEF Begin
<1>4. CASE CopyFSInto(a)
  <2>1. e # None /\ e.op = "copy" /\ IsCall(e, Nodes) /\ UNCHANGED mail
    BY <1>1, <1>2, <1>4, PendingKinds DEF CopyFSInto, Doing
  <2>2. PICK r \in CopyStep(ptree, e, Platform, FreshFolders, FreshFiles) :
           pedit' = [pedit EXCEPT ![a] = IF r.call = None /\ e.stack[1].kids = {}
                                         THEN Notify(None) ELSE r.call]
    BY <1>1, <1>4 DEF CopyFSInto
  <2>3. /\ Platform \in DOMAIN ptree \cap Areas
        /\ \A n \in Nodes \cap DOMAIN ptree : ptree[n].area = ptree[Platform].area
        /\ FreshFolders \in SUBSET (Folders \cap Nodes) /\ FreshFolders \cap DOMAIN ptree = {}
        /\ FreshFiles \in SUBSET (Files \cap Nodes) /\ FreshFiles \cap DOMAIN ptree = {}
    BY <1>2, DirConstants DEF OnePlatform, GivenOut, FreshFolders, FreshFiles, Nodes
  <2>4. CallOrNone(r.call, Nodes)
    BY <1>2, <2>1, <2>3, CopyStepKeeps
  <2>5. PICK d : pedit' = [pedit EXCEPT ![a] = d] /\ Truthful(d)
    BY <2>2, <2>4, CallsSayNothing
  <2> QED
    BY <2>1, <2>5, ToldStep
<1>5. CASE DeleteFSNode(a)
  <2>1. PICK n \in DOMAIN ptree \cap Folders : Begin(a, Deleting(n))
    BY <1>5 DEF DeleteFSNode
  <2>2. Truthful(Deleting(n)) /\ UNCHANGED mail
    BY <1>5, DeletingIsCall, CallsSayNothing DEF CallOrNone, DeleteFSNode
  <2> QED
    BY <2>1, <2>2, ToldStep DEF Begin
<1>6. CASE DeleteFSTree(a)
  <2>1. e # None /\ e.op = "delete" /\ IsCall(e, Nodes) /\ UNCHANGED mail
    BY <1>1, <1>2, <1>6, PendingKinds DEF DeleteFSTree, Doing
  <2>2. PICK r \in DeleteStep(ptree, e) :
           pedit' = [pedit EXCEPT ![a] = IF \E n \in Folders : n \in DOMAIN ptree \ DOMAIN r.tree
                                         THEN Notify(r.call) ELSE r.call]
    BY <1>1, <1>6 DEF DeleteFSTree
  <2>3. CallOrNone(r.call, Nodes)
    BY <1>2, <2>1, DeleteStepKeeps
  <2>4. PICK d : pedit' = [pedit EXCEPT ![a] = d] /\ Truthful(d)
    BY <2>2, <2>3, CallsSayNothing
  <2> QED
    BY <2>1, <2>4, ToldStep
<1> QED
  BY <1>3, <1>4, <1>5, <1>6

\* A layout is read, and then sent.
LEMMA LayoutStepsKeepTold ==
  ASSUME WanInv, Told, ShallowTree, UNCHANGED fetched, NEW a \in Admins,
         ReadLayout(a) \/ PublishLayout(a)
  PROVE  Told'
<1>1. CASE ReadLayout(a)
  <2>1. PICK d : d = [op |-> "publish", rest |-> pedit[a].rest, layout |-> PlatformFSLayout(ptree)]
    OBVIOUS
  <2>2. pedit' = [pedit EXCEPT ![a] = d] /\ UNCHANGED mail
    BY <1>1, <2>1 DEF ReadLayout
  <2>3. IsLayout(PlatformFSLayout(ptree))
    BY WanIsWan, LayoutFacts DEF ShallowTree, IsLayout
  <2>4. Truthful(d)
    BY <2>1, <2>3 DEF Truthful
  <2> QED
    BY <2>2, <2>4, ToldStep
<1>2. CASE PublishLayout(a)
  <2>1. PICK c, l : c = pedit[a].rest /\ l = pedit[a].layout
    OBVIOUS
  <2>2. pedit' = [pedit EXCEPT ![a] = c] /\ mail' = Append(mail, l)
    BY <1>2, <2>1 DEF PublishLayout
  <2>3. CallOrNone(c, Nodes) /\ IsLayout(l)
    BY <1>2, <2>1, PendingKinds DEF PublishLayout, Doing, WanInv, Told
  <2>4. \A b \in Admins : pedit'[b] = IF b = a THEN c ELSE pedit[b]
    BY <2>2 DEF WanInv
  <2>5. \A b \in Admins : Doing(b, "publish")' => IsLayout(pedit'[b].layout)
    BY <2>3, <2>4, CallsSayNothing DEF Told, Doing, Truthful
  <2>6. \E L : mail' \in Seq(L) /\ \A k \in L : IsLayout(k)
    <3>1. PICK L : mail \in Seq(L) /\ \A k \in L : IsLayout(k)
      BY DEF Told
    <3>2. mail \in Seq(L \cup {l}) /\ l \in L \cup {l}
      BY <3>1
    <3>3. mail' \in Seq(L \cup {l})
      BY <2>2, <3>2
    <3> QED
      BY <2>3, <3>1, <3>3
  <2> QED
    BY <2>5, <2>6 DEF Told
<1> QED
  BY <1>1, <1>2

\* What is fetched is read off the WAN's tree, and what is applied is taken away.
LEMMA SyncStepsKeepTold ==
  ASSUME WanInv, Told, ShallowTree, FetchIndex \/ ApplyClosure \/ ApplyIndex \/ ApplyMail
  PROVE  Told'
<1>1. UNCHANGED pedit
  BY DEF FetchIndex, Fetch, ApplyClosure, ApplyIndex, ApplyMail, ptreeVars
<1>2. \A b \in Admins : Doing(b, "publish")' => IsLayout(pedit'[b].layout)
  BY <1>1 DEF Told, Doing
<1>4. CASE FetchIndex
  <2>1. IsLayout(PlatformFSLayout(ptree))
    BY WanIsWan, LayoutFacts DEF ShallowTree, IsLayout
  <2>2. PICK w : w = [layout |-> PlatformFSLayout(ptree)]
    OBVIOUS
  <2>3. w.layout = PlatformFSLayout(ptree) /\ DOMAIN w = {"layout"}
    BY <2>2
  <2>4. fetched' = fetched \cup {w} /\ UNCHANGED mail
    BY <1>4, <2>2 DEF FetchIndex, Fetch, ptreeVars
  <2> QED
    BY <1>2, <2>1, <2>3, <2>4 DEF Told
<1>5. CASE ApplyClosure \/ ApplyIndex
  <2>1. fetched' \subseteq fetched /\ UNCHANGED mail
    BY <1>5 DEF ApplyClosure, ApplyIndex, ptreeVars
  <2> QED
    BY <1>2, <2>1 DEF Told
<1>6. CASE ApplyMail
  <2>1. PICK L : mail \in Seq(L) /\ \A k \in L : IsLayout(k)
    BY DEF Told
  <2>2. mail' \in Seq(L) /\ UNCHANGED fetched
    BY <1>6, <2>1 DEF ApplyMail
  <2> QED
    BY <1>2, <2>1, <2>2 DEF Told
<1> QED
  BY <1>4, <1>5, <1>6

\* Another closure, or the same one a read further.
LEMMA OneMoreTold ==
  ASSUME Told, UNCHANGED <<pedit, mail>>, NEW w, OfClosure(w), fetched' \subseteq fetched \cup {w}
  PROVE  Told'
<1>1. \A b \in Admins : Doing(b, "publish")' => IsLayout(pedit'[b].layout)
  BY DEF Told, Doing
<1> QED
  BY <1>1 DEF Told

\* A closure is begun, climbs a folder, or loses its path.
LEMMA ClimbsKeepTold ==
  ASSUME WanInv, Told, FetchClosure \/ ReadFolder \/ PathLost
  PROVE  Told'
<1>1. IsWan(ptree)
  BY WanIsWan
<1>2. CASE FetchClosure
  <2>1. PICK f \in DOMAIN ptree \cap Files : Fetch(Climb(f, ptree[f].parent, <<>>))
    BY <1>2 DEF FetchClosure
  <2>2. f \in Files \ Elsewhere /\ f \notin Areas
    BY <1>1, DirConstants DEF IsWan
  <2>3. ptree[f].parent \notin Areas => ptree[f].parent \in Folders \ Elsewhere
    BY <1>1, <2>2, HintFacts
  <2>4. PICK at, path, w : at = ptree[f].parent /\ path = <<>> /\ w = Climb(f, at, path)
    OBVIOUS
  <2>5. OfClosure(w)
    BY <2>2, <2>3, <2>4, EmptyPath, ClimbFacts
  <2>6. fetched' = fetched \cup {w} /\ UNCHANGED <<pedit, mail>>
    BY <2>1, <2>4 DEF Fetch, ptreeVars
  <2> QED
    BY <2>5, <2>6, OneMoreTold
<1>3. CASE ReadFolder
  <2>1. PICK v \in fetched :
           /\ DOMAIN v = {"climb"} /\ v.climb.at \in DOMAIN ptree
           /\ ReadOn(v, Climb(v.climb.file, ptree[v.climb.at].parent,
                           <<FolderRead(ptree, v.climb.at)>> \o v.climb.path))
    BY <1>3 DEF ReadFolder
  <2>2. PICK f, n, short : f = v.climb.file /\ n = v.climb.at /\ short = v.climb.path
    OBVIOUS
  <2>3. PICK h, at, path, w :
           /\ h = FolderRead(ptree, n) /\ at = ptree[n].parent
           /\ path = <<h>> \o short /\ w = Climb(f, at, path)
    OBVIOUS
  <2>4. IsClimb(v.climb)
    BY <2>1, Zenon DEF Told, OfClosure
  <2>5. /\ f \in Files \ Elsewhere /\ IsPath(short) /\ n \in DOMAIN ptree \cap Folders
        /\ short # <<>> => short[1].parent = n
    BY <2>1, <2>2, <2>4 DEF IsClimb
  <2>6. /\ IsHints(One(h)) /\ h.node = n
        /\ at \notin Areas => h.parent = at /\ at \in Folders \ Elsewhere
    BY <1>1, <2>3, <2>5, FolderReadFacts
  <2>7. IsPath(path) /\ path # <<>> /\ path[1] = h
    <3>1. short # <<>> => short[1].parent = h.node
      BY <2>5, <2>6
    <3>2. IsPath(short) /\ IsHints(One(h)) /\ path = <<h>> \o short
      BY <2>3, <2>5, <2>6
    <3> QED
      BY <3>1, <3>2, PathGrows, Zenon
  <2>8. OfClosure(w)
    BY <2>3, <2>5, <2>6, <2>7, ClimbFacts
  <2>9. fetched' \subseteq fetched \cup {w} /\ UNCHANGED <<pedit, mail>>
    BY <2>1, <2>2, <2>3 DEF ReadOn, ptreeVars
  <2> QED
    BY <2>8, <2>9, OneMoreTold
<1>4. CASE PathLost
  <2>1. PICK v \in fetched :
           /\ DOMAIN v = {"climb"}
           /\ ReadOn(v, [closure |-> [file |-> v.climb.file, path |-> <<>>]])
    BY <1>4 DEF PathLost
  <2>2. PICK h, w : h = [file |-> v.climb.file, path |-> <<>>] /\ w = [closure |-> h]
    OBVIOUS
  <2>3. IsClimb(v.climb)
    BY <2>1, Zenon DEF Told, OfClosure
  <2>4. IsClosure(h)
    BY <2>2, <2>3, EmptyPath DEF IsClosure, IsClimb
  <2>5. DOMAIN w = {"closure"} /\ w.closure = h
    BY <2>2
  <2>6. "closure" # "layout" /\ "closure" # "climb"
    OBVIOUS
  <2>7. OfClosure(w)
    BY <2>4, <2>5, <2>6, Zenon DEF OfClosure
  <2>8. fetched' \subseteq fetched \cup {w} /\ UNCHANGED <<pedit, mail>>
    BY <2>1, <2>2 DEF ReadOn, ptreeVars
  <2> QED
    BY <2>7, <2>8, OneMoreTold
<1> QED
  BY <1>2, <1>3, <1>4

\* Nothing that is said, or on its way, changes.
LEMMA ToldUntouched ==
  ASSUME Told, UNCHANGED <<pedit, mail, fetched>>
  PROVE  Told'
<1>1. \A b \in Admins : Doing(b, "publish")' => IsLayout(pedit'[b].layout)
  BY DEF Told, Doing
<1> QED
  BY <1>1 DEF Told

\* Whatever is on its way was true at the WAN when it was read.
LEMMA SyncNextKeepsTold == WanInv /\ Told /\ ShallowTree /\ [SyncNext]_syncVars => Told'
<1> SUFFICES ASSUME WanInv, Told, ShallowTree, [SyncNext]_syncVars PROVE Told'
  OBVIOUS
<1>1. CASE AtWAN
  <2>1. UNCHANGED fetched
    BY <1>1 DEF AtWAN
  <2>2. PICK a \in Admins : PTreeStep(a)
    BY <1>1 DEF AtWAN, PTreeNext
  <2> QED
    BY <2>1, <2>2, EditsKeepTold, WalksKeepTold, LayoutStepsKeepTold DEF PTreeStep
<1>2. CASE AtFactory \/ Retract \/ UNCHANGED syncVars
  <2>1. UNCHANGED <<pedit, mail, fetched>>
    BY <1>2 DEF AtFactory, Retract, syncVars, ptreeVars
  <2> QED
    BY <2>1, ToldUntouched
<1>3. CASE FetchIndex \/ ApplyClosure \/ ApplyIndex \/ ApplyMail
  BY <1>3, SyncStepsKeepTold
<1>4. CASE FetchClosure \/ ReadFolder \/ PathLost
  BY <1>4, ClimbsKeepTold
<1> QED
  BY <1>1, <1>2, <1>3, <1>4 DEF SyncNext

-----------------------------------------------------------------------------
(* The theorems about the factory.                                         *)

\* Whatever happens next, the factory's two trees stay trees ...
LEMMA SyncNextKeepsFac == Told /\ FacInv /\ [SyncNext]_syncVars => FacInv'
<1> SUFFICES ASSUME Told, FacInv, [SyncNext]_syncVars PROVE FacInv'
  OBVIOUS
<1>1. CASE AtFactory
  BY <1>1, AtFactoryKeeps
<1>2. CASE ApplyClosure
  <2>1. PICK w \in fetched : /\ DOMAIN w = {"closure"} /\ AcceptReplica(w.closure)
                             /\ torn' = (torn \/ ~IsWay(w.closure.path))
    BY <1>2 DEF ApplyClosure
  <2>2. IsClosure(w.closure)
    <3>1. "closure" # "layout"
      OBVIOUS
    <3>2. OfClosure(w) \/ DOMAIN w = {"layout"}
      BY DEF Told
    <3>3. {"closure"} # {"layout"}
      BY <3>1
    <3> QED
      BY <2>1, <3>2, <3>3, Zenon DEF OfClosure
  <2> QED
    BY <2>1, <2>2, AcceptReplicaKeeps
<1>3. CASE ApplyIndex
  <2>1. PICK w \in fetched : DOMAIN w = {"layout"} /\ ApplyPlatformFSLayout(w.layout)
    BY <1>3 DEF ApplyIndex
  <2>2. IsLayout(w.layout) /\ UNCHANGED torn
    BY <1>3, <2>1 DEF Told, OfClosure, ApplyIndex
  <2> QED
    BY <2>1, <2>2, ApplyLayoutKeeps
<1>4. CASE ApplyMail
  <2>1. IsLayout(Head(mail)) /\ UNCHANGED torn
    BY <1>4 DEF ApplyMail, Told
  <2> QED
    BY <1>4, <2>1, ApplyLayoutKeeps DEF ApplyMail
<1>5. CASE Retract
  BY <1>5, RetractKeeps DEF Retract
<1>6. CASE AtWAN \/ FetchClosure \/ ReadFolder \/ PathLost \/ FetchIndex \/ UNCHANGED syncVars
  <2>1. UNCHANGED <<ftreeVars, torn>>
    BY <1>6 DEF AtWAN, FetchClosure, ReadFolder, PathLost, ReadOn, FetchIndex, Fetch, syncVars
  <2> QED
    BY <2>1, FacUntouched
<1> QED
  BY <1>1, <1>2, <1>3, <1>4, <1>5, <1>6 DEF SyncNext

\* ... and after a layout was applied the factory shows it, until something else happens.
LEMMA SyncNextKeepsTaken == Told /\ FacInv /\ LayoutTaken /\ [SyncNext]_syncVars => LayoutTaken'
<1> SUFFICES ASSUME Told, FacInv, LayoutTaken, [SyncNext]_syncVars PROVE LayoutTaken'
  OBVIOUS
<1>1. ASSUME NEW l, IsLayout(l), ApplyPlatformFSLayout(l), given' = l, UNCHANGED torn
      PROVE  LayoutTaken'
  <2>1. Shows(ftree, l)' /\ (~torn => \A n \in PlatformNodes(ftree') \cap Folders : Holding(ftree', n))
    BY <1>1, ApplyLayoutKeeps
  <2>2. Shows(ftree, given)'
    BY <1>1, <2>1 DEF Shows
  <2> QED
    BY <1>1, <2>1, <2>2 DEF LayoutTaken, Holding
<1>2. CASE ApplyIndex
  <2>1. PICK w \in fetched : /\ DOMAIN w = {"layout"} /\ ApplyPlatformFSLayout(w.layout)
                             /\ given' = w.layout /\ UNCHANGED torn
    BY <1>2 DEF ApplyIndex
  <2>2. IsLayout(w.layout)
    BY <2>1 DEF Told, OfClosure
  <2> QED
    BY <1>1, <2>1, <2>2
<1>3. CASE ApplyMail
  <2>1. IsLayout(Head(mail)) /\ UNCHANGED torn
    BY <1>3 DEF ApplyMail, Told
  <2> QED
    BY <1>1, <1>3, <2>1 DEF ApplyMail
<1>4. CASE AtWAN \/ AtFactory \/ FetchClosure \/ ReadFolder \/ PathLost \/ FetchIndex
           \/ ApplyClosure \/ Retract
  <2>1. given' = None
    BY <1>4 DEF AtWAN, AtFactory, FetchClosure, ReadFolder, PathLost, ReadOn, FetchIndex, Fetch,
                ApplyClosure, Retract
  <2> QED
    BY <2>1 DEF LayoutTaken
<1>5. CASE UNCHANGED syncVars
  <2>1. UNCHANGED <<ftree, held, given, torn>>
    BY <1>5 DEF syncVars, ftreeVars
  <2> QED
    BY <2>1 DEF LayoutTaken, Shows, PlatformNodes
<1> QED
  BY <1>2, <1>3, <1>4, <1>5 DEF SyncNext

\* What the invariant says is what the runs check.
LEMMA FacGivesSound == FacInv => FactoryTreeSound
<1> SUFFICES ASSUME FacInv PROVE FactoryTreeSound
  OBVIOUS
<1>1. IsTree(ftree, Sure)
  BY DEF FacInv
<1>2. PICK A, B, t : A = Sure /\ B = {Own} /\ t = ftree
  OBVIOUS
<1>3. B \in SUBSET A /\ (~torn => A = Areas)
  BY <1>2, SureFacts
<1>4. IsTree(t, B)
  BY <1>1, <1>2, <1>3, PartOfTree
<1> QED
  BY <1>1, <1>2, <1>3, <1>4 DEF IsTree, FactoryTreeSound

\* As long as no file of the WAN lies deeper than a layout reaches, the factory's table stays
\* sound whatever layouts and closures arrive, in whatever order, read however many moves
\* apart, while people edit: no two of one name in a folder, no node without its parent or
\* outside its tree; no circle among the factory's own folders, and none among the
\* platform's unless a path was applied that is not a way from the root.
THEOREM FactoryStaysATree == SyncSpec /\ []ShallowTree => []FactoryTreeSound
<1>1. SyncInit => WanInv /\ Told /\ FacInv
  BY PTreeInitKeeps, SyncInitFac DEF SyncInit
<1>2. WanInv /\ Told /\ FacInv /\ ShallowTree /\ [SyncNext]_syncVars => (WanInv /\ Told /\ FacInv)'
  BY SyncNextKeepsWan, SyncNextKeepsTold, SyncNextKeepsFac
<1> QED
  BY <1>1, <1>2, FacGivesSound, PTL DEF SyncSpec

\* As long as no file of the WAN lies deeper than a layout reaches, a factory that has just
\* applied a layout shows it, whatever paths were applied before: what it holds lies where
\* the layout says, under folders named and nested as it says.  Unless one of those paths
\* was no way from the root, no folder of the platform is left without an asset.
THEOREM LayoutsTaken == SyncSpec /\ []ShallowTree => []LayoutTaken
<1>1. SyncInit => WanInv /\ Told /\ FacInv /\ LayoutTaken
  BY PTreeInitKeeps, SyncInitFac DEF SyncInit, LayoutTaken
<1>2. WanInv /\ Told /\ FacInv /\ LayoutTaken /\ ShallowTree /\ [SyncNext]_syncVars
        => (WanInv /\ Told /\ FacInv /\ LayoutTaken)'
  BY SyncNextKeepsWan, SyncNextKeepsTold, SyncNextKeepsFac, SyncNextKeepsTaken
<1> QED
  BY <1>1, <1>2, PTL DEF SyncSpec

-----------------------------------------------------------------------------
(* Few folders are never nested too deep.                                  *)

\* Above a root there is nothing: who is still at a folder after so many levels has met
\* only folders on the way.
LEMMA FoldersAllTheWay ==
  ASSUME NEW t, IsWan(t), NEW f \in DOMAIN t \cap Files, NEW up, up = Ascent(t, f, Walk),
         up[Walk] \in Folders
  PROVE  \A i \in 1..Walk : up[i] \in DOMAIN t \cap Folders
<1>1. IsTree(t, Areas)
  BY DEF IsWan
<1>2. /\ Walk \in Nat /\ 1 \in 1..Walk
      /\ up[1] = Above(t, f)
      /\ \A i \in 1..Walk : i # 1 => i - 1 \in 1..Walk /\ up[i] = Above(t, up[i - 1])
  BY AscentSteps
<1>3. \A x : Above(t, x) = Top \/ (Above(t, x) \in DOMAIN t /\ Above(t, x) \notin Files)
  BY <1>1 DEF Above, IsTree, Sound, IsFolder
<1>4. \A i \in 1..Walk : up[i] = Top \/ (up[i] \in DOMAIN t /\ up[i] \notin Files)
  BY <1>2, <1>3
<1>5. \A i \in 1..Walk : up[i] \notin Folders => up[i] \in Areas \cup {Top}
  BY <1>1, <1>4 DEF IsTree, Table, Nodes
<1>6. \A x \in Areas \cup {Top} : Above(t, x) = Top
  BY <1>1, DirConstants DEF Above, IsTree, Table, Sound
<1> DEFINE S == {k \in Nat : k < Walk /\ up[Walk - k] \in Areas \cup {Top}}
<1>7. S = {}
  <2> SUFFICES ASSUME S # {} PROVE FALSE
    OBVIOUS
  <2>1. PICK k \in S : \A j \in S : k <= j
    <3>1. S \in SUBSET Nat
      OBVIOUS
    <3> HIDE DEF S
    <3> QED
      BY <3>1, LeastExists
  <2>2. k \in Nat /\ k < Walk /\ up[Walk - k] \in Areas \cup {Top}
    OBVIOUS
  <2>3. k # 0
    BY <2>2, <1>2, DirConstants DEF Nodes
  <2>4. Walk - k + 1 \in 1..Walk /\ Walk - k + 1 # 1 /\ Walk - k + 1 - 1 = Walk - k
    BY <1>2, <2>2, <2>3
  <2>5. up[Walk - k + 1] = Above(t, up[Walk - k])
    BY <1>2, <2>4
  <2>6. up[Walk - k + 1] = Top
    BY <1>6, <2>2, <2>5
  <2>7. k - 1 \in Nat /\ k - 1 < Walk /\ Walk - (k - 1) = Walk - k + 1 /\ ~(k <= k - 1)
    BY <1>2, <2>2, <2>3
  <2> QED
    BY <2>1, <2>6, <2>7
<1>8. ASSUME NEW i \in 1..Walk PROVE up[i] \notin Areas \cup {Top}
  <2>1. Walk - i \in Nat /\ Walk - i < Walk /\ Walk - (Walk - i) = i
    BY <1>2
  <2> QED
    BY <1>7, <2>1
<1> QED
  BY <1>4, <1>5, <1>8, DirConstants DEF Nodes

\* Nobody is met twice on the way up.
LEMMA NobodyTwice ==
  ASSUME NEW t, IsWan(t), NEW f \in DOMAIN t \cap Files, NEW up, up = Ascent(t, f, Walk),
         \A k \in 1..Walk : up[k] \in DOMAIN t \cap Folders,
         NEW i \in 1..Walk, NEW j \in 1..Walk, i < j
  PROVE  up[i] # up[j]
<1> SUFFICES ASSUME up[i] = up[j] PROVE FALSE
  OBVIOUS
<1>1. Walk \in Nat /\ \A k \in 1..Walk : k # 1 => up[k] = Above(t, up[k - 1])
  BY AscentSteps
<1>2. PICK S : S = {up[k] : k \in i..(j - 1)}
  OBVIOUS
<1>3. S \in SUBSET Dirs(t) /\ S # {}
  <2>1. i \in i..(j - 1) /\ \A k \in i..(j - 1) : k \in 1..Walk
    BY <1>1
  <2> QED
    BY <1>2, <2>1, DirConstants DEF Dirs
<1>4. ASSUME NEW k \in i..(j - 1) PROVE t[up[k]].parent \in S
  <2>1. k \in 1..Walk /\ k + 1 \in 1..Walk /\ k + 1 # 1 /\ (k + 1) - 1 = k
    BY <1>1
  <2>2. up[k + 1] = Above(t, up[k])
    BY <1>1, <2>1
  <2>3. t[up[k]].parent = up[k + 1]
    BY <2>1, <2>2 DEF Above
  <2>4. k + 1 \in i..(j - 1) \/ k + 1 = j
    BY <1>1
  <2>5. i \in i..(j - 1)
    BY <1>1
  <2> QED
    BY <1>2, <2>3, <2>4, <2>5
<1>5. PICK x \in S : t[x].parent \notin S
  BY <1>3, WanRooted
<1> QED
  BY <1>2, <1>4, <1>5

\* So a lineage that ends below a folder it does not name has used up all the others.
LEMMA FewAreShallow ==
  ASSUME IsFiniteSet(Folders \ Elsewhere), Cardinality(Folders \ Elsewhere) <= Walk,
         NEW t, IsWan(t)
  PROVE  Shallow(t)
<1> SUFFICES ASSUME NEW f \in DOMAIN t \cap Files, NEW n \in Lineage(t, f, Walk),
                    t[n].parent \notin Lineage(t, f, Walk) \cup Areas
             PROVE  FALSE
  BY DEF Shallow
<1>1. PICK up : up = Ascent(t, f, Walk)
  OBVIOUS
<1>2. /\ Walk \in Nat
      /\ \A i \in 1..Walk : i # 1 => up[i] = Above(t, up[i - 1])
  BY <1>1, AscentSteps
<1>3. Lineage(t, f, Walk) = {up[i] : i \in 1..Walk} \ (Areas \cup {Top})
  BY <1>1 DEF Lineage
<1>4. n \in DOMAIN t \cap Folders /\ n \notin Areas
  BY LineageFacts, DirConstants DEF IsWan
<1>5. PICK p : p = t[n].parent
  OBVIOUS
<1>6. p # Top /\ p \in DOMAIN t /\ p \notin Files /\ p \notin Areas /\ p \in Folders
  BY <1>4, <1>5 DEF IsWan, IsTree, Sound, IsFolder, Table, Nodes
<1>7. p \notin {up[i] : i \in 1..Walk}
  BY <1>3, <1>5, <1>6
<1>8. PICK i \in 1..Walk : n = up[i]
  BY <1>3
<1>9. i = Walk
  <2> SUFFICES ASSUME i # Walk PROVE FALSE
    OBVIOUS
  <2>1. i + 1 \in 1..Walk /\ i + 1 # 1 /\ (i + 1) - 1 = i
    BY <1>2
  <2>2. up[i + 1] = Above(t, n)
    BY <1>2, <1>8, <2>1
  <2>3. up[i + 1] = p
    BY <1>4, <1>5, <2>2 DEF Above
  <2> QED
    BY <1>7, <2>1, <2>3
<1>10. \A k \in 1..Walk : up[k] \in DOMAIN t \cap Folders
  BY <1>1, <1>4, <1>8, <1>9, FoldersAllTheWay
<1>11. PICK F : F = (Folders \ Elsewhere) \ {p}
  OBVIOUS
<1>12. IsFiniteSet(F) /\ Cardinality(F) < Walk
  <2>1. p \in Folders \ Elsewhere
    BY <1>6 DEF IsWan
  <2>2. Cardinality(Folders \ Elsewhere) \in Nat
    BY FS_CardinalityType
  <2>3. IsFiniteSet(F) /\ Cardinality(F) = Cardinality(Folders \ Elsewhere) - 1
    BY <1>11, <2>1, FS_RemoveElement
  <2> QED
    BY <1>2, <2>2, <2>3
<1>13. PICK g : g = [k \in 1..Walk |-> up[k]]
  OBVIOUS
<1>14. g \in [1..Walk -> F]
  <2>1. \A k \in 1..Walk : up[k] \in F
    <3>1. \A k \in 1..Walk : up[k] \in Folders /\ up[k] \in DOMAIN t /\ up[k] \notin Areas /\ up[k] # p
      BY <1>7, <1>10, DirConstants
    <3> QED
      BY <1>11, <3>1 DEF IsWan
  <2> QED
    BY <1>13, <2>1
<1>15. IsFiniteSet(1..Walk) /\ Cardinality(1..Walk) = Walk
  <2>1. 1 \in Int /\ Walk \in Int /\ ~(1 > Walk)
    BY PlatformTreeConstants
  <2> QED
    BY <2>1, FS_Interval
<1>16. PICK a, b \in 1..Walk : a # b /\ g[a] = g[b]
  BY <1>12, <1>14, <1>15, FS_PigeonHole
<1>17. up[a] = up[b] /\ (a < b \/ b < a)
  BY <1>2, <1>13, <1>16
<1> QED
  BY <1>1, <1>10, <1>17, NobodyTwice

\* The hypothesis of the theorems above is met by every WAN that never has more folders
\* than a layout climbs levels.
THEOREM FewFoldersShallow ==
  ASSUME IsFiniteSet(Folders \ Elsewhere), Cardinality(Folders \ Elsewhere) <= Walk
  PROVE  SyncSpec => []ShallowTree
<1>1. SyncInit => WanInv
  BY PTreeInitKeeps DEF SyncInit
<1>2. WanInv /\ [SyncNext]_syncVars => WanInv'
  BY SyncNextKeepsWan
<1>3. WanInv => ShallowTree
  BY WanIsWan, FewAreShallow DEF ShallowTree
<1> QED
  BY <1>1, <1>2, <1>3, PTL DEF SyncSpec

=============================================================================
