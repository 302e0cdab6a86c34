------------------------------ MODULE DirTree ------------------------------
(***************************************************************************)
(* Directory trees of assets, as the WAN and every factory keep them in a  *)
(* table of nodes that name their parent (store/fs.go and service/fs.go of *)
(* both servers).  A tree is a value here: a function on the nodes that    *)
(* exist.  Each operator is one transaction or one recursion step, given   *)
(* the tree it finds; PlatformTree and FactoryTree say who runs them, and  *)
(* what happens in between.                                                *)
(*                                                                         *)
(* Assets' own names are kept apart from one another and from those of     *)
(* folders, so names matter among folders only.                            *)
(***************************************************************************)
EXTENDS Naturals, Sequences, FiniteSets

CONSTANTS
    Areas,    \* the roots: one tree under each, never mixed
    Folders,  \* identities of folders, each given out once
    Files,    \* the assets; the file of an asset goes by its name
    Names,    \* names an admin may give a folder
    Top,      \* what the roots have for a parent
    None

Nodes == Areas \cup Folders \cup Files

ASSUME DirConstants ==
    /\ Areas \cap Folders = {} /\ Areas \cap Files = {} /\ Folders \cap Files = {}
    /\ Names \cap Nodes = {}
    /\ Top \notin Nodes /\ None \notin Nodes

\* asset_fs_nodes: the columns the properties tell apart.
Entry == [parent : Nodes \cup {Top}, name : Names \cup Nodes, area : Areas]
Trees == UNION {[S -> Entry] : S \in SUBSET Nodes}

\* ensureFSRootTx: the roots exist before anything else does.
EmptyTree(roots) == [r \in roots |-> [parent |-> Top, name |-> r, area |-> r]]

IsFolder(t, n) == n \in DOMAIN t /\ n \notin Files

\* ListFSChildren
Kids(t, n) == {k \in DOMAIN t : t[k].parent = n}

\* The unique index on (parent, name).
NameFree(t, p, name, self) == \A k \in Kids(t, p) \ {self} : t[k].name # name

Closed(t, S) == \A n \in S : t[n].parent \in S \cup {Top}

\* fsIsAncestorTx and the test for equality before it: every set of folders that holds n
\* and the parents of its own members holds a.
Dirs(t) == DOMAIN t \ Files
Within(t, n, a) == \A S \in SUBSET Dirs(t) : n \in S /\ Closed(t, S) => a \in S

\* The folders above a node, at most walk of them, nearest first.
Above(t, n) == IF n \in DOMAIN t THEN t[n].parent ELSE Top
Ascent(t, n, walk) ==
    LET up[i \in 1..walk] == Above(t, IF i = 1 THEN n ELSE up[i - 1])
    IN  up
Lineage(t, n, walk) ==
    LET up == Ascent(t, n, walk)
    IN  {up[i] : i \in 1..walk} \ (Areas \cup {Top})

-----------------------------------------------------------------------------
(* One transaction each; the guard is what makes it commit. *)

\* InsertFSFolder
CanInsert(t, p, name) == IsFolder(t, p) /\ NameFree(t, p, name, None)
Inserted(t, n, p, name) ==
    [k \in DOMAIN t \cup {n} |->
       IF k = n THEN [parent |-> p, name |-> name, area |-> t[p].area] ELSE t[k]]

\* RenameFSNode
CanRename(t, n, name) ==
    /\ n \in DOMAIN t /\ t[n].parent # Top
    /\ NameFree(t, t[n].parent, name, n)
Renamed(t, n, name) == [t EXCEPT ![n].name = name]

\* MoveFSNode, what it checks under the tree's lock ...
MayMove(t, n, p) ==
    /\ n \in DOMAIN t /\ t[n].parent # Top
    /\ IsFolder(t, p) /\ t[p].area = t[n].area
    /\ ~Within(t, p, n)

\* ... and what the row's update still needs: a parent, and the name free there.
CanMove(t, n, p) == p \in DOMAIN t /\ NameFree(t, p, t[n].name, n)
Moved(t, n, p) == [t EXCEPT ![n].parent = p]

\* DeleteFSNode
CanDelete(t, n) == n \in DOMAIN t /\ t[n].parent # Top /\ Kids(t, n) = {}
Removed(t, n) == [k \in DOMAIN t \ {n} |-> t[k]]

\* placeAssetFileTx
Placed(t, f, p) == IF f \in DOMAIN t THEN t ELSE Inserted(t, f, p, f)

-----------------------------------------------------------------------------
(* Deleting and copying a folder are recursions of such transactions.  A call  *)
(* under way is a stack of folders, each with the children it has listed and    *)
(* not yet dealt with; None until it has listed them.  A step returns what the  *)
(* tree and the call become.                                                    *)

Call(op, top, stack) == [op |-> op, top |-> top, stack |-> stack, file |-> None, from |-> None]
Frame(src, made, kids) == [src |-> src, made |-> made, kids |-> kids]
To(t, e) == {[tree |-> t, call |-> e]}

\* deleteFSTree of a node
Deleting(n) == Call("delete", n, <<Frame(n, n, None)>>)

Pop(e) == IF Len(e.stack) = 1 THEN None ELSE [e EXCEPT !.stack = Tail(@)]
Skip(e, kid) == [e EXCEPT !.stack[1].kids = @ \ {kid}]
Push(e, kid, f) == [e EXCEPT !.stack = <<f>> \o Skip(e, kid).stack]

\* deleteFSTree: an asset in use or gone already, a folder filled again or gone, ends
\* the whole call; what it has deleted stays deleted.
DeleteStep(t, e) ==
    LET f == Head(e.stack)
    IN  IF f.kids = None THEN To(t, [e EXCEPT !.stack[1].kids = Kids(t, f.src)])
        ELSE IF f.kids = {}
        THEN IF CanDelete(t, f.src) THEN To(Removed(t, f.src), Pop(e)) ELSE To(t, None)
        ELSE UNION {IF k \notin Files THEN To(t, Push(e, k, Frame(k, k, None)))
                    ELSE To(t, None) \cup (IF k \in DOMAIN t THEN To(Removed(t, k), Skip(e, k))
                                           ELSE {}) : k \in f.kids}

\* CopyFSNode of n into the folder p
Copying(n, p) == Call("copy", None, <<Frame(Top, p, {n})>>)

\* The way out of a failed copy: what it made so far is deleted.
GiveUp(e) == IF e.top = None THEN None ELSE Deleting(e.top)

\* copyFSInto, a folder: uniqueFSName finds a free name, CreateFSFolder inserts it, and
\* the children are those the source has when it is its turn.
CopyFolder(t, e, k, fresh) ==
    LET p == Head(e.stack).made
    IN  {[tree |-> Inserted(t, n, p, name),
          call |-> [Push(e, k, Frame(k, n, None)) EXCEPT !.top = IF @ = None THEN n ELSE @]] :
         n \in fresh, name \in {m \in Names : CanInsert(t, p, m)}}

\* copyFSInto, a file: the copy of the asset is born under the root of its tree ...
CopyFile(t, e, k, root, fresh) ==
    {[tree |-> Inserted(t, x, root, x), call |-> [Skip(e, k) EXCEPT !.file = x, !.from = k]] :
     x \in IF k \in DOMAIN t THEN fresh ELSE {}}

\* ... is then put beside its source (placeCopyBeside, which may fail) ...
PlaceBeside(t, e) ==
    LET x == e.file  next == [e EXCEPT !.from = None]
    IN  IF x \in DOMAIN t /\ e.from \in DOMAIN t /\ t[e.from].area = t[x].area
        THEN To(Moved(t, x, t[e.from].parent), next) ELSE To(t, next)

\* ... and moved to where it belongs; when that fails it is deleted again.
MoveCopy(t, e) ==
    LET x == e.file  p == Head(e.stack).made
    IN  IF x \notin DOMAIN t THEN To(t, GiveUp(e))
        ELSE IF IsFolder(t, p) THEN To(Moved(t, x, p), [e EXCEPT !.file = None])
        ELSE To(Removed(t, x), GiveUp(e))

CopyStep(t, e, root, folders, files) ==
    LET f == Head(e.stack)
    IN  IF e.file # None /\ e.from # None THEN PlaceBeside(t, e)
        ELSE IF e.file # None THEN MoveCopy(t, e)
        ELSE IF f.kids = None THEN To(t, [e EXCEPT !.stack[1].kids = Kids(t, f.src)])
        ELSE IF f.kids = {} THEN To(t, Pop(e))
        ELSE To(t, GiveUp(e)) \cup
             UNION {IF k \in Files THEN CopyFile(t, e, k, root, files)
                    ELSE CopyFolder(t, e, k, folders) : k \in f.kids}

-----------------------------------------------------------------------------
(* What a tree has to be. *)

\* Every set of folders has one whose parent lies outside: no folder is above itself.
Rooted(t) == \A S \in SUBSET Dirs(t) : S # {} => \E k \in S : t[k].parent \notin S

\* ... as far as the trees under some of the roots go.
DirsIn(t, areas) == {n \in Dirs(t) : t[n].area \in areas}
RootedIn(t, areas) == \A S \in SUBSET DirsIn(t, areas) : S # {} => \E k \in S : t[k].parent \notin S

\* Parents exist, siblings have names of their own, and a node is of its parent's tree.
Sound(t) ==
    /\ \A n \in DOMAIN t : t[n].parent # Top =>
         /\ IsFolder(t, t[n].parent)
         /\ t[n].area = t[t[n].parent].area
    /\ \A m, n \in DOMAIN t \ Areas : t[m].parent = t[n].parent /\ t[m].name = t[n].name => m = n
    /\ \A n \in DOMAIN t : t[n].parent = Top <=> n \in Areas

=============================================================================
