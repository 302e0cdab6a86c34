---------------------------- MODULE FactoryTree ----------------------------
(***************************************************************************)
(* A factory's directory trees (factory/server: service/fs.go, store/fs.go)*)
(* the platform's, which follows the WAN and which nobody at the factory   *)
(* may edit, and a tree of the factory's own.  People edit the latter while*)
(* replicas arrive and layouts are applied to the former.                  *)
(***************************************************************************)
EXTENDS PlatformTree

CONSTANTS
    Own,       \* the root of the factory's own tree
    People,    \* calls under way at the same time
    MaxLocal   \* bound: calls of people

VARIABLES
    ftree,    \* asset_fs_nodes of the factory
    fedit,    \* the call each person has under way
    flock,    \* who holds the own tree's advisory lock
    fused,    \* identities given out by the factory
    local,    \* calls made so far
    held      \* asset_replicas: platform assets with a row, retracted ones included

ftreeVars == <<ftree, fedit, flock, fused, local, held>>

ASSUME FactoryTreeConstants ==
    Own \in Areas \ {Platform} /\ None \notin People /\ MaxLocal \in Nat

\* The factory gives out identities of its own.
FreshOwnFolders == (Folders \cap Elsewhere) \ fused
FreshOwnFiles == (Files \cap Elsewhere) \ fused

-----------------------------------------------------------------------------
(* Following the platform. *)

PlatformNodes(t) == {n \in DOMAIN t : t[n].area = Platform}
Under(parent) == IF parent = None THEN Platform ELSE parent

\* A folder listed under one that neither exists nor is listed fails the transaction.
FoldersFit(t, fs) ==
    \A n \in DOMAIN fs : fs[n].parent \in DOMAIN fs \cup (PlatformNodes(t) \ Files) \cup {None}

\* A plausible slip: whoever has the name keeps it.
KeepsName(t, fs, k) == t[k]

\* yieldPlatformNameTx: a node the layout does not list lets a listed one have its name.
YieldName(t, fs, k) ==
    IF \E n \in DOMAIN fs : Under(fs[n].parent) = t[k].parent /\ fs[n].name = t[k].name
    THEN [t[k] EXCEPT !.name = k] ELSE t[k]

\* upsertPlatformFolderTx over the folders of a layout, parents first (orderFSFolders).
UpsertFolders(t, fs) ==
    [k \in DOMAIN t \cup DOMAIN fs |->
       IF k \in DOMAIN fs
       THEN [parent |-> Under(fs[k].parent), name |-> fs[k].name, area |-> Platform]
       ELSE YieldName(t, fs, k)]

\* ... and over the path of a closure, one after the other from the root down; that is the
\* order it has, and it is kept.  A folder read twice is put where the upper entry says,
\* and then where the lower one says.  Nothing looks for a circle.
UpsertPath(t, path) ==
    LET one(h) == [n \in {h.node} |-> [parent |-> h.parent, name |-> h.name]]
        u[i \in 0..Len(path)] == IF i = 0 THEN t ELSE UpsertFolders(u[i - 1], one(path[i]))
    IN  u[Len(path)]

\* placeOrMovePlatformFileTx: a file there is moved; one that is not is placed if the
\* asset has arrived, be it retracted since.
PlaceFiles(t, files, arrived) ==
    LET placed == {f \in DOMAIN files : f \in DOMAIN t \cup arrived}
    IN  [k \in DOMAIN t \cup placed |->
           IF k \in placed
           THEN [parent |-> Under(files[k]), name |-> k, area |-> Platform]
           ELSE t[k]]

\* A plausible slip: a folder without a file of its own is pruned, with folders in it or not.
PruneBare(t, keep) ==
    [n \in {k \in DOMAIN t : t[k].area = Platform /\ k \in Folders \ keep =>
                               Kids(t, k) \cap Files # {}} |-> t[n]]

\* pruneEmptyPlatformFoldersTx: until no platform folder is empty, but for those to keep.
\* What holds something are the folders above a file, above a folder kept, and those of a
\* circle, each of which is above itself.
Prune(t, keep) ==
    LET stays == (DOMAIN t \cap Files) \cup keep
        holding(n) == (\E k \in stays : Within(t, t[k].parent, n)) \/ Within(t, t[n].parent, n)
    IN  [n \in {k \in DOMAIN t : t[k].area = Platform /\ k \in Folders \ keep => holding(k)} |-> t[n]]

\* The unique index on (parent, name) would fail the transaction.
NamesApart(t) ==
    \A n \in PlatformNodes(t) \cap Folders : NameFree(t, t[n].parent, t[n].name, n)

\* store.ApplyPlatformFSLayout: folders first, then the files, then what is empty goes; whole
\* or not at all.
ApplyLayout(t, l) ==
    LET u == UpsertFolders(t, l.folders)
    IN  IF FoldersFit(t, l.folders) /\ NamesApart(u)
        THEN Prune(PlaceFiles(u, l.files, held), {}) ELSE t

\* store.ApplyPlatformFS: a path whose uppermost folder has a parent that is not there fails
\* the transaction; the folders of the path are kept, empty or not.
ApplyPath(t, f, path) ==
    LET nodes == {path[i].node : i \in DOMAIN path}
        dest == [x \in {f} |-> path[Len(path)].node]
    IN  IF path[1].parent \in (PlatformNodes(t) \ Files) \cup {None}
        THEN Prune(PlaceFiles(UpsertPath(t, path), dest, {}), nodes) ELSE t

\* A factory that shows the assets as the WAN does; or one that missed the calls made so
\* far, has some of the assets, and shows them as they were.
FTreeInit ==
    /\ IF edits = 0
       THEN held = StartFiles /\ ftree = ApplyLayout(EmptyTree({Platform, Own}), PlatformFSLayout(ptree))
       ELSE /\ held \in SUBSET StartFiles
            /\ \E t \in StartTrees :
                 ftree = ApplyLayout(EmptyTree({Platform, Own}), PlatformFSLayout(t))
    /\ fedit = [p \in People |-> None]
    /\ flock = None
    /\ fused = {}
    /\ local = 0

\* service.ApplyPlatformFSLayout
ApplyPlatformFSLayout(l) ==
    /\ ftree' = ApplyLayout(ftree, l)
    /\ UNCHANGED <<fedit, flock, fused, local, held>>

\* FSLineage, one folder read: what a path says of it.
FolderRead(t, n) == [node |-> n, parent |-> Hint(t, n).parent, name |-> Hint(t, n).name]

\* InsertReplica, then ApplyPlatformFS: the file is born under the root, then the folders
\* of its path are brought in and it is moved there.  Without a path it stays where it is.
AcceptReplica(h) ==
    /\ held' = held \cup {h.file}
    /\ LET born == Placed(ftree, h.file, Platform)
       IN  ftree' = IF h.path = <<>> THEN born ELSE ApplyPath(born, h.file, h.path)
    /\ UNCHANGED <<fedit, flock, fused, local>>

\* RetractReplicas: the rows stay, the file goes.
RetractReplica(f) ==
    /\ f \in held
    /\ ftree' = IF f \in DOMAIN ftree THEN Removed(ftree, f) ELSE ftree
    /\ UNCHANGED <<fedit, flock, fused, local, held>>

-----------------------------------------------------------------------------
(* Editing the own tree. *)

\* A plausible slip: anything that exists may be written.
CanWriteAny(n) == n \in DOMAIN ftree

\* canWriteFS: the platform's tree is not for editing.
CanWriteFS(n) == n \in DOMAIN ftree /\ ftree[n].area # Platform

\* canCopyFSInto: within one tree, or from the platform's into the factory's.
CanCopyFSInto(n, p) ==
    /\ IsFolder(ftree, p) /\ n \notin Areas
    /\ ftree[p].area = ftree[n].area \/ ftree[n].area = Platform

FIdle(p) == fedit[p] = None /\ local < MaxLocal

FBegin(p, e) ==
    /\ local' = local + 1
    /\ fedit' = [fedit EXCEPT ![p] = e]

FDoing(p, op) == fedit[p] # None /\ fedit[p].op = op

FCommit(p, ok, tree) ==
    /\ ftree' = IF ok THEN tree ELSE ftree
    /\ fedit' = [fedit EXCEPT ![p] = None]

FCreateFSFolder(p) ==
    /\ FIdle(p)
    /\ \E d \in DOMAIN ftree, name \in Names :
         CanWriteFS(d) /\ IsFolder(ftree, d) /\ FBegin(p, Edit("create", None, d, name))
    /\ UNCHANGED <<ftree, flock, fused, held>>

FInsertFSFolder(p) ==
    /\ FDoing(p, "create")
    /\ LET e == fedit[p]
       IN  \E n \in FreshOwnFolders :
             /\ FCommit(p, CanInsert(ftree, e.to, e.name), Inserted(ftree, n, e.to, e.name))
             /\ fused' = fused \cup {n}
    /\ UNCHANGED <<flock, local, held>>

FRenameFSNode(p) ==
    /\ FIdle(p)
    /\ \E n \in Folders, name \in Names : CanWriteFS(n) /\ FBegin(p, Edit("rename", n, None, name))
    /\ UNCHANGED <<ftree, flock, fused, held>>

FSaveName(p) ==
    /\ FDoing(p, "rename")
    /\ LET e == fedit[p]
       IN  FCommit(p, CanRename(ftree, e.node, e.name), Renamed(ftree, e.node, e.name))
    /\ UNCHANGED <<flock, fused, local, held>>

FMoveFSNode(p) ==
    /\ FIdle(p)
    /\ flock = None
    /\ \E n, d \in DOMAIN ftree :
         /\ CanWriteFS(n) /\ CanWriteFS(d) /\ MayMove(ftree, n, d)
         /\ FBegin(p, Edit("move", n, d, None))
    /\ flock' = p
    /\ UNCHANGED <<ftree, fused, held>>

FSaveMove(p) ==
    /\ FDoing(p, "move")
    /\ LET e == fedit[p]
       IN  FCommit(p, e.node \in DOMAIN ftree /\ CanMove(ftree, e.node, e.to),
                      Moved(ftree, e.node, e.to))
    /\ flock' = None
    /\ UNCHANGED <<fused, local, held>>

FCopyFSNode(p) ==
    /\ FIdle(p)
    /\ \E n, d \in DOMAIN ftree :
         /\ CanWriteFS(d) /\ CanCopyFSInto(n, d) /\ ~Within(ftree, d, n)
         /\ FBegin(p, Copying(n, d))
    /\ UNCHANGED <<ftree, flock, fused, held>>

FCopyFSInto(p) ==
    /\ FDoing(p, "copy")
    /\ fedit[p].file # None => flock = None
    /\ \E r \in CopyStep(ftree, fedit[p], Own, FreshOwnFolders, FreshOwnFiles) :
         /\ ftree' = r.tree
         /\ fedit' = [fedit EXCEPT ![p] = r.call]
         /\ fused' = fused \cup (DOMAIN r.tree \ DOMAIN ftree)
    /\ UNCHANGED <<flock, local, held>>

FDeleteFSNode(p) ==
    /\ FIdle(p)
    /\ \E n \in Folders : CanWriteFS(n) /\ FBegin(p, Deleting(n))
    /\ UNCHANGED <<ftree, flock, fused, held>>

FDeleteFSTree(p) ==
    /\ FDoing(p, "delete")
    /\ \E r \in DeleteStep(ftree, fedit[p]) :
         /\ ftree' = r.tree
         /\ fedit' = [fedit EXCEPT ![p] = r.call]
    /\ UNCHANGED <<flock, fused, local, held>>

FTreeStep(p) ==
    \/ FCreateFSFolder(p) \/ FInsertFSFolder(p)
    \/ FRenameFSNode(p) \/ FSaveName(p)
    \/ FMoveFSNode(p) \/ FSaveMove(p)
    \/ FCopyFSNode(p) \/ FCopyFSInto(p)
    \/ FDeleteFSNode(p) \/ FDeleteFSTree(p)

=============================================================================
