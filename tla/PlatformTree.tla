---------------------------- MODULE PlatformTree ----------------------------
(***************************************************************************)
(* The WAN's directory tree of its assets, edited by several admins at     *)
(* once (global/server: service/fs.go, store/fs.go), and the layouts it    *)
(* publishes to the factories (service/notify.go).                         *)
(*                                                                         *)
(* A call loads and judges the nodes first and runs its transaction later. *)
(* Only moves lock the tree, from their check to their commit.  A rename,  *)
(* a move, a copy and every folder deleted ends in a notification: the     *)
(* layout is read after the commit, and published after that.              *)
(***************************************************************************)
EXTENDS DirTree

CONSTANTS
    Platform,      \* the root of the platform's tree
    StartFolders,  \* folders there to begin with
    StartFiles,    \* assets there to begin with
    Elsewhere,     \* identities other servers give out
    Admins,
    Walk,          \* levels PlatformFSLayout climbs from a file (64 in the code)
    MaxEdits       \* bound: calls of admins

VARIABLES
    ptree,   \* asset_fs_nodes of the WAN
    pedit,   \* the call each admin has under way
    plock,   \* who holds the tree's advisory lock
    pused,   \* identities given out so far
    edits,   \* calls made so far
    mail     \* layouts published and not yet taken by the factory

ptreeVars == <<ptree, pedit, plock, pused, edits, mail>>

ASSUME PlatformTreeConstants ==
    /\ Platform \in Areas
    /\ StartFolders \subseteq Folders \ Elsewhere /\ StartFiles \subseteq Files \ Elsewhere
    /\ None \notin Admins /\ Walk \in Nat \ {0} /\ MaxEdits \in Nat

\* What a layout says of a node: its parent, None for the root, and its name.
Hint(t, n) == [parent |-> IF t[n].parent \in Areas THEN None ELSE t[n].parent,
               name |-> t[n].name]
\* A plausible slip: only the folders that hold a file themselves.
HoldersOnly(t) ==
    LET files == DOMAIN t \cap Files
    IN  [folders |-> [n \in {t[f].parent : f \in files} \ Areas |-> Hint(t, n)],
         files |-> [f \in files |-> Hint(t, f).parent]]

\* PlatformFSLayout: every file with its folder, and the folders above the files.
PlatformFSLayout(t) ==
    LET files == DOMAIN t \cap Files
    IN  [folders |-> [n \in UNION {Lineage(t, f, Walk) : f \in files} |-> Hint(t, n)],
         files |-> [f \in files |-> Hint(t, f).parent]]

\* The trees that can be made of the start nodes.
StartTree(parent, name) ==
    [n \in {Platform} \cup StartFolders \cup StartFiles |->
       IF n = Platform THEN EmptyTree({Platform})[n]
       ELSE [parent |-> parent[n], area |-> Platform,
             name |-> IF n \in StartFolders THEN name[n] ELSE n]]
StartTrees ==
    {t \in {StartTree(parent, name) :
              parent \in [StartFolders \cup StartFiles -> StartFolders \cup {Platform}],
              name \in [StartFolders -> Names]} :
       Rooted(t) /\ Sound(t)}

PTreeInit ==
    /\ ptree \in StartTrees
    /\ pedit = [a \in Admins |-> None]
    /\ plock = None
    /\ pused = StartFolders \cup StartFiles
    /\ edits \in {0, MaxEdits}
    /\ edits = 0 => \A f, g \in StartFiles : ptree[f].parent = ptree[g].parent
    /\ mail = <<>>

FreshFolders == Folders \ (pused \cup Elsewhere)
FreshFiles == Files \ (pused \cup Elsewhere)

Idle(a) == pedit[a] = None /\ edits < MaxEdits

Begin(a, e) ==
    /\ edits' = edits + 1
    /\ pedit' = [pedit EXCEPT ![a] = e]

Edit(op, n, to, name) == [op |-> op, node |-> n, to |-> to, name |-> name]
\* What a call does after a change it announces; rest is what is left of a deletion.
Notify(rest) == [op |-> "notify", rest |-> rest]
Doing(a, op) == pedit[a] # None /\ pedit[a].op = op

\* A transaction commits and the call goes on with e, or it fails and the call ends.
Commit(a, ok, tree, e) ==
    /\ ptree' = IF ok THEN tree ELSE ptree
    /\ pedit' = [pedit EXCEPT ![a] = IF ok THEN e ELSE None]

-----------------------------------------------------------------------------
(* The calls. *)

CreateFSFolder(a) ==
    /\ Idle(a)
    /\ \E p \in DOMAIN ptree, name \in Names :
         IsFolder(ptree, p) /\ Begin(a, Edit("create", None, p, name))
    /\ UNCHANGED <<ptree, plock, pused, mail>>

InsertFSFolder(a) ==
    /\ Doing(a, "create")
    /\ LET e == pedit[a]
       IN  \E n \in FreshFolders :
             /\ Commit(a, CanInsert(ptree, e.to, e.name), Inserted(ptree, n, e.to, e.name), None)
             /\ pused' = pused \cup {n}
    /\ UNCHANGED <<plock, edits, mail>>

RenameFSNode(a) ==
    /\ Idle(a)
    /\ \E n \in DOMAIN ptree \cap Folders, name \in Names : Begin(a, Edit("rename", n, None, name))
    /\ UNCHANGED <<ptree, plock, pused, mail>>

SaveName(a) ==
    /\ Doing(a, "rename")
    /\ LET e == pedit[a]
       IN  Commit(a, CanRename(ptree, e.node, e.name), Renamed(ptree, e.node, e.name), Notify(None))
    /\ UNCHANGED <<plock, pused, edits, mail>>

\* A plausible slip: the check is made without the lock.
NoLock == TRUE

\* lockFSTreeTx
LockFSTree == plock = None

\* MoveFSNode and MoveAssetInto: the lock is taken before the check.
MoveFSNode(a) ==
    /\ Idle(a)
    /\ LockFSTree
    /\ \E n \in DOMAIN ptree, p \in DOMAIN ptree :
         MayMove(ptree, n, p) /\ Begin(a, Edit("move", n, p, None))
    /\ plock' = a
    /\ UNCHANGED <<ptree, pused, mail>>

\* The update and the commit, which frees the lock; a row that is gone by now is no error.
SaveMove(a) ==
    /\ Doing(a, "move")
    /\ LET e == pedit[a]
       IN  IF e.node \in DOMAIN ptree
           THEN Commit(a, CanMove(ptree, e.node, e.to), Moved(ptree, e.node, e.to), Notify(None))
           ELSE Commit(a, TRUE, ptree, Notify(None))
    /\ plock' = None
    /\ UNCHANGED <<pused, edits, mail>>

\* CopyFSNode: whether the destination lies inside the source is looked at once, here.
CopyFSNode(a) ==
    /\ Idle(a)
    /\ \E n \in DOMAIN ptree \ Areas, p \in DOMAIN ptree :
         /\ IsFolder(ptree, p) /\ ~Within(ptree, p, n)
         /\ Begin(a, Copying(n, p))
    /\ UNCHANGED <<ptree, plock, pused, mail>>

\* copyFSInto.  Moves of the copies lock the tree as any other.
CopyFSInto(a) ==
    /\ Doing(a, "copy")
    /\ pedit[a].file # None => LockFSTree
    /\ \E r \in CopyStep(ptree, pedit[a], Platform, FreshFolders, FreshFiles) :
         /\ ptree' = r.tree
         /\ pedit' = [pedit EXCEPT ![a] = IF r.call = None /\ pedit[a].stack[1].kids = {}
                                          THEN Notify(None) ELSE r.call]
         /\ pused' = pused \cup (DOMAIN r.tree \ Areas)
    /\ UNCHANGED <<plock, edits, mail>>

\* DeleteFSNode and checkFSDeletable, which refuses nothing that the steps would not.
DeleteFSNode(a) ==
    /\ Idle(a)
    /\ \E n \in DOMAIN ptree \cap Folders : Begin(a, Deleting(n))
    /\ UNCHANGED <<ptree, plock, pused, mail>>

\* deleteFSTree: every folder deleted is announced before the next is looked at.
DeleteFSTree(a) ==
    /\ Doing(a, "delete")
    /\ \E r \in DeleteStep(ptree, pedit[a]) :
         /\ ptree' = r.tree
         /\ pedit' = [pedit EXCEPT ![a] = IF \E n \in Folders : n \in DOMAIN ptree \ DOMAIN r.tree
                                          THEN Notify(r.call) ELSE r.call]
    /\ UNCHANGED <<plock, pused, edits, mail>>

\* notifyPlatformFS reads the layout ...
ReadLayout(a) ==
    /\ Doing(a, "notify")
    /\ pedit' = [pedit EXCEPT ![a] = [op |-> "publish", rest |-> @.rest,
                                      layout |-> PlatformFSLayout(ptree)]]
    /\ UNCHANGED <<ptree, plock, pused, edits, mail>>

\* ... and publishActive sends it.
PublishLayout(a) ==
    /\ Doing(a, "publish")
    /\ mail' = Append(mail, pedit[a].layout)
    /\ pedit' = [pedit EXCEPT ![a] = @.rest]
    /\ UNCHANGED <<ptree, plock, pused, edits>>

PTreeStep(a) ==
    \/ CreateFSFolder(a) \/ InsertFSFolder(a)
    \/ RenameFSNode(a) \/ SaveName(a)
    \/ MoveFSNode(a) \/ SaveMove(a)
    \/ CopyFSNode(a) \/ CopyFSInto(a)
    \/ DeleteFSNode(a) \/ DeleteFSTree(a)
    \/ ReadLayout(a) \/ PublishLayout(a)

PTreeNext == \E a \in Admins : PTreeStep(a)

PTreeSpec == PTreeInit /\ [][PTreeNext]_ptreeVars

-----------------------------------------------------------------------------

\* What each admin may have under way.
EditOK(e) ==
    \/ e = None
    \/ e.op \in {"create", "rename", "move", "copy", "delete", "notify", "publish"}

\* However calls cross, the tree stays a tree: no folder ends up above itself, siblings
\* keep names of their own.  Two moves that each are harmless alone would close a circle;
\* the lock makes the second see the first.
TreeStaysRooted == Rooted(ptree)
TreeStaysSound == Sound(ptree)

\* A layout names every folder it puts another one, or a file, into.
Listed(l) ==
    /\ \A n \in DOMAIN l.folders : l.folders[n].parent \in DOMAIN l.folders \cup {None}
    /\ \A f \in DOMAIN l.files : l.files[f] \in DOMAIN l.folders \cup {None}
LayoutsListed == \A i \in DOMAIN mail : Listed(mail[i])

PTreeInv ==
    /\ ptree \in [DOMAIN ptree -> Entry] /\ DOMAIN ptree \subseteq Nodes
    /\ plock \in Admins \cup {None}
    /\ \A a \in Admins : EditOK(pedit[a])
    /\ TreeStaysRooted /\ TreeStaysSound

\* A copy never takes one of its own copies for a source (service/fs.go:255 refuses a
\* destination inside the source, "however deep").
CopiesEnd ==
    \A a \in Admins : Doing(a, "copy") =>
      \A i \in DOMAIN pedit[a].stack : pedit[a].stack[i].src # pedit[a].top

=============================================================================
