------------------------------ MODULE TreeSync ------------------------------
(***************************************************************************)
(* The platform's tree at the WAN and its image at a factory, composed:    *)
(* layouts travel in the order they were published, a closure carries the  *)
(* folders above its file as they were read, one statement for each, and a *)
(* round of the factory fetches the layout of its time of asking.  What is *)
(* fetched is applied later.                                               *)
(*                                                                         *)
(* Two moves between the reads of a closure are enough for a path that was *)
(* never a way in any tree, and the factory stores a circle (torn).        *)
(***************************************************************************)
EXTENDS FactoryTree

CONSTANTS
    MaxPulls,  \* bound: closures and layouts the factory fetches
    MaxCalls   \* bound: those and the calls of admins and people, together (Spent)

VARIABLES
    fetched,  \* closures and layouts fetched and not yet applied, and the climbs under way
    pulls,    \* how many have been asked for
    given,    \* history: the layout applied last; None after anything else
    torn      \* history: a path that is not a way from the root has been applied

syncVars == <<ptreeVars, ftreeVars, fetched, pulls, given, torn>>

SyncInit == PTreeInit /\ FTreeInit /\ fetched = {} /\ pulls = 0 /\ given = None /\ torn = FALSE

\* What is spent of MaxCalls: a person's call counts for two, as does a deletion while it
\* lasts, and a copy.
Recursing == \E a \in Admins : Doing(a, "copy") \/ Doing(a, "delete")
Copied == ~(pused \cap Files \subseteq StartFiles)
Spent == edits + pulls + 2 * local + (IF Recursing \/ Copied THEN 1 ELSE 0)

Fetch(what) ==
    /\ pulls < MaxPulls /\ Spent < MaxCalls
    /\ pulls' = pulls + 1
    /\ fetched' = fetched \cup {what}
    /\ given' = None
    /\ UNCHANGED <<ptreeVars, ftreeVars, torn>>

\* FSLineage on its way up: the folder it reads next, and the path below it, root first; a
\* closure once it is at the root or has climbed as far as it does.
Climb(f, at, path) ==
    IF at \in Areas \/ Len(path) = Walk
    THEN [closure |-> [file |-> f, path |-> path]]
    ELSE [climb |-> [file |-> f, at |-> at, path |-> path]]

ReadOn(w, next) ==
    /\ fetched' = (fetched \ {w}) \cup {next}
    /\ given' = None
    /\ UNCHANGED <<ptreeVars, ftreeVars, pulls, torn>>

\* PackAssetForFactory reads the asset; attachFSPaths begins with the row of its file.
FetchClosure == \E f \in DOMAIN ptree \cap Files : Fetch(Climb(f, ptree[f].parent, <<>>))

\* One turn of FSLineage's loop, which no transaction holds together with the next.
ReadFolder ==
    \E w \in fetched :
      /\ DOMAIN w = {"climb"} /\ w.climb.at \in DOMAIN ptree
      /\ LET c == w.climb
         IN  ReadOn(w, Climb(c.file, ptree[c.at].parent, <<FolderRead(ptree, c.at)>> \o c.path))

\* A folder that is gone, or a read that fails: attachFSPaths goes on without the path.
PathLost ==
    \E w \in fetched :
      /\ DOMAIN w = {"climb"}
      /\ ReadOn(w, [closure |-> [file |-> w.climb.file, path |-> <<>>]])

\* indexForFactory lists the layout of the moment.
FetchIndex == Fetch([layout |-> PlatformFSLayout(ptree)])

\* A path from the root that meets no folder twice.
IsWay(path) ==
    /\ path # <<>> => path[1].parent = None
    /\ \A i, j \in DOMAIN path : path[i].node = path[j].node => i = j

\* AcceptPlatformDelivery, one member
ApplyClosure ==
    \E w \in fetched :
      /\ DOMAIN w = {"closure"}
      /\ AcceptReplica(w.closure)
      /\ fetched' = fetched \ {w}
      /\ given' = None
      /\ torn' = (torn \/ ~IsWay(w.closure.path))
      /\ UNCHANGED <<ptreeVars, pulls>>

ApplyIndex ==
    \E w \in fetched :
      /\ DOMAIN w = {"layout"}
      /\ ApplyPlatformFSLayout(w.layout)
      /\ fetched' = fetched \ {w}
      /\ given' = w.layout
      /\ UNCHANGED <<ptreeVars, pulls, torn>>

\* The fs_apply instruction at the head of the factory's session.
ApplyMail ==
    /\ mail # <<>>
    /\ ApplyPlatformFSLayout(Head(mail))
    /\ mail' = Tail(mail)
    /\ given' = Head(mail)
    /\ UNCHANGED <<ptree, pedit, plock, pused, edits, fetched, pulls, torn>>

\* An asset the WAN deletes is retracted at the factory.
Retract ==
    /\ \E f \in held : f \notin DOMAIN ptree /\ RetractReplica(f)
    /\ given' = None
    /\ UNCHANGED <<ptreeVars, fetched, pulls, torn>>

AtWAN ==
    /\ PTreeNext
    /\ given' = None
    /\ UNCHANGED <<ftreeVars, fetched, pulls, torn>>
    /\ Spent' <= MaxCalls

AtFactory ==
    /\ \E p \in People : FTreeStep(p)
    /\ given' = None
    /\ UNCHANGED <<ptreeVars, fetched, pulls, torn>>
    /\ Spent' <= MaxCalls

SyncNext ==
    \/ AtWAN \/ AtFactory
    \/ FetchClosure \/ ReadFolder \/ PathLost \/ FetchIndex
    \/ ApplyClosure \/ ApplyIndex \/ ApplyMail \/ Retract

SyncSpec == SyncInit /\ [][SyncNext]_syncVars

-----------------------------------------------------------------------------

\* Whatever is applied in whatever order, no two folders of one name are in a folder, no
\* parent is missing and no node leaves its tree, though folders changed places or swapped
\* names at the WAN.  The factory's own tree has no circle, and the platform's has none
\* before a torn path was applied.
FactoryTreeSound ==
    /\ Sound(ftree)
    /\ RootedIn(ftree, {Own})
    /\ ~torn => RootedIn(ftree, Areas)

\* Said of the lock under which paths and layouts are applied (store/fs.go:772, "so that
\* they do not interlace with others into a circle"), and not so: one path is enough.
NeverACircle == Rooted(ftree)

\* The platform's part of a tree: its folders, and the files of arrived assets.
Shows(t, l) ==
    LET mine == {f \in DOMAIN l.files : f \in DOMAIN t}
        above == {n \in DOMAIN l.folders : \E f \in mine : Within(t, t[f].parent, n)}
    IN  /\ \A f \in DOMAIN l.files \cap held : f \in mine
        /\ \A f \in mine : t[f].parent = Under(l.files[f])
        /\ \A n \in above : t[n].parent = Under(l.folders[n].parent) /\ t[n].name = l.folders[n].name

\* Once a layout is applied the factory shows it: every asset it has is in the folder the
\* layout says, under folders of the layout's names and nesting, whatever was torn before.
\* No platform folder is without an asset (store/fs.go:809), but for what is left of a
\* circle, which no layout clears.
LayoutTaken ==
    given # None =>
      /\ Shows(ftree, given)
      /\ ~torn => \A n \in PlatformNodes(ftree) \cap Folders :
                    \E f \in DOMAIN ftree \cap Files : Within(ftree, ftree[f].parent, n)

\* People at the factory change nothing of the platform's tree.
PlatformReadOnly ==
    [][AtFactory =>
         /\ PlatformNodes(ftree') = PlatformNodes(ftree)
         /\ \A n \in PlatformNodes(ftree) : ftree'[n] = ftree[n]]_syncVars

\* With nothing under way anywhere, the factory shows the platform's tree as it is
\* (docs/specs: after a move or a rename the layout is pushed to bring factories in line).
Settled == fetched = {} /\ mail = <<>> /\ \A a \in Admins : pedit[a] = None
SettledMirrors == Settled /\ given # None => Shows(ftree, PlatformFSLayout(ptree))

=============================================================================
