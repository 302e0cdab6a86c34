---------------------------- MODULE PlatformImport ----------------------------
(***************************************************************************)
(* The WAN's import of an old pad's files into the platform's library      *)
(* (global/server: service/legacy.go).  It reads a batch as the factory's  *)
(* import does and differs in its names: one that is too long is cut       *)
(* before its suffix and its serial number, so that different names become *)
(* one, while the library may hold names from before there was a limit.    *)
(* Every name is therefore looked for as it was meant and as it is cut.    *)
(***************************************************************************)
EXTENDS LegacyImport

CONSTANT NameMax    \* most pieces a name may have

ASSUME NameMaxAssumption == NameMax \in Nat \ {0}

-----------------------------------------------------------------------------
(* Names *)

\* clipAssetName: the tail is kept whole.
ClipAssetName(n, tail) ==
    (IF Len(n) + Len(tail) > NameMax /\ Len(tail) <= NameMax
     THEN SubSeq(n, 1, NameMax - Len(tail)) ELSE n) \o tail

\* importPathLabel, and rawPathLabel: as it would be without a limit.
ImportPathLabel(p, suffix) == ClipAssetName(Spelled[p], suffix)
RawPathLabel(p, suffix) == Spelled[p] \o suffix

\* find: the row that has the first of the names; at most one.
Find(b, kind, names) ==
    {b.names[<<kind, n>>] : n \in FirstIn(names, Named(b, kind))}

\* importNameTaken: by one of the rows given, all or those of the batch.
ImportNameTaken(b, kind, names, rows) == Find(b, kind, names) \cap rows # {}

TakenByBatch(b, kind, names) == ImportNameTaken(b, kind, names, b.claimed)

\* Names are a pair, as meant and as cut.  The label of the path, else its first serial
\* number, that none of the rows has; none when the bound is met.
Anew(b, kind, names, p, suffix, rows) ==
    LET busy(ns) == ImportNameTaken(b, kind, ns, rows)
        label == <<RawPathLabel(p, suffix), ImportPathLabel(p, suffix)>>
        root == IF label[2] # names[2] THEN label ELSE names
        numbered(s) == <<root[1] \o Serial(s), ClipAssetName(root[2], Serial(s))>>
    IN  IF label[2] # names[2] /\ ~busy(label) THEN {label}
        ELSE {numbered(s) : s \in {t \in Serials :
                ~busy(numbered(t)) /\ \A r \in 2..(t - 1) : busy(numbered(r))}}

BatchFreeName(b, kind, names, p, suffix) == Anew(b, kind, names, p, suffix, b.claimed)

UniqueImportName(b, kind, names, p, suffix) ==
    {ns[2] : ns \in Anew(b, kind, names, p, suffix, DOMAIN b.rows)}

\* The names to go by: others if a path of the batch has them.
OwnNames(b, kind, base, p, suffix) ==
    LET names == <<Name(base, suffix), ClipAssetName(Spelled[base], suffix)>>
    IN  IF TakenByBatch(b, kind, names) THEN BatchFreeName(b, kind, names, p, suffix)
        ELSE {names}

\* importCandidates
ImportCandidates(p, base, want) ==
    LET sfx == Suffix(want)
        bases == <<Spelled[p], Spelled[base]>>
    IN  <<bases[1], ClipAssetName(bases[1], <<>>), bases[2], ClipAssetName(bases[2], <<>>)>>
        \o (IF sfx = <<>> THEN <<>>
            ELSE <<ClipAssetName(bases[1], sfx), ClipAssetName(bases[2], sfx)>>)

\* candidateRank: a name with a serial number comes after all without; at most one.
CandidateRank(cands, n) ==
    LET exact == {i \in DOMAIN cands : cands[i] = n}
        tail == <<Last(n)>>
        numbered == {Len(cands) + i : i \in
                       {j \in DOMAIN cands : IsNumbered(n) /\
                          n \in {ClipAssetName(cands[j], tail), cands[j] \o tail}}}
        ranks == IF exact # {} THEN exact ELSE numbered
    IN  {r \in ranks : \A x \in ranks : r <= x}

\* sameContent: the best named process with this content that no path of the batch has;
\* of two that are named as well, the newer.
PlatformSame(b, p, want) ==
    LET f == batch.files[p]
        cands == ImportCandidates(p, f.base, want)
        fit == {i \in b.procs \ b.claimed :
                  /\ b.rows[i].status = "available"
                  /\ want # "" => b.rows[i].weld = want
                  /\ b.rows[i].content \in Sums(f)}
        ranked == UNION {{<<r, i>> : r \in CandidateRank(cands, b.rows[i].name)} : i \in fit}
    IN  {x[2] : x \in {y \in ranked : \A z \in ranked : y[1] < z[1] \/ (y[1] = z[1] /\ y[2] >= z[2])}}

-----------------------------------------------------------------------------
(* ImportLegacy of the WAN *)

\* importLegacyProcess
ImportPlatformProcess ==
    /\ imp.at = "files" /\ imp.draft = 0
    /\ \E e \in Upcoming(imp.todo) :
         LET b == imp.book
             f == batch.files[e.path]
             same == PlatformSame(b, e.path, e.weld)
         IN  \/ /\ \E i \in same : Stands(e, i, b.rows[i], IndexWeld(e, b.rows[i]), FALSE)
                /\ UNCHANGED <<shelf, made>>
             \/ /\ same = {}
                /\ \E names \in OwnNames(b, "process", f.base, e.path, e.suffix) :
                     LET cur == Find(b, "process", names)
                         otherKind == \E i \in cur : e.weld # "" /\ b.rows[i].weld # e.weld
                     IN  \/ cur = {} /\ CreateImported(e, names[2])
                         \/ /\ cur # {} /\ (otherKind \/ f.mode = "rename")
                            /\ \E n \in UniqueImportName(b, "process", names, e.path, e.suffix) :
                                  CreateImported(e, n)
                         \/ /\ ~otherKind /\ f.mode = "overwrite"
                            /\ \E i \in cur : OverwriteProcess(e, i)
                         \/ /\ ~otherKind /\ f.mode = "keep"
                            /\ \E i \in cur : Stands(e, i, b.rows[i], IndexWeld(e, b.rows[i]), TRUE)
                            /\ UNCHANGED <<shelf, made>>
    /\ UNCHANGED <<batch, foreign, imports>>

\* importedProjectDeps: one kind throughout, every reference a process, available and of
\* that kind.
PlatformDeps(q) ==
    /\ \A i \in q.items : Rewritten(i) # {}
    /\ Cardinality({i.weld : i \in q.items}) = 1
    /\ \A r \in UNION {Rewritten(i) : i \in q.items} :
         shelf[r.id].status = "available" /\ shelf[r.id].weld = r.weld

\* insertImportedProject, and its publication.
InsertImported(q, n) ==
    LET row == ProjectRow(n, q, "available", 2)
    IN  shelf' = Append(shelf, row) /\ TakenIn(Len(shelf) + 1, row)

\* overwriteImported, of a project: its name stays.
OverwriteProject(q, i) ==
    LET row == ProjectRow(shelf[i].name, q, "available", shelf[i].rev + 1)
    IN  IF shelf[i].rev # imp.book.rows[i].rev THEN NextProject /\ UNCHANGED shelf
        ELSE shelf' = [shelf EXCEPT ![i] = row] /\ TakenIn(i, row)

ImportPlatformProject ==
    /\ imp.at = "projects" /\ imp.next <= Len(batch.projects)
    /\ LET q == batch.projects[imp.next]
           b == imp.book
       IN  \E names \in OwnNames(b, "project", q.base, q.path, <<>>) :
             LET cur == Find(b, "project", names)
             IN  \/ /\ q.mode = "keep" /\ UNCHANGED shelf
                    /\ \E i \in cur :
                         imp' = [imp EXCEPT !.next = @ + 1, !.book = Claim(b, i, b.rows[i])]
                 \/ /\ ~(cur # {} /\ q.mode = "keep") /\ ~PlatformDeps(q)
                    /\ NextProject /\ UNCHANGED shelf
                 \/ /\ q.mode = "overwrite" /\ PlatformDeps(q)
                    /\ \E i \in cur : OverwriteProject(q, i)
                 \/ /\ cur # {} /\ q.mode = "rename" /\ PlatformDeps(q)
                    /\ \E n \in UniqueImportName(b, "project", names, q.path, <<>>) :
                         InsertImported(q, n)
                 \/ cur = {} /\ PlatformDeps(q) /\ InsertImported(q, names[2])
    /\ UNCHANGED <<batch, foreign, made, imports>>

PlatformImportNext ==
    \/ ImportBegins \/ ImportPlatformProcess \/ PublishImported \/ FilesDone
    \/ ImportPlatformProject \/ ImportEnds \/ Meddle

PlatformImportSpec == ImportInit /\ [][PlatformImportNext]_importVars
=============================================================================
