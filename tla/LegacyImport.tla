----------------------------- MODULE LegacyImport -----------------------------
(***************************************************************************)
(* Taking an old pad's files into a factory's library                      *)
(* (factory/server: service/legacy.go).  A batch holds process files and   *)
(* projects that refer to them by path.  Processes come first, in the order*)
(* of their paths, one copy for each weld kind the projects use them in;   *)
(* then the projects, their paths replaced by identities.  Names decide    *)
(* what is created, overwritten or taken as it is, and the importer goes by*)
(* the library as it was when the import began.  The same batch may be     *)
(* imported again, and others edit the library in between.                 *)
(*                                                                         *)
(* One level of the library is modelled.  A name is a sequence of pieces:  *)
(* a stem, perhaps the suffix of a weld kind and a serial number; content  *)
(* is its text, and whether the template has normalised it.                *)
(***************************************************************************)
EXTENDS Naturals, FiniteSets, Sequences, SequencesExt

CONSTANTS
    FileOrder,   \* the paths of the process files, sorted
    Trim,        \* each path without the prefix "processes/"
    Slot,        \* gap folder and role of the paths that have one
    Pieces,      \* what names are made of
    Spelled,     \* the pieces a path without its extension, or a name, is spelled with
    Numbers,     \* bound: the serial numbers a name can take, from the second on
    Texts,       \* contents of files
    ImportWelds, \* weld kinds of the projects
    Modes,       \* what to do with a name that exists
    MaxItems,    \* bound: items of the first project
    MaxMeddling, \* bound: edits by others
    MaxImports   \* bound: times the batch is imported

VARIABLES
    shelf,    \* the rows of the level, in order of creation; an identity is an index
    batch,    \* the files and the projects
    imp,      \* the import under way
    foreign,  \* history: rows somebody else has edited
    made,     \* history: processes created by a repeated import
    imports   \* imports begun

importVars == <<shelf, batch, imp, foreign, made, imports>>

FilePaths == Range(FileOrder)
Bands == "bands"    \* the reference of a T item that lacks its gap bands
Stems == DOMAIN Spelled

\* legacyWeldOrder
WeldOrder == <<"single", "multi", "tbar">>

ASSUME LegacyImportConstants ==
    /\ FileOrder \in Seq(Stems)
    /\ \A i, j \in DOMAIN FileOrder : FileOrder[i] = FileOrder[j] => i = j
    /\ Spelled \in [Stems -> Seq(Pieces)]
    /\ Numbers \in Seq(Pieces) /\ {"multi", "tbar"} \subseteq Pieces
    /\ ImportWelds \subseteq {"single", "multi", "tbar"}
    /\ Bands \notin FilePaths

\* Where a file comes in the order of their paths.
Place(p) == CHOOSE j \in DOMAIN FileOrder : FileOrder[j] = p

\* weldKindSuffix
Suffix(weld) == IF weld \in {"multi", "tbar"} THEN <<weld>> ELSE <<>>

Name(stem, suffix) == Spelled[stem] \o suffix

\* A name may have to take a serial number, from 2 on.
Serials == 2..Len(Numbers)
Serial(s) == <<Numbers[s]>>
IsNumbered(n) == Last(n) \in Range(Numbers)

\* importPathLabel: the path without its extension, and the suffix.
PathLabel(p, suffix) == Name(p, suffix)

Raw(text) == <<text, "raw">>
Normal(text) == <<text, "normal">>

\* The rows of the library.
WeldKinds == Range(WeldOrder)
RowContents == {Raw(t) : t \in Texts \cup {"theirs"}} \cup {Normal(t) : t \in Texts} \cup {<<>>}
Refs == [path : FilePaths, weld : WeldKinds, id : Nat]
AssetRow == [kind : {"process", "project"}, name : Seq(Pieces), weld : WeldKinds,
             content : RowContents, status : {"draft", "available", "disabled"}, rev : Nat,
             refs : SUBSET Refs]

NewProcess(name, weld, content, status) ==
    [kind |-> "process", name |-> name, weld |-> weld, content |-> content,
     status |-> status, rev |-> 1, refs |-> {}]

Items == [weld : ImportWelds, ref : FilePaths]
         \cup {[weld |-> w, ref |-> Bands] : w \in ImportWelds \cap {"tbar"}}

\* state is "good", "unfit" (the template refuses the content) or "broken" (no JSON).
Files == [base : Stems, text : Texts, state : {"good", "unfit", "broken"}, mode : Modes]

\* Projects are of one weld kind or of several, and have items.
ProjectFiles == [path : Stems, base : Stems, mode : Modes, items : (SUBSET Items) \ {{}}]

\* A batch and a library to begin with.
ImportStart(fs, projects, rows) ==
    /\ batch = [files |-> fs, projects |-> projects]
    /\ shelf = rows
    /\ imp = [at |-> "idle"] /\ foreign = {} /\ made = {} /\ imports = 0

-----------------------------------------------------------------------------
(* Paths: what a reference in a project means. *)

\* legacyAliases
LegacyAliases(p) == {p, Trim[p]}

\* legacyLookupKeys
LookupKeys(ref) == <<ref, Trim[ref]>>

\* The first of the keys that known has, as a set of at most one.
FirstIn(keys, known) ==
    {keys[i] : i \in {j \in DOMAIN keys : /\ keys[j] \in known
                                        /\ \A h \in 1..(j - 1) : keys[h] \notin known}}

Spelling(ref, known) == FirstIn(LookupKeys(ref), known)

\* sortLegacyFiles, without those that hold no JSON; their order is that of Place.
Sound == {p \in FilePaths : batch.files[p].state # "broken"}

\* resolveLegacyAlias: the file a reference means; of two with one alias, the later.
Meant(ref) ==
    LET alias(k) == {p \in Sound : k \in LegacyAliases(p)}
    IN  {p \in Sound : \E k \in Spelling(ref, UNION {LegacyAliases(q) : q \in Sound}) :
                         p \in alias(k) /\ \A q \in alias(k) : Place(q) <= Place(p)}

\* legacyBandFiles: of the files of one gap folder and role, the last.
LastOfSlot ==
    {p \in Sound \cap DOMAIN Slot :
        \A q \in Sound \cap DOMAIN Slot : Slot[q] = Slot[p] => Place(q) <= Place(p)}

AllItems == UNION {batch.projects[j].items : j \in DOMAIN batch.projects}

\* scanLegacyUses: the weld kinds a file is used in.
Uses(p) == {i.weld : i \in {x \in AllItems : IF x.ref = Bands THEN p \in LastOfSlot
                                                            ELSE p \in Meant(x.ref)}}

\* legacyWeldOrder decides which of them comes first.
WeldPlace(w) == CHOOSE u \in DOMAIN WeldOrder : WeldOrder[u] = w

-----------------------------------------------------------------------------
(* The book of names (importBook). *)

\* importBook: rows that are not disabled; under a name, the newest.
Book ==
    LET ids == {i \in DOMAIN shelf : shelf[i].status # "disabled"}
        key(i) == <<shelf[i].kind, shelf[i].name>>
    IN  [rows |-> shelf,
         procs |-> {i \in ids : shelf[i].kind = "process"},
         names |-> [k \in {key(i) : i \in ids} |->
                      CHOOSE i \in ids : key(i) = k /\ \A j \in ids : key(j) = k => j <= i],
         claimed |-> {}]

\* claim, of a row under the name it has now.
Claim(b, i, row) ==
    [rows |-> [j \in DOMAIN b.rows \cup {i} |-> IF j = i THEN row ELSE b.rows[j]],
     procs |-> b.procs,
     names |-> [k \in DOMAIN b.names \cup {<<row.kind, row.name>>} |->
                  IF k = <<row.kind, row.name>> THEN i ELSE b.names[k]],
     claimed |-> b.claimed \cup {i}]

Named(b, kind) == {k[2] : k \in {x \in DOMAIN b.names : x[1] = kind}}

\* A plausible slip: only the library's names count, not what the batch made of them.
NobodyTook(b, kind) == {}

\* takenByBatch, of all names.
Taken(b, kind) == {n \in Named(b, kind) : b.names[<<kind, n>>] \in b.claimed}

\* batchFreeName and uniqueImportName: the label of the path, else its first serial
\* number that nobody has; one name, or none when the bound is met.
Elsewhere(n, label, busy) ==
    IF label # n /\ label \notin busy THEN {label}
    ELSE {label \o Serial(s) : s \in {t \in Serials :
            /\ label \o Serial(t) \notin busy
            /\ \A r \in 2..(t - 1) : label \o Serial(r) \in busy}}

\* A plausible slip: a name is looked for as it is written.
RankAsWritten(p, base, want, n) == {i \in 1..2 : <<PathLabel(p, <<>>), Name(base, <<>>)>>[i] = n}

\* importCandidates and candidateRank: the path's label, the file's name, both with the
\* suffix; then the same with a serial number.  At most one rank.
Rank(p, base, want, n) ==
    LET sfx == Suffix(want)
        cands == <<PathLabel(p, <<>>), Name(base, <<>>), PathLabel(p, sfx), Name(base, sfx)>>
        exact == {i \in 1..4 : cands[i] = n}
        numbered == {4 + i : i \in {j \in 1..4 : IsNumbered(n) /\ cands[j] = Front(n)}}
        ranks == IF exact # {} THEN exact ELSE numbered
    IN  {i \in ranks : \A k \in ranks : i <= k}

\* importDigests
Sums(f) == {Raw(f.text)} \cup (IF f.state = "good" THEN {Normal(f.text)} ELSE {})

\* sameContent: the process of the library best named for this file that has its
\* content, its weld kind, and no other path of the batch; at most one.
SameContent(b, p, want) ==
    LET f == batch.files[p]
        fit == {i \in b.procs \ b.claimed :
                  /\ b.rows[i].status = "available"
                  /\ want # "" => b.rows[i].weld = want
                  /\ b.rows[i].content \in Sums(f)}
        ranked == UNION {{<<r, i>> : r \in Rank(p, f.base, want, b.rows[i].name)} : i \in fit}
    IN  {x[2] : x \in {y \in ranked : \A z \in ranked : y[1] < z[1] \/ (y[1] = z[1] /\ y[2] >= z[2])}}

-----------------------------------------------------------------------------
(* The index of what was taken in (pathIndex). *)

\* add
Add(index, p, weld, i) == Append(index, [path |-> p, weld |-> weld, id |-> i])

\* lookup: under a spelling, the identity entered last.
Lookup(index, ref, weld) ==
    LET mine == {j \in DOMAIN index : index[j].weld = weld}
        alias(k) == {j \in mine : k \in LegacyAliases(index[j].path)}
    IN  {index[j].id : j \in {h \in mine :
            \E k \in Spelling(ref, UNION {LegacyAliases(index[g].path) : g \in mine}) :
               h \in alias(k) /\ \A g \in alias(k) : g <= h}}

\* gapBands: for each gap folder and role the process entered last for T work.
GapBands(index) ==
    LET tbar == {j \in DOMAIN index : index[j].weld = "tbar" /\ index[j].path \in DOMAIN Slot}
    IN  {index[j] : j \in {h \in tbar :
            \A g \in tbar : Slot[index[g].path] = Slot[index[h].path] => g <= h}}

-----------------------------------------------------------------------------
(* ImportLegacy *)

\* A sound file is done once for each kind it is used in, the first time under its own
\* name; a file nobody refers to once, of no kind.
Planned(p) ==
    LET us == Uses(p)
        own(w) == \A v \in us : WeldPlace(w) <= WeldPlace(v)
    IN  IF us = {} THEN {[path |-> p, weld |-> "", suffix |-> <<>>]}
        ELSE {[path |-> p, weld |-> w, suffix |-> IF own(w) THEN <<>> ELSE Suffix(w)] : w \in us}

Todo == UNION {Planned(p) : p \in Sound}

\* What of it comes next: files in the order of their paths, kinds in that of
\* legacyWeldOrder.
Upcoming(todo) ==
    {e \in todo : \A x \in todo \ {e} :
        \/ Place(e.path) < Place(x.path)
        \/ e.path = x.path /\ WeldPlace(e.weld) < WeldPlace(x.weld)}

ImportBegins ==
    /\ imp.at = "idle" /\ imports < MaxImports
    /\ imp' = [at |-> "files", book |-> Book, index |-> <<>>, todo |-> Todo,
               next |-> 1, kept |-> {}, fresh |-> {}, draft |-> 0]
    /\ imports' = imports + 1
    /\ UNCHANGED <<shelf, batch, foreign, made>>

\* indexKind
IndexWeld(e, row) == IF e.weld # "" THEN e.weld ELSE row.weld

\* The file stands for row i from now on.
Stands(e, i, row, weld, kept) ==
    imp' = [imp EXCEPT !.book = Claim(imp.book, i, row), !.todo = @ \ {e}, !.draft = 0,
                       !.index = Add(@, e.path, weld, i),
                       !.kept = IF kept THEN @ \cup {<<e.path, weld>>} ELSE @]

Rejected(e) == imp' = [imp EXCEPT !.todo = @ \ {e}, !.draft = 0]

\* overwriteImported, of a process: the row must be as the book has it.  A draft is
\* published in a transaction of its own.
OverwriteProcess(e, i) ==
    LET row == [shelf[i] EXCEPT !.content = Raw(batch.files[e.path].text), !.rev = @ + 1]
    IN  IF shelf[i].rev # imp.book.rows[i].rev \/ shelf[i].status = "disabled"
        THEN Rejected(e) /\ UNCHANGED <<shelf, made>>
        ELSE /\ shelf' = [shelf EXCEPT ![i] = row]
             /\ IF row.status = "draft" THEN imp' = [imp EXCEPT !.draft = i]
                ELSE Stands(e, i, row, IndexWeld(e, row), FALSE)
             /\ UNCHANGED made

\* CreateProcess, as a draft and of the kind it is used in.
CreateImported(e, n) ==
    LET f == batch.files[e.path]
        weld == IF e.weld = "" THEN "single" ELSE e.weld
        i == Len(shelf) + 1
    IN  IF f.state = "unfit" THEN Rejected(e) /\ UNCHANGED <<shelf, made>>
        ELSE /\ shelf' = Append(shelf, NewProcess(n, weld, Normal(f.text), "draft"))
             /\ imp' = [imp EXCEPT !.draft = i]
             /\ made' = IF imports > 1 THEN made \cup {i} ELSE made

\* importLegacyProcess
ImportLegacyProcess ==
    /\ imp.at = "files" /\ imp.draft = 0
    /\ \E e \in Upcoming(imp.todo) :
         LET b == imp.book
             f == batch.files[e.path]
             label == PathLabel(e.path, e.suffix)
             n0 == Name(f.base, e.suffix)
             own == IF n0 \in Taken(b, "process")
                    THEN Elsewhere(n0, label, Taken(b, "process")) ELSE {n0}
             same == SameContent(b, e.path, e.weld)
             Anew(n) == \E new \in Elsewhere(n, label, Named(b, "process")) : CreateImported(e, new)
         IN  IF same # {}
             THEN /\ \E i \in same : Stands(e, i, b.rows[i], IndexWeld(e, b.rows[i]), FALSE)
                  /\ UNCHANGED <<shelf, made>>
             ELSE \E n \in own :
                    IF n \notin Named(b, "process") THEN CreateImported(e, n)
                    ELSE LET i == b.names[<<"process", n>>]
                         IN  IF e.weld # "" /\ b.rows[i].weld # e.weld THEN Anew(n)
                             ELSE IF f.mode = "overwrite" THEN OverwriteProcess(e, i)
                             ELSE IF f.mode = "rename" THEN Anew(n)
                             ELSE /\ Stands(e, i, b.rows[i], IndexWeld(e, b.rows[i]), TRUE)
                                  /\ UNCHANGED <<shelf, made>>
    /\ UNCHANGED <<batch, foreign, imports>>

\* PublishAsset, unless somebody has written the draft since.
PublishImported ==
    /\ imp.at = "files" /\ imp.draft # 0
    /\ \E e \in Upcoming(imp.todo) :
         LET i == imp.draft
             row == [shelf[i] EXCEPT !.status = "available", !.rev = @ + 1]
         IN  IF i \in foreign \/ shelf[i].status # "draft"
             THEN Rejected(e) /\ UNCHANGED shelf
             ELSE /\ shelf' = [shelf EXCEPT ![i] = row]
                  /\ Stands(e, i, row, IndexWeld(e, row), FALSE)
    /\ UNCHANGED <<batch, foreign, made, imports>>

FilesDone ==
    /\ imp.at = "files" /\ imp.todo = {}
    /\ imp' = [imp EXCEPT !.at = "projects"]
    /\ UNCHANGED <<shelf, batch, foreign, made, imports>>

-----------------------------------------------------------------------------
(* Projects *)

\* rewriteLegacyProject, one item: the identity of its process, of the item's kind, or
\* those of the bands; none when the path stands for nothing.
Rewritten(i) ==
    IF i.ref = Bands
    THEN {[path |-> e.path, weld |-> "tbar", id |-> e.id] : e \in GapBands(imp.index)}
    ELSE {[path |-> p, weld |-> i.weld, id |-> x] :
            p \in Meant(i.ref), x \in Lookup(imp.index, i.ref, i.weld)}

\* importedProjectDeps: one kind throughout, every process available and of that kind.
ImportedDeps(q) ==
    LET refs == UNION {Rewritten(i) : i \in q.items}
    IN  /\ \A i \in q.items : Rewritten(i) # {}
        /\ \A i, j \in q.items : i.weld = j.weld
        /\ \A r \in refs : shelf[r.id].status = "available" /\ shelf[r.id].weld = r.weld

ProjectRow(n, q, status, rev) ==
    [kind |-> "project", name |-> n, weld |-> (CHOOSE i \in q.items : TRUE).weld,
     content |-> <<>>, status |-> status, rev |-> rev,
     refs |-> UNION {Rewritten(i) : i \in q.items}]

NextProject == imp' = [imp EXCEPT !.next = @ + 1]
TakenIn(i, row) ==
    imp' = [imp EXCEPT !.next = @ + 1, !.book = Claim(imp.book, i, row), !.fresh = @ \cup {i}]

\* A project of the batch: passed over, overwritten or inserted and published; that
\* nobody writes the draft in between is left to the processes.
ImportProject ==
    /\ imp.at = "projects" /\ imp.next <= Len(batch.projects)
    /\ LET q == batch.projects[imp.next]
           b == imp.book
           label == PathLabel(q.path, <<>>)
           n0 == Name(q.base, <<>>)
           own == IF n0 \in Taken(b, "project")
                  THEN Elsewhere(n0, label, Taken(b, "project")) ELSE {n0}
           InsertProject(n) ==
               LET row == ProjectRow(n, q, "available", 2)
               IN  shelf' = Append(shelf, row) /\ TakenIn(Len(shelf) + 1, row)
       IN  \E n \in own :
             LET known == n \in Named(b, "project")
                 cur == b.names[<<"project", n>>]
             IN  IF known /\ q.mode = "keep"
                 THEN /\ imp' = [imp EXCEPT !.next = @ + 1, !.book = Claim(b, cur, b.rows[cur])]
                      /\ UNCHANGED shelf
                 ELSE IF ~ImportedDeps(q) THEN NextProject /\ UNCHANGED shelf
                 ELSE IF ~known THEN InsertProject(n)
                 ELSE IF q.mode = "rename"
                 THEN \E new \in Elsewhere(n, label, Named(b, "project")) : InsertProject(new)
                 ELSE IF shelf[cur].rev # b.rows[cur].rev THEN NextProject /\ UNCHANGED shelf
                      ELSE LET row == ProjectRow(n, q, "available", shelf[cur].rev + 1)
                           IN  shelf' = [shelf EXCEPT ![cur] = row] /\ TakenIn(cur, row)
    /\ UNCHANGED <<batch, foreign, made, imports>>

ImportEnds ==
    /\ imp.at = "projects" /\ imp.next > Len(batch.projects)
    /\ imp' = [at |-> "idle"]
    /\ UNCHANGED <<shelf, batch, foreign, made, imports>>

\* Somebody else changes the content of a process or disables it; between two imports is
\* as at the end of the first.
Meddle ==
    /\ imp.at # "idle" /\ Cardinality(foreign) < MaxMeddling
    /\ \E i \in DOMAIN shelf \ foreign :
         /\ shelf[i].kind = "process" /\ shelf[i].status # "disabled"
         /\ foreign' = foreign \cup {i}
         /\ \/ shelf' = [shelf EXCEPT ![i].content = Raw("theirs"), ![i].rev = @ + 1]
            \/ /\ shelf[i].status = "available"
               /\ shelf' = [shelf EXCEPT ![i].status = "disabled", ![i].rev = @ + 1]
    /\ UNCHANGED <<batch, imp, made, imports>>

ImportNext ==
    \/ ImportBegins \/ ImportLegacyProcess \/ PublishImported \/ FilesDone
    \/ ImportProject \/ ImportEnds \/ Meddle

\* Any batch, and any library.
ImportInit ==
    \E fs \in [FilePaths -> Files], projects \in Seq(ProjectFiles), rows \in Seq(AssetRow) :
       ImportStart(fs, projects, rows)

ImportSpec == ImportInit /\ [][ImportNext]_importVars

-----------------------------------------------------------------------------
(* Properties *)

\* What a project of this import refers to is the process that was taken in for the file
\* its path means, of the kind the project needs, with the content of that file: neither
\* two files of one batch nor two kinds of one file end up under one identity.  Excepted
\* is a file for which the importer was told to keep what had its name, and a process
\* others have edited.  (Names, labels and serial numbers cross; service/legacy.go:339.)
RefsAreFiles ==
    imp.at # "idle" =>
      \A q \in imp.fresh : \A r \in shelf[q].refs :
        \A e \in Range(imp.index) : e.path = r.path /\ e.weld = r.weld =>
          /\ r.id = e.id
          /\ \/ shelf[r.id].content[1] = batch.files[r.path].text
             \/ <<r.path, r.weld>> \in imp.kept \/ r.id \in foreign
          /\ shelf[r.id].weld = r.weld

\* Importing a batch again makes no copies: each of its files finds the process it
\* became, whatever name it had to take (service/legacy.go:347), if nobody has edited it.
NoCopies ==
    /\ foreign = {}
    /\ \A p \in FilePaths : batch.files[p].state # "unfit"
    /\ \A p, q \in FilePaths : p # q => batch.files[p].text # batch.files[q].text
    => made = {}

\* The same of a batch with a file the template refuses.
NoCopiesAtAll == foreign = {} => made = {}

\* A reference to a file that was refused is not given to another file.
RefusedNeverUsed ==
    imp.at # "idle" =>
      \A q \in imp.fresh : \A r \in shelf[q].refs :
        \E e \in Range(imp.index) : e.path = r.path /\ e.weld = r.weld
=============================================================================
