------------------------------ MODULE MCAssets ------------------------------
(***************************************************************************)
(* Libraries of assets, one part for each initial state: the governance of *)
(* a factory's own (FactoryAssets), and the import of an old pad's files by*)
(* a factory (LegacyImport) and by the WAN (PlatformImport).  The parts    *)
(* stand still but for the one chosen; the imports share their variables.  *)
(***************************************************************************)
EXTENDS FactoryAssets, PlatformImport

VARIABLE part

assetVars == <<part, factoryVars, importVars>>

Order == <<"a", "pa">>
TrimOf == [p \in {"a", "pa"} |-> "a"]
NumbersOf == <<"(1)", "(2)", "(3)", "(4)", "(5)", "(6)">>
PiecesOf == {"a", "p", "n", "j1", "j2", "1", "2", "multi", "tbar"} \cup Range(NumbersOf)
SlotOf == [p \in {"a", "pa"} |-> p]

\* Two of the names are the same when they are cut to two pieces.
SpelledOf ==
    [s \in {"a", "pa", "n", "j1", "j2", "long1", "long2"} |->
        CASE s = "pa" -> <<"p", "a">>
          [] s = "long1" -> <<"n", "n", "1">>
          [] s = "long2" -> <<"n", "n", "2">>
          [] OTHER -> <<s>>]

File(base, text, state, mode) == [base |-> base, text |-> text, state |-> state, mode |-> mode]

\* Two projects of one name.
TwoProjects(base, mode, items) ==
    [j \in 1..2 |-> [path |-> <<"j1", "j2">>[j], base |-> base, mode |-> mode, items |-> items]]

\* Two files of any names, one perhaps refused or broken, and a library without or with
\* one process.
BatchInit ==
    \E base \in [FilePaths -> {"n", "a"}], other \in Texts, bad \in {"good", "unfit", "broken"},
       mode \in Modes, items \in {s \in SUBSET Items : Cardinality(s) \in 1..MaxItems},
       shelved \in {<<>>} \cup {<<NewProcess(Name("n", <<>>), w, Normal(t), "available")>> :
                                 w \in ImportWelds, t \in Texts} :
      LET text == [p \in FilePaths |-> IF p = "a" THEN "x" ELSE other]
      IN  ImportStart([p \in FilePaths |->
                         File(base[p], text[p], IF text[p] = "y" THEN bad ELSE "good", mode)],
                      TwoProjects("n", mode, items), shelved)

\* Long names; the library may have one from before there was a limit.
LongNamesInit ==
    \E base \in [FilePaths -> {"long1", "long2"}], other \in Texts,
       mode \in Modes, items \in {s \in SUBSET Items : Cardinality(s) \in 1..MaxItems},
       shelved \in {<<>>} \cup {<<NewProcess(n, "single", Normal("y"), "available")>> :
                                 n \in {Name("long1", <<>>), <<"n", "n">>}} :
      LET text == [p \in FilePaths |-> IF p = "a" THEN "x" ELSE other]
      IN  ImportStart([p \in FilePaths |->
                         File(base[p], text[p], "good", mode)],
                      TwoProjects("long1", mode, items), shelved)

AssetsInit ==
    /\ part \in {"governance", "import", "platform import"}
    /\ FactoryInit
    \* One start is enough for the parts that stand still.
    /\ part # "governance" => used = {}
    /\ CASE part = "import" -> BatchInit
         [] part = "platform import" -> LongNamesInit
         [] OTHER -> ImportStart([p \in FilePaths |-> File("n", "x", "good", "keep")], <<>>, <<>>)

AssetsNext ==
    \/ part = "governance" /\ FactoryNext /\ UNCHANGED <<part, importVars>>
    \/ part = "import" /\ ImportNext /\ UNCHANGED <<part, factoryVars>>
    \/ part = "platform import" /\ PlatformImportNext /\ UNCHANGED <<part, factoryVars>>

AssetsSpec == AssetsInit /\ [][AssetsNext]_assetVars

\* FactoryAssets only compares weld kinds; the imports name theirs.
Symmetry == Permutations(Welds)
=============================================================================
