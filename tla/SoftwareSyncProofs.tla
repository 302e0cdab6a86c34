------------------------- MODULE SoftwareSyncProofs -------------------------
(***************************************************************************)
(* The newest package of the WAN and the newest one a factory holds, for   *)
(* any number of versions, contents, administrators and faults: neither is *)
(* lost by a pruning decided earlier, the factory's can be read, and what  *)
(* the factory holds of the WAN's newest version are the WAN's bytes.      *)
(*                                                                         *)
(* All three rest on one fact: whatever is about to be taken away, or      *)
(* changed under a row, is below the newest version, and stays so because  *)
(* the newest version only moves up.                                       *)
(***************************************************************************)
EXTENDS SoftwareSync, FiniteSetTheorems, TLAPS

-----------------------------------------------------------------------------
(* The newest version of a table                                           *)

\* A finite set of naturals has a largest element: the sets of the elements above one of
\* its elements have a smallest, and that one is empty.
LEMMA LargestExists ==
  ASSUME NEW S \in SUBSET Nat, IsFiniteSet(S), S # {}
  PROVE  \E m \in S : \A w \in S : w <= m
<1> DEFINE Above(v) == {w \in S : w > v}
           T == {Above(v) : v \in S}
<1>1. T \subseteq FiniteSubsetsOf(S)
  <2>1. FiniteSubsetsOf(S) = SUBSET S
    BY FS_FiniteSubsetsOfFinite
  <2> QED
    BY <2>1
<1>2. IsWellFoundedOn(StrictSubsetOrdering(S), FiniteSubsetsOf(S))
  BY FS_StrictSubsetOrderingWellFounded
<1>3. T # {}
  OBVIOUS
<1>4. \E x \in T : \A y \in T : ~(<<y, x>> \in StrictSubsetOrdering(S))
  <2> HIDE DEF T
  <2> QED
    BY <1>1, <1>2, <1>3, WFMin
<1>5. PICK v \in S : \A y \in T : <<y, Above(v)>> \notin StrictSubsetOrdering(S)
  BY <1>4
<1>6. ASSUME NEW u \in S, u > v PROVE FALSE
  <2>1. Above(u) \subseteq Above(v) /\ Above(u) # Above(v)
    <3>1. u \in Above(v) /\ u \notin Above(u)
      BY <1>6
    <3>2. \A w \in S : w > u => w > v
      BY <1>6
    <3> QED
      BY <3>1, <3>2
  <2>2. <<Above(u), Above(v)>> \in StrictSubsetOrdering(S)
    BY <2>1 DEF StrictSubsetOrdering
  <2> QED
    BY <1>5, <2>2
<1>7. \A w \in S : w <= v
  BY <1>6
<1> QED
  BY <1>7

\* The versions a table has rows of are finitely many, and 0 is none of them.
LEMMA RowsFinite ==
  ASSUME NEW t
  PROVE  Rows(t) \in SUBSET Nat /\ IsFiniteSet(Rows(t)) /\ 0 \notin Rows(t)
BY ReleaseConstants, FS_Subset DEF Rows

\* The newest of them exists, unless there are none.
LEMMA NewestIsLargest ==
  ASSUME NEW t
  PROVE  /\ Newest(t) \in Nat
         /\ Rows(t) = {} => Newest(t) = 0
         /\ Rows(t) # {} => Newest(t) \in Rows(t)
         /\ \A w \in Rows(t) : w <= Newest(t)
<1>1. CASE Rows(t) = {}
  BY <1>1 DEF Newest
<1>2. CASE Rows(t) # {}
  <2>1. \E m \in Rows(t) : \A w \in Rows(t) : w <= m
    BY <1>2, RowsFinite, LargestExists
  <2>2. Newest(t) \in Rows(t) /\ \A w \in Rows(t) : w <= Newest(t)
    BY <1>2, <2>1 DEF Newest
  <2> QED
    BY <1>2, <2>2, RowsFinite
<1> QED
  BY <1>1, <1>2

\* Where no row at or above the newest goes away, the newest version moves up or stays.
LEMMA NewestGrows ==
  ASSUME NEW t, NEW u, Newest(t) # 0 => Newest(t) \in Rows(u)
  PROVE  Newest(u) >= Newest(t)
BY NewestIsLargest, RowsFinite

-----------------------------------------------------------------------------
(* The shelf of the WAN                                                    *)

Content == Contents \cup {NoRow}
CallSteps == {"end", "look", "again", "put", "insert", "notify", "unused", "drop",
              "row", "blob", "gone"}
PubCall == [pc : CallSteps, v : Versions \cup {0}, d : Content, max : Nat]

ShelfTypeOK ==
    /\ rel \in [Versions -> Content] /\ obj \subseteq Versions \X Contents
    /\ announced \subseteq Versions \X Contents
    /\ pub \in [Admins -> PubCall]

\* The steps of a publication that has bytes to write, or that wrote them.
Publishing == {"look", "again", "put", "insert", "notify"}

\* What a call in progress may rely on: what it prunes is below the newest release.
CallOK(m, newest) ==
    /\ m.pc # "end" => m.v \in Versions
    /\ m.pc \in Publishing => m.d \in Contents
    /\ m.pc \in {"row", "blob", "gone"} => m.v < newest

ShelfInv == ShelfTypeOK /\ \A a \in Admins : CallOK(pub[a], Newest(rel))

\* The newest release moves up or stays, and what is there at or above it stays.
ShelfMoves ==
    /\ Newest(rel') >= Newest(rel)
    /\ \A v \in Versions : v >= Newest(rel) => rel[v] \in {NoRow, rel'[v]}

\* To begin with nothing is being published.
LEMMA InitShelf == ReleaseInit => ShelfInv
<1> SUFFICES ASSUME ReleaseInit PROVE ShelfInv
  OBVIOUS
<1>1. Ended \in PubCall /\ Ended.pc = "end"
  BY DEF Ended, PubCall, CallSteps, Content
<1>2. rel \in [Versions -> Content]
  BY DEF ReleaseInit, Content
<1>3. \A v \in Rows(rel) : v \in Versions /\ rel[v] \in Contents
  BY <1>2 DEF Rows, Content
<1>4. obj \subseteq Versions \X Contents /\ announced \subseteq Versions \X Contents
  BY <1>3 DEF ReleaseInit
<1>5. pub = [a \in Admins |-> Ended]
  BY DEF ReleaseInit
<1>6. pub \in [Admins -> PubCall] /\ \A a \in Admins : pub[a].pc = "end"
  BY <1>1, <1>5
<1> QED
  BY <1>2, <1>4, <1>6 DEF ShelfInv, ShelfTypeOK, CallOK, Publishing

\* A call moves on to m; the rows at or above the newest release stay.
LEMMA CallMoves ==
  ASSUME ShelfInv, NEW a \in Admins, NEW m \in PubCall, pub' = [pub EXCEPT ![a] = m],
         rel' \in [Versions -> Content], obj' \subseteq Versions \X Contents,
         announced' \subseteq Versions \X Contents,
         \A v \in Versions : v >= Newest(rel) => rel[v] \in {NoRow, rel'[v]},
         CallOK(m, Newest(rel'))
  PROVE  ShelfInv' /\ ShelfMoves
<1>1. Newest(rel) # 0 => Newest(rel) \in Rows(rel')
  <2> SUFFICES ASSUME Newest(rel) # 0 PROVE Newest(rel) \in Rows(rel')
    OBVIOUS
  <2>1. Newest(rel) \in Versions /\ rel[Newest(rel)] # NoRow /\ Newest(rel) \in Nat
    BY NewestIsLargest DEF Rows
  <2>2. rel[Newest(rel)] \in {NoRow, rel'[Newest(rel)]}
    BY <2>1
  <2> QED
    BY <2>1, <2>2 DEF Rows
<1>2. Newest(rel') >= Newest(rel) /\ Newest(rel) \in Nat /\ Newest(rel') \in Nat
  BY <1>1, NewestGrows, NewestIsLargest
<1>3. ASSUME NEW b \in Admins PROVE CallOK(pub'[b], Newest(rel'))
  <2>1. CASE b = a
    BY <2>1 DEF ShelfInv, ShelfTypeOK
  <2>2. CASE b # a
    <3>1. pub'[b] = pub[b] /\ CallOK(pub[b], Newest(rel)) /\ pub[b] \in PubCall
      BY <2>2 DEF ShelfInv, ShelfTypeOK
    <3>2. pub[b].pc \in {"row", "blob", "gone"} => pub[b].v \in Nat
      BY <3>1, ReleaseConstants DEF CallOK, Publishing
    <3> QED
      BY <1>2, <3>1, <3>2 DEF CallOK, Publishing
  <2> QED
    BY <2>1, <2>2
<1>4. ShelfTypeOK'
  BY DEF ShelfInv, ShelfTypeOK
<1> QED
  BY <1>2, <1>3, <1>4 DEF ShelfInv, ShelfMoves

\* A publication that has ended asks nothing of the rows.
LEMMA EndedIsOK == Ended \in PubCall /\ \A n : CallOK(Ended, n)
BY DEF Ended, PubCall, CallSteps, Content, CallOK, Publishing

\* A call takes its next step: only its place in the call changes.
LEMMA NextStep ==
  ASSUME ShelfInv, NEW a \in Admins, NEW step \in CallSteps,
         NEW m, m = [pub[a] EXCEPT !.pc = step]
  PROVE  m \in PubCall /\ m.pc = step /\ m.v = pub[a].v /\ m.d = pub[a].d
<1>1. pub[a] \in PubCall
  BY DEF ShelfInv, ShelfTypeOK
<1> QED
  BY <1>1 DEF PubCall

\* The calls that leave the rows alone.
LEMMA RowsAlone ==
  ASSUME ShelfInv, NEW a \in Admins, NEW m \in PubCall, pub' = [pub EXCEPT ![a] = m],
         rel' = rel, obj' \subseteq Versions \X Contents, announced' \subseteq Versions \X Contents,
         CallOK(m, Newest(rel))
  PROVE  ShelfInv' /\ ShelfMoves
<1>1. /\ rel' \in [Versions -> Content]
      /\ \A v \in Versions : v >= Newest(rel) => rel[v] \in {NoRow, rel'[v]}
      /\ CallOK(m, Newest(rel'))
  BY DEF ShelfInv, ShelfTypeOK
<1> QED
  BY <1>1, CallMoves

\* A publication or a deletion that begins writes nothing yet.
LEMMA StartsMoveShelf ==
  ASSUME ShelfInv, NEW a \in Admins, NEW v \in Versions,
         DeleteKeep(a, v) \/ \E d \in Contents : PublishMax(a, v, d)
  PROVE  ShelfInv' /\ ShelfMoves
<1>1. UNCHANGED <<rel, obj, announced>> /\ ShelfTypeOK
  BY DEF DeleteKeep, PublishMax, ShelfInv
<1>2. CASE DeleteKeep(a, v)
  <2> DEFINE m == [pc |-> "row", v |-> v, d |-> NoRow, max |-> 0]
  <2>1. m \in PubCall /\ m.pc = "row" /\ m.v = v
    BY DEF PubCall, CallSteps, Content
  <2>2. v < Newest(rel)
    <3>1. v \in Rows(rel) /\ v # Newest(rel)
      BY <1>2 DEF DeleteKeep, Keep, Rows
    <3> QED
      BY <3>1, NewestIsLargest, RowsFinite
  <2>3. pub' = [pub EXCEPT ![a] = m]
    BY <1>2 DEF DeleteKeep
  <2> HIDE DEF m
  <2>4. CallOK(m, Newest(rel))
    BY <2>1, <2>2 DEF CallOK, Publishing
  <2> QED
    BY <1>1, <2>1, <2>3, <2>4, RowsAlone DEF ShelfTypeOK
<1>3. ASSUME NEW d \in Contents, PublishMax(a, v, d) PROVE ShelfInv' /\ ShelfMoves
  <2> DEFINE m == [pc |-> "look", v |-> v, d |-> d, max |-> Newest(rel)]
  <2>1. m \in PubCall /\ m.pc = "look" /\ m.v = v /\ m.d = d
    BY NewestIsLargest DEF PubCall, CallSteps, Content
  <2>2. pub' = [pub EXCEPT ![a] = m]
    BY <1>3 DEF PublishMax
  <2> HIDE DEF m
  <2>3. CallOK(m, Newest(rel))
    BY <2>1 DEF CallOK, Publishing
  <2> QED
    BY <1>1, <2>1, <2>2, <2>3, RowsAlone DEF ShelfTypeOK
<1> QED
  BY <1>2, <1>3

\* Publish and the blob of a pruning, up to the row.
LEMMA PublishMovesShelf ==
  ASSUME ShelfInv, NEW a \in Admins,
         \/ PublishLook(a) \/ PublishPut(a) \/ PublishFails(a) \/ UnusedLook(a)
         \/ UnusedDrop(a) \/ Notify(a) \/ DeleteBlob(a)
  PROVE  ShelfInv' /\ ShelfMoves
<1>1. pub[a] \in PubCall /\ CallOK(pub[a], Newest(rel)) /\ rel' = rel
  BY DEF ShelfInv, ShelfTypeOK, PublishLook, PublishPut, PublishFails, UnusedLook,
     UnusedDrop, Notify, DeleteBlob
<1>2. obj' \subseteq Versions \X Contents
  BY <1>1 DEF ShelfInv, ShelfTypeOK, CallOK, Publishing, PublishLook, PublishPut, PublishFails,
     UnusedLook, UnusedDrop, Notify, DeleteBlob
<1>3. announced' \subseteq Versions \X Contents
  BY <1>1 DEF ShelfInv, ShelfTypeOK, CallOK, Publishing, PublishLook, PublishPut, PublishFails,
     UnusedLook, UnusedDrop, Notify, DeleteBlob
<1>4. \/ Finish(a)
      \/ \E step \in CallSteps :
            /\ Goto(a, step)
            /\ step \in Publishing => pub[a].pc \in Publishing
            /\ step # "look"
            /\ step \in {"row", "blob", "gone"} => pub[a].pc \in {"row", "blob", "gone"}
            /\ step # "end" => pub[a].pc # "end"
  BY DEF PublishLook, PublishPut, PublishFails, UnusedLook, UnusedDrop, Notify, DeleteBlob,
     CallSteps, Publishing
<1>5. CASE Finish(a)
  BY <1>1, <1>2, <1>3, <1>5, EndedIsOK, RowsAlone DEF Finish
<1>6. ASSUME NEW step \in CallSteps, Goto(a, step),
             step \in Publishing => pub[a].pc \in Publishing,
             step # "look",
             step \in {"row", "blob", "gone"} => pub[a].pc \in {"row", "blob", "gone"},
             step # "end" => pub[a].pc # "end"
      PROVE  ShelfInv' /\ ShelfMoves
  <2> DEFINE m == [pub[a] EXCEPT !.pc = step]
  <2>1. m \in PubCall /\ m.pc = step /\ m.v = pub[a].v /\ m.d = pub[a].d
    BY NextStep
  <2>2. pub' = [pub EXCEPT ![a] = m]
    BY <1>6 DEF Goto
  <2> HIDE DEF m
  <2>3. CallOK(m, Newest(rel))
    BY <1>1, <1>6, <2>1 DEF CallOK, Publishing
  <2> QED
    BY <1>1, <1>2, <1>3, <2>1, <2>2, <2>3, RowsAlone
<1> QED
  BY <1>4, <1>5, <1>6

\* The row a pruning reads names the object it deletes.
LEMMA DeleteRowMovesShelf ==
  ASSUME ShelfInv, NEW a \in Admins, DeleteRow(a)
  PROVE  ShelfInv' /\ ShelfMoves
<1>1. /\ pub[a] \in PubCall /\ CallOK(pub[a], Newest(rel)) /\ pub[a].pc = "row"
      /\ UNCHANGED <<rel, obj, announced>> /\ ShelfTypeOK
  BY DEF ShelfInv, ShelfTypeOK, DeleteRow
<1>2. CASE Finish(a)
  BY <1>1, <1>2, EndedIsOK, RowsAlone DEF Finish, ShelfTypeOK
<1>3. CASE pub' = [pub EXCEPT ![a].pc = "blob", ![a].d = rel[pub[a].v]]
  <2> DEFINE d == rel[pub[a].v]
             m == [pub[a] EXCEPT !.pc = "blob", !.d = d]
  <2>1. d \in Content
    BY <1>1 DEF CallOK, Publishing, ShelfTypeOK
  <2> HIDE DEF d
  <2>2. m \in PubCall /\ m.pc = "blob" /\ m.v = pub[a].v
    BY <1>1, <2>1 DEF PubCall, CallSteps
  <2>3. pub' = [pub EXCEPT ![a] = m]
    BY <1>1, <1>3 DEF d, ShelfTypeOK
  <2> HIDE DEF m
  <2>4. CallOK(m, Newest(rel))
    BY <1>1, <2>2 DEF CallOK, Publishing
  <2> QED
    BY <1>1, <2>2, <2>3, <2>4, RowsAlone DEF ShelfTypeOK
<1> QED
  BY <1>2, <1>3 DEF DeleteRow

\* The rows change: an insertion finds no row, a pruning takes one below the newest.
LEMMA RowsMoveShelf ==
  ASSUME ShelfInv, NEW a \in Admins, PublishInsert(a) \/ DeleteGone(a)
  PROVE  ShelfInv' /\ ShelfMoves
<1>1. /\ pub[a] \in PubCall /\ CallOK(pub[a], Newest(rel)) /\ pub[a].v \in Versions
      /\ UNCHANGED <<obj, announced>> /\ ShelfTypeOK /\ pub[a].d \in Content
      /\ NoRow \in Content
  BY DEF ShelfInv, ShelfTypeOK, PublishInsert, DeleteGone, CallOK, Publishing, PubCall, Content
<1>2. CASE PublishInsert(a)
  <2> DEFINE step == IF rel'[pub[a].v] = pub[a].d THEN "notify" ELSE "unused"
             m == [pub[a] EXCEPT !.pc = step]
  <2>1. rel' = [rel EXCEPT ![pub[a].v] = IF @ = NoRow THEN pub[a].d ELSE @]
    BY <1>2 DEF PublishInsert, InsertSoftwareRelease
  <2>2. pub' = [pub EXCEPT ![a] = m] /\ step \in CallSteps /\ step \in {"notify", "unused"}
    BY <1>2 DEF PublishInsert, Goto, CallSteps
  <2> HIDE DEF step
  <2>3. m \in PubCall /\ m.pc = step /\ m.v = pub[a].v /\ m.d = pub[a].d
    BY <2>2, NextStep
  <2> HIDE DEF m
  <2>4. CallOK(m, Newest(rel'))
    BY <1>1, <1>2, <2>2, <2>3 DEF CallOK, Publishing, PublishInsert
  <2>5. rel' \in [Versions -> Content]
    BY <1>1, <2>1 DEF ShelfTypeOK
  <2>6. \A v \in Versions : rel[v] \in {NoRow, rel'[v]}
    BY <1>1, <2>1 DEF ShelfTypeOK
  <2> QED
    BY <1>1, <2>2, <2>3, <2>4, <2>5, <2>6, CallMoves DEF ShelfTypeOK
<1>3. CASE DeleteGone(a)
  <2>1. rel' = [rel EXCEPT ![pub[a].v] = NoRow] /\ pub' = [pub EXCEPT ![a] = Ended]
    BY <1>3 DEF DeleteGone, Finish
  <2>2. pub[a].v < Newest(rel) /\ pub[a].v \in Nat /\ Newest(rel) \in Nat
    BY <1>1, <1>3, NewestIsLargest, ReleaseConstants DEF CallOK, Publishing, DeleteGone
  <2>3. rel' \in [Versions -> Content]
    BY <1>1, <2>1 DEF ShelfTypeOK
  <2>4. \A v \in Versions : v >= Newest(rel) => rel[v] \in {NoRow, rel'[v]}
    <3> SUFFICES ASSUME NEW v \in Versions, v >= Newest(rel) PROVE rel'[v] = rel[v]
      OBVIOUS
    <3>1. v \in Nat
      BY ReleaseConstants
    <3>2. v # pub[a].v
      BY <2>2, <3>1
    <3> QED
      BY <1>1, <2>1, <3>2 DEF ShelfTypeOK
  <2> QED
    BY <1>1, <2>1, <2>3, <2>4, EndedIsOK, CallMoves DEF ShelfTypeOK
<1> QED
  BY <1>2, <1>3

\* No step of the WAN lowers the newest version, or changes a row not older than it.
LEMMA NextMovesShelf ==
  ASSUME ShelfInv, ReleaseNext \/ UNCHANGED wan
  PROVE  ShelfInv' /\ ShelfMoves
<1>1. CASE UNCHANGED wan
  <2>1. UNCHANGED <<rel, obj, pub, announced>>
    BY <1>1 DEF wan
  <2>2. ShelfInv'
    BY <2>1 DEF ShelfInv, ShelfTypeOK
  <2>3. ShelfMoves
    BY <2>1, NewestIsLargest DEF ShelfMoves
  <2> QED
    BY <2>2, <2>3
<1>2. CASE ReleaseNext
  BY <1>2, StartsMoveShelf, PublishMovesShelf, DeleteRowMovesShelf, RowsMoveShelf
     DEF ReleaseNext, Publish, Prune
<1> QED
  BY <1>1, <1>2

-----------------------------------------------------------------------------
(* What the factory holds                                                  *)

PullSteps == {"idle", "look", "ask", "body", "ingest", "again", "put", "insert"}
PullState == [pc : PullSteps, want : Content, body : Content]
PruneState == [pc : {"idle", "blob", "row"}, v : Versions \cup {0}]

HeldTypeOK ==
    /\ rep \in [Versions -> Content] /\ blob \in [Versions -> Content]
    /\ bad \in [Versions -> Content] /\ pull \in [Versions -> PullState]
    /\ prune \in PruneState /\ installed \in Nat /\ staged \in Nat
    /\ taken \subseteq Versions

\* What a download in progress may rely on: no other puts a row or an object in place.
PullOK(m, row) ==
    /\ m.pc \in {"ingest", "again", "put", "insert"} => m.body \in Contents
    /\ m.pc \in {"put", "insert"} => row = NoRow
    /\ m.pc = "again" => row \in {NoRow, m.body}

\* An object just put is there until the row is, unless another factory was at it.
PutOK ==
    \A v \in Versions : pull[v].pc = "insert" => blob[v] = pull[v].body \/ v \in taken

\* Unless another factory was at it, only below the newest row is an object missing, or
\* about to be.
BrokenIsOld ==
    /\ \A v \in Versions :
          rep[v] # NoRow /\ blob[v] # rep[v] => v < Newest(rep) \/ v \in taken
    /\ prune.pc # "idle" => prune.v \in Versions /\ prune.v < Newest(rep)

HeldInv ==
    HeldTypeOK /\ BrokenIsOld /\ PutOK /\ \A v \in Versions : PullOK(pull[v], rep[v])

\* From the newest release up the factory has nothing, or what the WAN has.
AsOffered ==
    \A v \in Versions : v >= Newest(rel) =>
        rep[v] \in {NoRow, rel[v]} /\ pull[v].body \in {NoRow, rel[v]}

SyncInv == ShelfInv /\ HeldInv /\ AsOffered

IdlePull == Idle \in PullState /\ Idle.pc = "idle" /\ Idle.body = NoRow

\* A pull that is not under way asks nothing of the factory's rows.
LEMMA IdleIsOK == IdlePull /\ \A row : PullOK(Idle, row)
BY DEF IdlePull, Idle, PullState, PullSteps, Content, PullOK

\* To begin with the factory has what the WAN has, or nothing, and pulls nothing.
LEMMA InitSync == Init => SyncInv
<1> SUFFICES ASSUME Init PROVE SyncInv
  OBVIOUS
<1>1. ShelfInv /\ rel \in [Versions -> Content]
  BY InitShelf DEF Init, ShelfInv, ShelfTypeOK
<1>2. /\ rep \in [Versions -> Content] /\ blob \in [Versions -> Content] /\ taken = {}
      /\ \A v \in Versions : rep[v] \in {NoRow, rel[v]}
      /\ \A v \in Versions : rep[v] # NoRow => blob[v] = rep[v]
  BY <1>1 DEF Init, Content
<1>3. prune \in PruneState /\ prune.pc = "idle"
  BY DEF Init, NoPrune, PruneState
<1>4. bad \in [Versions -> Content] /\ installed \in Nat /\ staged \in Nat
  BY DEF Init, Content
<1>5. pull \in [Versions -> PullState] /\ \A v \in Versions : pull[v] = Idle
  BY IdleIsOK DEF Init, IdlePull
<1>6. HeldInv
  BY <1>2, <1>3, <1>4, <1>5, IdleIsOK DEF HeldInv, HeldTypeOK, BrokenIsOld, PutOK, IdlePull
<1>7. AsOffered
  BY <1>2, <1>5, IdleIsOK DEF AsOffered, IdlePull
<1> QED
  BY <1>1, <1>6, <1>7 DEF SyncInv

\* The WAN moves: above its newest release there was nothing.
LEMMA ShelfKeepsInv ==
  ASSUME SyncInv, ReleaseNext \/ UNCHANGED wan, UNCHANGED sync
  PROVE  SyncInv'
<1>1. ShelfInv' /\ ShelfMoves
  BY NextMovesShelf DEF SyncInv
<1>2. UNCHANGED <<rep, blob, bad, pull, installed, staged, prune, taken>>
  BY DEF sync
<1>3. HeldInv'
  BY <1>2 DEF SyncInv, HeldInv, HeldTypeOK, BrokenIsOld, PutOK
<1>4. AsOffered'
  <2> SUFFICES ASSUME NEW v \in Versions, v >= Newest(rel')
               PROVE  rep'[v] \in {NoRow, rel'[v]} /\ pull'[v].body \in {NoRow, rel'[v]}
    BY DEF AsOffered
  <2>1. v >= Newest(rel)
    BY <1>1, NewestIsLargest, ReleaseConstants DEF ShelfMoves
  <2> QED
    BY <1>1, <1>2, <2>1 DEF SyncInv, AsOffered, ShelfMoves
<1> QED
  BY <1>1, <1>3, <1>4 DEF SyncInv

\* A download moves on to m; neither row nor object changes.
LEMMA PullMoves ==
  ASSUME SyncInv, NEW v \in Versions, NEW m \in PullState, pull' = [pull EXCEPT ![v] = m],
         UNCHANGED <<wan, rep, blob, installed, staged, prune, taken>>,
         bad' \in [Versions -> Content],
         PullOK(m, rep[v]), m.pc # "insert", m.body \in {NoRow, rel[v], pull[v].body}
  PROVE  SyncInv'
<1>1. ShelfInv' /\ rel' = rel
  BY NextMovesShelf DEF SyncInv, wan
<1>2. pull' \in [Versions -> PullState] /\ pull'[v] = m
      /\ \A w \in Versions \ {v} : pull'[w] = pull[w]
  BY DEF SyncInv, HeldInv, HeldTypeOK
<1>3. \A w \in Versions : PullOK(pull'[w], rep[w])
  BY <1>2 DEF SyncInv, HeldInv
<1>4. HeldInv'
  BY <1>2, <1>3 DEF SyncInv, HeldInv, HeldTypeOK, BrokenIsOld, PutOK
<1>5. AsOffered'
  BY <1>1, <1>2 DEF SyncInv, AsOffered
<1> QED
  BY <1>1, <1>4, <1>5 DEF SyncInv

\* The WAN serves what its row says, or nothing.
LEMMA ServedIsOffered == \A v : Served(v) \in {NoRow, rel[v]}
BY DEF Served

\* A pull ends, and whatever its part file holds is another matter.
LEMMA EndsKeepsInv ==
  ASSUME SyncInv, NEW v \in Versions, Ends(v), bad' \in [Versions -> Content],
         UNCHANGED <<wan, rep, blob, installed, staged, prune, taken>>
  PROVE  SyncInv'
<1>1. pull' = [pull EXCEPT ![v] = Idle]
  BY DEF Ends, Step, Idle
<1> QED
  BY <1>1, IdleIsOK, PullMoves DEF IdlePull

\* A version is asked for, or a download breaks off.
LEMMA AsksKeepInv ==
  ASSUME SyncInv, NEW v \in Versions,
         Told(v) \/ (AskLatest /\ v = Latest) \/ Look(v) \/ AskPull(v) \/ DownloadBreaks(v)
  PROVE  SyncInv'
<1>1. /\ pull[v] \in PullState /\ rel[v] \in Content /\ bad' = bad /\ NoRow \in Content
      /\ bad' \in [Versions -> Content]
      /\ UNCHANGED <<wan, rep, blob, installed, staged, prune, taken>>
  BY DEF SyncInv, ShelfInv, ShelfTypeOK, HeldInv, HeldTypeOK, Content, Told, AskLatest, Look,
     AskPull, DownloadBreaks
<1>2. CASE Ends(v)
  BY <1>1, <1>2, EndsKeepsInv
<1>3. CASE Ensure(v)
  <2> DEFINE m == [pull[v] EXCEPT !.pc = "look"]
  <2>1. m \in PullState /\ m.pc = "look" /\ m.body = pull[v].body
    BY <1>1 DEF PullState, PullSteps
  <2>2. pull' = [pull EXCEPT ![v] = m]
    BY <1>3 DEF Ensure
  <2> HIDE DEF m
  <2>3. PullOK(m, rep[v])
    BY <2>1 DEF PullOK
  <2> QED
    BY <1>1, <2>1, <2>2, <2>3, PullMoves
<1>4. ASSUME NEW pc \in {"ask", "body"}, NEW want \in Content, Step(v, pc, want, NoRow)
      PROVE  SyncInv'
  <2> DEFINE m == [pc |-> pc, want |-> want, body |-> NoRow]
  <2>1. m \in PullState /\ m.pc = pc /\ m.body = NoRow
    BY <1>1, <1>4 DEF PullState, PullSteps
  <2>2. pull' = [pull EXCEPT ![v] = m]
    BY <1>4 DEF Step
  <2> HIDE DEF m
  <2>3. PullOK(m, rep[v])
    BY <1>4, <2>1 DEF PullOK
  <2> QED
    BY <1>1, <2>1, <2>2, <2>3, PullMoves
<1>5. Look(v) => Ends(v) \/ \E want \in Content : Step(v, "ask", want, NoRow)
  BY <1>1 DEF Look
<1>6. AskPull(v) => Ends(v) \/ \E want \in Content : Step(v, "body", want, NoRow)
  BY <1>1 DEF AskPull, PullState
<1> QED
  BY <1>2, <1>3, <1>4, <1>5, <1>6 DEF Told, AskLatest, DownloadBreaks

\* What arrives is what the WAN has, or nothing.
LEMMA DownloadKeepsInv ==
  ASSUME SyncInv, NEW v \in Versions, Download(v)
  PROVE  SyncInv'
<1> DEFINE d == Served(v)
<1>1. /\ pull[v] \in PullState /\ rel[v] \in Content /\ NoRow \in Content
      /\ bad \in [Versions -> Content]
      /\ UNCHANGED <<wan, rep, blob, installed, staged, prune, taken>>
  BY DEF SyncInv, ShelfInv, ShelfTypeOK, HeldInv, HeldTypeOK, Content, Download
<1>2. bad' \in [Versions -> Content]
  BY <1>1 DEF Download, Discard
<1>3. \/ Ends(v)
      \/ d # NoRow /\ Step(v, "ingest", pull[v].want, d)
  BY DEF Download
<1>4. d \in {NoRow, rel[v]}
  BY ServedIsOffered
<1> HIDE DEF d
<1>5. CASE Ends(v)
  BY <1>1, <1>2, <1>5, EndsKeepsInv
<1>6. CASE d # NoRow /\ Step(v, "ingest", pull[v].want, d)
  <2> DEFINE m == [pc |-> "ingest", want |-> pull[v].want, body |-> d]
  <2>1. m \in PullState /\ m.pc = "ingest" /\ m.body = d
    BY <1>1, <1>4 DEF PullState, PullSteps
  <2>2. pull' = [pull EXCEPT ![v] = m]
    BY <1>6 DEF Step
  <2>3. d \in Contents
    BY <1>1, <1>4, <1>6 DEF Content
  <2> HIDE DEF m
  <2>4. PullOK(m, rep[v])
    BY <2>1, <2>3 DEF PullOK
  <2> QED
    BY <1>1, <1>2, <1>4, <2>1, <2>2, <2>4, PullMoves
<1> QED
  BY <1>3, <1>5, <1>6

\* The factory looks whether the version is there, or outdated, before taking it in.
LEMMA IngestLookKeepsInv ==
  ASSUME SyncInv, NEW v \in Versions, IngestLook(v)
  PROVE  SyncInv'
<1>1. /\ pull[v] \in PullState /\ NoRow \in Content /\ bad' \in [Versions -> Content]
      /\ UNCHANGED <<wan, rep, blob, installed, staged, prune, taken>>
      /\ pull[v].body \in Contents /\ pull[v].body \in Content
  BY DEF SyncInv, HeldInv, HeldTypeOK, Content, IngestLook, PullOK
<1>2. \/ Ends(v)
      \/ \E pc \in {"again", "put"} :
            /\ Step(v, pc, NoRow, pull[v].body)
            /\ pc = "again" => rep[v] = pull[v].body
            /\ pc = "put" => rep[v] = NoRow
  BY DEF IngestLook
<1>3. CASE Ends(v)
  BY <1>1, <1>3, EndsKeepsInv
<1>4. ASSUME NEW pc \in {"again", "put"}, Step(v, pc, NoRow, pull[v].body),
             pc = "again" => rep[v] = pull[v].body, pc = "put" => rep[v] = NoRow
      PROVE  SyncInv'
  <2> DEFINE m == [pc |-> pc, want |-> NoRow, body |-> pull[v].body]
  <2>1. m \in PullState /\ m.pc = pc /\ m.body = pull[v].body
    BY <1>1, <1>4 DEF PullState, PullSteps
  <2>2. pull' = [pull EXCEPT ![v] = m]
    BY <1>4 DEF Step
  <2> HIDE DEF m
  <2>3. PullOK(m, rep[v])
    BY <1>1, <1>4, <2>1 DEF PullOK
  <2> QED
    BY <1>1, <2>1, <2>2, <2>3, PullMoves
<1> QED
  BY <1>2, <1>3, <1>4

\* While the WAN stands still so do its rows.
LEMMA WanStays == ASSUME SyncInv, UNCHANGED wan PROVE ShelfInv' /\ rel' = rel
BY NextMovesShelf DEF SyncInv, wan

\* The object is put before the row.
LEMMA IngestPutKeepsInv ==
  ASSUME SyncInv, NEW v \in Versions, IngestPut(v)
  PROVE  SyncInv'
<1> DEFINE body == pull[v].body
           m == [pc |-> "insert", want |-> NoRow, body |-> body]
<1>1. /\ HeldTypeOK /\ pull[v] \in PullState /\ PullOK(pull[v], rep[v])
      /\ body \in Contents /\ body \in Content /\ NoRow \in Content
      /\ blob' = [blob EXCEPT ![v] = body]
      /\ taken' = taken \ {v}
      /\ UNCHANGED <<wan, rep, bad, installed, staged, prune>>
  BY DEF SyncInv, HeldInv, HeldTypeOK, Content, IngestPut, PullOK
<1>2. rep[v] \in {NoRow, body}
  BY <1>1 DEF IngestPut, PullOK
<1>3. \/ pull' = [pull EXCEPT ![v] = Idle]
      \/ rep[v] = NoRow /\ pull' = [pull EXCEPT ![v] = m]
  BY <1>1 DEF IngestPut, Ends, Step, Idle, PullOK
<1>4. m \in PullState /\ m.pc = "insert" /\ m.body = body
  BY <1>1 DEF PullState, PullSteps
<1> HIDE DEF m, body
<1>5. /\ blob' \in [Versions -> Content] /\ blob'[v] = body
      /\ \A w \in Versions \ {v} : blob'[w] = blob[w]
  BY <1>1 DEF HeldTypeOK
<1>6. /\ pull' \in [Versions -> PullState] /\ PullOK(pull'[v], rep[v])
      /\ pull'[v].body \in {NoRow, body}
      /\ \A w \in Versions \ {v} : pull'[w] = pull[w]
  BY <1>1, <1>3, <1>4, IdleIsOK DEF HeldTypeOK, IdlePull, PullOK
<1>7. HeldTypeOK'
  BY <1>1, <1>5, <1>6 DEF HeldTypeOK
<1>8. BrokenIsOld' /\ PutOK'
  <2>1. BrokenIsOld'
    BY <1>1, <1>2, <1>5 DEF SyncInv, HeldInv, BrokenIsOld
  <2>2. PutOK'
    <3>1. pull'[v].pc = "insert" => pull'[v].body = body
      BY <1>1, <1>3, <1>4, IdleIsOK DEF HeldTypeOK, IdlePull
    <3> QED
      BY <1>1, <1>5, <1>6, <3>1 DEF SyncInv, HeldInv, PutOK
  <2> QED
    BY <2>1, <2>2
<1>9. \A w \in Versions : PullOK(pull[w], rep[w])'
  BY <1>1, <1>5, <1>6 DEF SyncInv, HeldInv
<1>10. AsOffered'
  BY <1>1, <1>6, WanStays DEF SyncInv, AsOffered, body
<1> QED
  BY <1>1, <1>7, <1>8, <1>9, <1>10, WanStays DEF SyncInv, HeldInv

\* A row is inserted for the object just put, so the newest version only grows.
LEMMA IngestInsertKeepsInv ==
  ASSUME SyncInv, NEW v \in Versions, IngestInsert(v)
  PROVE  SyncInv' /\ Newest(rep') >= Newest(rep)
<1> DEFINE body == pull[v].body
<1>1. /\ HeldTypeOK /\ BrokenIsOld /\ pull[v] \in PullState
      /\ body \in Contents /\ body \in Content
      /\ rep[v] = NoRow /\ (blob[v] = body \/ v \in taken)
      /\ UNCHANGED <<wan, blob, bad, installed, staged, prune, taken>>
  BY DEF SyncInv, HeldInv, HeldTypeOK, Content, IngestInsert, PullOK, PutOK
<1>2. rep' = [rep EXCEPT ![v] = body] /\ pull' = [pull EXCEPT ![v] = Idle]
  BY <1>1 DEF IngestInsert, Ends, Step, Idle
<1> HIDE DEF body
<1>3. /\ rep' \in [Versions -> Content] /\ rep'[v] = body
      /\ \A w \in Versions \ {v} : rep'[w] = rep[w]
  BY <1>1, <1>2 DEF HeldTypeOK
<1>4. /\ pull' \in [Versions -> PullState] /\ pull'[v] = Idle
      /\ \A w \in Versions \ {v} : pull'[w] = pull[w]
  BY <1>1, <1>2, IdleIsOK DEF HeldTypeOK, IdlePull
<1>5. Newest(rep') >= Newest(rep) /\ Newest(rep) \in Nat /\ Newest(rep') \in Nat
  <2>1. Newest(rep) # 0 => Newest(rep) \in Rows(rep')
    BY <1>1, <1>3, NewestIsLargest DEF Rows
  <2> QED
    BY <2>1, NewestGrows, NewestIsLargest
<1>6. HeldTypeOK'
  BY <1>1, <1>3, <1>4 DEF HeldTypeOK
<1>7. BrokenIsOld'
  <2>1. \A w \in Versions : w \in Nat
    BY ReleaseConstants
  <2>2. ASSUME NEW w \in Versions, rep'[w] # NoRow, blob[w] # rep'[w] PROVE w < Newest(rep') \/ w \in taken
    <3>1. CASE w = v
      BY <1>1, <1>3, <2>2, <3>1
    <3>2. CASE w # v
      <4>1. w < Newest(rep) \/ w \in taken
        BY <1>1, <1>3, <2>2, <3>2 DEF BrokenIsOld
      <4> QED
        BY <1>5, <2>1, <4>1
    <3> QED
      BY <3>1, <3>2
  <2>3. prune.pc # "idle" => prune.v \in Versions /\ prune.v < Newest(rep')
    BY <1>1, <1>5, <2>1 DEF BrokenIsOld
  <2> QED
    BY <1>1, <2>2, <2>3 DEF BrokenIsOld
<1>8. \A w \in Versions : PullOK(pull[w], rep[w])'
  BY <1>1, <1>3, <1>4, IdleIsOK DEF SyncInv, HeldInv
<1>9. PutOK'
  BY <1>1, <1>4, IdleIsOK DEF SyncInv, HeldInv, PutOK, IdlePull
<1>10. AsOffered'
  BY <1>1, <1>3, <1>4, IdleIsOK, WanStays DEF SyncInv, AsOffered, IdlePull, body
<1> QED
  BY <1>1, <1>5, <1>6, <1>7, <1>8, <1>9, <1>10, WanStays DEF SyncInv, HeldInv

\* A restart forgets the pulls and keeps rows, objects and part files.
LEMMA RestartKeepsInv ==
  ASSUME SyncInv, Restart, UNCHANGED <<wan, rep, blob, staged, taken>>, installed' \in Nat
  PROVE  SyncInv'
<1>1. HeldTypeOK
  BY DEF SyncInv, HeldInv
<1>2. prune' \in PruneState /\ prune'.pc = "idle"
  BY DEF Restart, NoPrune, PruneState
<1>3. pull' \in [Versions -> PullState] /\ \A v \in Versions : pull'[v] = Idle
  BY IdleIsOK DEF Restart, IdlePull
<1>4. bad' \in [Versions -> Content]
  <2>1. PICK cut \in SUBSET Versions :
          bad' = [v \in Versions |-> IF v \in cut THEN Served(v) ELSE bad[v]]
    BY DEF Restart
  <2>2. \A v \in Versions : Served(v) \in Content /\ bad[v] \in Content
    BY <1>1, ServedIsOffered DEF SyncInv, ShelfInv, ShelfTypeOK, HeldTypeOK, Content
  <2> QED
    BY <2>1, <2>2
<1>5. HeldTypeOK' /\ BrokenIsOld' /\ PutOK'
  BY <1>1, <1>2, <1>3, <1>4, IdleIsOK
     DEF SyncInv, HeldInv, HeldTypeOK, BrokenIsOld, PutOK, IdlePull
<1>6. \A w \in Versions : PullOK(pull[w], rep[w])'
  BY <1>1, <1>3, IdleIsOK
<1>7. AsOffered'
  BY <1>1, <1>3, IdleIsOK, WanStays DEF SyncInv, AsOffered, IdlePull
<1> QED
  BY <1>1, <1>5, <1>6, <1>7, WanStays DEF SyncInv, HeldInv

\* What is pruned is never the newest version.
LEMMA PruneKeepsInv ==
  ASSUME SyncInv, PruneBlob \/ PruneRow \/ \E v \in Versions : PruneKeep(v)
  PROVE  SyncInv' /\ Newest(rep') = Newest(rep)
<1>1. /\ HeldTypeOK /\ BrokenIsOld /\ NoRow \in Content
      /\ UNCHANGED <<wan, bad, pull, installed, staged, taken>>
  BY DEF SyncInv, HeldInv, PruneBlob, PruneRow, PruneKeep, Content
<1>2. NoPrune \in PruneState /\ NoPrune.pc = "idle"
  BY DEF NoPrune, PruneState
<1>3. ASSUME NEW v \in Versions, PruneKeep(v) PROVE SyncInv' /\ Newest(rep') = Newest(rep)
  <2>1. /\ prune' \in PruneState /\ prune'.v = v
        /\ UNCHANGED <<rep, blob>> /\ rep[v] # NoRow /\ v # Newest(rep)
    BY <1>3 DEF PruneKeep, KeepReplica, PruneState
  <2>2. v < Newest(rep)
    <3>1. v \in Rows(rep)
      BY <2>1 DEF Rows
    <3> QED
      BY <2>1, <3>1, NewestIsLargest, RowsFinite
  <2>3. HeldInv'
    BY <1>1, <2>1, <2>2 DEF SyncInv, HeldInv, HeldTypeOK, BrokenIsOld, PutOK
  <2>4. AsOffered'
    BY <1>1, <2>1, WanStays DEF SyncInv, AsOffered
  <2> QED
    BY <1>1, <2>1, <2>3, <2>4, WanStays DEF SyncInv
<1>4. CASE PruneBlob
  <2>1. UNCHANGED rep /\ prune.v \in Versions /\ prune.v < Newest(rep)
    BY <1>1, <1>4 DEF PruneBlob, BrokenIsOld
  <2>2. AsOffered'
    BY <1>1, <2>1, WanStays DEF SyncInv, AsOffered
  <2>3. CASE prune' = NoPrune /\ UNCHANGED blob
    <3>1. HeldInv'
      BY <1>1, <1>2, <2>1, <2>3 DEF SyncInv, HeldInv, HeldTypeOK, BrokenIsOld, PutOK
    <3> QED
      BY <1>1, <2>1, <2>2, <3>1, WanStays DEF SyncInv
  <2>4. CASE rep[prune.v] # NoRow /\ prune' = [prune EXCEPT !.pc = "row"]
             /\ blob' = [blob EXCEPT ![prune.v] = NoRow]
    <3>1. prune' \in PruneState /\ prune'.v = prune.v
      BY <1>1, <2>4 DEF HeldTypeOK, PruneState
    <3>2. /\ blob' \in [Versions -> Content]
          /\ \A w \in Versions \ {prune.v} : blob'[w] = blob[w]
      BY <1>1, <2>4 DEF HeldTypeOK
    <3>3. HeldTypeOK' /\ BrokenIsOld' /\ PutOK'
      <4>1. HeldTypeOK' /\ BrokenIsOld'
        BY <1>1, <2>1, <3>1, <3>2 DEF HeldTypeOK, BrokenIsOld
      <4>2. pull[prune.v].pc # "insert"
        BY <2>1, <2>4 DEF SyncInv, HeldInv, PullOK
      <4>3. PutOK'
        BY <1>1, <3>2, <4>2 DEF SyncInv, HeldInv, PutOK
      <4> QED
        BY <4>1, <4>3
    <3>4. \A w \in Versions : PullOK(pull[w], rep[w])'
      BY <1>1, <2>1 DEF SyncInv, HeldInv
    <3> QED
      BY <1>1, <2>1, <2>2, <3>3, <3>4, WanStays DEF SyncInv, HeldInv
  <2> QED
    BY <1>4, <2>3, <2>4 DEF PruneBlob
<1>5. CASE PruneRow
  <2>1. /\ prune.v \in Versions /\ prune.v < Newest(rep) /\ prune' = NoPrune
        /\ rep' = [rep EXCEPT ![prune.v] = NoRow] /\ UNCHANGED blob
    BY <1>1, <1>5 DEF PruneRow, BrokenIsOld
  <2>2. /\ rep' \in [Versions -> Content] /\ rep'[prune.v] = NoRow
        /\ \A w \in Versions \ {prune.v} : rep'[w] = rep[w]
    BY <1>1, <2>1 DEF HeldTypeOK
  <2>3. Newest(rep') = Newest(rep)
    <3>1. prune.v \in Nat /\ Newest(rep) \in Nat
      BY <2>1, NewestIsLargest, ReleaseConstants
    <3>2. Newest(rep) \in Rows(rep) /\ Newest(rep) # prune.v
      BY <2>1, <3>1, NewestIsLargest
    <3>3. Newest(rep) \in Rows(rep') /\ Rows(rep') \subseteq Rows(rep)
      BY <2>2, <3>2 DEF Rows
    <3>4. Newest(rep') \in Rows(rep) /\ Newest(rep) <= Newest(rep')
      BY <3>3, NewestIsLargest
    <3>5. Newest(rep') <= Newest(rep) /\ Newest(rep') \in Nat
      BY <3>4, NewestIsLargest
    <3> QED
      BY <3>1, <3>4, <3>5
  <2>4. HeldTypeOK' /\ BrokenIsOld' /\ PutOK'
    BY <1>1, <1>2, <2>1, <2>2, <2>3 DEF SyncInv, HeldInv, HeldTypeOK, BrokenIsOld, PutOK
  <2>5. \A w \in Versions : PullOK(pull[w], rep[w])'
    BY <1>1, <2>1, <2>2 DEF SyncInv, HeldInv, PullOK
  <2>6. AsOffered'
    BY <1>1, <2>2, WanStays DEF SyncInv, AsOffered
  <2> QED
    BY <1>1, <2>3, <2>4, <2>5, <2>6, WanStays DEF SyncInv, HeldInv
<1> QED
  BY <1>3, <1>4, <1>5

\* What another factory does to an object is noted, and leaves the rows alone.
LEMMA NeighbourKeepsInv ==
  ASSUME SyncInv, NEW v \in Versions, NEW d \in Content,
         blob' = [blob EXCEPT ![v] = d], taken' = taken \cup {v},
         UNCHANGED <<wan, rep, bad, pull, installed, staged, prune>>
  PROVE  SyncInv'
<1>1. HeldTypeOK /\ BrokenIsOld /\ PutOK
  BY DEF SyncInv, HeldInv
<1>2. blob' \in [Versions -> Content] /\ \A w \in Versions \ {v} : blob'[w] = blob[w]
  BY <1>1 DEF HeldTypeOK
<1>3. HeldTypeOK' /\ BrokenIsOld' /\ PutOK'
  BY <1>1, <1>2 DEF HeldTypeOK, BrokenIsOld, PutOK
<1>4. \A w \in Versions : PullOK(pull[w], rep[w])'
  BY DEF SyncInv, HeldInv
<1>5. AsOffered'
  BY WanStays DEF SyncInv, AsOffered
<1> QED
  BY <1>3, <1>4, <1>5, WanStays DEF SyncInv, HeldInv

\* Every step keeps the invariant, and no newest version falls.
LEMMA NextSync ==
  ASSUME SyncInv, [Next]_vars
  PROVE  SyncInv' /\ Newest(rel') >= Newest(rel) /\ Newest(rep') >= Newest(rep)
<1>1. Newest(rel) \in Nat /\ Newest(rep) \in Nat
  BY NewestIsLargest
<1>2. ReleaseNext \/ UNCHANGED wan
  BY DEF Next, vars, AskLatest, Told, Pull, Look, AskPull, Download, IngestLook, IngestPut,
     IngestInsert, DownloadBreaks, PruneKeep, Crash, ConfirmFactoryUpdate, MarkInstalled,
     PruneBlob, PruneRow, Neighbour, NeighbourPuts, NeighbourPrunes, NeighbourInstalls
<1>3. Newest(rel') >= Newest(rel)
  BY <1>2, NextMovesShelf DEF SyncInv, ShelfMoves
<1>4. CASE (ReleaseNext \/ UNCHANGED wan) /\ UNCHANGED sync
  <2>1. rep' = rep
    BY <1>4 DEF sync
  <2> QED
    BY <1>1, <1>3, <1>4, <2>1, ShelfKeepsInv
<1>5. ASSUME NEW v \in Versions, Told(v) \/ Pull(v) \/ DownloadBreaks(v)
      PROVE  SyncInv' /\ Newest(rep') >= Newest(rep)
  <2>1. CASE IngestInsert(v)
    BY <2>1, IngestInsertKeepsInv
  <2>2. CASE ~IngestInsert(v)
    <3>1. rep' = rep
      BY <1>5, <2>2 DEF Told, Pull, DownloadBreaks, Look, AskPull, Download, IngestLook,
         IngestPut
    <3>2. SyncInv'
      <4>1. CASE Told(v) \/ Look(v) \/ AskPull(v) \/ DownloadBreaks(v)
        BY <4>1, AsksKeepInv
      <4>2. CASE Download(v) \/ IngestLook(v) \/ IngestPut(v)
        BY <4>2, DownloadKeepsInv, IngestLookKeepsInv, IngestPutKeepsInv
      <4> QED
        BY <1>5, <2>2, <4>1, <4>2 DEF Pull
    <3> QED
      BY <1>1, <3>1, <3>2
  <2> QED
    BY <2>1, <2>2
<1>6. CASE AskLatest
  <2>1. Latest \in Versions /\ rep' = rep
    BY <1>6, NewestIsLargest DEF AskLatest, Latest, Rows
  <2> QED
    BY <1>1, <1>3, <1>6, <2>1, AsksKeepInv
<1>7. CASE Crash
  <2>1. Restart /\ UNCHANGED <<wan, rep, blob, staged, taken>> /\ installed' \in Nat
    BY <1>7 DEF Crash, SyncInv, HeldInv, HeldTypeOK
  <2> QED
    BY <1>1, <1>3, <2>1, RestartKeepsInv
<1>8. CASE ConfirmFactoryUpdate \/ MarkInstalled
  <2>1. /\ UNCHANGED <<wan, rep, blob, bad, pull, prune, taken>>
        /\ staged' \in Nat /\ installed' \in Nat
    BY <1>1, <1>8 DEF ConfirmFactoryUpdate, MarkInstalled, SyncInv, HeldInv, HeldTypeOK
  <2>2. HeldInv'
    BY <2>1 DEF SyncInv, HeldInv, HeldTypeOK, BrokenIsOld, PutOK
  <2>3. AsOffered'
    BY <2>1, WanStays DEF SyncInv, AsOffered
  <2> QED
    BY <1>1, <1>3, <2>1, <2>2, <2>3, WanStays DEF SyncInv
<1>9. CASE PruneBlob \/ PruneRow \/ \E v \in Versions : PruneKeep(v)
  BY <1>1, <1>3, <1>9, PruneKeepsInv
<1>10. ASSUME NEW v \in Versions, Neighbour(v)
       PROVE  SyncInv' /\ Newest(rep') >= Newest(rep)
  <2>1. rep' = rep
    BY <1>10 DEF Neighbour, NeighbourPuts, NeighbourPrunes, NeighbourInstalls
  <2>2. CASE NeighbourPuts(v)
    <3>1. PICK d \in Nearby(v) : blob' = [blob EXCEPT ![v] = d]
      BY <2>2 DEF NeighbourPuts
    <3>2. d \in Content
      BY <3>1 DEF Nearby, Content
    <3>3. /\ taken' = taken \cup {v}
          /\ UNCHANGED <<wan, rep, bad, pull, installed, staged, prune>>
      BY <2>2 DEF NeighbourPuts
    <3>4. SyncInv'
      BY <3>1, <3>2, <3>3, NeighbourKeepsInv
    <3> QED
      BY <1>1, <2>1, <3>4
  <2>3. CASE NeighbourPrunes(v)
    <3>1. /\ NoRow \in Content /\ blob' = [blob EXCEPT ![v] = NoRow]
          /\ taken' = taken \cup {v}
          /\ UNCHANGED <<wan, rep, bad, pull, installed, staged, prune>>
      BY <2>3 DEF NeighbourPrunes, Content
    <3>2. SyncInv'
      BY <3>1, NeighbourKeepsInv
    <3> QED
      BY <1>1, <2>1, <3>2
  <2>4. CASE NeighbourInstalls(v)
    <3>1. Restart /\ UNCHANGED <<wan, rep, blob, staged, taken>> /\ installed' \in Nat
      BY <2>4, ReleaseConstants DEF NeighbourInstalls
    <3> QED
      BY <1>1, <2>1, <3>1, RestartKeepsInv
  <2> QED
    BY <1>10, <2>2, <2>3, <2>4 DEF Neighbour
<1> QED
  BY <1>2, <1>3, <1>4, <1>5, <1>6, <1>7, <1>8, <1>9, <1>10 DEF Next, vars

-----------------------------------------------------------------------------
\* So the invariant always holds.
LEMMA SyncHolds == Spec => []SyncInv
BY InitSync, NextSync, PTL DEF Spec

\* IngestSoftware, softwareKeep and DeleteFactorySoftware: the newest package of a factory
\* can be read and has the digest of its row, whatever downloads, prunings and crashes of
\* its own overlap; what another factory does to the shared object of that very version
\* undoes it at most until this factory puts the object again.
THEOREM NewestHeld == Spec => []NewestComplete
<1>1. SyncInv => NewestComplete
  <2> SUFFICES ASSUME SyncInv, Newest(rep) # 0, Newest(rep) \notin taken
               PROVE  Complete(Newest(rep))
    BY DEF NewestComplete
  <2>1. Newest(rep) \in Rows(rep) /\ Newest(rep) \in Nat
    BY NewestIsLargest
  <2> QED
    BY <2>1 DEF SyncInv, HeldInv, BrokenIsOld, Rows, Complete
<1> QED
  BY <1>1, SyncHolds, PTL

\* pullSoftware and IngestSoftware: of the version the WAN offers now the factory holds,
\* downloads and stores the WAN's bytes, though versions are deleted and published again.
THEOREM SameBytes == Spec => []SameContent
<1>1. SyncInv => SameContent
  <2> SUFFICES ASSUME SyncInv, NEW v, v = Newest(rel), v # 0
               PROVE  /\ rep[v] \in {NoRow, rel[v]}
                      /\ pull[v].body \in {NoRow, rel[v]}
                      /\ pull[v].pc \in {"again", "put", "insert"} => pull[v].body = rel[v]
    BY DEF SameContent
  <2>1. v \in Versions /\ v >= Newest(rel)
    BY NewestIsLargest DEF Rows
  <2>2. rep[v] \in {NoRow, rel[v]} /\ pull[v].body \in {NoRow, rel[v]}
    BY <2>1 DEF SyncInv, AsOffered
  <2>3. pull[v].pc \in {"again", "put", "insert"} => pull[v].body # NoRow
    BY <2>1, ReleaseConstants DEF SyncInv, HeldInv, PullOK
  <2> QED
    BY <2>2, <2>3
<1> QED
  BY <1>1, SyncHolds, PTL

\* softwareKeep of both sides: a pruning decided earlier and carried out late never takes
\* the newest version away; it only moves up.
THEOREM NewestOnlyUp == Spec => NewestForward
<1>1. SyncInv /\ [Next]_vars =>
        [Newest(rel') >= Newest(rel) /\ Newest(rep') >= Newest(rep)]_vars
  BY NextSync
<1> QED
  BY <1>1, SyncHolds, PTL DEF Spec, NewestForward
=============================================================================
