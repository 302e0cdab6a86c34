------------------------------ MODULE Releases ------------------------------
(***************************************************************************)
(* The shelf of software packages the WAN keeps for one kind: rows in the  *)
(* table software_release, one per version, and objects in the blob store, *)
(* one per version and content (the object's key ends in the digest).      *)
(* Administrators publish and prune at the same time; every call is a row  *)
(* of separate statements (global/server/internal/service/update.go).      *)
(*                                                                         *)
(* A content stands for its bytes and for their digest.  Audit rows are    *)
(* left out.  The memory of verified objects (blobVerified) is left out    *)
(* too: with the digest in the key it cannot vouch for other bytes.        *)
(***************************************************************************)
EXTENDS Naturals, FiniteSets

CONSTANTS Versions,     \* version codes that are published
          Contents,     \* what a package may consist of
          Admins,       \* administrators of the WAN, one call at a time each
          NoRow,        \* no row, no object
          MaxCalls      \* bound: calls made by all the administrators

ASSUME ReleaseConstants ==
    /\ Versions \subseteq Nat \ {0} /\ IsFiniteSet(Versions)
    /\ NoRow \notin Contents /\ MaxCalls \in Nat

VARIABLES rel,          \* rel[v]: the content of release v, or NoRow
          obj,          \* the objects stored, pairs of version and content
          pub,          \* pub[a]: the call a is in, or its last one
          announced,    \* the packages the factories were told of, pairs too
          calls         \* calls made so far

wan == <<rel, obj, pub, announced, calls>>

\* A call that has ended: version, content and the maximum read mean nothing.
Ended == [pc |-> "end", v |-> 0, d |-> NoRow, max |-> 0]

Rows(table) == {v \in Versions : table[v] # NoRow}

\* The highest version in a table, 0 when it is empty.
Newest(table) ==
    IF Rows(table) = {} THEN 0
    ELSE CHOOSE v \in Rows(table) : \A w \in Rows(table) : w <= v

\* The shelf is empty or holds a first release.
ReleaseInit ==
    /\ \E d \in Contents \cup {NoRow} : rel = [v \in Versions |-> IF v = 1 THEN d ELSE NoRow]
    /\ obj = {<<v, rel[v]>> : v \in Rows(rel)}
    /\ pub = [a \in Admins |-> Ended]
    /\ announced = obj
    /\ calls = 0

Goto(a, step) == pub' = [pub EXCEPT ![a].pc = step]
Finish(a) == pub' = [pub EXCEPT ![a] = Ended]

-----------------------------------------------------------------------------
(* Publishing                                                              *)

\* The maximum is read first.
PublishMax(a, v, d) ==
    /\ pub[a].pc = "end" /\ calls < MaxCalls
    /\ calls' = calls + 1
    /\ pub' = [pub EXCEPT ![a] = [pc |-> "look", v |-> v, d |-> d, max |-> Newest(rel)]]
    /\ UNCHANGED <<rel, obj, announced>>

\* A version that is there may only be published again with the same
\* content; a new one must not be below the maximum read before.
PublishLook(a) ==
    /\ pub[a].pc = "look"
    /\ \/ /\ rel[pub[a].v] = pub[a].d
          /\ Goto(a, "again")
       \/ /\ rel[pub[a].v] = NoRow /\ pub[a].v >= pub[a].max
          /\ Goto(a, "put")
       \/ /\ \/ rel[pub[a].v] \notin {NoRow, pub[a].d}
             \/ rel[pub[a].v] = NoRow /\ pub[a].v < pub[a].max
          /\ Finish(a)
    /\ UNCHANGED <<rel, obj, announced, calls>>

PublishPut(a) ==
    /\ pub[a].pc \in {"again", "put"}
    /\ obj' = obj \cup {<<pub[a].v, pub[a].d>>}
    /\ Goto(a, IF pub[a].pc = "again" THEN "notify" ELSE "insert")
    /\ UNCHANGED <<rel, announced, calls>>

\* A plausible slip: the row is written over.
InsertOver(v, d) == rel' = [rel EXCEPT ![v] = d]

\* The row another call inserted first stands (unique key); with another
\* content this call has failed.
InsertSoftwareRelease(v, d) ==
    rel' = [rel EXCEPT ![v] = IF @ = NoRow THEN d ELSE @]

PublishInsert(a) ==
    /\ pub[a].pc = "insert"
    /\ InsertSoftwareRelease(pub[a].v, pub[a].d)
    /\ Goto(a, IF rel'[pub[a].v] = pub[a].d THEN "notify" ELSE "unused")
    /\ UNCHANGED <<obj, announced, calls>>

\* The insertion fails: the request was cut off, or the database is away.
PublishFails(a) ==
    /\ pub[a].pc = "insert"
    /\ Goto(a, "unused")
    /\ UNCHANGED <<rel, obj, announced, calls>>

\* dropUnusedSoftwareBlob looks whether the row uses the object written ...
UnusedLook(a) ==
    /\ pub[a].pc = "unused"
    /\ IF rel[pub[a].v] = pub[a].d THEN Finish(a) ELSE Goto(a, "drop")
    /\ UNCHANGED <<rel, obj, announced, calls>>

\* ... and deletes it as a second step.
UnusedDrop(a) ==
    /\ pub[a].pc = "drop"
    /\ obj' = obj \ {<<pub[a].v, pub[a].d>>}
    /\ Finish(a)
    /\ UNCHANGED <<rel, announced, calls>>

Notify(a) ==
    /\ pub[a].pc = "notify"
    /\ announced' = announced \cup {<<pub[a].v, pub[a].d>>}
    /\ Finish(a)
    /\ UNCHANGED <<rel, obj, calls>>

-----------------------------------------------------------------------------
(* Pruning                                                                 *)

\* A plausible slip: nothing is kept.
KeepNothing(table, v) == FALSE

\* softwareKeep: the latest version is kept.
Keep(table, v) == v = Newest(table)

DeleteKeep(a, v) ==
    /\ pub[a].pc = "end" /\ calls < MaxCalls
    /\ rel[v] # NoRow /\ ~Keep(rel, v)
    /\ calls' = calls + 1
    /\ pub' = [pub EXCEPT ![a] = [pc |-> "row", v |-> v, d |-> NoRow, max |-> 0]]
    /\ UNCHANGED <<rel, obj, announced>>

DeleteRow(a) ==
    /\ pub[a].pc = "row"
    /\ IF rel[pub[a].v] = NoRow
       THEN Finish(a)
       ELSE pub' = [pub EXCEPT ![a].pc = "blob", ![a].d = rel[pub[a].v]]
    /\ UNCHANGED <<rel, obj, announced, calls>>

DeleteBlob(a) ==
    /\ pub[a].pc = "blob"
    /\ obj' = obj \ {<<pub[a].v, pub[a].d>>}
    /\ Goto(a, "gone")
    /\ UNCHANGED <<rel, announced, calls>>

DeleteGone(a) ==
    /\ pub[a].pc = "gone"
    /\ rel' = [rel EXCEPT ![pub[a].v] = NoRow]
    /\ Finish(a)
    /\ UNCHANGED <<obj, announced, calls>>

Publish(a) ==
    \/ PublishLook(a) \/ PublishPut(a) \/ PublishInsert(a) \/ PublishFails(a)
    \/ UnusedLook(a) \/ UnusedDrop(a) \/ Notify(a)

Prune(a) == DeleteRow(a) \/ DeleteBlob(a) \/ DeleteGone(a)

ReleaseNext ==
    \E a \in Admins :
        \/ \E v \in Versions, d \in Contents : PublishMax(a, v, d)
        \/ \E v \in Versions : DeleteKeep(a, v)
        \/ Publish(a)
        \/ Prune(a)

-----------------------------------------------------------------------------
(* What a factory is answered                                              *)

\* LatestSoftware: the newest release, whether or not its object is there.
Latest == Newest(rel)

\* pullableRelease: nothing below the maximum is handed out.
Pullable(v) == v >= Newest(rel)

\* OpenSoftware: the row's object, verified; otherwise an error.
Served(v) ==
    IF rel[v] # NoRow /\ <<v, rel[v]>> \in obj THEN rel[v] ELSE NoRow

\* The newest release can be served.  dropUnusedSoftwareBlob may delete the
\* object of a publication that is just about to insert its row.
WanLatestServable ==
    Newest(rel) # 0 => Served(Newest(rel)) # NoRow

=============================================================================
