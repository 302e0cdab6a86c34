-------------------------- MODULE BindingContract ---------------------------
(***************************************************************************)
(* What the synchronisation of client bindings promises, without queues,   *)
(* rounds or connections: how a factory's view of a client may move        *)
(* relative to the directory.                                              *)
(***************************************************************************)
EXTENDS Naturals

CONSTANTS Clients, Factories, NoOwner

VARIABLES
    owner,    \* the factory a client belongs to, or NoOwner
    rev,      \* revision of that ownership
    view      \* view[f][c]: what factory f holds of client c

contractVars == <<owner, rev, view>>

None == [st |-> "none", rev |-> 0]

Init ==
    /\ owner = [c \in Clients |-> NoOwner]
    /\ rev = [c \in Clients |-> 0]
    /\ view = [f \in Factories |-> [c \in Clients |-> None]]

\* The directory gives a client to a factory, or takes it back, under the next
\* revision.
Assign(c, o) ==
    /\ owner' = [owner EXCEPT ![c] = o]
    /\ rev' = [rev EXCEPT ![c] = @ + 1]
    /\ UNCHANGED view

Current(f, c) == view[f][c].rev = rev[c] /\ owner[c] = f

\* Only a revision newer than the one held is adopted, never one the directory
\* has not issued, and the newest one only by the factory it names.
Adopt(f, c) ==
    /\ view'[f][c].st = "bound"
    /\ view[f][c].rev < view'[f][c].rev
    /\ view'[f][c].rev <= rev[c]
    /\ view'[f][c].rev = rev[c] => owner[c] = f

\* A binding is given up only when it is not the one in force.
Drop(f, c) ==
    /\ view[f][c].st = "bound"
    /\ ~ Current(f, c)
    /\ view'[f][c] = [view[f][c] EXCEPT !.st = "void"]

Keep(f, c) == view'[f][c] = view[f][c]

\* One factory changes its view, of one client or of several.
Follow(f) ==
    /\ view' = [view EXCEPT ![f] = view'[f]]
    /\ DOMAIN view'[f] = Clients
    /\ \A c \in Clients : Keep(f, c) \/ Adopt(f, c) \/ Drop(f, c)
    /\ UNCHANGED <<owner, rev>>

Next ==
    \/ \E c \in Clients, o \in Factories \cup {NoOwner} : Assign(c, o)
    \/ \E f \in Factories : Follow(f)

Spec == Init /\ [][Next]_contractVars
=============================================================================
