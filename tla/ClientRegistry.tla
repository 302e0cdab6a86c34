--------------------------- MODULE ClientRegistry ---------------------------
(***************************************************************************)
(* The WAN directory of field devices: which factory owns a client, at     *)
(* which binding revision, and the admin calls that have committed a       *)
(* change but have not yet told the factories about it.                    *)
(*                                                                         *)
(* A call commits under a row lock, then writes its audit record, then     *)
(* publishes client_void to the former owner and client_bind to the new    *)
(* one.  Those are separate steps: two calls on one client may publish in  *)
(* the opposite order of their commits, and a call whose audit write fails *)
(* returns an error without publishing anything.                           *)
(***************************************************************************)
EXTENDS Naturals, FiniteSets

CONSTANTS
    Clients,      \* field devices
    Factories,    \* factories in the directory
    Unassigned,   \* owner of a registered client that has no factory
    NoRow,        \* owner of a client that is not registered
    MaxRev,       \* bound: highest binding revision the admins reach
    MaxCalls      \* bound: admin calls between commit and last publish

ASSUME OwnersAreNotFactories ==
    /\ Unassigned \notin Factories
    /\ NoRow \notin Factories
    /\ Unassigned # NoRow

ASSUME RegistryBounds == MaxRev \in Nat /\ MaxCalls \in Nat

VARIABLES
    owner,        \* clients.factory_id
    rev,          \* clients.binding_revision
    fstate,       \* factories.status
    calls,        \* committed admin calls that still have to notify
    drops,        \* factories whose MQTT session an admin call is about to drop
    untold        \* (history) factories a failed call left uninformed

registryVars == <<owner, rev, fstate, calls, drops, untold>>

Owners == Factories \cup {Unassigned, NoRow}
FactoryStates == {"active", "disabled", "retired"}
Call == [stage: {"audit", "void", "bind"}, client: Clients,
         to: Owners, rev: Nat, prev: Owners]

RegistryType ==
    /\ owner \in [Clients -> Owners]
    /\ rev \in [Clients -> Nat]
    /\ fstate \in [Factories -> FactoryStates]
    /\ calls \in SUBSET Call
    /\ drops \in SUBSET Factories
    /\ untold \in SUBSET Factories

RegistryInit ==
    /\ owner = [c \in Clients |-> NoRow]
    /\ rev = [c \in Clients |-> 0]
    /\ fstate = [f \in Factories |-> "active"]
    /\ calls = {}
    /\ drops = {}
    /\ untold = {}

-----------------------------------------------------------------------------
(* The committed row that a call will announce, and the factory (if any)   *)
(* that read it under the same lock and must void its binding.             *)
Announce(c, o, r, p) ==
    /\ Cardinality(calls) < MaxCalls
    /\ calls' = calls \cup
           {[stage |-> "audit", client |-> c, to |-> o, rev |-> r, prev |-> p]}

\* A disabled factory may be given clients, a retired one may not.
Assignable(f) == fstate[f] # "retired"

CreateClient(c) ==
    /\ owner[c] = NoRow
    /\ owner' = [owner EXCEPT ![c] = Unassigned]
    /\ UNCHANGED <<rev, fstate, calls, drops, untold>>

\* One committed change of ownership; the revision always moves forward.
Reassign(c, o, p) ==
    /\ rev[c] < MaxRev
    /\ owner' = [owner EXCEPT ![c] = o]
    /\ rev' = [rev EXCEPT ![c] = @ + 1]
    /\ Announce(c, o, rev[c] + 1, p)
    /\ UNCHANGED <<fstate, drops, untold>>

BindClient(c, f) ==
    /\ owner[c] = Unassigned
    /\ Assignable(f)
    /\ Reassign(c, f, Unassigned)

RebindClient(c, f) ==
    /\ owner[c] \in Factories \ {f}
    /\ Assignable(f)
    /\ Reassign(c, f, owner[c])

UnassignClient(c) ==
    /\ owner[c] \in Factories
    /\ Reassign(c, Unassigned, owner[c])

\* Renaming a client, or assigning it to the factory it already has, leaves
\* owner and revision alone and announces the row that was read.
AnnounceAgain(c) ==
    /\ owner[c] \in Factories
    /\ Announce(c, owner[c], rev[c], Unassigned)
    /\ UNCHANGED <<owner, rev, fstate, drops, untold>>

\* A plausible slip in SetFactoryStatus: nobody's session is dropped.
StatusWithoutDrop(f, s) ==
    /\ fstate[f] \notin {s, "retired"}
    /\ fstate' = [fstate EXCEPT ![f] = s]
    /\ UNCHANGED <<owner, rev, calls, drops, untold>>

\* Re-enabling or retiring a factory is followed by a drop of its session, so
\* that a re-enabled factory comes back with a full round.
SetFactoryStatus(f, s) ==
    /\ fstate[f] \notin {s, "retired"}
    /\ fstate' = [fstate EXCEPT ![f] = s]
    /\ drops' = IF s = "disabled" THEN drops ELSE drops \cup {f}
    /\ UNCHANGED <<owner, rev, calls, untold>>

\* The call that owes factory f a drop performs it ...
EndDrop(f) ==
    /\ f \in drops
    /\ drops' = drops \ {f}
    /\ UNCHANGED <<owner, rev, fstate, calls, untold>>

\* ... or, its audit write having failed, returns without it.
DropFails(f) ==
    /\ f \in drops
    /\ drops' = drops \ {f}
    /\ untold' = untold \cup {f}
    /\ UNCHANGED <<owner, rev, fstate, calls>>

-----------------------------------------------------------------------------
(* notifyClient, one publish at a time.                                    *)
AfterVoid(n) == IF n.to \in Factories THEN {[n EXCEPT !.stage = "bind"]} ELSE {}
AfterAudit(n) ==
    IF n.prev \in Factories /\ n.prev # n.to
    THEN {[n EXCEPT !.stage = "void"]} ELSE AfterVoid(n)

Advance(n, next) ==
    /\ calls' = (calls \ {n}) \cup next
    /\ UNCHANGED <<owner, rev, fstate, drops, untold>>

AuditOK(n)     == n.stage = "audit" /\ Advance(n, AfterAudit(n))
PublishVoid(n) == n.stage = "void"  /\ Advance(n, AfterVoid(n))
PublishBind(n) == n.stage = "bind"  /\ Advance(n, {})

\* The call returns its audit error; nobody is notified.
AuditFails(n) ==
    /\ n.stage = "audit"
    /\ calls' = calls \ {n}
    /\ untold' = untold \cup ({n.to} \cap Factories)
    /\ UNCHANGED <<owner, rev, fstate, drops>>

\* The process dies: rows are kept, calls in progress are gone.
RegistryRestart ==
    /\ calls' = {}
    /\ drops' = {}
    /\ UNCHANGED <<owner, rev, fstate, untold>>
=============================================================================
