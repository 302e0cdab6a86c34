----------------------------- MODULE MCServices -----------------------------
(***************************************************************************)
(* Smaller services, one part for each initial state: content keys         *)
(* (ContentLease), questions to a factory (FactoryCall), the claim of a    *)
(* factory (Enrollment), its people (Accounts), its organisation           *)
(* (OrgUnits) and who is online (PadPresence).  The parts share nothing    *)
(* and stand still but for the one chosen.                                 *)
(***************************************************************************)
EXTENDS ContentLease, FactoryCall, Enrollment, Accounts, OrgUnits, PadPresence, TLC

VARIABLE part

partVars == <<part, lvars, cvars, evars, avars, ovars, pvars>>

ServicesInit ==
    /\ part \in {"lease", "call", "claim", "people", "units", "pads"}
    /\ LeaseInit /\ CallInit /\ EnrollInit /\ AccountsInit /\ OrgInit /\ PresenceInit
    \* One start is enough for the parts that stand still.
    /\ part # "lease" => \A b \in Bodies : body[b] = Plain(0)
    /\ part # "people" => \A p \in People : person[p] = [status |-> "active", grant |-> 1]

ServicesNext ==
    \/ /\ part = "lease" /\ LeaseNext
       /\ UNCHANGED <<part, cvars, evars, avars, ovars, pvars>>
    \/ /\ part = "call" /\ CallNext
       /\ UNCHANGED <<part, lvars, evars, avars, ovars, pvars>>
    \/ /\ part = "claim" /\ EnrollNext
       /\ UNCHANGED <<part, lvars, cvars, avars, ovars, pvars>>
    \/ /\ part = "people" /\ AccountsNext
       /\ UNCHANGED <<part, lvars, cvars, evars, ovars, pvars>>
    \/ /\ part = "units" /\ OrgNext
       /\ UNCHANGED <<part, lvars, cvars, evars, avars, pvars>>
    \/ /\ part = "pads" /\ PresenceNext
       /\ UNCHANGED <<part, lvars, cvars, evars, avars, ovars>>

ServicesSpec == ServicesInit /\ [][ServicesNext]_partVars

\* Accounts treats people alike, and requests, and no other part names them.
Alike == Permutations(People) \cup Permutations(Requests)
=============================================================================
