------------------------------ MODULE OrgUnits ------------------------------
(***************************************************************************)
(* The organisation of one factory: a forest of units and the unit each    *)
(* person belongs to (store/org.go, store/account.go: SetPersonOrg).  An   *)
(* edit looks first and writes later, mostly without a transaction; the    *)
(* foreign keys of the database are all that is checked at the write.      *)
(***************************************************************************)
EXTENDS Naturals, FiniteSets

CONSTANTS Units, Members,
          Editors,      \* edits that may run at once
          MaxEdits      \* bound: edits begun

Top == "top"            \* the factory itself: no parent, no unit

VARIABLES unit,         \* org_units: status and parent
          member,       \* people.org_unit_id
          edit,         \* per editor: the edit under way
          edits

ovars == <<unit, member, edit, edits>>

NoEdit == [op |-> "none"]
Absent == [status |-> "absent", parent |-> Top]     \* never made
Gone == [status |-> "gone", parent |-> Top]         \* deleted: its identity is not used again

OrgInit ==
    /\ unit = [u \in Units |-> Absent]
    /\ member = [p \in Members |-> Top]
    /\ edit = [e \in Editors |-> NoEdit]
    /\ edits = 0

Exists(u) == unit[u] \notin {Absent, Gone}
\* assertUnitActive; no unit at all is fine.
MayHang(u) == u \in {Top} \cup {v \in Units : unit[v].status = "active"}
Children(u) == {c \in Units : Exists(c) /\ unit[c].parent = u}

\* Where the way up from u is after so many steps; one that has not come to the top
\* within as many as there are units goes round.
Climb == 0..Cardinality(Units)
Way(u) ==
    LET at[n \in Climb] ==
          IF n = 0 THEN u ELSE IF at[n - 1] = Top THEN Top ELSE unit[at[n - 1]].parent
    IN  at
Above(u) == {Way(u)[n] : n \in Climb} \ {Top}
Circles(u) == Way(u)[Cardinality(Units)] # Top

\* wouldCycle: the unit is met on the way up from its new parent, or the way
\* is a circle already.
WouldCycle(u, p) == u \in Above(p) \/ Circles(p)

-----------------------------------------------------------------------------
Look(e, ed) ==
    /\ edit[e] = NoEdit /\ edits < MaxEdits
    /\ edit' = [edit EXCEPT ![e] = ed]
    /\ edits' = edits + 1
    /\ UNCHANGED <<unit, member>>
Write(e, op) == edit[e].op = op /\ edit' = [edit EXCEPT ![e] = NoEdit] /\ UNCHANGED edits

\* The database refuses a reference to a row that is gone.
HasRow(u) == u \in {Top} \cup {v \in Units : Exists(v)}

\* CreateOrgUnit.
CreateLooks(e, u, p) == unit[u] = Absent /\ MayHang(p) /\ Look(e, [op |-> "create", u |-> u, p |-> p])
CreateWrites(e) ==
    /\ Write(e, "create")
    /\ LET d == edit[e] IN
        unit' = IF unit[d.u] = Absent /\ HasRow(d.p)
                THEN [unit EXCEPT ![d.u] = [status |-> "active", parent |-> d.p]] ELSE unit
    /\ UNCHANGED member

\* ReparentOrgUnit.
ReparentLooks(e, u, p) ==
    /\ Exists(u) /\ p # u /\ MayHang(p) /\ ~WouldCycle(u, p)
    /\ Look(e, [op |-> "reparent", u |-> u, p |-> p])
ReparentWrites(e) ==
    /\ Write(e, "reparent")
    /\ LET d == edit[e] IN
        unit' = IF Exists(d.u) /\ HasRow(d.p) THEN [unit EXCEPT ![d.u].parent = d.p] ELSE unit
    /\ UNCHANGED member

\* SetPersonOrg.
PersonLooks(e, p, u) == MayHang(u) /\ Look(e, [op |-> "person", p |-> p, u |-> u])
PersonWrites(e) ==
    /\ Write(e, "person")
    /\ LET d == edit[e] IN
        member' = IF HasRow(d.u) THEN [member EXCEPT ![d.p] = d.u] ELSE member
    /\ UNCHANGED unit

\* DisableOrgUnit: no active child is seen, then the status is written.
DisableLooks(e, u) ==
    /\ Exists(u) /\ \A c \in Children(u) : unit[c].status # "active"
    /\ Look(e, [op |-> "disable", u |-> u])
\* EnableOrgUnit: the parent is seen active.
EnableLooks(e, u) ==
    /\ unit[u].status = "disabled" /\ MayHang(unit[u].parent)
    /\ Look(e, [op |-> "enable", u |-> u])
StatusWrites(e, op, st) ==
    /\ Write(e, op)
    /\ LET d == edit[e] IN
        unit' = IF Exists(d.u) THEN [unit EXCEPT ![d.u].status = st] ELSE unit
    /\ UNCHANGED member

\* What the foreign keys hold on to: children and people.
Referenced(u) == Children(u) # {} \/ \E p \in Members : member[p] = u

\* A plausible slip: what was seen before is trusted.
SeenBefore(u) == TRUE

\* A row may go while nothing refers to it.
MayGo(u) == ~Referenced(u)

\* DeleteOrgUnit: its own look, and the foreign keys when the row goes.
DeleteLooks(e, u) == Exists(u) /\ ~Referenced(u) /\ Look(e, [op |-> "delete", u |-> u])
DeleteWrites(e) ==
    /\ Write(e, "delete")
    /\ LET d == edit[e] IN
        unit' = IF Exists(d.u) /\ MayGo(d.u) THEN [unit EXCEPT ![d.u] = Gone] ELSE unit
    /\ UNCHANGED member

OrgNext ==
    \E e \in Editors :
        \/ \E u \in Units, p \in Units \cup {Top} : CreateLooks(e, u, p) \/ ReparentLooks(e, u, p)
        \/ \E p \in Members, u \in Units \cup {Top} : PersonLooks(e, p, u)
        \/ \E u \in Units : DisableLooks(e, u) \/ EnableLooks(e, u) \/ DeleteLooks(e, u)
        \/ CreateWrites(e) \/ ReparentWrites(e) \/ PersonWrites(e)
        \/ StatusWrites(e, "disable", "disabled") \/ StatusWrites(e, "enable", "active")
        \/ DeleteWrites(e)

OrgSpec == OrgInit /\ [][OrgNext]_ovars

-----------------------------------------------------------------------------
\* Whatever runs at once, a unit's parent and a person's unit exist: the
\* looks before a write may be out of date, the foreign keys are not.
ReferencesExist ==
    /\ \A u \in Units : Exists(u) => HasRow(unit[u].parent)
    /\ \A p \in Members : HasRow(member[p])

\* Claims that do not hold when edits overlap: no unit is above itself
\* (ReparentOrgUnit), no active unit hangs under a disabled one.
NoCircle == \A u \in Units : ~Circles(u)
ParentsActive == \A u \in Units : unit[u].status = "active" => MayHang(unit[u].parent)
=============================================================================
