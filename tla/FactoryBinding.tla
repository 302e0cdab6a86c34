--------------------------- MODULE FactoryBinding ---------------------------
(***************************************************************************)
(* What a factory's database does to one row of its clients table.  Each   *)
(* operator maps the row before a call to the row after it.                *)
(***************************************************************************)
EXTENDS Naturals

NoBinding == [st |-> "none", rev |-> 0]
Bound(r)  == [st |-> "bound", rev |-> r]
Row == {NoBinding} \cup [st: {"bound", "void"}, rev: Nat]

\* A plausible slip in AcceptBinding: a replayed bind brings a voided row back.
AcceptSameRevision(row, r) == IF r < 1 \/ r < row.rev THEN row ELSE Bound(r)

\* Revisions only move forward, and a bind of the same revision does not
\* bring a voided row back.  A refused bind leaves the row as it is.
AcceptBinding(row, r) ==
    IF r < 1 \/ r < row.rev \/ (r = row.rev /\ row.st = "void")
    THEN row
    ELSE Bound(r)

\* Voiding keeps the stored revision.
VoidBinding(row) == IF row.st = "bound" THEN [row EXCEPT !.st = "void"] ELSE row

\* A plausible slip in VoidBindingByRevision: the command's revision is not looked at.
VoidRegardless(row, r) == VoidBinding(row)

\* One conditional UPDATE: only a binding older than the command is voided.
VoidBindingByRevision(row, r) == IF row.rev < r THEN VoidBinding(row) ELSE row

\* Every bound client that WAN's list does not keep is voided.
ReconcileBindings(rows, keep) ==
    [c \in DOMAIN rows |-> IF c \in keep THEN rows[c] ELSE VoidBinding(rows[c])]
=============================================================================
