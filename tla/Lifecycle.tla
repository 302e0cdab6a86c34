----------------------------- MODULE Lifecycle -----------------------------
(***************************************************************************)
(* How a factory's status (active, disabled, retired) travels from WAN to  *)
(* the factory's own row, and how a retired factory closes itself.         *)
(*                                                                         *)
(* WAN raises a revision with every change (global store/directory.go) and *)
(* announces it.  In the factory two goroutines write the row: "hold"      *)
(* (hub/channel.go holdChannel and dialHold), which applies announcements  *)
(* and index entries, and "lease" (keepLease), which learns from a refused *)
(* HTTPS renewal that the factory is retired.  Both then close the row     *)
(* (service CloseFromWAN) and stop the channel by cancelling the context   *)
(* they share.  Every transaction on the row is a plain SELECT followed by *)
(* an UPDATE of all its columns, READ COMMITTED and without a row lock, so *)
(* the transactions of the two goroutines may overlap.                     *)
(***************************************************************************)
EXTENDS Naturals

CONSTANTS
    MaxRev,     \* bound: status changes made by administrators
    MaxFaults   \* bound: database errors, failed pulls, reboots

ASSUME LifecycleBounds == MaxRev \in Nat /\ MaxFaults \in Nat

Status  == {"active", "disabled", "retired"}
Threads == {"hold", "lease"}
Row     == [st : Status, rev : Nat]

VARIABLES
    wan,        \* WAN's status at each revision up to rev (history)
    rev,        \* WAN's lifecycle_revision
    notices,    \* revisions announced, or answered by an index, not yet handled
    dirty,      \* an announcement was dropped, a full round is due
    row,        \* the factory_lifecycle row
    online,     \* Store.crypt.online
    cancelled,  \* the channel's context
    pc,         \* where each goroutine is
    snap,       \* the row as its transaction read it
    arg,        \* the row its transaction is to write, and whether to close with it
    born,       \* history: the factory was retired when the process last started
    faults

wanVars == <<wan, rev>>
vars == <<wan, rev, notices, dirty, row, online, cancelled, pc, snap, arg, born, faults>>

Wan == wan[rev]

Init ==
    /\ wan = [r \in 0..MaxRev |-> "active"] /\ rev = 0
    /\ notices = {} /\ dirty = FALSE
    /\ row = [st |-> "active", rev |-> 0]
    /\ online = FALSE /\ cancelled = FALSE
    /\ pc = [hold |-> "down", lease |-> "wait"]
    /\ snap = [t \in Threads |-> row]
    /\ arg = [t \in Threads |-> [st |-> "active", rev |-> 0, close |-> FALSE]]
    /\ born = FALSE
    /\ faults = 0

Fault == faults < MaxFaults /\ faults' = faults + 1

Proceed(t, l) == pc' = [pc EXCEPT ![t] = l]

\* A goroutine at label l whose requests and transactions still run: with the
\* context cancelled they fail at once.
Runs(t, l) == pc[t] = l /\ ~cancelled

-----------------------------------------------------------------------------
(* WAN *)

\* SetFactoryStatus: a retired factory stays retired.  The announcement is
\* published after the commit, so announcements may overtake one another.
SetFactoryStatus(s) ==
    /\ rev < MaxRev /\ Wan \notin {s, "retired"}
    /\ rev' = rev + 1
    /\ wan' = [wan EXCEPT ![rev + 1] = s]
    /\ notices' = notices \cup {rev + 1}
    /\ UNCHANGED <<dirty, row, online, cancelled, pc, snap, arg, born, faults>>

\* The downlink queue is full: the announcement is dropped and a round is due.
Overflow(n) ==
    /\ Runs("hold", "loop") /\ n \in notices
    /\ notices' = notices \ {n}
    /\ dirty' = TRUE
    /\ UNCHANGED <<wanVars, row, online, cancelled, pc, snap, arg, born, faults>>

-----------------------------------------------------------------------------
(* Leases, by the first round of hold and by the renewals of keepLease.    *)

\* A plausible slip: a refused renewal is retried like any other failure.
RenewIgnoresRetired(t) ==
    /\ Runs(t, IF t = "lease" THEN "wait" ELSE "first")
    /\ Proceed(t, IF Wan = "retired" THEN pc[t] ELSE "check")
    /\ UNCHANGED <<wanVars, notices, dirty, row, online, cancelled, snap, arg, born, faults>>

\* A plausible slip: a disabled factory is refused like a retired one.
RenewRefusesDisabled(t) ==
    /\ Runs(t, IF t = "lease" THEN "wait" ELSE "first")
    /\ Proceed(t, IF Wan = "active" THEN "check" ELSE "close")
    /\ UNCHANGED <<wanVars, notices, dirty, row, online, cancelled, snap, arg, born, faults>>

\* GET /v1/channel/lease: a retired factory is refused.
Renew(t) ==
    /\ Runs(t, IF t = "lease" THEN "wait" ELSE "first")
    /\ Proceed(t, IF Wan = "retired" THEN "close" ELSE "check")
    /\ UNCHANGED <<wanVars, notices, dirty, row, online, cancelled, snap, arg, born, faults>>

\* applyHTTPSLease looks at the context ...
CheckAlive(t) ==
    /\ Runs(t, "check")
    /\ Proceed(t, "online")
    /\ UNCHANGED <<wanVars, notices, dirty, row, online, cancelled, snap, arg, born, faults>>

\* ... and then marks the store online.
SetOnline(t) ==
    /\ pc[t] = "online"
    /\ online' = TRUE
    /\ Proceed(t, IF t = "lease" THEN "wait" ELSE "index")
    /\ UNCHANGED <<wanVars, notices, dirty, row, cancelled, snap, arg, born, faults>>

-----------------------------------------------------------------------------
(* hold: the connection and what it delivers.                              *)

\* Retired factories may connect too; their first lease is refused.
Dial ==
    /\ Runs("hold", "down")
    /\ Proceed("hold", "first")
    /\ UNCHANGED <<wanVars, notices, dirty, row, online, cancelled, snap, arg, born, faults>>

\* The index carries the current status ahead of everything else.
PullIndex ==
    /\ Runs("hold", "index") \/ (Runs("hold", "loop") /\ dirty)
    /\ dirty' = FALSE
    /\ IF Wan = "retired"
       THEN Proceed("hold", "close") /\ UNCHANGED notices
       ELSE Proceed("hold", "loop") /\ notices' = notices \cup {rev}
    /\ UNCHANGED <<wanVars, row, online, cancelled, snap, arg, born, faults>>

\* The connection is lost, or the broker drops it.  What the factory had accepted
\* but not handled is lost, what the broker's session still holds is not.
Disconnect ==
    /\ Runs("hold", "loop")
    /\ Proceed("hold", "down")
    /\ notices' \in SUBSET notices
    /\ dirty' = FALSE
    /\ UNCHANGED <<wanVars, row, online, cancelled, snap, arg, born, faults>>

\* The main loop takes a factory_state instruction ...
Handle(n) ==
    /\ Runs("hold", "loop") /\ n \in notices
    /\ notices' = notices \ {n}
    /\ arg' = [arg EXCEPT !["hold"] = [st |-> wan[n], rev |-> n, close |-> FALSE]]
    /\ Proceed("hold", "put")
    /\ UNCHANGED <<wanVars, dirty, row, online, cancelled, snap, born, faults>>

\* ... writes its short code and name into the row (PutFactoryShortCode,
\* PutFactoryName), each reading the row ...
PutRead ==
    /\ Runs("hold", "put")
    /\ snap' = [snap EXCEPT !["hold"] = row]
    /\ Proceed("hold", "putsave")
    /\ UNCHANGED <<wanVars, notices, dirty, row, online, cancelled, arg, born, faults>>

\* ... and saving all of it, status and revision included ...
PutSave ==
    /\ Runs("hold", "putsave")
    /\ row' = snap["hold"]
    /\ Proceed("hold", "apply")
    /\ UNCHANGED <<wanVars, notices, dirty, online, cancelled, snap, arg, born, faults>>

\* ... and applies the status.  A factory that turns out retired goes on to close.
After(t, st) ==
    IF arg[t].close THEN Proceed(t, "stop")
    ELSE Proceed(t, IF st = "retired" THEN "close" ELSE "loop")

\* store.ApplyLifecycle: only a higher revision is accepted ...
ApplyRead(t) ==
    /\ Runs(t, "apply")
    /\ snap' = [snap EXCEPT ![t] = row]
    /\ IF arg[t].rev <= row.rev THEN After(t, row.st) ELSE Proceed(t, "save")
    /\ UNCHANGED <<wanVars, notices, dirty, row, online, cancelled, arg, born, faults>>

\* ... and the row is saved.
ApplySave(t) ==
    /\ Runs(t, "save")
    /\ row' = [st |-> arg[t].st, rev |-> arg[t].rev]
    /\ After(t, arg[t].st)
    /\ UNCHANGED <<wanVars, notices, dirty, online, cancelled, snap, arg, born, faults>>

-----------------------------------------------------------------------------
(* Closing and stopping. *)

\* A plausible slip: the row is closed at the revision it has.
CloseAtSameRevision(t) ==
    /\ Runs(t, "close")
    /\ IF row.st = "retired"
       THEN Proceed(t, "stop") /\ UNCHANGED arg
       ELSE /\ arg' = [arg EXCEPT ![t] = [st |-> "retired", rev |-> row.rev, close |-> TRUE]]
            /\ Proceed(t, "apply")
    /\ UNCHANGED <<wanVars, notices, dirty, row, online, cancelled, snap, born, faults>>

\* CloseFromWAN: nothing to do when retired, else retire at the next revision.
CloseFromWAN(t) ==
    /\ Runs(t, "close")
    /\ IF row.st = "retired"
       THEN Proceed(t, "stop") /\ UNCHANGED arg
       ELSE /\ arg' = [arg EXCEPT ![t] = [st |-> "retired", rev |-> row.rev + 1, close |-> TRUE]]
            /\ Proceed(t, "apply")
    /\ UNCHANGED <<wanVars, notices, dirty, row, online, cancelled, snap, born, faults>>

\* stopChannel cancels the context for good.
Stop(t) ==
    /\ Runs(t, "stop")
    /\ cancelled' = TRUE
    /\ Proceed(t, IF t = "lease" THEN "off" ELSE "done")
    /\ UNCHANGED <<wanVars, notices, dirty, row, online, snap, arg, born, faults>>

\* With the context cancelled the goroutine's next request, transaction or wait
\* fails and it returns.
Quit(t) ==
    /\ cancelled /\ pc[t] \notin {"online", "off", "done"}
    /\ Proceed(t, IF t = "lease" THEN "off" ELSE "done")
    /\ UNCHANGED <<wanVars, notices, dirty, row, online, cancelled, snap, arg, born, faults>>

\* The deferred call of keepLease.
SetOffline ==
    /\ pc["lease"] = "off"
    /\ online' = FALSE
    /\ Proceed("lease", "done")
    /\ UNCHANGED <<wanVars, notices, dirty, row, cancelled, snap, arg, born, faults>>

-----------------------------------------------------------------------------
(* Faults. *)

\* A failed request or database error: hold redials, keepLease goes on renewing
\* or, once refused, retries the close (retryCloseFromWAN).
Fails(t) ==
    /\ Fault /\ ~cancelled
    /\ IF t = "hold"
       THEN /\ pc[t] \in {"first", "index", "put", "putsave", "apply", "save", "close"}
            /\ Proceed(t, "down") /\ dirty' = FALSE
       ELSE /\ pc[t] \in {"apply", "save", "close"}
            /\ Proceed(t, "close") /\ UNCHANGED dirty
    /\ UNCHANGED <<wanVars, notices, row, online, cancelled, snap, arg, born>>

\* The factory's process is restarted; StartChannel runs every factory again.
Reboot ==
    /\ Fault
    /\ pc' = [hold |-> "down", lease |-> "wait"]
    /\ online' = FALSE /\ cancelled' = FALSE /\ dirty' = FALSE
    /\ born' = (Wan = "retired")
    /\ UNCHANGED <<wanVars, notices, row, snap, arg>>

-----------------------------------------------------------------------------
Thread(t) ==
    \/ Renew(t) \/ CheckAlive(t) \/ SetOnline(t)
    \/ ApplyRead(t) \/ ApplySave(t)
    \/ CloseFromWAN(t) \/ Stop(t) \/ Quit(t)

Hold ==
    \/ Thread("hold")
    \/ Dial \/ PullIndex \/ PutRead \/ PutSave
    \/ \E n \in notices : Handle(n)

Lease == Thread("lease") \/ SetOffline

Next ==
    \/ \E s \in Status : SetFactoryStatus(s)
    \/ Hold \/ Lease
    \/ \E n \in notices : Overflow(n)
    \/ Disconnect
    \/ \E t \in Threads : Fails(t)
    \/ Reboot

Spec == Init /\ [][Next]_vars

\* Both goroutines run.  The connection may be lost again and again, but not every
\* time before the index is pulled or an announcement is handled.
FairSpec ==
    /\ Spec /\ WF_vars(Hold) /\ WF_vars(Lease)
    /\ SF_vars(PullIndex) /\ \A n \in 0..MaxRev : SF_vars(Handle(n))

-----------------------------------------------------------------------------

\* What WAN said at some revision, or a close that WAN's retirement permits.
Genuine(r) ==
    /\ r.rev <= rev
    /\ r.st = wan[r.rev] \/ (r.st = "retired" /\ Wan = "retired")

TypeOK ==
    /\ wan \in [0..MaxRev -> Status] /\ rev \in 0..MaxRev
    /\ notices \subseteq 0..rev
    /\ row \in Row
    /\ snap \in [Threads -> Row]
    /\ arg \in [Threads -> [st : Status, rev : Nat, close : BOOLEAN]]
    /\ pc \in [Threads -> {"down", "first", "check", "online", "index", "loop", "put",
                           "putsave", "apply", "save", "close", "wait", "stop", "off", "done"}]
    /\ online \in BOOLEAN /\ cancelled \in BOOLEAN
    /\ dirty \in BOOLEAN /\ born \in BOOLEAN
    /\ faults \in Nat

\* A retired factory is never re-enabled at WAN.
RetiredIsLast == \A r \in 0..rev : wan[r] = "retired" => r = rev

\* Nobody closes or stops the channel of a factory that WAN has not retired.
ClosesOnlyRetired ==
    /\ cancelled => Wan = "retired"
    /\ \A t \in Threads : pc[t] \in {"close", "stop"} => Wan = "retired"
    /\ \A t \in Threads : pc[t] \in {"put", "putsave", "apply", "save"} /\ arg[t].close => Wan = "retired"
    /\ pc["lease"] \in {"apply", "save"} => arg["lease"].close

\* Whatever the overlaps, the factory's row never says what WAN has not said:
\* a factory is never closed by a status that is not, or not yet, WAN's.
FollowsWAN ==
    /\ Genuine(row)
    /\ \A t \in Threads : pc[t] = "putsave" => Genuine(snap[t])
    /\ \A t \in Threads : pc[t] \in {"put", "putsave", "apply", "save"} => Genuine(arg[t])

LifecycleInv == TypeOK /\ RetiredIsLast /\ ClosesOnlyRetired /\ FollowsWAN

\* The row's revision only goes forward, as its column comment says.
RevisionForward == [][row'.rev >= row.rev]_vars

\* Once both goroutines have gone the store is not online, as the comment in
\* applyHTTPSLease says.
GoneIsOffline == (\A t \in Threads : pc[t] = "done") => ~online

\* Every status WAN settles on reaches the factory's row, or finds its channel
\* stopped by a retirement.
StatusArrives ==
    \A s \in Status : (Wan = s) ~> (row.st = s \/ Wan # s \/ cancelled)

\* A process started after the retirement closes the factory for good, even if an
\* earlier one stopped its channel with the row still open.
BootCloses == born ~> (row.st = "retired" \/ ~born)
=============================================================================
