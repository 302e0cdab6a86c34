------------------------------ MODULE Presence ------------------------------
(***************************************************************************)
(* Whether the WAN directory shows a factory as connected.                 *)
(*                                                                         *)
(* Every MQTT connection of the factory is served by a goroutine of the    *)
(* broker, which runs one hook once the session stands and one when the    *)
(* connection has ended (platform/mqttbroker/broker.go: online, offline).  *)
(* A connection that comes back under the same client identifier takes the *)
(* session over, so the hooks of the old and of the new connection run     *)
(* side by side; a lock per factory and a table of the connection that     *)
(* counts keep a late hook of the old one from overwriting the new one.    *)
(* One factory: the lock, the table entry and the row are all its own.     *)
(***************************************************************************)
EXTENDS Naturals

CONSTANTS
    Conns,      \* the factory's connections, each dialled once
    None,       \* no connection
    MaxFaults   \* bound: database errors and restarts of WAN

ASSUME NoneIsNotAConn == None \notin Conns
ASSUME FaultBound == MaxFaults \in Nat

VARIABLES
    up,         \* the WAN process runs and its broker listens
    pc,         \* the goroutine of each connection
    taken,      \* connections whose session another one took over
    current,    \* the broker library's client under the factory's identifier
    lock,       \* the factory's lock: the connection registering, or None
    table,      \* conns: the connection that counts
    row,        \* factories.channel_connected_at is set
    missed,     \* history: the last write of the row failed
    faults

vars == <<up, pc, taken, current, lock, table, row, missed, faults>>

TypeOK ==
    /\ up \in BOOLEAN
    /\ pc \in [Conns -> {"new", "accepted", "registering", "serving", "ended", "gone"}]
    /\ taken \subseteq Conns
    /\ current \in Conns \cup {None}
    /\ lock \in Conns \cup {None}
    /\ table \in Conns \cup {None}
    /\ row \in BOOLEAN /\ missed \in BOOLEAN
    /\ faults \in Nat

\* WAN starts for the first time: nobody is connected.
Init ==
    /\ up = TRUE
    /\ pc = [c \in Conns |-> "new"]
    /\ taken = {} /\ current = None /\ lock = None /\ table = None
    /\ row = FALSE /\ missed = FALSE
    /\ faults = 0

Goto(c, l) == pc' = [pc EXCEPT ![c] = l]

\* A write of the row: it succeeds, or a database error leaves the row alone and the
\* caller (the hooks of cmd/server/main.go) ignores it.
Write(v) ==
    \/ row' = v /\ missed' = FALSE /\ UNCHANGED faults
    \/ faults < MaxFaults /\ faults' = faults + 1 /\ missed' = TRUE /\ UNCHANGED row

-----------------------------------------------------------------------------

\* The library authenticates c and lets it take over the session there is.
Accept(c) ==
    /\ up /\ pc[c] = "new"
    /\ Goto(c, "accepted")
    /\ taken' = taken \cup ({current} \ {None})
    /\ current' = c
    /\ UNCHANGED <<up, lock, table, row, missed, faults>>

\* The acknowledgement of the connection cannot be written: no hook is run.
Unacknowledged(c) ==
    /\ up /\ pc[c] = "accepted"
    /\ Goto(c, "gone")
    /\ UNCHANGED <<up, taken, current, lock, table, row, missed, faults>>

\* A plausible slip in Online: a connection taken over registers all the same.
OnlineIgnoresTakeover(c) ==
    /\ up /\ pc[c] = "accepted" /\ lock = None
    /\ Goto(c, "registering")
    /\ lock' = c
    /\ UNCHANGED <<up, taken, current, table, row, missed, faults>>

\* online: under the factory's lock, a connection taken over is left alone ...
Online(c) ==
    /\ up /\ pc[c] = "accepted" /\ lock = None
    /\ IF c \in taken
       THEN Goto(c, "serving") /\ UNCHANGED lock
       ELSE Goto(c, "registering") /\ lock' = c
    /\ UNCHANGED <<up, taken, current, table, row, missed, faults>>

\* ... any other becomes the one that counts, and the row is marked.
Register(c) ==
    /\ up /\ lock = c
    /\ table' = c
    /\ Write(TRUE)
    /\ lock' = None
    /\ Goto(c, "serving")
    /\ UNCHANGED <<up, taken, current>>

\* The connection ends: lost, timed out, dropped by an administrator's call, or
\* closed because it was taken over.
End(c) ==
    /\ up /\ pc[c] = "serving"
    /\ Goto(c, "ended")
    /\ UNCHANGED <<up, taken, current, lock, table, row, missed, faults>>

\* A plausible slip in Offline: whoever ends marks the row.
OfflineAlways(c) ==
    /\ up /\ pc[c] = "ended" /\ lock = None
    /\ Goto(c, "gone")
    /\ table' = None /\ Write(FALSE)
    /\ UNCHANGED <<up, taken, current, lock>>

\* offline: under the factory's lock, only the connection that counts marks the row.
Offline(c) ==
    /\ up /\ pc[c] = "ended" /\ lock = None
    /\ Goto(c, "gone")
    /\ IF table = c
       THEN table' = None /\ Write(FALSE)
       ELSE UNCHANGED <<table, row, missed, faults>>
    /\ UNCHANGED <<up, taken, current, lock>>

\* The WAN process dies, between any two steps of any hook.
Crash ==
    /\ up /\ faults < MaxFaults
    /\ faults' = faults + 1
    /\ up' = FALSE
    /\ pc' = [c \in Conns |-> IF pc[c] = "new" THEN "new" ELSE "gone"]
    /\ current' = None /\ lock' = None /\ table' = None
    /\ UNCHANGED <<taken, row, missed>>

\* A plausible slip in Boot: the row of the previous process is believed.
BootKeepsRow ==
    /\ ~up /\ up' = TRUE
    /\ missed' = FALSE
    /\ UNCHANGED <<pc, taken, current, lock, table, row, faults>>

\* It starts again and clears the row before its broker listens; a start that cannot
\* clear it ends the process.
Boot ==
    /\ ~up /\ up' = TRUE
    /\ row' = FALSE /\ missed' = FALSE
    /\ UNCHANGED <<pc, taken, current, lock, table, faults>>

-----------------------------------------------------------------------------
Hook(c) == Online(c) \/ Register(c) \/ Offline(c)

Next ==
    \/ \E c \in Conns : Accept(c) \/ Unacknowledged(c) \/ Hook(c) \/ End(c)
    \/ Crash \/ Boot

Spec == Init /\ [][Next]_vars

\* Goroutines run and get the lock, a connection taken over is closed, and the
\* process is started again when it has died.  SF: the lock is contended.
FairSpec ==
    /\ Spec /\ WF_vars(Boot)
    /\ \A c \in Conns :
        /\ SF_vars(Online(c)) /\ WF_vars(Register(c)) /\ SF_vars(Offline(c))
        /\ WF_vars(End(c) /\ c \in taken)

-----------------------------------------------------------------------------

Connected(c) == pc[c] = "serving" /\ c \notin taken

\* No hook is running or due.
Settled ==
    /\ up
    /\ \A c \in Conns : pc[c] \in {"new", "serving", "gone"}
    /\ \A c \in taken : pc[c] # "serving"

\* Whatever the order of the hooks of old and new connections, and wherever a crash
\* fell, the directory shows a factory as connected exactly while it is.
ShownIsConnected ==
    Settled /\ ~missed => (row <=> \E c \in Conns : Connected(c))

\* The same of every settled state, as the channel's document says without exception.
DirectoryIsSession ==
    Settled => (row <=> \E c \in Conns : Connected(c))

\* A factory shown as connected, with no connection left to it, does not stay so: it
\* connects again, is marked, or the mark failed.
GhostEnds ==
    (row /\ \A c \in Conns : ~Connected(c))
        ~> (~row \/ missed \/ \E c \in Conns : Connected(c))

-----------------------------------------------------------------------------
(* Why the directory is right: an invariant that every step preserves.     *)

\* Whoever has, or still seeks, a session that another has is known to be taken over.
OneHolder ==
    \A c \in Conns :
        pc[c] \in {"accepted", "registering", "serving", "ended"}
            => c = current \/ c \in taken

\* The lock is held by the connection that registers, after all those it succeeds.
LockHeld ==
    /\ \A c \in Conns : pc[c] = "registering" <=> lock = c
    /\ \A c \in Conns : lock # None /\ pc[c] \in {"serving", "ended"} => c \in taken

\* The connection that counts has registered; one that has and was not taken over counts.
TableCounts ==
    /\ table # None => pc[table] \in {"serving", "ended"}
    /\ \A c \in Conns : pc[c] \in {"serving", "ended"} /\ c \notin taken => table = c

\* The row is the table's, and the table dies with the process.
RowFollowsTable ==
    /\ up /\ ~missed => (row <=> table # None)
    /\ ~up => table = None

PresenceInv ==
    TypeOK /\ OneHolder /\ LockHeld /\ TableCounts /\ RowFollowsTable
=============================================================================
