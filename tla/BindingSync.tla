---------------------------- MODULE BindingSync -----------------------------
(***************************************************************************)
(* The WAN client directory composed with the factories that follow it.    *)
(*                                                                         *)
(* Downward commands go through a persistent MQTT session of the WAN       *)
(* broker (session), are copied by the factory's receive callback into a   *)
(* bounded in-memory queue (inbox) and are applied one by one by the main  *)
(* loop of Hold.  Next to that path the factory runs full rounds: it asks  *)
(* for the HTTPS index, applies every entry and then voids whatever the    *)
(* index does not list.  The first round of a connection runs before the   *)
(* main loop starts, later rounds run beside it; bindLog (field seen)      *)
(* protects from the final step what the main loop has bound meanwhile.    *)
(***************************************************************************)
EXTENDS ClientRegistry, FactoryBinding, Sequences

CONSTANTS
    QueueCap,     \* downQueue: capacity of the in-memory queue
    MaxSession,   \* bound: commands the broker holds for one factory
    MaxFaults,    \* bound: lost connections and acknowledgements, failed rounds and
                  \* audit writes, restarts
    Live          \* the factories whose server is switched on

ASSUME ChannelBounds ==
    /\ QueueCap \in Nat \ {0} /\ MaxSession \in Nat /\ MaxFaults \in Nat
    /\ Live \subseteq Factories

VARIABLES
    local,        \* the factories' clients tables
    session,      \* commands held by the broker
    known,        \* the broker has a session for this factory
    conn,         \* "down", "first" (first round running) or "up" (main loop)
    dying,        \* an acknowledgement is lost: nothing more gets through
    inbox,        \* commands accepted by the factory, not applied yet
    dirty,        \* a full round is due
    round,        \* the full round in progress
    faults        \* faults so far

channelVars == <<local, session, known, conn, dying, inbox, dirty, round>>
vars == <<registryVars, local, session, known, conn, dying, inbox, dirty, round, faults>>

Msg == [typ: {"bind", "void"}, client: Clients, rev: Nat]
BindMsg(c, r) == [typ |-> "bind", client |-> c, rev |-> r]
VoidMsg(c, r) == [typ |-> "void", client |-> c, rev |-> r]

\* todo: index entries still to apply; keep: clients the index listed, so
\* far applied; seen: clients bound by anyone since the round began.
Idle == [pc |-> "idle", todo |-> {}, keep |-> {}, seen |-> {}]
Began == [pc |-> "index", todo |-> {}, keep |-> {}, seen |-> {}]
Round == [pc: {"idle", "index", "apply"}, todo: SUBSET (Clients \X Nat),
          keep: SUBSET Clients, seen: SUBSET Clients]

TypeOK ==
    /\ RegistryType
    /\ local \in [Factories -> [Clients -> Row]]
    /\ session \in [Factories -> Seq(Msg)]
    /\ known \in [Factories -> BOOLEAN]
    /\ conn \in [Factories -> {"down", "first", "up"}]
    /\ dying \in [Factories -> BOOLEAN]
    /\ inbox \in [Factories -> Seq(Msg)]
    /\ dirty \in [Factories -> BOOLEAN]
    /\ round \in [Factories -> Round]
    /\ faults \in Nat

Init ==
    /\ RegistryInit
    /\ local = [f \in Factories |-> [c \in Clients |-> NoBinding]]
    /\ session = [f \in Factories |-> << >>]
    /\ known = [f \in Factories |-> FALSE]
    /\ conn = [f \in Factories |-> "down"]
    /\ dying = [f \in Factories |-> FALSE]
    /\ inbox = [f \in Factories |-> << >>]
    /\ dirty = [f \in Factories |-> FALSE]
    /\ round = [f \in Factories |-> Idle]
    /\ faults = 0

-----------------------------------------------------------------------------
(* WAN side.                                                               *)

Fault == faults < MaxFaults /\ faults' = faults + 1

Admin ==
    /\ \/ \E c \in Clients :
            CreateClient(c) \/ UnassignClient(c) \/ AnnounceAgain(c)
       \/ \E c \in Clients, f \in Factories : BindClient(c, f) \/ RebindClient(c, f)
       \/ \E f \in Factories, s \in FactoryStates : SetFactoryStatus(f, s)
       \/ \E n \in calls : AuditOK(n)
    /\ UNCHANGED <<channelVars, faults>>

CallFails ==
    /\ Fault
    /\ \/ \E n \in calls : AuditFails(n)
       \/ \E f \in Factories : DropFails(f)
    /\ UNCHANGED channelVars

\* The broker disconnects the client if it is connected.
Drop(f) ==
    /\ EndDrop(f)
    /\ dying' = [dying EXCEPT ![f] = conn[f] # "down"]
    /\ UNCHANGED <<local, session, known, conn, inbox, dirty, round, faults>>

\* QoS 1 to a persistent session; without a session the command is lost.
Enqueue(f, m) ==
    /\ Len(session[f]) < MaxSession
    /\ session' = IF known[f] THEN [session EXCEPT ![f] = Append(@, m)] ELSE session
    /\ UNCHANGED <<local, known, conn, dying, inbox, dirty, round, faults>>

Publish(n) ==
    \/ PublishVoid(n) /\ Enqueue(n.prev, VoidMsg(n.client, n.rev))
    \/ PublishBind(n) /\ Enqueue(n.to, BindMsg(n.client, n.rev))

\* The broker keeps its sessions in memory.
RestartWAN ==
    /\ Fault
    /\ RegistryRestart
    /\ session' = [f \in Factories |-> << >>]
    /\ known' = [f \in Factories |-> FALSE]
    /\ dying' = [f \in Factories |-> conn[f] # "down"]
    /\ UNCHANGED <<local, conn, inbox, dirty, round>>

-----------------------------------------------------------------------------
(* Factory side: the connection.                                           *)

\* Hold: CONNECT with the old session, subscribe, start the first round.  Even a
\* retired factory is let in; its first round is then refused.
Connect(f) ==
    /\ conn[f] = "down"
    /\ conn' = [conn EXCEPT ![f] = "first"]
    /\ known' = [known EXCEPT ![f] = TRUE]
    /\ round' = [round EXCEPT ![f] = Began]
    /\ UNCHANGED <<registryVars, local, session, dying, inbox, dirty, faults>>

\* Hold returns, whatever the reason: the commands it accepted and the marks
\* it kept are forgotten with it.
Leave(f) ==
    /\ conn' = [conn EXCEPT ![f] = "down"]
    /\ dying' = [dying EXCEPT ![f] = FALSE]
    /\ inbox' = [inbox EXCEPT ![f] = << >>]
    /\ dirty' = [dirty EXCEPT ![f] = FALSE]
    /\ round' = [round EXCEPT ![f] = Idle]
    /\ UNCHANGED <<registryVars, local, session, known>>

LoseConnection(f) ==
    /\ conn[f] # "down" /\ ~dying[f]
    /\ Fault
    /\ dying' = [dying EXCEPT ![f] = TRUE]
    /\ UNCHANGED <<registryVars, local, session, known, conn, inbox, dirty, round>>

\* Only the main loop looks at the connection; the first round does not.
NoticeLostConnection(f) ==
    /\ conn[f] = "up" /\ dying[f]
    /\ Leave(f)
    /\ UNCHANGED faults

\* The process is restarted, the channel is stopped or a command could not be
\* written to the database.
AbandonChannel(f) == conn[f] # "down" /\ Fault /\ Leave(f)

\* The receive callback never blocks: a full queue drops the command and
\* marks the whole index for a round.
Receive(f) ==
    /\ conn[f] # "down" /\ ~dying[f] /\ session[f] # << >>
    /\ IF Len(inbox[f]) < QueueCap
       THEN inbox' = [inbox EXCEPT ![f] = Append(@, Head(session[f]))] /\ UNCHANGED dirty
       ELSE dirty' = [dirty EXCEPT ![f] = TRUE] /\ UNCHANGED inbox
    /\ UNCHANGED <<registryVars, local, known, conn, round>>

Deliver(f) ==
    /\ Receive(f)
    /\ session' = [session EXCEPT ![f] = Tail(@)]
    /\ UNCHANGED <<dying, faults>>

\* The acknowledgement is lost with the connection: the broker keeps the
\* command and sends it again after a reconnection.
DeliverUnacked(f) ==
    /\ Receive(f)
    /\ Fault
    /\ dying' = [dying EXCEPT ![f] = TRUE]
    /\ UNCHANGED session

-----------------------------------------------------------------------------
(* Factory side: applying commands.  Every application holds Hold's mutex. *)

\* A plausible slip in Record: the round does not learn what is bound beside it.
RecordNothing(f, c) == round[f]

\* A bind that was not an error is recorded while a round is in progress.
Record(f, c) ==
    IF round[f].pc = "idle" THEN round[f] ELSE [round[f] EXCEPT !.seen = @ \cup {c}]

ApplyBind(f, c, r) ==
    local' = [local EXCEPT ![f][c] = AcceptBinding(@, r)]

ApplyVoid(f, c, r) ==
    local' = [local EXCEPT ![f][c] = VoidBindingByRevision(@, r)]

\* The main loop takes the next command.
HandleCmd(f) ==
    /\ conn[f] = "up" /\ inbox[f] # << >>
    /\ inbox' = [inbox EXCEPT ![f] = Tail(@)]
    /\ LET m == Head(inbox[f])
       IN  IF m.typ = "bind"
           THEN /\ ApplyBind(f, m.client, m.rev)
                /\ round' = [round EXCEPT ![f] = Record(f, m.client)]
           ELSE ApplyVoid(f, m.client, m.rev) /\ UNCHANGED round
    /\ UNCHANGED <<registryVars, session, known, conn, dying, dirty, faults>>

\* A plausible slip in BeginRound: the mark is not taken.
BeginRoundKeepsMark(f) ==
    /\ conn[f] = "up" /\ dirty[f] /\ round[f].pc = "idle"
    /\ round' = [round EXCEPT ![f] = Began]
    /\ UNCHANGED <<registryVars, local, session, known, conn, dying,
                   inbox, dirty, faults>>

\* runResync takes the marks and begins a round beside the main loop.
BeginRound(f) ==
    /\ conn[f] = "up" /\ dirty[f] /\ round[f].pc = "idle"
    /\ dirty' = [dirty EXCEPT ![f] = FALSE]
    /\ round' = [round EXCEPT ![f] = Began]
    /\ UNCHANGED <<registryVars, local, session, known, conn, dying,
                   inbox, faults>>

AfterRound(f) ==
    /\ round' = [round EXCEPT ![f] = Idle]
    /\ conn' = [conn EXCEPT ![f] = "up"]

Assigned(f) == {c \in Clients : owner[c] = f}

\* The index as WAN answers it: one state of the directory.  A disabled factory
\* gets its state only and nothing is reconciled; a retired one is refused.
IndexOfActive(f) ==
    /\ fstate[f] = "active"
    /\ round' = [round EXCEPT ![f] =
                    [pc |-> "apply", todo |-> {<<c, rev[c]>> : c \in Assigned(f)},
                     keep |-> {}, seen |-> round[f].seen]]
    /\ UNCHANGED <<registryVars, local, session, known, conn, dying, inbox, dirty>>

IndexOfDisabled(f) ==
    /\ fstate[f] = "disabled"
    /\ AfterRound(f)
    /\ UNCHANGED <<registryVars, local, session, known, dying, inbox, dirty>>

FetchIndex(f) ==
    /\ round[f].pc = "index"
    /\ \/ IndexOfActive(f)
       \/ IndexOfDisabled(f)
       \/ fstate[f] = "retired" /\ Leave(f)
    /\ UNCHANGED faults

ApplyIndexEntry(f) ==
    /\ round[f].pc = "apply"
    /\ \E e \in round[f].todo :
        /\ ApplyBind(f, e[1], e[2])
        /\ round' = [round EXCEPT ![f] =
                        [pc |-> "apply", todo |-> round[f].todo \ {e},
                         keep |-> round[f].keep \cup {e[1]},
                         seen |-> round[f].seen \cup {e[1]}]]
    /\ UNCHANGED <<registryVars, session, known, conn, dying, inbox,
                   dirty, faults>>

Reconcile(f) ==
    /\ round[f].pc = "apply" /\ round[f].todo = {}
    /\ local' = [local EXCEPT ![f] = ReconcileBindings(@, round[f].keep \cup round[f].seen)]
    /\ AfterRound(f)
    /\ UNCHANGED <<registryVars, session, known, dying, inbox, dirty,
                   faults>>

\* A failed request or a database error.  In the first round Hold returns;
\* later the mark is set again and the round will be repeated.
RoundFails(f) ==
    /\ round[f].pc # "idle"
    /\ Fault
    /\ IF conn[f] = "first"
       THEN Leave(f)
       ELSE /\ round' = [round EXCEPT ![f] = Idle]
            /\ dirty' = [dirty EXCEPT ![f] = TRUE]
            /\ UNCHANGED <<registryVars, local, session, known, conn,
                           dying, inbox>>

-----------------------------------------------------------------------------
Factory(f) ==
    \/ Connect(f)
    \/ LoseConnection(f)
    \/ NoticeLostConnection(f)
    \/ AbandonChannel(f)
    \/ Deliver(f)
    \/ DeliverUnacked(f)
    \/ HandleCmd(f)
    \/ BeginRound(f)
    \/ FetchIndex(f)
    \/ ApplyIndexEntry(f)
    \/ Reconcile(f)
    \/ RoundFails(f)

Next ==
    \/ Admin
    \/ CallFails
    \/ \E n \in calls : Publish(n)
    \/ \E f \in Factories : Drop(f)
    \/ RestartWAN
    \/ \E f \in Live : Factory(f)

Spec == Init /\ [][Next]_vars

\* What the code keeps doing: a call that has committed goes on to publish, a
\* switched-on factory reconnects (holdChannel's loop), the broker delivers
\* (and retries) what it holds, the main loop and the rounds make progress.
\* Admin calls and faults are under no obligation.
Fairness ==
    /\ WF_vars(\E n \in calls : AuditOK(n) /\ UNCHANGED <<channelVars, faults>>)
    /\ WF_vars(\E n \in calls : Publish(n))
    /\ \A f \in Factories : WF_vars(Drop(f))
    /\ \A f \in Live :
        /\ WF_vars(Connect(f))
        /\ WF_vars(NoticeLostConnection(f))
        /\ WF_vars(Deliver(f))
        /\ WF_vars(HandleCmd(f))
        /\ WF_vars(BeginRound(f) \/ FetchIndex(f) \/ ApplyIndexEntry(f) \/ Reconcile(f))

FairSpec == Spec /\ Fairness

-----------------------------------------------------------------------------
(* Properties.                                                             *)

\* Every step of the whole system, projected on the directory and the
\* factories' tables, is a step of the contract or leaves both alone: late,
\* repeated and reordered commands, index answers that are already stale and
\* the final voiding of a round never revive a voided binding under the same
\* revision, never lower a revision, never take a revision that was issued to
\* another factory and never void the binding that is in force.
Contract == INSTANCE BindingContract WITH
    NoOwner <- Unassigned,
    owner <- [c \in Clients |-> IF owner[c] = NoRow THEN Unassigned ELSE owner[c]],
    view <- local

BindingFollowsContract == Contract!Spec

\* Nothing is on its way to factory f any more and no round is due.
Quiescent(f) ==
    /\ calls = {} /\ f \notin drops /\ fstate[f] = "active"
    /\ conn[f] = "up" /\ ~dying[f] /\ ~dirty[f] /\ round[f] = Idle
    /\ session[f] = << >> /\ inbox[f] = << >>

\* Once nothing is on its way, a connected factory holds every client the
\* directory gives it, at the directory's revision: whatever was dropped by a
\* full queue, lost with a connection, a restart or a round was made up for.
\* Only a call that failed after its commit may have left it uninformed.
OwnerKnows ==
    \A f \in Factories \ untold, c \in Clients :
        Quiescent(f) /\ owner[c] = f => local[f][c] = Bound(rev[c])

\* The same of every factory, whatever the admin calls returned.
EveryOwnerKnows ==
    \A f \in Factories, c \in Clients :
        Quiescent(f) /\ owner[c] = f => local[f][c] = Bound(rev[c])

\* Once nothing is on its way, a factory holds no client that the directory
\* does not give it.
OthersLetGo ==
    \A f \in Factories, c \in Clients :
        Quiescent(f) /\ owner[c] # f => local[f][c].st # "bound"

\* A client that is given to an active, switched-on factory for good ends up
\* bound there at the directory's revision, however often the connection, the
\* acknowledgements, the rounds or the WAN process failed before, unless a
\* failed call left the factory uninformed.
OwnerLearns ==
    \A f \in Live, c \in Clients :
        <>[](owner[c] = f /\ fstate[f] = "active" /\ f \notin untold)
            => <>[](local[f][c] = Bound(rev[c]))

\* When the admins have stopped, a switched-on factory that stays active is
\* eventually connected for good with nothing left to fetch or to apply:
\* neither a lost command nor a failed round leaves it waiting forever.
FactorySettles ==
    \A f \in Live :
        <>[](fstate[f] = "active" /\ calls = {}) => <>[]Quiescent(f)

-----------------------------------------------------------------------------
(* Why the contract holds: an invariant that every step preserves.         *)

\* A command, or an index entry, for factory f: of a revision that has been
\* issued and, if that is the newest one, in line with the directory.
Timely(f, m) ==
    /\ m.rev <= rev[m.client]
    /\ m.rev = rev[m.client] => (m.typ = "bind" <=> owner[m.client] = f)

CommandsTimely ==
    \A f \in Factories :
        /\ \A i \in 1 .. Len(session[f]) : Timely(f, session[f][i])
        /\ \A i \in 1 .. Len(inbox[f]) : Timely(f, inbox[f][i])
        /\ \A e \in round[f].todo : Timely(f, BindMsg(e[1], e[2]))

\* What an admin call is about to publish is timely, however late it is.
CallsTimely ==
    \A n \in calls :
        /\ n.rev <= rev[n.client]
        /\ n.rev = rev[n.client] => owner[n.client] = n.to
        /\ n.to # NoRow
        /\ n.stage = "void" => n.prev \in Factories \ {n.to}
        /\ n.stage = "bind" => n.to \in Factories

TablesTimely ==
    \A f \in Factories, c \in Clients : local[f][c].rev <= rev[c]

OwnedHasRevision == \A c \in Clients : owner[c] \in Factories => rev[c] > 0

InForce(f, c) == local[f][c].rev = rev[c] /\ owner[c] = f

\* The binding that is in force is never held as a void row: nothing could
\* bring it back, because a bind of the same revision does not.
CurrentStands ==
    \A f \in Factories, c \in Clients : InForce(f, c) => local[f][c].st = "bound"

\* From the answered index to the final voiding, a binding in force is in the
\* answer or in what was bound beside the round.
RoundProtects ==
    \A f \in Factories, c \in Clients :
        round[f].pc = "apply" /\ InForce(f, c) =>
            c \in round[f].keep \cup round[f].seen \cup {e[1] : e \in round[f].todo}

IInv ==
    /\ TypeOK
    /\ CommandsTimely
    /\ CallsTimely
    /\ TablesTimely
    /\ OwnedHasRevision
    /\ CurrentStands
    /\ RoundProtects
=============================================================================
