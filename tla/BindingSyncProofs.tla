-------------------------- MODULE BindingSyncProofs --------------------------
(***************************************************************************)
(* For every set of clients and factories and every bound, BindingSync     *)
(* keeps its type invariant, implements BindingContract, and leaves no     *)
(* owner of a client without something that will inform it.                *)
(***************************************************************************)
EXTENDS BindingSync, TLAPS

(***************************************************************************)
(* What the operations on one row return.                                  *)
(***************************************************************************)
LEMMA AcceptBindingRow ==
    ASSUME NEW row \in Row, NEW r \in Nat
    PROVE  /\ AcceptBinding(row, r) \in Row
           /\ \/ AcceptBinding(row, r) = row
              \/ /\ row.rev <= r /\ AcceptBinding(row, r) = Bound(r)
                 /\ row.rev = r => row.st # "void"
BY DEF AcceptBinding, Bound, Row, NoBinding

\* Voiding a row keeps its revision and changes a bound row only.
LEMMA VoidBindingRow ==
    ASSUME NEW row \in Row
    PROVE  /\ VoidBinding(row) \in Row
           /\ VoidBinding(row).rev = row.rev
           /\ VoidBinding(row) = row \/ row.st = "bound"
BY DEF VoidBinding, Row, NoBinding

\* Voiding by revision touches a bound row of a smaller revision only.
LEMMA VoidByRevisionRow ==
    ASSUME NEW row \in Row, NEW r \in Nat
    PROVE  /\ VoidBindingByRevision(row, r) \in Row
           /\ VoidBindingByRevision(row, r).rev = row.rev
           /\ VoidBindingByRevision(row, r) = row \/ (row.st = "bound" /\ row.rev < r)
BY VoidBindingRow DEF VoidBindingByRevision, Row, NoBinding

-----------------------------------------------------------------------------
(* Type correctness, one lemma per side of the system.                     *)

\* The initial state has the types.
LEMMA TypeInit == Init => TypeOK
<1> SUFFICES ASSUME Init PROVE TypeOK
  OBVIOUS
<1>1. RegistryType
  BY DEF Init, RegistryInit, RegistryType, Owners, FactoryStates, Call
<1>2. local \in [Factories -> [Clients -> Row]]
  BY DEF Init, NoBinding, Row
<1>3. round \in [Factories -> Round]
  BY DEF Init, Idle, Round
<1>4. /\ session \in [Factories -> Seq(Msg)] /\ inbox \in [Factories -> Seq(Msg)]
  BY DEF Init
<1> QED
  BY <1>1, <1>2, <1>3, <1>4 DEF Init, TypeOK

\* What the WAN does to its directory keeps the directory's types.
LEMMA RegistryTypeStep ==
    ASSUME TypeOK, Admin \/ CallFails \/ (\E n \in calls : Publish(n))
           \/ (\E f \in Factories : Drop(f)) \/ RestartWAN
    PROVE  RegistryType'
<1> USE DEF TypeOK, RegistryType
<1>1. ASSUME NEW c \in Clients, CreateClient(c) PROVE RegistryType'
  BY <1>1 DEF CreateClient, Owners
<1>2. ASSUME NEW c \in Clients, NEW o \in Owners, NEW p \in Owners, Reassign(c, o, p)
      PROVE  RegistryType'
  <2>1. /\ owner' \in [Clients -> Owners] /\ rev' \in [Clients -> Nat]
        /\ fstate' = fstate /\ drops' = drops /\ untold' = untold
    BY <1>2 DEF Reassign
  <2>2. calls' \in SUBSET Call
    BY <1>2 DEF Reassign, Announce, Call
  <2> QED
    BY <2>1, <2>2
<1>3. ASSUME NEW c \in Clients, AnnounceAgain(c) PROVE RegistryType'
  <2>1. calls' \in SUBSET Call
    BY <1>3 DEF AnnounceAgain, Announce, Call, Owners
  <2> QED
    BY <1>3, <2>1 DEF AnnounceAgain
<1>4. ASSUME NEW f \in Factories, NEW s \in FactoryStates, SetFactoryStatus(f, s)
      PROVE  RegistryType'
  BY <1>4 DEF SetFactoryStatus
<1>5. ASSUME NEW n \in calls, NEW next \in SUBSET Call, Advance(n, next)
      PROVE  RegistryType'
  BY <1>5 DEF Advance
<1>6. \A n \in calls : AfterVoid(n) \in SUBSET Call /\ AfterAudit(n) \in SUBSET Call
  BY DEF AfterVoid, AfterAudit, Call
<1>7. ASSUME NEW f \in Factories, EndDrop(f) PROVE RegistryType'
  BY <1>7 DEF EndDrop
<1>8. CASE Admin
  <2>1. ASSUME NEW c \in Clients,
               CreateClient(c) \/ UnassignClient(c) \/ AnnounceAgain(c)
        PROVE  RegistryType'
    BY <2>1, <1>1, <1>2, <1>3 DEF UnassignClient, Owners
  <2>2. ASSUME NEW c \in Clients, NEW f \in Factories, BindClient(c, f) \/ RebindClient(c, f)
        PROVE  RegistryType'
    BY <2>2, <1>2 DEF BindClient, RebindClient, Owners
  <2>3. ASSUME NEW n \in calls, AuditOK(n) PROVE RegistryType'
    BY <2>3, <1>5, <1>6 DEF AuditOK
  <2> QED
    BY <1>8, <1>4, <2>1, <2>2, <2>3 DEF Admin
<1>9. CASE CallFails
  BY <1>9 DEF CallFails, AuditFails, DropFails
<1>10. CASE \E n \in calls : Publish(n)
  BY <1>10, <1>5, <1>6 DEF Publish, PublishVoid, PublishBind
<1>11. CASE \E f \in Factories : Drop(f)
  BY <1>11, <1>7 DEF Drop
<1>12. CASE RestartWAN
  BY <1>12 DEF RestartWAN, RegistryRestart
<1> QED
  BY <1>8, <1>9, <1>10, <1>11, <1>12

\* The tables, queues and rounds under the steps of the WAN side.
LEMMA WanTypeStep ==
    ASSUME TypeOK, Admin \/ CallFails \/ (\E n \in calls : Publish(n))
           \/ (\E f \in Factories : Drop(f)) \/ RestartWAN
    PROVE  TypeOK'
<1>1. RegistryType'
  BY RegistryTypeStep
<1>2. CASE Admin \/ CallFails
  BY <1>1, <1>2 DEF Admin, CallFails, Fault, channelVars, TypeOK
<1>3. CASE \E n \in calls : Publish(n)
  <2> PICK n \in calls : Publish(n)
    BY <1>3
  <2>1. n \in Call
    BY DEF TypeOK, RegistryType
  <2>2. ASSUME NEW f \in Owners, NEW m \in Msg, Enqueue(f, m)
        PROVE  session' \in [Factories -> Seq(Msg)]
    <3>1. CASE f \in Factories
      <4>1. Append(session[f], m) \in Seq(Msg)
        BY <3>1 DEF TypeOK
      <4> QED
        BY <2>2, <3>1, <4>1 DEF Enqueue, TypeOK
    <3>2. CASE f \notin Factories
      BY <2>2, <3>2 DEF Enqueue, TypeOK
    <3> QED
      BY <3>1, <3>2
  <2>3. /\ VoidMsg(n.client, n.rev) \in Msg /\ BindMsg(n.client, n.rev) \in Msg
    BY <2>1 DEF Call, VoidMsg, BindMsg, Msg
  <2> QED
    BY <1>1, <2>1, <2>2, <2>3 DEF Publish, Enqueue, Call, TypeOK
<1>4. CASE \E f \in Factories : Drop(f)
  BY <1>1, <1>4 DEF Drop, TypeOK
<1>5. CASE RestartWAN
  BY <1>1, <1>5 DEF RestartWAN, Fault, TypeOK
<1> QED
  BY <1>2, <1>3, <1>4, <1>5

\* A bind that is applied leaves a table of rows.
LEMMA ApplyBindType ==
    ASSUME TypeOK, NEW f \in Factories, NEW c \in Clients, NEW r \in Nat,
           ApplyBind(f, c, r)
    PROVE  local' \in [Factories -> [Clients -> Row]]
<1>1. local[f] \in [Clients -> Row] /\ local[f][c] \in Row
  BY DEF TypeOK
<1>2. AcceptBinding(local[f][c], r) \in Row
  BY <1>1, AcceptBindingRow
<1> QED
  BY <1>1, <1>2 DEF ApplyBind, TypeOK

\* So does a void.
LEMMA ApplyVoidType ==
    ASSUME TypeOK, NEW f \in Factories, NEW c \in Clients, NEW r \in Nat,
           ApplyVoid(f, c, r)
    PROVE  local' \in [Factories -> [Clients -> Row]]
<1>1. local[f] \in [Clients -> Row] /\ local[f][c] \in Row
  BY DEF TypeOK
<1>2. VoidBindingByRevision(local[f][c], r) \in Row
  BY <1>1, VoidByRevisionRow
<1> QED
  BY <1>1, <1>2 DEF ApplyVoid, TypeOK

\* A factory that leaves its connection keeps the types.
LEMMA LeaveType ==
    ASSUME TypeOK, NEW f \in Factories, Leave(f), faults' \in Nat
    PROVE  TypeOK'
<1>1. round' \in [Factories -> Round]
  BY DEF Leave, Idle, Round, TypeOK
<1> QED
  BY <1>1 DEF Leave, TypeOK, RegistryType, registryVars

\* The tables, queues and rounds under the steps of one factory.
LEMMA FactoryTypeStep ==
    ASSUME TypeOK, NEW f \in Factories, Factory(f)
    PROVE  TypeOK'
<1> USE DEF registryVars
<1>0. UNCHANGED registryVars => RegistryType'
  BY DEF TypeOK, RegistryType
<1>1. CASE Connect(f)
  <2>1. round' \in [Factories -> Round]
    BY <1>1 DEF Connect, Began, Round, TypeOK
  <2> QED
    BY <1>0, <1>1, <2>1 DEF Connect, TypeOK
<1>2. CASE LoseConnection(f)
  BY <1>0, <1>2 DEF LoseConnection, Fault, TypeOK
<1>3. CASE NoticeLostConnection(f)
  BY <1>3, LeaveType DEF NoticeLostConnection, TypeOK
<1>4. CASE AbandonChannel(f)
  BY <1>4, LeaveType DEF AbandonChannel, Fault, TypeOK
<1>5. CASE Deliver(f) \/ DeliverUnacked(f)
  <2>0. Receive(f)
    BY <1>5 DEF Deliver, DeliverUnacked
  <2>1. Head(session[f]) \in Msg /\ Tail(session[f]) \in Seq(Msg)
    BY <2>0 DEF Receive, TypeOK
  <2>2. Append(inbox[f], Head(session[f])) \in Seq(Msg)
    BY <2>1 DEF TypeOK
  <2>3. inbox' \in [Factories -> Seq(Msg)] /\ dirty' \in [Factories -> BOOLEAN]
    BY <2>0, <2>2 DEF Receive, TypeOK
  <2>4. CASE Deliver(f)
    BY <1>0, <2>0, <2>1, <2>3, <2>4 DEF Deliver, Receive, TypeOK
  <2>5. CASE DeliverUnacked(f)
    BY <1>0, <2>0, <2>1, <2>3, <2>5 DEF DeliverUnacked, Receive, Fault, TypeOK
  <2> QED
    BY <1>5, <2>4, <2>5
<1>6. CASE HandleCmd(f)
  <2>1. Head(inbox[f]) \in Msg /\ Tail(inbox[f]) \in Seq(Msg)
    BY <1>6 DEF HandleCmd, TypeOK
  <2> DEFINE m == Head(inbox[f])
  <2>2. /\ m.client \in Clients /\ m.rev \in Nat
    BY <2>1 DEF Msg
  <2>4. local' \in [Factories -> [Clients -> Row]]
    BY <1>6, <2>2, ApplyBindType, ApplyVoidType DEF HandleCmd
  <2>5. Record(f, m.client) \in Round
    BY ZenonT(60), <2>2 DEF Record, Round, TypeOK
  <2>6. round' \in [Factories -> Round]
    BY <1>6, <2>5 DEF HandleCmd, TypeOK
  <2> QED
    BY <1>0, <1>6, <2>1, <2>4, <2>6 DEF HandleCmd, TypeOK
<1>7. CASE BeginRound(f)
  <2>1. round' \in [Factories -> Round]
    BY <1>7 DEF BeginRound, Began, Round, TypeOK
  <2> QED
    BY <1>0, <1>7, <2>1 DEF BeginRound, TypeOK
<1>8. CASE FetchIndex(f)
  <2>1. CASE IndexOfActive(f)
    <3>1. {<<c, rev[c]>> : c \in Assigned(f)} \in SUBSET (Clients \X Nat)
      BY DEF Assigned, TypeOK, RegistryType
    <3>2. round' \in [Factories -> Round]
      BY <2>1, <3>1 DEF IndexOfActive, Round, TypeOK
    <3> QED
      BY <1>0, <1>8, <2>1, <3>2 DEF IndexOfActive, FetchIndex, TypeOK
  <2>2. CASE IndexOfDisabled(f)
    <3>1. round' \in [Factories -> Round]
      BY <2>2 DEF IndexOfDisabled, AfterRound, Idle, Round, TypeOK
    <3> QED
      BY <1>0, <1>8, <2>2, <3>1 DEF IndexOfDisabled, AfterRound, FetchIndex, TypeOK
  <2>3. CASE Leave(f)
    BY <1>8, <2>3, LeaveType DEF FetchIndex, TypeOK
  <2> QED
    BY <1>8, <2>1, <2>2, <2>3 DEF FetchIndex
<1>9. CASE ApplyIndexEntry(f)
  <2> PICK e \in round[f].todo :
        /\ ApplyBind(f, e[1], e[2])
        /\ round' = [round EXCEPT ![f] =
                        [pc |-> "apply", todo |-> round[f].todo \ {e},
                         keep |-> round[f].keep \cup {e[1]},
                         seen |-> round[f].seen \cup {e[1]}]]
    BY <1>9 DEF ApplyIndexEntry
  <2>0. round[f] \in Round
    BY DEF TypeOK
  <2>1. e[1] \in Clients /\ e[2] \in Nat
    BY <2>0 DEF Round
  <2>2. local' \in [Factories -> [Clients -> Row]]
    BY <2>1, ApplyBindType
  <2>3. round' \in [Factories -> Round]
    BY <2>0, <2>1 DEF Round, TypeOK
  <2> QED
    BY <1>0, <1>9, <2>2, <2>3 DEF ApplyIndexEntry, TypeOK
<1>10. CASE Reconcile(f)
  <2>1. ReconcileBindings(local[f], round[f].keep \cup round[f].seen) \in [Clients -> Row]
    BY VoidBindingRow DEF ReconcileBindings, TypeOK
  <2>2. round' \in [Factories -> Round] /\ conn' \in [Factories -> {"down", "first", "up"}]
    BY <1>10 DEF Reconcile, AfterRound, Idle, Round, TypeOK
  <2> QED
    BY <1>0, <1>10, <2>1, <2>2 DEF Reconcile, TypeOK
<1>11. CASE RoundFails(f)
  <2>0. faults' \in Nat
    BY <1>11 DEF RoundFails, Fault, TypeOK
  <2>1. CASE conn[f] = "first"
    BY <1>11, <2>0, <2>1, LeaveType DEF RoundFails
  <2>2. CASE conn[f] # "first"
    <3>1. Idle \in Round
      BY DEF Idle, Round
    <3> QED
      BY <1>0, <1>11, <2>0, <2>2, <3>1 DEF RoundFails, TypeOK
  <2> QED
    BY <2>1, <2>2
<1> QED
  BY <1>1, <1>2, <1>3, <1>4, <1>5, <1>6, <1>7, <1>8, <1>9, <1>10, <1>11 DEF Factory

\* Every step keeps the types.
LEMMA TypeStep == TypeOK /\ [Next]_vars => TypeOK'
<1> SUFFICES ASSUME TypeOK, [Next]_vars PROVE TypeOK'
  OBVIOUS
<1>1. CASE UNCHANGED vars
  BY <1>1 DEF vars, registryVars, TypeOK, RegistryType
<1>2. CASE \E f \in Live : Factory(f)
  BY <1>2, FactoryTypeStep, ChannelBounds
<1> QED
  BY <1>1, <1>2, WanTypeStep DEF Next

\* Rows, commands, rounds and connections keep their types.
THEOREM TypeCorrect == Spec => []TypeOK
BY TypeInit, TypeStep, PTL DEF Spec

-----------------------------------------------------------------------------
(* The invariant under the steps of the WAN side.                          *)

\* The directory only moves forward: it keeps a row, registers a new one or
\* changes the owner under the next revision.
Moves(c) ==
    \/ rev'[c] = rev[c] /\ owner'[c] = owner[c]
    \/ rev'[c] = rev[c] /\ owner[c] = NoRow /\ owner'[c] = Unassigned
    \/ rev'[c] = rev[c] + 1

WanStep ==
    \/ Admin \/ CallFails \/ (\E n \in calls : Publish(n))
    \/ (\E f \in Factories : Drop(f)) \/ RestartWAN

\* A step of the WAN leaves a client as it is, lists it, or gives it the next revision.
LEMMA DirectoryMoves ==
    ASSUME TypeOK, WanStep
    PROVE  \A c \in Clients : Moves(c)
<1> USE DEF TypeOK, RegistryType
<1>1. ASSUME UNCHANGED <<owner, rev>> PROVE \A c \in Clients : Moves(c)
  BY <1>1 DEF Moves
<1>2. ASSUME NEW c \in Clients, CreateClient(c) PROVE \A d \in Clients : Moves(d)
  BY <1>2 DEF CreateClient, Moves
<1>3. ASSUME NEW c \in Clients, NEW o, NEW p, Reassign(c, o, p)
      PROVE  \A d \in Clients : Moves(d)
  BY <1>3 DEF Reassign, Moves
<1>4. CASE Admin
  <2>1. ASSUME NEW c \in Clients, NEW f \in Factories,
               BindClient(c, f) \/ RebindClient(c, f)
        PROVE  \A d \in Clients : Moves(d)
    BY <2>1, <1>3 DEF BindClient, RebindClient
  <2>2. ASSUME NEW c \in Clients, UnassignClient(c) PROVE \A d \in Clients : Moves(d)
    BY <2>2, <1>3 DEF UnassignClient
  <2>3. ASSUME \/ \E c \in Clients : AnnounceAgain(c)
               \/ \E f \in Factories, st \in FactoryStates : SetFactoryStatus(f, st)
               \/ \E n \in calls : AuditOK(n)
        PROVE  UNCHANGED <<owner, rev>>
    BY <2>3 DEF AnnounceAgain, SetFactoryStatus, AuditOK, Advance
  <2> QED
    BY <1>1, <1>2, <1>4, <2>1, <2>2, <2>3 DEF Admin
<1>5. CASE ~Admin
  <2>1. UNCHANGED <<owner, rev>>
    BY <1>5 DEF WanStep, CallFails, AuditFails, DropFails, EndDrop, Advance, Publish, PublishVoid,
                PublishBind, Drop, RestartWAN, RegistryRestart
  <2> QED
    BY <1>1, <2>1
<1> QED
  BY <1>4, <1>5

\* Timely after the step.  (Not Timely(f, m)': the command m is one of the
\* state before.)
TimelyAfter(f, m) ==
    /\ m.rev <= rev'[m.client]
    /\ m.rev = rev'[m.client] => (m.typ = "bind" <=> owner'[m.client] = f)

\* A timely message is timely after such a step.
LEMMA TimelyStays ==
    ASSUME TypeOK, NEW f \in Factories, NEW m \in Msg, Moves(m.client), Timely(f, m)
    PROVE  TimelyAfter(f, m)
BY OwnersAreNotFactories DEF TypeOK, RegistryType, Msg, Moves, Timely, TimelyAfter

\* Tables and rounds while the directory moves and the factories stand still.
LEMMA TablesUnderMoves ==
    ASSUME TypeOK, TypeOK', \A c \in Clients : Moves(c), UNCHANGED <<local, round>>,
           TablesTimely, CurrentStands, RoundProtects
    PROVE  (TablesTimely /\ CurrentStands /\ RoundProtects)'
<1> SUFFICES ASSUME NEW f \in Factories, NEW c \in Clients
             PROVE  /\ local'[f][c].rev <= rev'[c]
                    /\ InForce(f, c)' => InForce(f, c)
  BY DEF TablesTimely, CurrentStands, RoundProtects
<1>1. /\ Moves(c) /\ local[f][c].rev <= rev[c]
      /\ rev[c] \in Nat /\ local[f][c].rev \in Nat
  BY DEF TablesTimely, TypeOK, RegistryType, Row, NoBinding
<1> QED
  BY <1>1, OwnersAreNotFactories DEF Moves, InForce

\* What calls have still to publish stays timely.
LEMMA CallsStep ==
    ASSUME TypeOK, WanStep, CallsTimely
    PROVE  CallsTimely'
<1> USE DEF TypeOK, RegistryType
<1> DEFINE Fine(n) ==
       /\ n.rev <= rev[n.client]
       /\ n.rev = rev[n.client] => owner[n.client] = n.to
       /\ n.to # NoRow
       /\ n.stage = "void" => n.prev \in Factories \ {n.to}
       /\ n.stage = "bind" => n.to \in Factories
<1>1. ASSUME NEW n \in calls PROVE Fine(n)'
  <2>1. n \in Call /\ Fine(n) /\ Moves(n.client)
    BY DirectoryMoves DEF CallsTimely, Call
  <2> QED
    BY <2>1 DEF Moves, Call
<1>2. ASSUME NEW n \in calls, UNCHANGED <<owner, rev>>, NEW a \in AfterAudit(n) \cup AfterVoid(n)
      PROVE  Fine(a)'
  <2>1. n \in Call /\ Fine(n)
    BY DEF CallsTimely
  <2>2. /\ a.rev = n.rev /\ a.client = n.client /\ a.to = n.to /\ a.prev = n.prev
        /\ \/ a.stage = "void" /\ n.prev \in Factories /\ n.prev # n.to
           \/ a.stage = "bind" /\ n.to \in Factories
    BY <2>1 DEF AfterAudit, AfterVoid, Call
  <2> QED
    BY <1>2, <2>1, <2>2
<1>3. ASSUME NEW c \in Clients, NEW o \in Owners \ {NoRow}, NEW p, Reassign(c, o, p)
      PROVE  \A n \in calls' : Fine(n)'
  BY <1>1, <1>3 DEF Reassign, Announce
<1>4. ASSUME NEW c \in Clients, AnnounceAgain(c)
      PROVE  \A n \in calls' : Fine(n)'
  BY <1>1, <1>4, OwnersAreNotFactories DEF AnnounceAgain, Announce
<1>5. CASE Admin
  <2>1. ASSUME NEW c \in Clients, NEW f \in Factories, BindClient(c, f) \/ RebindClient(c, f)
        PROVE  \A n \in calls' : Fine(n)'
    BY <2>1, <1>3, OwnersAreNotFactories DEF BindClient, RebindClient, Owners
  <2>2. ASSUME NEW c \in Clients, UnassignClient(c)
        PROVE  \A n \in calls' : Fine(n)'
    BY <2>2, <1>3, OwnersAreNotFactories DEF UnassignClient, Owners
  <2>3. ASSUME NEW n \in calls, AuditOK(n)
        PROVE  \A k \in calls' : Fine(k)'
    BY <2>3, <1>1, <1>2 DEF AuditOK, Advance
  <2>4. ASSUME \/ \E c \in Clients : CreateClient(c)
               \/ \E f \in Factories, st \in FactoryStates : SetFactoryStatus(f, st)
        PROVE  calls' = calls
    BY <2>4 DEF CreateClient, SetFactoryStatus
  <2> QED
    BY <1>5, <1>1, <1>4, <2>1, <2>2, <2>3, <2>4 DEF Admin, CallsTimely
<1>6. CASE \E n \in calls : Publish(n)
  BY <1>6, <1>1, <1>2 DEF Publish, PublishVoid, PublishBind, Advance, CallsTimely
<1>7. CASE CallFails \/ (\E f \in Factories : Drop(f)) \/ RestartWAN
  <2>1. calls' \subseteq calls
    BY <1>7 DEF CallFails, AuditFails, DropFails, Advance, EndDrop, Drop, RestartWAN, RegistryRestart
  <2> QED
    BY <2>1, <1>1 DEF CallsTimely
<1> QED
  BY <1>5, <1>6, <1>7 DEF WanStep

\* Queues are compared entry by entry: whatever is true of both ends of an
\* operation on a queue is true of the queue it returns.
AllTimely(f, q) == \A i \in 1 .. Len(q) : Timely(f, q[i])

\* A timely message at the end of a timely queue.
LEMMA AppendTimely ==
    ASSUME NEW f, NEW q \in Seq(Msg), NEW m \in Msg, AllTimely(f, q), Timely(f, m)
    PROVE  AllTimely(f, Append(q, m))
BY DEF AllTimely

\* The head of a timely queue is timely, and so is the rest.
LEMMA TailTimely ==
    ASSUME NEW f, NEW q \in Seq(Msg), q # << >>, AllTimely(f, q)
    PROVE  /\ Timely(f, Head(q)) /\ Head(q) \in Msg
           /\ AllTimely(f, Tail(q)) /\ Tail(q) \in Seq(Msg)
BY DEF AllTimely

\* A queue stays timely while the directory moves.
LEMMA QueueStays ==
    ASSUME TypeOK, NEW f \in Factories, NEW q \in Seq(Msg), AllTimely(f, q),
           \A c \in Clients : Moves(c)
    PROVE  \A i \in 1 .. Len(q) : TimelyAfter(f, q[i])
<1> SUFFICES ASSUME NEW i \in 1 .. Len(q) PROVE TimelyAfter(f, q[i])
  OBVIOUS
<1>1. q[i] \in Msg /\ Timely(f, q[i])
  BY DEF AllTimely
<1>2. Moves(q[i].client)
  BY <1>1 DEF Msg
<1> QED
  BY <1>1, <1>2, TimelyStays

\* Whatever the WAN does, sessions, queues and index answers stay timely.
LEMMA CommandsStep ==
    ASSUME TypeOK, WanStep, CommandsTimely, CallsTimely
    PROVE  CommandsTimely'
<1> SUFFICES ASSUME NEW f \in Factories
             PROVE  /\ \A i \in 1 .. Len(session'[f]) : TimelyAfter(f, session'[f][i])
                    /\ \A i \in 1 .. Len(inbox'[f]) : TimelyAfter(f, inbox'[f][i])
                    /\ \A e \in round'[f].todo : TimelyAfter(f, BindMsg(e[1], e[2]))
  BY DEF CommandsTimely, Timely, TimelyAfter, BindMsg
<1>1. \A c \in Clients : Moves(c)
  BY DirectoryMoves
<1>2. inbox' = inbox /\ round' = round
  BY DEF WanStep, Admin, CallFails, channelVars, Publish, Enqueue, Drop, RestartWAN
<1>3. /\ AllTimely(f, session[f]) /\ session[f] \in Seq(Msg)
      /\ AllTimely(f, inbox[f]) /\ inbox[f] \in Seq(Msg)
  BY DEF CommandsTimely, AllTimely, TypeOK
<1>4. \A i \in 1 .. Len(inbox'[f]) : TimelyAfter(f, inbox'[f][i])
  BY <1>1, <1>2, <1>3, QueueStays
<1>5. ASSUME NEW e \in round'[f].todo PROVE TimelyAfter(f, BindMsg(e[1], e[2]))
  <2>1. e \in round[f].todo /\ round[f] \in Round
    BY <1>2 DEF TypeOK
  <2>2. e[1] \in Clients /\ e[2] \in Nat
    BY <2>1 DEF Round
  <2>3. BindMsg(e[1], e[2]) \in Msg /\ BindMsg(e[1], e[2]).client = e[1]
    BY <2>2 DEF BindMsg, Msg
  <2>4. Timely(f, BindMsg(e[1], e[2]))
    BY <2>1 DEF CommandsTimely
  <2> QED
    BY <1>1, <2>2, <2>3, <2>4, TimelyStays
<1>6. \A i \in 1 .. Len(session'[f]) : TimelyAfter(f, session'[f][i])
  <2>1. CASE session'[f] = session[f]
    BY <1>1, <1>3, <2>1, QueueStays
  <2>2. CASE session'[f] = << >>
    BY <2>2
  <2>3. ASSUME NEW n \in calls, NEW g \in Owners, NEW m \in Msg,
               Enqueue(g, m), f = g, UNCHANGED <<owner, rev>>, Timely(f, m)
        PROVE  \A i \in 1 .. Len(session'[f]) : TimelyAfter(f, session'[f][i])
    <3>1. CASE known[f]
      <4>1. session'[f] = Append(session[f], m)
        BY <2>3, <3>1 DEF Enqueue, TypeOK
      <4>2. AllTimely(f, Append(session[f], m)) /\ Append(session[f], m) \in Seq(Msg)
        BY <1>3, <2>3, AppendTimely
      <4> QED
        BY <1>1, <4>1, <4>2, QueueStays
    <3>2. CASE ~ known[f]
      BY <2>1, <2>3, <3>2 DEF Enqueue
    <3> QED
      BY <3>1, <3>2
  <2>4. CASE \E n \in calls : Publish(n)
    <3> PICK n \in calls : Publish(n)
      BY <2>4
    <3>1. /\ n \in Call /\ n.rev <= rev[n.client]
          /\ n.rev = rev[n.client] => owner[n.client] = n.to
          /\ n.stage = "void" => n.prev \in Factories \ {n.to}
          /\ n.stage = "bind" => n.to \in Factories
      BY DEF CallsTimely, TypeOK, RegistryType
    <3>2. /\ VoidMsg(n.client, n.rev) \in Msg /\ BindMsg(n.client, n.rev) \in Msg
      BY <3>1 DEF Call, VoidMsg, BindMsg, Msg
    <3>3. UNCHANGED <<owner, rev>>
      BY DEF Publish, PublishVoid, PublishBind, Advance
    <3>4. CASE PublishVoid(n) /\ Enqueue(n.prev, VoidMsg(n.client, n.rev))
      <4>1. f = n.prev => Timely(f, VoidMsg(n.client, n.rev))
        BY <3>1, <3>4 DEF PublishVoid, Timely, VoidMsg
      <4>2. f # n.prev => session'[f] = session[f]
        BY <3>4 DEF Enqueue, TypeOK
      <4> QED
        BY <2>1, <2>3, <3>1, <3>2, <3>3, <3>4, <4>1, <4>2 DEF Call
    <3>5. CASE PublishBind(n) /\ Enqueue(n.to, BindMsg(n.client, n.rev))
      <4>1. f = n.to => Timely(f, BindMsg(n.client, n.rev))
        BY <3>1, <3>5 DEF PublishBind, Timely, BindMsg
      <4>2. f # n.to => session'[f] = session[f]
        BY <3>5 DEF Enqueue, TypeOK
      <4> QED
        BY <2>1, <2>3, <3>1, <3>2, <3>3, <3>5, <4>1, <4>2 DEF Call
    <3> QED
      BY <3>4, <3>5 DEF Publish
  <2>5. CASE Admin \/ CallFails \/ (\E g \in Factories : Drop(g))
    BY <2>1, <2>5 DEF Admin, CallFails, Drop, channelVars
  <2>6. CASE RestartWAN
    BY <2>2, <2>6 DEF RestartWAN
  <2> QED
    BY <2>4, <2>5, <2>6 DEF WanStep
<1> QED
  BY <1>4, <1>5, <1>6

\* A client with an owner has a revision, and keeps one.
LEMMA OwnedStep ==
    ASSUME TypeOK, WanStep, OwnedHasRevision
    PROVE  OwnedHasRevision'
<1> SUFFICES ASSUME NEW c \in Clients, owner'[c] \in Factories PROVE rev'[c] > 0
  BY DEF OwnedHasRevision
<1>1. Moves(c) /\ rev[c] \in Nat
  BY DirectoryMoves DEF TypeOK, RegistryType
<1> QED
  BY <1>1, OwnersAreNotFactories DEF Moves, OwnedHasRevision

-----------------------------------------------------------------------------
(* The invariant under the steps of one factory.                           *)

RowStays(f, c) == local'[f][c] = local[f][c]

RowAdopts(f, c) ==
    /\ local'[f][c].st = "bound"
    /\ local[f][c].rev < local'[f][c].rev /\ local'[f][c].rev <= rev[c]
    /\ local'[f][c].rev = rev[c] => owner[c] = f

RowDrops(f, c) ==
    /\ local[f][c].st = "bound" /\ ~ InForce(f, c)
    /\ local'[f][c] = [local[f][c] EXCEPT !.st = "void"]

\* A factory changes nothing at the WAN.
LEMMA RegistryStands ==
    ASSUME NEW f, Factory(f)
    PROVE  UNCHANGED registryVars
BY DEF Factory, Connect, LoseConnection, NoticeLostConnection, AbandonChannel, Leave, Deliver,
       DeliverUnacked, Receive, HandleCmd, BeginRound, FetchIndex, IndexOfActive, IndexOfDisabled,
       ApplyIndexEntry, Reconcile, RoundFails

\* A timely bind leaves its factory's row alone or adopts what the WAN decided.
LEMMA ApplyBindMoves ==
    ASSUME TypeOK, NEW f \in Factories, NEW c \in Clients, NEW r \in Nat,
           ApplyBind(f, c, r), Timely(f, BindMsg(c, r))
    PROVE  /\ \A g \in Factories \ {f} : local'[g] = local[g]
           /\ \A d \in Clients \ {c} : RowStays(f, d)
           /\ RowStays(f, c) \/ RowAdopts(f, c)
<1>1. /\ local[f] \in [Clients -> Row] /\ local[f][c] \in Row
      /\ local'[f] = [local[f] EXCEPT ![c] = AcceptBinding(local[f][c], r)]
      /\ \A g \in Factories \ {f} : local'[g] = local[g]
  BY DEF ApplyBind, TypeOK
<1>2. local'[f][c] = AcceptBinding(local[f][c], r)
  BY <1>1
<1>3. r <= rev[c] /\ (r = rev[c] => owner[c] = f)
  BY DEF Timely, BindMsg
<1>4. local'[f][c] = local[f][c] \/ RowAdopts(f, c)
  <2>1. /\ local[f][c].rev \in Nat /\ local[f][c] = [st |-> local[f][c].st, rev |-> local[f][c].rev]
        /\ local[f][c].st \in {"none", "bound", "void"}
        /\ local[f][c].st = "none" => local[f][c].rev = 0
    BY <1>1 DEF Row, NoBinding
  <2> QED
    BY <1>2, <1>3, <2>1 DEF AcceptBinding, Bound, RowAdopts
<1> QED
  BY <1>1, <1>4 DEF RowStays

\* A timely void leaves the row alone or drops a binding that is over.
LEMMA ApplyVoidMoves ==
    ASSUME TypeOK, TablesTimely, NEW f \in Factories, NEW c \in Clients, NEW r \in Nat,
           ApplyVoid(f, c, r), Timely(f, VoidMsg(c, r))
    PROVE  /\ \A g \in Factories \ {f} : local'[g] = local[g]
           /\ \A d \in Clients \ {c} : RowStays(f, d)
           /\ RowStays(f, c) \/ RowDrops(f, c)
<1>1. /\ local[f] \in [Clients -> Row] /\ local[f][c] \in Row
      /\ local'[f] = [local[f] EXCEPT ![c] = VoidBindingByRevision(local[f][c], r)]
      /\ \A g \in Factories \ {f} : local'[g] = local[g]
  BY DEF ApplyVoid, TypeOK
<1>2. local'[f][c] = VoidBindingByRevision(local[f][c], r)
  BY <1>1
<1>3. r <= rev[c] /\ rev[c] \in Nat /\ local[f][c].rev <= rev[c] /\ local[f][c].rev \in Nat
  BY <1>1 DEF Timely, VoidMsg, TablesTimely, TypeOK, RegistryType, Row, NoBinding
<1>4. local'[f][c] = local[f][c] \/ RowDrops(f, c)
  BY <1>2, <1>3 DEF VoidBindingByRevision, VoidBinding, RowDrops, InForce
<1> QED
  BY <1>1, <1>4 DEF RowStays

\* A round's end drops only bindings that are over.
LEMMA ReconcileMoves ==
    ASSUME TypeOK, RoundProtects, NEW f \in Factories, Reconcile(f)
    PROVE  /\ \A g \in Factories \ {f} : local'[g] = local[g]
           /\ \A c \in Clients : RowStays(f, c) \/ RowDrops(f, c)
<1> DEFINE keep == round[f].keep \cup round[f].seen
<1>1. /\ local[f] \in [Clients -> Row]
      /\ local'[f] = ReconcileBindings(local[f], keep)
      /\ \A g \in Factories \ {f} : local'[g] = local[g]
  BY DEF Reconcile, TypeOK
<1>2. ASSUME NEW c \in Clients PROVE RowStays(f, c) \/ RowDrops(f, c)
  <2>1. CASE c \in keep
    BY <1>1, <2>1 DEF ReconcileBindings, RowStays
  <2>2. CASE c \notin keep
    <3>1. local'[f][c] = VoidBinding(local[f][c])
      BY <1>1, <2>2 DEF ReconcileBindings
    <3>2. ~ InForce(f, c)
      BY <2>2 DEF RoundProtects, Reconcile
    <3> QED
      BY <3>1, <3>2 DEF VoidBinding, RowStays, RowDrops
  <2> QED
    BY <2>1, <2>2
<1> QED
  BY <1>1, <1>2

\* What the factory is about to apply is a command of its own, and timely.
LEMMA NextCommandTimely ==
    ASSUME TypeOK, CommandsTimely, NEW f \in Factories, inbox[f] # << >>
    PROVE  /\ Head(inbox[f]) \in Msg /\ Timely(f, Head(inbox[f]))
           /\ Tail(inbox[f]) \in Seq(Msg) /\ AllTimely(f, Tail(inbox[f]))
<1>1. inbox[f] \in Seq(Msg) /\ AllTimely(f, inbox[f])
  BY DEF CommandsTimely, AllTimely, TypeOK
<1> QED
  BY <1>1, TailTimely

\* An entry of an index answer, taken for a bind, is timely.
LEMMA IndexEntryTimely ==
    ASSUME TypeOK, CommandsTimely, NEW f \in Factories, NEW e \in round[f].todo
    PROVE  e[1] \in Clients /\ e[2] \in Nat /\ Timely(f, BindMsg(e[1], e[2]))
<1>1. round[f] \in Round
  BY DEF TypeOK
<1> QED
  BY <1>1 DEF CommandsTimely, Round

\* Every step of a factory changes its own rows only, and each of them as the
\* contract allows.
LEMMA FactoryMoves ==
    ASSUME TypeOK, CommandsTimely, TablesTimely, RoundProtects,
           NEW f \in Factories, Factory(f)
    PROVE  /\ \A g \in Factories \ {f} : local'[g] = local[g]
           /\ \A c \in Clients : RowStays(f, c) \/ RowAdopts(f, c) \/ RowDrops(f, c)
<1>1. CASE UNCHANGED local
  BY <1>1 DEF RowStays
<1>2. CASE HandleCmd(f)
  <2> DEFINE m == Head(inbox[f])
  <2>1. m \in Msg /\ Timely(f, m)
    BY <1>2, NextCommandTimely DEF HandleCmd
  <2>2. /\ m.client \in Clients /\ m.rev \in Nat
        /\ m.typ = "bind" => m = BindMsg(m.client, m.rev)
        /\ m.typ # "bind" => m = VoidMsg(m.client, m.rev)
    BY <2>1 DEF Msg, BindMsg, VoidMsg
  <2>3. CASE m.typ = "bind"
    BY <1>2, <2>1, <2>2, <2>3, ApplyBindMoves DEF HandleCmd
  <2>4. CASE m.typ # "bind"
    BY <1>2, <2>1, <2>2, <2>4, ApplyVoidMoves DEF HandleCmd
  <2> QED
    BY <2>3, <2>4
<1>3. CASE ApplyIndexEntry(f)
  <2> PICK e \in round[f].todo : ApplyBind(f, e[1], e[2])
    BY <1>3 DEF ApplyIndexEntry
  <2> QED
    BY IndexEntryTimely, ApplyBindMoves
<1>4. CASE Reconcile(f)
  BY <1>4, ReconcileMoves
<1>5. HandleCmd(f) \/ ApplyIndexEntry(f) \/ Reconcile(f) \/ UNCHANGED local
  BY DEF Factory, Connect, LoseConnection, NoticeLostConnection, AbandonChannel, Leave, Deliver,
         DeliverUnacked, Receive, BeginRound, FetchIndex, IndexOfActive, IndexOfDisabled, RoundFails
<1> QED
  BY <1>1, <1>2, <1>3, <1>4, <1>5

\* A row that is in force after the step was in force before it, or has just
\* been adopted.
LEMMA FactoryTables ==
    ASSUME TypeOK, TypeOK', CommandsTimely, TablesTimely, RoundProtects, CurrentStands,
           NEW f \in Factories, Factory(f)
    PROVE  (TablesTimely /\ CurrentStands)'
<1> SUFFICES ASSUME NEW g \in Factories, NEW c \in Clients
             PROVE  /\ local'[g][c].rev <= rev'[c]
                    /\ InForce(g, c)' => local'[g][c].st = "bound"
  BY DEF TablesTimely, CurrentStands
<1>1. rev' = rev /\ owner' = owner
  BY RegistryStands DEF registryVars
<1>2. CASE g # f
  BY <1>1, <1>2, FactoryMoves DEF TablesTimely, CurrentStands, InForce
<1>3. CASE g = f
  <2>1. RowStays(f, c) \/ RowAdopts(f, c) \/ RowDrops(f, c)
    BY FactoryMoves
  <2>2. local[f][c].rev <= rev[c] /\ (InForce(f, c) => local[f][c].st = "bound")
    BY DEF TablesTimely, CurrentStands
  <2>3. local[f][c] \in Row
    BY DEF TypeOK
  <2>4. RowDrops(f, c) => local'[f][c].rev = local[f][c].rev
    BY <2>3 DEF RowDrops, Row, NoBinding
  <2> QED
    BY <1>1, <1>3, <2>1, <2>2, <2>4 DEF RowStays, RowAdopts, RowDrops, InForce
<1> QED
  BY <1>2, <1>3

\* Queues and index entries: what moves from one to another stays timely.
LEMMA FactoryCommands ==
    ASSUME TypeOK, CommandsTimely, NEW f \in Factories, Factory(f)
    PROVE  CommandsTimely'
<1>0. rev' = rev /\ owner' = owner
  BY RegistryStands DEF registryVars
<1> SUFFICES ASSUME NEW g \in Factories
             PROVE  /\ AllTimely(g, session'[g]) /\ AllTimely(g, inbox'[g])
                    /\ \A e \in round'[g].todo : Timely(g, BindMsg(e[1], e[2]))
  BY <1>0 DEF CommandsTimely, AllTimely, Timely, BindMsg
<1>1. /\ AllTimely(g, session[g]) /\ AllTimely(g, inbox[g])
      /\ session[g] \in Seq(Msg) /\ inbox[g] \in Seq(Msg)
      /\ \A e \in round[g].todo : Timely(g, BindMsg(e[1], e[2]))
  BY DEF CommandsTimely, AllTimely, TypeOK
<1>2. AllTimely(g, << >>) /\ Idle.todo = {} /\ Began.todo = {}
  BY DEF AllTimely, Idle, Began
<1>3. CASE g # f
  <2>1. session'[g] = session[g] /\ inbox'[g] = inbox[g] /\ round'[g] = round[g]
    BY <1>3 DEF Factory, Connect, LoseConnection, NoticeLostConnection, AbandonChannel, Leave,
           Deliver, DeliverUnacked, Receive, HandleCmd, BeginRound, FetchIndex, IndexOfActive,
           IndexOfDisabled, AfterRound, ApplyIndexEntry, Reconcile, RoundFails, TypeOK
  <2> QED
    BY <1>1, <2>1
<1>4. CASE g = f
  <2>1. CASE Leave(f)
    BY <1>1, <1>2, <1>4, <2>1 DEF Leave, TypeOK
  <2>2. CASE Connect(f) \/ LoseConnection(f) \/ BeginRound(f)
    BY <1>1, <1>2, <1>4, <2>2 DEF Connect, LoseConnection, BeginRound, TypeOK
  <2>3. CASE Deliver(f) \/ DeliverUnacked(f)
    <3>1. Receive(f) /\ round' = round
      BY <2>3 DEF Deliver, DeliverUnacked, Receive
    <3>2. /\ Timely(f, Head(session[f])) /\ Head(session[f]) \in Msg
          /\ AllTimely(f, Tail(session[f]))
      BY <1>1, <1>4, <3>1, TailTimely DEF Receive
    <3>3. AllTimely(f, Append(inbox[f], Head(session[f])))
      BY <1>1, <1>4, <3>2, AppendTimely
    <3>4. AllTimely(f, inbox'[f])
      BY <1>1, <1>4, <3>1, <3>3 DEF Receive, TypeOK
    <3>5. AllTimely(f, session'[f])
      BY <1>1, <1>4, <2>3, <3>2 DEF Deliver, DeliverUnacked, TypeOK
    <3> QED
      BY <1>1, <1>4, <3>1, <3>4, <3>5
  <2>4. CASE HandleCmd(f)
    <3>1. session' = session /\ inbox'[f] = Tail(inbox[f]) /\ AllTimely(f, Tail(inbox[f]))
      BY <2>4, NextCommandTimely DEF HandleCmd, TypeOK
    <3>2. round[f] \in Round /\ Record(f, Head(inbox[f]).client).todo = round[f].todo
      BY DEF Record, Round, TypeOK
    <3>3. round'[f].todo = round[f].todo
      BY <2>4, <3>2 DEF HandleCmd, TypeOK
    <3> QED
      BY <1>1, <1>4, <3>1, <3>3
  <2>5. CASE FetchIndex(f) /\ IndexOfActive(f)
    <3>1. session' = session /\ inbox' = inbox
          /\ round'[f].todo = {<<c, rev[c]>> : c \in Assigned(f)}
      BY <2>5 DEF IndexOfActive, TypeOK
    <3>2. ASSUME NEW c \in Assigned(f) PROVE Timely(f, BindMsg(c, rev[c]))
      BY DEF Assigned, Timely, BindMsg, TypeOK, RegistryType
    <3> QED
      BY <1>1, <1>4, <3>1, <3>2
  <2>6. CASE FetchIndex(f) /\ IndexOfDisabled(f)
    BY <1>1, <1>2, <1>4, <2>6 DEF IndexOfDisabled, AfterRound, TypeOK
  <2>7. CASE ApplyIndexEntry(f)
    BY <1>1, <1>4, <2>7 DEF ApplyIndexEntry, TypeOK
  <2>8. CASE Reconcile(f)
    BY <1>1, <1>2, <1>4, <2>8 DEF Reconcile, AfterRound, TypeOK
  <2>9. CASE RoundFails(f) /\ ~ Leave(f)
    BY <1>1, <1>2, <1>4, <2>9 DEF RoundFails, TypeOK
  <2> QED
    BY <2>1, <2>2, <2>3, <2>4, <2>5, <2>6, <2>7, <2>8, <2>9
       DEF Factory, NoticeLostConnection, AbandonChannel, FetchIndex
<1> QED
  BY <1>3, <1>4

\* A round's answer, and what is bound beside it, keep covering every binding
\* in force.
LEMMA FactoryRounds ==
    ASSUME TypeOK, TypeOK', CommandsTimely, TablesTimely, RoundProtects,
           NEW f \in Factories, Factory(f)
    PROVE  RoundProtects'
<1> DEFINE Covered(r) == r.keep \cup r.seen \cup {e[1] : e \in r.todo}
<1>0. rev' = rev /\ owner' = owner
  BY RegistryStands DEF registryVars
<1> SUFFICES ASSUME NEW g \in Factories, NEW c \in Clients,
                    round'[g].pc = "apply", InForce(g, c)'
             PROVE  c \in Covered(round'[g])
  BY DEF RoundProtects
<1>1. round[g].pc = "apply" /\ InForce(g, c) => c \in Covered(round[g])
  BY DEF RoundProtects
<1>2. Idle.pc = "idle" /\ Began.pc = "index"
  BY DEF Idle, Began
<1>3. CASE g # f
  <2>1. round'[g] = round[g]
    <3>1. CASE Connect(f) \/ LoseConnection(f) \/ Deliver(f) \/ DeliverUnacked(f)
      BY <1>3, <3>1 DEF Connect, LoseConnection, Deliver, DeliverUnacked, Receive, TypeOK
    <3>2. CASE NoticeLostConnection(f) \/ AbandonChannel(f)
      BY <1>3, <3>2 DEF NoticeLostConnection, AbandonChannel, Leave, TypeOK
    <3>3. CASE HandleCmd(f) \/ BeginRound(f) \/ ApplyIndexEntry(f)
      BY <1>3, <3>3 DEF HandleCmd, BeginRound, ApplyIndexEntry, TypeOK
    <3>4. CASE FetchIndex(f)
      BY <1>3, <3>4 DEF FetchIndex, IndexOfActive, IndexOfDisabled, AfterRound, Leave, TypeOK
    <3>5. CASE Reconcile(f) \/ RoundFails(f)
      BY <1>3, <3>5 DEF Reconcile, RoundFails, AfterRound, Leave, TypeOK
    <3> QED
      BY <3>1, <3>2, <3>3, <3>4, <3>5 DEF Factory
  <2>2. local'[g] = local[g]
    BY <1>3, FactoryMoves
  <2> QED
    BY <1>0, <1>1, <2>1, <2>2 DEF InForce
<1>4. CASE g = f
  <2>1. local'[f][c].rev = local[f][c].rev => InForce(f, c)
    BY <1>0, <1>4 DEF InForce
  <2>2. CASE HandleCmd(f)
    <3> DEFINE m == Head(inbox[f])
    <3>1. m \in Msg /\ Timely(f, m) /\ round[f] \in Round
      BY <2>2, NextCommandTimely DEF HandleCmd, TypeOK
    <3>2. m.client \in Clients /\ m.rev \in Nat
      BY <3>1 DEF Msg
    <3>3. CASE m.typ = "bind"
      <4>1. /\ ApplyBind(f, m.client, m.rev)
            /\ round'[f] = Record(f, m.client)
        BY <2>2, <3>3 DEF HandleCmd, TypeOK
      <4>2. /\ round[f].pc = "apply"
            /\ round'[f] = [round[f] EXCEPT !.seen = @ \cup {m.client}]
        BY <1>4, <3>1, <4>1 DEF Record, Round
      <4>3. CASE c = m.client
        BY <1>4, <3>1, <4>2, <4>3 DEF Round
      <4>4. CASE c # m.client
        <5>1. local'[f][c] = local[f][c]
          BY <3>2, <4>1, <4>4 DEF ApplyBind, TypeOK
        <5> QED
          BY <1>1, <1>4, <2>1, <3>1, <4>2, <5>1 DEF Round
      <4> QED
        BY <4>3, <4>4
    <3>4. CASE m.typ # "bind"
      <4>1. round' = round /\ ApplyVoid(f, m.client, m.rev)
        BY <2>2, <3>4 DEF HandleCmd
      <4>2. local[f][m.client] \in Row /\ local[f] \in [Clients -> Row]
        BY <3>2 DEF TypeOK
      <4>3. local'[f] = [local[f] EXCEPT ![m.client] =
                            VoidBindingByRevision(local[f][m.client], m.rev)]
        BY <4>1 DEF ApplyVoid, TypeOK
      <4>4. VoidBindingByRevision(local[f][m.client], m.rev).rev = local[f][m.client].rev
        BY <3>2, <4>2, VoidByRevisionRow
      <4>5. local'[f][c].rev = local[f][c].rev
        BY <3>2, <4>2, <4>3, <4>4
      <4> QED
        BY <1>1, <1>4, <2>1, <4>1, <4>5
    <3> QED
      BY <3>3, <3>4
  <2>3. CASE IndexOfActive(f)
    <3>1. local' = local
          /\ round'[f].todo = {<<d, rev[d]>> : d \in Assigned(f)}
      BY <2>3 DEF IndexOfActive, TypeOK
    <3>2. c \in Assigned(f)
      BY <2>1, <3>1 DEF Assigned, InForce
    <3>3. <<c, rev[c]>> \in round'[f].todo /\ <<c, rev[c]>>[1] = c
      BY <3>1, <3>2
    <3> QED
      BY <1>4, <3>3
  <2>4. CASE ApplyIndexEntry(f)
    <3> PICK e \in round[f].todo :
          /\ ApplyBind(f, e[1], e[2])
          /\ round' = [round EXCEPT ![f] =
                          [pc |-> "apply", todo |-> round[f].todo \ {e},
                           keep |-> round[f].keep \cup {e[1]},
                           seen |-> round[f].seen \cup {e[1]}]]
      BY <2>4 DEF ApplyIndexEntry
    <3>1. e[1] \in Clients
      BY IndexEntryTimely
    <3>2. /\ round'[f].keep = round[f].keep \cup {e[1]}
          /\ round'[f].seen = round[f].seen \cup {e[1]}
          /\ round'[f].todo = round[f].todo \ {e}
      BY DEF TypeOK
    <3>3. CASE c # e[1]
      <4>1. local'[f][c] = local[f][c]
        BY <3>1, <3>3 DEF ApplyBind, TypeOK
      <4>2. c \in Covered(round[f])
        BY <1>1, <1>4, <2>1, <2>4, <4>1 DEF ApplyIndexEntry
      <4> QED
        BY <1>4, <3>2, <3>3, <4>2
    <3>4. CASE c = e[1]
      BY <1>4, <3>2, <3>4
    <3> QED
      BY <3>3, <3>4
  <2>5. CASE \/ Leave(f) \/ Connect(f) \/ BeginRound(f) \/ IndexOfDisabled(f) \/ Reconcile(f)
             \/ RoundFails(f)
    <3>1. round'[f] \in {Idle, Began}
      BY <2>5 DEF Leave, Connect, BeginRound, IndexOfDisabled, Reconcile, AfterRound, RoundFails,
                  TypeOK
    <3> QED
      BY <1>2, <1>4, <3>1
  <2>6. CASE LoseConnection(f) \/ Deliver(f) \/ DeliverUnacked(f)
    <3>1. local' = local /\ round' = round
      BY <2>6 DEF LoseConnection, Deliver, DeliverUnacked, Receive
    <3> QED
      BY <1>1, <1>4, <2>1, <3>1
  <2> QED
    BY <2>2, <2>3, <2>4, <2>5, <2>6 DEF Factory, NoticeLostConnection, AbandonChannel, FetchIndex
<1> QED
  BY <1>3, <1>4

-----------------------------------------------------------------------------
(* The invariant, and the contract as its consequence.                     *)

\* The strengthened invariant holds to begin with ...
LEMMA InvariantInit == Init => IInv
<1> SUFFICES ASSUME Init PROVE IInv
  OBVIOUS
<1>1. TypeOK
  BY TypeInit
<1>2. CommandsTimely /\ CallsTimely
  BY DEF Init, RegistryInit, CommandsTimely, CallsTimely, Idle
<1>3. TablesTimely /\ OwnedHasRevision /\ CurrentStands /\ RoundProtects
  BY OwnersAreNotFactories DEF Init, RegistryInit, TablesTimely, OwnedHasRevision, CurrentStands,
         RoundProtects, InForce, NoBinding, Idle
<1> QED
  BY <1>1, <1>2, <1>3 DEF IInv

\* ... and every step keeps it.
LEMMA InvariantStep == IInv /\ [Next]_vars => IInv'
<1> SUFFICES ASSUME IInv, [Next]_vars PROVE IInv'
  OBVIOUS
<1> USE DEF IInv
<1>1. TypeOK /\ TypeOK'
  BY TypeStep
<1>2. CASE UNCHANGED vars
  BY <1>1, <1>2 DEF vars, registryVars, CommandsTimely, Timely, CallsTimely, TablesTimely,
                    OwnedHasRevision, CurrentStands, RoundProtects, InForce
<1>3. CASE WanStep
  <2>1. \A c \in Clients : Moves(c)
    BY <1>1, <1>3, DirectoryMoves
  <2>2. UNCHANGED <<local, round>>
    BY <1>3 DEF WanStep, Admin, CallFails, channelVars, Publish, Enqueue, Drop, RestartWAN
  <2>3. (TablesTimely /\ CurrentStands /\ RoundProtects)'
    BY <1>1, <2>1, <2>2, TablesUnderMoves
  <2> QED
    BY <1>1, <1>3, <2>3, CallsStep, CommandsStep, OwnedStep
<1>4. ASSUME NEW f \in Factories, Factory(f) PROVE IInv'
  <2>1. UNCHANGED registryVars
    BY <1>4, RegistryStands
  <2>2. (CallsTimely /\ OwnedHasRevision)'
    BY <2>1 DEF registryVars, CallsTimely, OwnedHasRevision
  <2> QED
    BY <1>1, <1>4, <2>2, FactoryTables, FactoryCommands, FactoryRounds
<1> QED
  BY <1>2, <1>3, <1>4, ChannelBounds DEF Next, WanStep

\* The binding in force always stands, the rows, queues and rounds never run
\* ahead of the directory, and a round never loses sight of a binding in force.
THEOREM InvariantHolds == Spec => []IInv
BY InvariantInit, InvariantStep, PTL DEF Spec

\* The initial states are initial states of the contract.
LEMMA ContractInit == Init => Contract!Init
<1> SUFFICES ASSUME Init PROVE Contract!Init
  OBVIOUS
<1> QED
  BY DEF Init, RegistryInit, NoBinding, Contract!Init, Contract!None

\* Every step is a step of the contract, or changes nothing it sees.
LEMMA ContractStep == IInv /\ [Next]_vars => [Contract!Next]_(Contract!contractVars)
<1> SUFFICES ASSUME IInv, [Next]_vars
             PROVE  Contract!Next \/ UNCHANGED Contract!contractVars
  OBVIOUS
<1> DEFINE shown == [c \in Clients |-> IF owner[c] = NoRow THEN Unassigned ELSE owner[c]]
<1>0. TypeOK /\ TypeOK'
  BY TypeStep DEF IInv
<1>1. ASSUME UNCHANGED local, UNCHANGED rev, \A c \in Clients : Moves(c)
      PROVE  UNCHANGED Contract!contractVars
  BY <1>0, <1>1, OwnersAreNotFactories
     DEF Contract!contractVars, Moves, TypeOK, RegistryType
<1>2. ASSUME NEW c \in Clients, NEW o \in Factories \cup {Unassigned}, NEW p,
             Reassign(c, o, p), UNCHANGED local
      PROVE  Contract!Next
  <2>1. /\ owner' = [owner EXCEPT ![c] = o] /\ rev' = [rev EXCEPT ![c] = @ + 1]
    BY <1>2 DEF Reassign
  <2>2. shown' = [shown EXCEPT ![c] = o]
    BY <1>0, <2>1, OwnersAreNotFactories DEF TypeOK, RegistryType
  <2>3. Contract!Assign(c, o)
    BY <1>2, <2>1, <2>2 DEF Contract!Assign
  <2> QED
    BY <2>3 DEF Contract!Next
<1>3. CASE WanStep
  <2>1. UNCHANGED local
    BY <1>3 DEF WanStep, Admin, CallFails, channelVars, Publish, Enqueue, Drop, RestartWAN
  <2>2. ASSUME NEW c \in Clients, NEW f \in Factories, BindClient(c, f) \/ RebindClient(c, f)
        PROVE  Contract!Next
    BY <1>2, <2>1, <2>2 DEF BindClient, RebindClient
  <2>3. ASSUME NEW c \in Clients, UnassignClient(c) PROVE Contract!Next
    BY <1>2, <2>1, <2>3 DEF UnassignClient
  <2>4. \/ UNCHANGED rev
        \/ \E c \in Clients, f \in Factories : BindClient(c, f) \/ RebindClient(c, f)
        \/ \E c \in Clients : UnassignClient(c)
    BY <1>3 DEF WanStep, Admin, CreateClient, AnnounceAgain, SetFactoryStatus, AuditOK, CallFails,
                AuditFails, DropFails, EndDrop, Advance, Publish, PublishVoid, PublishBind, Drop, RestartWAN,
                RegistryRestart
  <2> QED
    BY <1>0, <1>1, <1>3, <2>1, <2>2, <2>3, <2>4, DirectoryMoves
<1>4. ASSUME NEW f \in Factories, Factory(f)
      PROVE  Contract!Next \/ UNCHANGED Contract!contractVars
  <2>1. rev' = rev /\ owner' = owner
    BY <1>4, RegistryStands DEF registryVars
  <2>2. /\ \A g \in Factories \ {f} : local'[g] = local[g]
        /\ \A c \in Clients : RowStays(f, c) \/ RowAdopts(f, c) \/ RowDrops(f, c)
    BY <1>4, FactoryMoves DEF IInv
  <2>3. local' = [local EXCEPT ![f] = local'[f]] /\ DOMAIN local'[f] = Clients
    BY <1>0, <2>2 DEF TypeOK
  <2>4. ASSUME NEW c \in Clients
        PROVE  Contract!Keep(f, c) \/ Contract!Adopt(f, c) \/ Contract!Drop(f, c)
    <3>1. RowStays(f, c) => Contract!Keep(f, c)
      BY DEF RowStays, Contract!Keep
    <3>2. RowAdopts(f, c) => Contract!Adopt(f, c)
      BY OwnersAreNotFactories DEF RowAdopts, Contract!Adopt
    <3>3. RowDrops(f, c) => Contract!Drop(f, c)
      BY OwnersAreNotFactories DEF RowDrops, InForce, Contract!Drop, Contract!Current
    <3> QED
      BY <2>2, <3>1, <3>2, <3>3
  <2>5. Contract!Follow(f)
    BY <2>1, <2>3, <2>4 DEF Contract!Follow
  <2> QED
    BY <2>5 DEF Contract!Next
<1>5. CASE UNCHANGED vars
  BY <1>5 DEF vars, registryVars, Contract!contractVars
<1> QED
  BY <1>3, <1>4, <1>5, ChannelBounds DEF Next, WanStep

\* Whatever is lost, late, repeated or reordered between WAN and a factory,
\* a factory only adopts newer revisions of its own and only gives up a
\* binding that is no longer in force.
THEOREM ContractHolds == Spec => BindingFollowsContract
<1>1. Spec => []IInv
  BY InvariantHolds
<1>2. Spec => Contract!Init /\ [][Contract!Next]_(Contract!contractVars)
  BY <1>1, ContractInit, ContractStep, PTL DEF Spec
<1> QED
  BY <1>2 DEF BindingFollowsContract, Contract!Spec

-----------------------------------------------------------------------------
(* OwnerKnows: whoever owns a client has it, or something is on its way    *)
(* that will bring it, or will make the factory ask for the whole index.   *)

\* m waits in the queue q.
Queued(q, m) == \E i \in 1 .. Len(q) : q[i] = m

\* What will still bring the newest binding of c to factory f.
Coming(f, c) ==
    \/ f \in drops \/ conn[f] = "down" \/ dying[f] \/ dirty[f]
    \/ \E n \in calls : n.client = c /\ n.to = f /\ n.rev = rev[c]
    \/ Queued(session[f], BindMsg(c, rev[c])) \/ Queued(inbox[f], BindMsg(c, rev[c]))
    \/ round[f].pc = "index" \/ (round[f].pc = "apply" /\ <<c, rev[c]>> \in round[f].todo)

\* Factory f has the newest binding of c, or it is coming.
Served(f, c) == local[f][c] = Bound(rev[c]) \/ Coming(f, c)

\* Every owner is served, but for a disabled factory and one a failed call left uninformed.
OwnersServed ==
    \A f \in Factories \ untold, c \in Clients :
        owner[c] = f /\ fstate[f] = "active" => Served(f, c)

\* The broker loses a command only of a factory whose connection is over.
KnownWhileConnected == \A f \in Factories : conn[f] # "down" /\ ~dying[f] => known[f]

\* A round runs within a connection.
RoundsConnected == \A f \in Factories : round[f].pc # "idle" => conn[f] # "down"

ServedInv == KnownWhileConnected /\ RoundsConnected /\ OwnersServed

\* What is queued stays queued under an addition ...
LEMMA QueuedAppend ==
    ASSUME NEW q \in Seq(Msg), NEW m \in Msg
    PROVE  /\ Queued(Append(q, m), m)
           /\ \A x : Queued(q, x) => Queued(Append(q, m), x)
<1>1. Len(Append(q, m)) = Len(q) + 1 /\ Append(q, m)[Len(q) + 1] = m /\ Len(q) \in Nat
      /\ \A i \in 1 .. Len(q) : Append(q, m)[i] = q[i] /\ i \in 1 .. Len(q) + 1
  OBVIOUS
<1> QED
  BY <1>1 DEF Queued

\* ... and what is not the next to be taken stays queued when that is taken.
LEMMA QueuedTail ==
    ASSUME NEW q \in Seq(Msg), q # << >>, NEW x, Queued(q, x)
    PROVE  x = Head(q) \/ Queued(Tail(q), x)
<1>1. PICK i \in 1 .. Len(q) : q[i] = x
  BY DEF Queued
<1>2. CASE i = 1
  BY <1>1, <1>2
<1>3. CASE i # 1
  <2>1. i - 1 \in 1 .. Len(Tail(q)) /\ Tail(q)[i - 1] = q[i]
    BY <1>3
  <2> QED
    BY <1>1, <2>1 DEF Queued
<1> QED
  BY <1>2, <1>3

\* Before anything has happened nobody is connected.
LEMMA ServedInit == Init => ServedInv
<1> SUFFICES ASSUME Init PROVE ServedInv
  OBVIOUS
<1> QED
  BY DEF Init, Idle, RegistryInit, ServedInv, KnownWhileConnected, RoundsConnected,
     OwnersServed, Served, Coming

\* While the factories stand still, an owner stays served unless the directory
\* moves or a call gives up.
LEMMA StillServed ==
    ASSUME NEW f \in Factories, NEW c \in Clients, Served(f, c),
           rev'[c] = rev[c], UNCHANGED <<local, conn, inbox, dirty, round>>,
           f \in drops => f \in drops' \/ dying'[f] \/ conn[f] = "down",
           dying[f] => dying'[f] \/ conn[f] = "down",
           Queued(session[f], BindMsg(c, rev[c])) =>
               Queued(session'[f], BindMsg(c, rev[c])) \/ dying'[f] \/ conn[f] = "down",
           (\E n \in calls : n.client = c /\ n.to = f /\ n.rev = rev[c]) =>
               \/ \E n \in calls' : n.client = c /\ n.to = f /\ n.rev = rev[c]
               \/ Queued(session'[f], BindMsg(c, rev[c])) \/ dying'[f] \/ conn[f] = "down"
    PROVE  Served(f, c)'
BY DEF Served, Coming

\* What a call has still to do is to tell the same factory the same thing.
LEMMA CallGoesOn ==
    ASSUME TypeOK, CallsTimely, NEW n \in calls, n.to \in Factories
    PROVE  /\ \E k \in AfterVoid(n) : k.client = n.client /\ k.to = n.to /\ k.rev = n.rev
           /\ \E k \in AfterAudit(n) : k.client = n.client /\ k.to = n.to /\ k.rev = n.rev
<1>1. n \in Call
  BY DEF TypeOK, RegistryType
<1>2. /\ [n EXCEPT !.stage = "bind"].client = n.client /\ [n EXCEPT !.stage = "bind"].to = n.to
      /\ [n EXCEPT !.stage = "bind"].rev = n.rev
  BY <1>1 DEF Call
<1>3. /\ [n EXCEPT !.stage = "void"].client = n.client /\ [n EXCEPT !.stage = "void"].to = n.to
      /\ [n EXCEPT !.stage = "void"].rev = n.rev
  BY <1>1 DEF Call
<1> QED
  BY <1>2, <1>3 DEF AfterVoid, AfterAudit

\* Every step of the WAN keeps every owner served: what a call gives up, the session
\* lacks or a restart forgets is made up for by untold, a drop or a lost connection.
LEMMA WanServes ==
    ASSUME TypeOK, CallsTimely, ServedInv, WanStep
    PROVE  ServedInv'
<1> USE DEF ServedInv
<1>0. UNCHANGED <<local, conn, inbox, dirty, round>>
  BY DEF WanStep, Admin, CallFails, channelVars, Publish, Enqueue, Drop, RestartWAN
<1>1. RoundsConnected'
  BY <1>0 DEF RoundsConnected
<1>2. KnownWhileConnected'
  BY <1>0 DEF WanStep, Admin, CallFails, channelVars, Publish, Enqueue, Drop, RestartWAN,
     KnownWhileConnected, TypeOK
<1> SUFFICES ASSUME NEW f \in Factories \ untold', NEW c \in Clients,
                    owner'[c] = f, fstate'[f] = "active"
             PROVE  Served(f, c)'
  BY <1>1, <1>2 DEF OwnersServed
<1>3. f \notin untold
  BY DEF WanStep, Admin, CreateClient, UnassignClient, BindClient, RebindClient, Reassign,
     AnnounceAgain, SetFactoryStatus, AuditOK, CallFails, AuditFails, DropFails, EndDrop, Advance, Publish, PublishVoid, PublishBind, Drop, RestartWAN,
     RegistryRestart
<1>4. owner[c] = f /\ fstate[f] = "active" => Served(f, c)
  BY <1>3 DEF OwnersServed
<1>5. ASSUME NEW d \in Clients, NEW o, NEW p, Reassign(d, o, p), UNCHANGED channelVars
      PROVE  Served(f, c)'
  <2>1. CASE c = d
    <3> DEFINE n == [stage |-> "audit", client |-> d, to |-> o, rev |-> rev[d] + 1, prev |-> p]
    <3>1. n \in calls' /\ rev'[c] = rev[d] + 1 /\ o = f
      BY <1>5, <2>1 DEF Reassign, Announce, TypeOK, RegistryType
    <3>2. n.client = c /\ n.to = f /\ n.rev = rev'[c]
      BY <2>1, <3>1
    <3> QED
      BY <3>1, <3>2 DEF Served, Coming
  <2>2. CASE c # d
    <3>1. rev'[c] = rev[c] /\ owner'[c] = owner[c] /\ fstate' = fstate /\ drops' = drops
          /\ calls \subseteq calls'
      BY <1>5, <2>2 DEF Reassign, Announce, TypeOK, RegistryType
    <3> QED
      BY <1>0, <1>4, <1>5, <3>1, StillServed DEF channelVars
  <2> QED
    BY <2>1, <2>2
<1>6. CASE Admin
  <2> UNCHANGED channelVars
    BY <1>6 DEF Admin
  <2>1. ASSUME NEW d \in Clients, CreateClient(d) PROVE Served(f, c)'
    <3>1. rev' = rev /\ owner'[c] = owner[c] /\ fstate' = fstate /\ drops' = drops /\ calls' = calls
      BY <2>1, OwnersAreNotFactories DEF CreateClient, TypeOK, RegistryType
    <3> QED
      BY <1>0, <1>4, <3>1, StillServed DEF channelVars
  <2>2. ASSUME NEW d \in Clients, AnnounceAgain(d) PROVE Served(f, c)'
    <3>1. rev' = rev /\ owner' = owner /\ fstate' = fstate /\ drops' = drops /\ calls \subseteq calls'
      BY <2>2 DEF AnnounceAgain, Announce
    <3> QED
      BY <1>0, <1>4, <3>1, StillServed DEF channelVars
  <2>3. ASSUME NEW g \in Factories, NEW s \in FactoryStates, SetFactoryStatus(g, s)
        PROVE  Served(f, c)'
    <3>1. CASE g = f
      <4>1. f \in drops'
        BY <2>3, <3>1 DEF SetFactoryStatus, TypeOK, RegistryType
      <4> QED
        BY <4>1 DEF Served, Coming
    <3>2. CASE g # f
      <4>1. rev' = rev /\ owner' = owner /\ fstate'[f] = fstate[f] /\ drops \subseteq drops'
            /\ calls' = calls
        BY <2>3, <3>2 DEF SetFactoryStatus, TypeOK, RegistryType
      <4> QED
        BY <1>0, <1>4, <4>1, StillServed DEF channelVars
    <3> QED
      BY <3>1, <3>2
  <2>4. ASSUME NEW n \in calls, AuditOK(n) PROVE Served(f, c)'
    <3>1. rev' = rev /\ owner' = owner /\ fstate' = fstate /\ drops' = drops
          /\ calls' = (calls \ {n}) \cup AfterAudit(n)
      BY <2>4 DEF AuditOK, Advance
    <3>2. (\E k \in calls : k.client = c /\ k.to = f /\ k.rev = rev[c]) =>
            \E k \in calls' : k.client = c /\ k.to = f /\ k.rev = rev[c]
      BY <3>1, CallGoesOn
    <3> QED
      BY <1>0, <1>4, <3>1, <3>2, StillServed DEF channelVars
  <2>5. ASSUME NEW d \in Clients, UnassignClient(d) PROVE Served(f, c)'
    BY <1>5, <2>5 DEF UnassignClient
  <2>6. ASSUME NEW d \in Clients, NEW g \in Factories, BindClient(d, g) \/ RebindClient(d, g)
        PROVE  Served(f, c)'
    BY <1>5, <2>6 DEF BindClient, RebindClient
  <2> QED
    BY <1>6, <2>1, <2>2, <2>3, <2>4, <2>5, <2>6 DEF Admin
<1>7. CASE CallFails
  <2>1. ASSUME NEW n \in calls, AuditFails(n) PROVE Served(f, c)'
    <3>1. rev' = rev /\ owner' = owner /\ fstate' = fstate /\ drops' = drops
          /\ calls' = calls \ {n} /\ n.to # f
      BY <2>1 DEF AuditFails
    <3> QED
      BY <1>0, <1>4, <1>7, <3>1, StillServed DEF CallFails, channelVars
  <2>2. ASSUME NEW g \in Factories, DropFails(g) PROVE Served(f, c)'
    <3>1. rev' = rev /\ owner' = owner /\ fstate' = fstate /\ (f \in drops => f \in drops')
          /\ calls' = calls
      BY <2>2 DEF DropFails
    <3> QED
      BY <1>0, <1>4, <1>7, <3>1, StillServed DEF CallFails, channelVars
  <2> QED
    BY <1>7, <2>1, <2>2 DEF CallFails
<1>8. ASSUME NEW n \in calls, Publish(n) PROVE Served(f, c)'
  <2>1. rev' = rev /\ owner' = owner /\ fstate' = fstate /\ drops' = drops /\ dying' = dying
    BY <1>8 DEF Publish, PublishVoid, PublishBind, Advance, Enqueue
  <2>2. n \in Call /\ session[f] \in Seq(Msg)
        /\ VoidMsg(n.client, n.rev) \in Msg /\ BindMsg(n.client, n.rev) \in Msg
    BY DEF TypeOK, RegistryType, Call, VoidMsg, BindMsg, Msg
  <2>3. ASSUME NEW g, NEW m \in Msg, Enqueue(g, m), NEW x, Queued(session[f], x)
        PROVE  Queued(session'[f], x)
    <3>1. session'[f] = session[f] \/ session'[f] = Append(session[f], m)
      BY <2>3 DEF Enqueue, TypeOK
    <3>2. Queued(Append(session[f], m), x)
      BY <2>2, <2>3, QueuedAppend
    <3> QED
      BY <2>3, <3>1, <3>2
  <2>4. CASE PublishVoid(n) /\ Enqueue(n.prev, VoidMsg(n.client, n.rev))
    <3>1. calls' = (calls \ {n}) \cup AfterVoid(n)
      BY <2>4 DEF PublishVoid, Advance
    <3>2. (\E k \in calls : k.client = c /\ k.to = f /\ k.rev = rev[c]) =>
            \E k \in calls' : k.client = c /\ k.to = f /\ k.rev = rev[c]
      BY <3>1, CallGoesOn
    <3>3. Queued(session[f], BindMsg(c, rev[c])) => Queued(session'[f], BindMsg(c, rev[c]))
      BY <2>2, <2>3, <2>4
    <3> QED
      BY <1>0, <1>4, <2>1, <3>2, <3>3, StillServed
  <2>5. CASE PublishBind(n) /\ Enqueue(n.to, BindMsg(n.client, n.rev))
    <3>1. calls' = calls \ {n}
      BY <2>5 DEF PublishBind, Advance
    <3>2. n.client = c /\ n.to = f /\ n.rev = rev[c] =>
            Queued(session'[f], BindMsg(c, rev[c])) \/ dying[f] \/ conn[f] = "down"
      <4> SUFFICES ASSUME n.client = c, n.to = f, n.rev = rev[c], ~dying[f], conn[f] # "down"
                   PROVE  Queued(session'[f], BindMsg(c, rev[c]))
        OBVIOUS
      <4>1. known[f]
        BY DEF KnownWhileConnected
      <4>2. session'[f] = Append(session[f], BindMsg(c, rev[c]))
        BY <2>5, <4>1 DEF Enqueue, TypeOK
      <4> QED
        BY <2>2, <4>2, QueuedAppend
    <3>3. Queued(session[f], BindMsg(c, rev[c])) => Queued(session'[f], BindMsg(c, rev[c]))
      BY <2>2, <2>3, <2>5
    <3> QED
      BY <1>0, <1>4, <2>1, <3>1, <3>2, <3>3, StillServed
  <2> QED
    BY <1>8, <2>4, <2>5 DEF Publish
<1>9. ASSUME NEW g \in Factories, Drop(g) PROVE Served(f, c)'
  <2>1. rev' = rev /\ owner' = owner /\ fstate' = fstate /\ calls' = calls /\ session' = session
    BY <1>9 DEF Drop, EndDrop
  <2>2. /\ f \in drops => f \in drops' \/ dying'[f] \/ conn[f] = "down"
        /\ dying[f] => dying'[f] \/ conn[f] = "down"
    BY <1>9 DEF Drop, EndDrop, TypeOK
  <2> QED
    BY <1>0, <1>4, <2>1, <2>2, StillServed
<1>10. CASE RestartWAN
  <2>1. dying'[f] \/ conn'[f] = "down"
    BY <1>0, <1>10 DEF RestartWAN
  <2> QED
    BY <2>1 DEF Served, Coming
<1> QED
  BY <1>6, <1>7, <1>8, <1>9, <1>10 DEF WanStep

\* A row of the newest binding stays under the steps of its factory.
LEMMA NewestStays ==
    ASSUME TypeOK, CommandsTimely, TablesTimely, RoundProtects,
           NEW f \in Factories, Factory(f), NEW c \in Clients, owner[c] = f,
           local[f][c] = Bound(rev[c])
    PROVE  local'[f][c] = Bound(rev[c])
<1>1. RowStays(f, c) \/ RowAdopts(f, c) \/ RowDrops(f, c)
  BY FactoryMoves
<1>2. local[f][c].rev = rev[c] /\ rev[c] \in Nat /\ local[f][c] \in Row
  BY DEF Bound, TypeOK, RegistryType
<1>3. ~RowDrops(f, c)
  BY <1>2 DEF RowDrops, InForce
<1>4. ~RowAdopts(f, c)
  <2> SUFFICES ASSUME RowAdopts(f, c) PROVE FALSE
    OBVIOUS
  <2>1. rev[c] < local'[f][c].rev /\ local'[f][c].rev <= rev[c]
    BY <1>2 DEF RowAdopts
  <2>2. TypeOK'
    BY FactoryTypeStep
  <2>3. local'[f][c].rev \in Nat
    BY <2>2 DEF TypeOK, Row, NoBinding
  <2> QED
    BY <1>2, <2>1, <2>3
<1> QED
  BY <1>1, <1>3, <1>4 DEF RowStays

\* Applying the newest bind to the owner's table always takes effect.
LEMMA NewestTakes ==
    ASSUME TypeOK, TablesTimely, OwnedHasRevision, CurrentStands,
           NEW f \in Factories, NEW c \in Clients, owner[c] = f, ApplyBind(f, c, rev[c])
    PROVE  local'[f][c] = Bound(rev[c])
<1>1. /\ local[f][c] \in Row /\ rev[c] \in Nat /\ rev[c] > 0
      /\ local[f][c].rev \in Nat /\ local[f][c].rev <= rev[c]
  BY DEF TypeOK, RegistryType, OwnedHasRevision, TablesTimely, Row, NoBinding
<1>2. local[f][c].rev = rev[c] => local[f][c].st = "bound"
  BY DEF CurrentStands, InForce
<1>3. local'[f][c] = AcceptBinding(local[f][c], rev[c])
  BY DEF ApplyBind, TypeOK
<1> QED
  BY <1>1, <1>2, <1>3 DEF AcceptBinding

\* Another factory's step changes nothing of this one's.
LEMMA OthersStand ==
    ASSUME TypeOK, NEW g \in Factories, Factory(g), NEW f \in Factories \ {g}
    PROVE  /\ local'[f] = local[f] /\ session'[f] = session[f] /\ inbox'[f] = inbox[f]
           /\ round'[f] = round[f] /\ conn'[f] = conn[f] /\ dying'[f] = dying[f]
           /\ dirty'[f] = dirty[f] /\ known'[f] = known[f]
<1> USE DEF TypeOK
<1>1. CASE Connect(g) \/ LoseConnection(g) \/ BeginRound(g) \/ Reconcile(g)
  BY <1>1 DEF Connect, LoseConnection, BeginRound, Reconcile, AfterRound
<1>2. CASE Leave(g)
  BY <1>2 DEF Leave
<1>3. CASE Deliver(g) \/ DeliverUnacked(g)
  BY <1>3 DEF Deliver, DeliverUnacked, Receive
<1>4. CASE HandleCmd(g)
  BY <1>4 DEF HandleCmd, ApplyBind, ApplyVoid
<1>5. CASE ApplyIndexEntry(g)
  BY <1>5 DEF ApplyIndexEntry, ApplyBind
<1>6. CASE IndexOfActive(g) \/ IndexOfDisabled(g)
  BY <1>6 DEF IndexOfActive, IndexOfDisabled, AfterRound
<1>7. CASE RoundFails(g) /\ ~Leave(g)
  BY <1>7 DEF RoundFails
<1> QED
  BY <1>1, <1>2, <1>3, <1>4, <1>5, <1>6, <1>7
     DEF Factory, NoticeLostConnection, AbandonChannel, FetchIndex

\* The connection and the rounds of one factory.
LEMMA FactoryConnected ==
    ASSUME TypeOK, KnownWhileConnected, RoundsConnected, NEW g \in Factories, Factory(g)
    PROVE  KnownWhileConnected' /\ RoundsConnected'
<1> SUFFICES ASSUME NEW f \in Factories
             PROVE  /\ conn'[f] # "down" /\ ~dying'[f] => known'[f]
                    /\ round'[f].pc # "idle" => conn'[f] # "down"
  BY DEF KnownWhileConnected, RoundsConnected
<1>0. /\ conn[f] # "down" /\ ~dying[f] => known[f]
      /\ round[f].pc # "idle" => conn[f] # "down"
  BY DEF KnownWhileConnected, RoundsConnected
<1>1. CASE f # g
  BY <1>0, <1>1, OthersStand
<1>2. CASE f = g
  <2> USE <1>0, <1>2 DEF TypeOK
  <2>1. CASE Leave(f) \/ Connect(f)
    BY <2>1 DEF Leave, Connect, Idle
  <2>2. CASE LoseConnection(f) \/ Deliver(f) \/ DeliverUnacked(f)
    BY <2>2 DEF LoseConnection, Deliver, DeliverUnacked, Receive
  <2>3. CASE HandleCmd(f) \/ BeginRound(f)
    BY <2>3 DEF HandleCmd, BeginRound
  <2>4. CASE IndexOfActive(f) /\ round[f].pc = "index"
    BY <2>4 DEF IndexOfActive
  <2>5. CASE (IndexOfDisabled(f) /\ round[f].pc = "index") \/ Reconcile(f)
    <3>1. round'[f] = Idle /\ dying' = dying /\ known' = known /\ conn[f] # "down"
      BY <2>5 DEF IndexOfDisabled, Reconcile, AfterRound
    <3> QED
      BY <3>1 DEF Idle
  <2>6. CASE ApplyIndexEntry(f)
    BY <2>6 DEF ApplyIndexEntry
  <2>7. CASE RoundFails(f) /\ ~Leave(f)
    BY <2>7 DEF RoundFails
  <2> QED
    BY <2>1, <2>2, <2>3, <2>4, <2>5, <2>6, <2>7
       DEF Factory, NoticeLostConnection, AbandonChannel, FetchIndex
<1> QED
  BY <1>1, <1>2

\* Every step of a factory keeps it served: a command that is taken is applied, kept or
\* marked, and a round that is abandoned is due again or ends the connection.
LEMMA FactoryServes ==
    ASSUME IInv, ServedInv, NEW g \in Factories, Factory(g)
    PROVE  ServedInv'
<1> USE DEF IInv, ServedInv
<1>1. UNCHANGED registryVars
  BY RegistryStands
<1> SUFFICES ASSUME NEW f \in Factories \ untold, NEW c \in Clients,
                    owner[c] = f, fstate[f] = "active"
             PROVE  Served(f, c)'
  BY <1>1, FactoryConnected DEF OwnersServed, registryVars
<1>2. Served(f, c) /\ rev' = rev /\ calls' = calls /\ drops' = drops
  BY <1>1 DEF OwnersServed, registryVars
<1>3. CASE f # g
  BY <1>2, <1>3, OthersStand DEF Served, Coming
<1>4. CASE f = g
  <2> DEFINE b == BindMsg(c, rev[c])
  <2>0. /\ b \in Msg /\ b.typ = "bind" /\ b.client = c /\ b.rev = rev[c]
        /\ session[f] \in Seq(Msg) /\ inbox[f] \in Seq(Msg) /\ round[f] \in Round
    BY DEF TypeOK, RegistryType, BindMsg, Msg
  <2>1. local[f][c] = Bound(rev[c]) => Served(f, c)'
    BY <1>2, <1>4, NewestStays DEF Served
  <2> SUFFICES ASSUME Coming(f, c), local[f][c] # Bound(rev[c]) PROVE Served(f, c)'
    BY <1>2, <2>1 DEF Served
  <2>2. /\ f \in drops => Served(f, c)'
        /\ (\E n \in calls : n.client = c /\ n.to = f /\ n.rev = rev[c]) => Served(f, c)'
    BY <1>2 DEF Served, Coming
  <2>3. \/ conn[f] = "down" \/ dying[f] \/ dirty[f]
        \/ Queued(session[f], b) \/ Queued(inbox[f], b)
        \/ round[f].pc = "index" \/ (round[f].pc = "apply" /\ <<c, rev[c]>> \in round[f].todo)
        \/ f \in drops \/ \E n \in calls : n.client = c /\ n.to = f /\ n.rev = rev[c]
    BY DEF Coming
  <2>4. \/ conn'[f] = "down" \/ dying'[f] \/ dirty'[f]
        \/ Queued(session'[f], b) \/ Queued(inbox'[f], b)
        \/ round'[f].pc = "index" \/ (round'[f].pc = "apply" /\ <<c, rev[c]>> \in round'[f].todo)
        => Served(f, c)'
    BY <1>2 DEF Served, Coming
  <2>5. local'[f][c] = Bound(rev[c]) => Served(f, c)'
    BY <1>2 DEF Served
  <2> HIDE DEF b
  <2>6. CASE Connect(f)
    BY <2>4, <2>6 DEF Connect, Began, TypeOK
  <2>7. CASE Leave(f)
    BY <2>4, <2>7 DEF Leave, TypeOK
  <2>8. CASE LoseConnection(f) \/ DeliverUnacked(f)
    BY <2>4, <2>8 DEF LoseConnection, DeliverUnacked, TypeOK
  <2>9. CASE Deliver(f)
    <3>1. /\ session[f] # << >> /\ conn[f] # "down" /\ ~dying[f]
          /\ session'[f] = Tail(session[f]) /\ round' = round
          /\ \/ inbox'[f] = Append(inbox[f], Head(session[f])) /\ dirty' = dirty
             \/ inbox' = inbox /\ dirty'[f]
      BY <2>9 DEF Deliver, Receive, TypeOK
    <3>2. Head(session[f]) \in Msg
      BY <2>0, <3>1
    <3>3. Queued(session[f], b) => b = Head(session[f]) \/ Queued(Tail(session[f]), b)
      BY <2>0, <3>1, QueuedTail
    <3>4. /\ Queued(Append(inbox[f], Head(session[f])), Head(session[f]))
          /\ Queued(inbox[f], b) => Queued(Append(inbox[f], Head(session[f])), b)
      BY <2>0, <3>2, QueuedAppend
    <3> QED
      BY <2>2, <2>3, <2>4, <3>1, <3>3, <3>4
  <2>10. CASE HandleCmd(f)
    <3>1. /\ inbox[f] # << >> /\ inbox'[f] = Tail(inbox[f])
          /\ UNCHANGED <<session, conn, dying, dirty>>
      BY <2>10 DEF HandleCmd, TypeOK
    <3>2. Record(f, Head(inbox[f]).client).todo = round[f].todo
          /\ Record(f, Head(inbox[f]).client).pc = round[f].pc
      BY <2>0 DEF Record, Round
    <3>3. round'[f].todo = round[f].todo /\ round'[f].pc = round[f].pc
      BY <2>10, <3>2 DEF HandleCmd, TypeOK
    <3>4. Queued(inbox[f], b) => b = Head(inbox[f]) \/ Queued(Tail(inbox[f]), b)
      BY <2>0, <3>1, QueuedTail
    <3>5. b = Head(inbox[f]) => ApplyBind(f, c, rev[c])
      BY <2>0, <2>10 DEF HandleCmd
    <3>6. b = Head(inbox[f]) => local'[f][c] = Bound(rev[c])
      BY <3>5, NewestTakes
    <3> QED
      BY <2>2, <2>3, <2>4, <2>5, <3>1, <3>3, <3>4, <3>6
  <2>11. CASE BeginRound(f)
    BY <2>4, <2>11 DEF BeginRound, Began, TypeOK
  <2>12. CASE IndexOfActive(f)
    <3>1. c \in Assigned(f)
      BY DEF Assigned
    <3> QED
      BY <2>4, <2>12, <3>1 DEF IndexOfActive, TypeOK
  <2>13. CASE IndexOfDisabled(f)
    BY <2>13 DEF IndexOfDisabled
  <2>14. CASE ApplyIndexEntry(f)
    <3> PICK e \in round[f].todo :
          /\ ApplyBind(f, e[1], e[2])
          /\ round' = [round EXCEPT ![f] =
                          [pc |-> "apply", todo |-> round[f].todo \ {e},
                           keep |-> round[f].keep \cup {e[1]},
                           seen |-> round[f].seen \cup {e[1]}]]
      BY <2>14 DEF ApplyIndexEntry
    <3>1. /\ round[f].pc = "apply" /\ UNCHANGED <<session, conn, dying, dirty, inbox>>
          /\ round'[f].pc = "apply" /\ round'[f].todo = round[f].todo \ {e}
      BY <2>14 DEF ApplyIndexEntry, TypeOK
    <3>2. e = <<c, rev[c]>> => local'[f][c] = Bound(rev[c])
      BY NewestTakes
    <3> QED
      BY <2>2, <2>3, <2>4, <2>5, <3>1, <3>2
  <2>15. CASE Reconcile(f)
    <3>1. /\ round[f].pc = "apply" /\ round[f].todo = {} /\ conn[f] # "down"
          /\ UNCHANGED <<session, dying, dirty, inbox>>
      BY <2>15 DEF Reconcile, RoundsConnected
    <3> QED
      BY <2>2, <2>3, <2>4, <3>1
  <2>16. CASE RoundFails(f) /\ ~Leave(f)
    BY <2>4, <2>16 DEF RoundFails, TypeOK
  <2> QED
    BY <1>4, <2>6, <2>7, <2>8, <2>9, <2>10, <2>11, <2>12, <2>13, <2>14, <2>15, <2>16
       DEF Factory, NoticeLostConnection, AbandonChannel, FetchIndex
<1> QED
  BY <1>3, <1>4

\* ... so every step does.
LEMMA ServedStep == IInv /\ ServedInv /\ [Next]_vars => ServedInv'
<1> SUFFICES ASSUME IInv, ServedInv, [Next]_vars PROVE ServedInv'
  OBVIOUS
<1>1. CASE UNCHANGED vars
  BY <1>1 DEF vars, registryVars, ServedInv, KnownWhileConnected, RoundsConnected, OwnersServed,
     Served, Coming
<1>2. CASE WanStep
  BY <1>2, WanServes DEF IInv
<1>3. ASSUME NEW f \in Factories, Factory(f) PROVE ServedInv'
  BY <1>3, FactoryServes
<1> QED
  BY <1>1, <1>2, <1>3, ChannelBounds DEF Next, WanStep

\* Where nothing is coming, what is served is there.
LEMMA ServedKnows == ServedInv => OwnerKnows
<1> SUFFICES ASSUME ServedInv, NEW f \in Factories \ untold, NEW c \in Clients,
                    Quiescent(f), owner[c] = f
             PROVE  local[f][c] = Bound(rev[c])
  BY DEF OwnerKnows
<1>1. ~Coming(f, c)
  BY DEF Quiescent, Coming, Queued, Idle
<1> QED
  BY <1>1 DEF ServedInv, OwnersServed, Served, Quiescent

\* Once nothing is on its way, a connected factory holds every client the directory gives
\* it: queues that were full, lost connections, restarts and failed rounds (receive,
\* settle and reconcile of the factory, the broker's sessions) are all made up for.
THEOREM OwnersKnow == Spec => []OwnerKnows
<1>1. Spec => []IInv
  BY InvariantHolds
<1>2. Init => ServedInv
  BY ServedInit
<1>3. IInv /\ ServedInv /\ [Next]_vars => ServedInv'
  BY ServedStep
<1>4. ServedInv => OwnerKnows
  BY ServedKnows
<1> QED
  BY <1>1, <1>2, <1>3, <1>4, PTL DEF Spec
=============================================================================
