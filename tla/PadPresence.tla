---------------------------- MODULE PadPresence ----------------------------
(***************************************************************************)
(* Who is online at a factory: pads connect over MQTT, the broker keeps    *)
(* the person of every connection (platform/clientmqtt/broker.go) and      *)
(* counts the connections of each person up and down (node_presence.go).   *)
(* The MQTT library runs a goroutine per connection: a new connection of   *)
(* a device closes the old one, whose end may be handled much later; a     *)
(* connection that fails before its acknowledgement has no end at all.     *)
(***************************************************************************)
EXTENDS Naturals, FiniteSets

CONSTANTS Devices, Persons,
          MaxConns      \* bound: connections

ASSUME PadsAssumption == MaxConns \in Nat

VARIABLES conn,         \* per connection: device, person, where its goroutine is
          shut,       \* connections whose socket is closed
          persons,      \* Broker.persons: connection to the online mark
          mqttOnline    \* kernel.mqttOnline

pvars == <<conn, shut, persons, mqttOnline>>

Conns == 1..MaxConns
NoConn == [pc |-> "none"]
Known == DOMAIN persons
Without(f, S) == [c \in DOMAIN f \ S |-> f[c]]
At(c, pc) == conn[c].pc = pc
Goto(c, pc) == conn' = [conn EXCEPT ![c].pc = pc]

PresenceInit ==
    /\ conn = [c \in Conns |-> NoConn]
    /\ shut = {}
    /\ persons = << >>
    /\ mqttOnline = [p \in Persons |-> 0]

\* A plausible slip: whatever an earlier connection of the device left goes.
AnyEarlier(d) == {o \in Known : conn[o].d = d /\ o \in shut}

\* Left behind by connections that never came online.
LeftBehind(d) == {o \in Known : conn[o].d = d /\ o \in shut /\ ~persons[o]}

\* OnConnectAuthenticate: the session is good and the device not void
\* (AuthClientMQTT); rememberPerson.
Authenticate(c, d, p) ==
    /\ conn[c] = NoConn /\ (c > 1 => conn[c - 1] # NoConn)
    /\ conn' = [conn EXCEPT ![c] = [pc |-> "auth", d |-> d, p |-> p]]
    /\ persons' = [o \in (Known \ LeftBehind(d)) \cup {c} |-> o # c /\ persons[o]]
    /\ UNCHANGED <<shut, mqttOnline>>

\* The library: the device's other connections are closed, then the answer
\* is sent; if that fails nothing more is called.
TakeOver(c) ==
    /\ At(c, "auth")
    /\ shut' = shut \cup {o \in Conns \ {c} : conn[o] # NoConn /\ conn[o].d = conn[c].d
                                                  /\ ~At(o, "auth")}
    /\ Goto(c, "added")
    /\ UNCHANGED <<persons, mqttOnline>>
Acknowledge(c) ==
    /\ At(c, "added")
    /\ \/ Goto(c, "acked") /\ UNCHANGED shut
       \/ Goto(c, "gone") /\ shut' = shut \cup {c}
    /\ UNCHANGED <<persons, mqttOnline>>
Close(c) ==
    /\ conn[c] # NoConn /\ c \notin shut
    /\ shut' = shut \cup {c}
    /\ UNCHANGED <<conn, persons, mqttOnline>>

\* OnSessionEstablished: markOnline, then the hook counts the person up.
MarkOnline(c) ==
    /\ At(c, "acked")
    /\ IF c \in Known
       THEN persons' = [persons EXCEPT ![c] = TRUE] /\ Goto(c, "marked")
       ELSE Goto(c, "silent") /\ UNCHANGED persons
    /\ UNCHANGED <<shut, mqttOnline>>
CountUp(c) ==
    /\ At(c, "marked")
    /\ mqttOnline' = [mqttOnline EXCEPT ![conn[c].p] = @ + 1]
    /\ Goto(c, "online")
    /\ UNCHANGED <<shut, persons>>

\* OnDisconnect, some time after the socket closed: forgetPerson, then the
\* hook counts down, never below nothing.
ForgetPerson(c) ==
    /\ conn[c].pc \in {"online", "silent"} /\ c \in shut
    /\ persons' = Without(persons, {c})
    /\ Goto(c, IF c \in Known THEN "forgotten" ELSE "gone")
    /\ UNCHANGED <<shut, mqttOnline>>
CountDown(c) ==
    /\ At(c, "forgotten")
    /\ mqttOnline' = [mqttOnline EXCEPT ![conn[c].p] = IF @ <= 1 THEN 0 ELSE @ - 1]
    /\ Goto(c, "gone")
    /\ UNCHANGED <<shut, persons>>

\* The server restarts: every connection and all of this is forgotten.
BrokerRestarts ==
    /\ conn' = [c \in Conns |-> IF conn[c] = NoConn THEN NoConn ELSE [conn[c] EXCEPT !.pc = "gone"]]
    /\ shut' = {c \in Conns : conn[c] # NoConn}
    /\ persons' = << >>
    /\ mqttOnline' = [p \in Persons |-> 0]

PresenceNext ==
    \/ \E c \in Conns :
        \/ \E d \in Devices, p \in Persons : Authenticate(c, d, p)
        \/ TakeOver(c) \/ Acknowledge(c) \/ Close(c) \/ MarkOnline(c)
        \/ CountUp(c) \/ ForgetPerson(c) \/ CountDown(c)
    \/ BrokerRestarts

PadsSpec == PresenceInit /\ [][PresenceNext]_pvars

-----------------------------------------------------------------------------
\* The list of people online is the people with a connection that came
\* online and whose end has not been handled: taking over a device neither
\* leaves a person online for ever nor hides one who is (rememberPerson,
\* forgetPerson, noteAppMQTT).
RosterIsConnected ==
    {p \in Persons : mqttOnline[p] > 0}
        = {p \in Persons : \E c \in Conns :
                conn[c].pc \in {"online", "forgotten"} /\ conn[c].p = p}
=============================================================================
