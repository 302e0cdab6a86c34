---------------------------- MODULE FactoryCall ----------------------------
(***************************************************************************)
(* Questions of the WAN to a factory over MQTT (service/notify.go:         *)
(* CallFactory, mqttbroker/broker.go: Call, deliver; at the factory        *)
(* wanchannel/hold.go: replyRequest).  Every call parks a channel of one   *)
(* place under factory and question number, publishes, and takes the first *)
(* of an answer and its time-out.  Questions and answers may come twice    *)
(* (QoS 1) and at any time, answers after their call has gone.             *)
(***************************************************************************)
EXTENDS Naturals, FiniteSets

CONSTANTS Factories, Callers,
          Asked,        \* what may be asked: a list, a snapshot of an asset
          MaxQuestions  \* bound: questions asked

NoFactory == "none"

VARIABLES call,         \* per caller: its call
          park,         \* Broker.wait: key to the call's number
          down, up,     \* published and not yet handled
          handing,      \* deliver: an answer and the channel found for it
          result,       \* per caller: what it asked and what it was told
          asked

cvars == <<call, park, down, up, handing, result, asked>>

NoCalling == [pc |-> "idle", f |-> NoFactory, what |-> 0, id |-> 0]
Unasked == [f |-> NoFactory, what |-> 0, from |-> NoFactory, told |-> 0]
Key(f, id) == <<f, id>>

CallInit ==
    /\ call = [c \in Callers |-> NoCalling]
    /\ park = {} /\ down = {} /\ up = {} /\ handing = {}
    /\ result = [c \in Callers |-> Unasked]
    /\ asked = 0

\* A plausible slip: the channel is parked under the factory alone.
FactoryKey(f, id) == <<f, 0>>

WaitKey(f, id) == Key(f, id)

\* CallFactory and the first half of Call: a fresh number, park, publish.
\* The directory row it looks at first may be out of date either way.
Ask(c, f, w) ==
    /\ call[c] = NoCalling /\ asked < MaxQuestions
    /\ asked' = asked + 1
    /\ call' = [call EXCEPT ![c] = [pc |-> "wait", f |-> f, what |-> w, id |-> asked + 1]]
    /\ park' = {p \in park : p.key # WaitKey(f, asked + 1)}
                   \cup {[key |-> WaitKey(f, asked + 1), id |-> asked + 1]}
    /\ down' = down \cup {[f |-> f, what |-> w, id |-> asked + 1]}
    /\ result' = [result EXCEPT ![c] = Unasked]
    /\ UNCHANGED <<up, handing>>

\* The factory answers, perhaps again: the message stays to be redelivered.
Reply(q) ==
    /\ up' = up \cup {[f |-> q.f, told |-> q.what, id |-> q.id]}
    /\ UNCHANGED <<call, park, down, handing, result, asked>>

\* Connection lost: what was on its way is gone.
Lost ==
    /\ down \cup up # {}
    /\ down' = {} /\ up' = {}
    /\ UNCHANGED <<call, park, handing, result, asked>>

\* deliver: the channel is looked up under the lock ...
Deliver(a) ==
    /\ \E p \in park :
        /\ p.key = WaitKey(a.f, a.id)
        /\ handing' = handing \cup {[to |-> p.id, a |-> a]}
    /\ UNCHANGED <<call, park, down, up, result, asked>>

\* ... and filled after it: the first answer wins, one for a call that has
\* gone fills a channel nobody reads.
Hand(h) ==
    /\ handing' = handing \ {h}
    /\ \E c \in Callers :
        IF call[c].pc = "wait" /\ call[c].id = h.to
        THEN /\ call' = [call EXCEPT ![c].pc = "told"]
             /\ result' = [result EXCEPT ![c] =
                   [f |-> call[c].f, what |-> call[c].what, from |-> h.a.f, told |-> h.a.told]]
        ELSE /\ \A d \in Callers : ~(call[d].pc = "wait" /\ call[d].id = h.to)
             /\ UNCHANGED <<call, result>>
    /\ UNCHANGED <<park, down, up, asked>>

\* unpark, deferred: whatever the end of the call.
Unparked(c) == {p \in park : p.key # WaitKey(call[c].f, call[c].id)}

TimeOut(c) ==
    /\ call[c].pc = "wait"
    /\ call' = [call EXCEPT ![c] = NoCalling]
    /\ park' = Unparked(c)
    /\ UNCHANGED <<down, up, handing, result, asked>>

Return(c) ==
    /\ call[c].pc = "told"
    /\ call' = [call EXCEPT ![c] = NoCalling]
    /\ park' = Unparked(c)
    /\ UNCHANGED <<down, up, handing, result, asked>>

CallNext ==
    \/ \E c \in Callers :
        \/ TimeOut(c) \/ Return(c)
        \/ \E f \in Factories, w \in Asked : Ask(c, f, w)
    \/ \E q \in down : Reply(q)
    \/ \E a \in up : Deliver(a)
    \/ \E h \in handing : Hand(h)
    \/ Lost

CallSpec == CallInit /\ [][CallNext]_cvars

(* Whoever was told something was told what it had asked, by the factory   *)
(* it had asked, however late or often answers come; and the broker keeps  *)
(* a channel for exactly the calls in progress.                            *)
OwnAnswer ==
    /\ \A c \in Callers : result[c] # Unasked =>
        result[c].from = result[c].f /\ result[c].told = result[c].what
    /\ {p.id : p \in park} = {call[c].id : c \in {d \in Callers : call[d] # NoCalling}}
=============================================================================
