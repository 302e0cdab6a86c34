------------------------------- MODULE Resync -------------------------------
(***************************************************************************)
(* The dirty set of a factory's WAN channel and the background goroutine   *)
(* that serves it (factory/server/internal/wanchannel/hold.go: dirtySet,   *)
(* runResync, resync, settle).                                             *)
(*                                                                         *)
(* Three parties share the set under its mutex: the receive callback and   *)
(* the main loop mark what was lost, the page opened by a user asks for a  *)
(* kind, and the goroutine takes everything, pulls it and settles.  One    *)
(* timer carries the back-off and a one-slot channel carries the wake-up.  *)
(* A fresh set is built for every connection.                              *)
(***************************************************************************)
EXTENDS Naturals, FiniteSets

CONSTANTS
    Kinds,      \* the kinds that can be pulled alone: process, project
    All,        \* the mark for a whole round (field full)
    MaxFails,   \* retryMaxFails
    Base,       \* retryBase
    Cap         \* retryCap

ASSUME ResyncConstants ==
    /\ All \notin Kinds
    /\ MaxFails \in Nat \ {0}
    /\ Base \in Nat \ {0}
    /\ Cap \in Nat /\ Base <= Cap

VARIABLES
    pc,         \* the goroutine: "first" while the main loop runs the first
                \* round and the goroutine has not started, "idle" in its select,
                \* "woken" between the select and take, "pulling" while running,
                \* "retiring" with a fatal error in hand, "gone"
    marks,      \* fields full and kinds
    want,       \* kinds asked for by a page
    recent,     \* kinds whose last request is younger than pageDebounce
    armed,      \* a back-off is scheduled
    fails,      \* rounds failed in a row; only compared with MaxFails,
                \* so it saturates there
    wait,       \* the next back-off
    timer,      \* "off", "set", or "fired" with the tick waiting in the channel
    wake,       \* the slot of the wake channel
    todo,       \* what the running round has still to pull
    fresh       \* history: losses marked and not yet taken by any round

vars == <<pc, marks, want, recent, armed, fails, wait, timer, wake, todo, fresh>>

Marks == Kinds \cup {All}

TypeOK ==
    /\ pc \in {"first", "idle", "woken", "pulling", "retiring", "gone"}
    /\ marks \subseteq Marks
    /\ want \subseteq Kinds
    /\ recent \subseteq Kinds
    /\ armed \in BOOLEAN
    /\ fails \in 0..MaxFails
    /\ wait \in 0..Cap
    /\ timer \in {"off", "set", "fired"}
    /\ wake \in BOOLEAN
    /\ todo \subseteq Marks
    /\ fresh \subseteq Marks

running == pc \in {"pulling", "retiring"}

-----------------------------------------------------------------------------

\* newDirtySet: the timer is stopped until the first mark.
Init ==
    /\ pc = "first"
    /\ marks = {} /\ want = {} /\ recent = {} /\ todo = {} /\ fresh = {}
    /\ armed = FALSE /\ wake = FALSE
    /\ fails = 0 /\ wait = 0
    /\ timer = "off"

\* armLocked: start a back-off from its base, unless one is scheduled or running.
Arm ==
    IF armed \/ running
    THEN UNCHANGED <<armed, fails, wait, timer>>
    ELSE /\ armed' = TRUE
         /\ fails' = 0
         /\ wait' = Base
         /\ timer' = "set"

\* mark, for a dropped message or an instruction that could not be applied.
Mark(m) ==
    /\ pc # "gone"
    /\ marks' = marks \cup {m}
    /\ fresh' = fresh \cup {m}
    /\ Arm
    /\ UNCHANGED <<pc, want, recent, wake, todo>>

\* A plausible slip: the wake-up is left to the back-off when one is scheduled.
RequestSkipsWake(ks) ==
    /\ pc \notin {"first", "gone"}
    /\ recent' = recent \cup ks
    /\ want' = want \cup (ks \ recent)
    /\ wake' = (wake \/ (want' # {} /\ ~armed /\ ~running))
    /\ UNCHANGED <<pc, marks, armed, fails, wait, timer, todo, fresh>>

\* request: a page asks for one kind or for all; marks that were given up get a
\* new set of attempts.
Request(ks) ==
    /\ pc \notin {"first", "gone"}
    /\ recent' = recent \cup ks
    /\ want' = want \cup (ks \ recent)
    /\ IF want' = {}
       THEN UNCHANGED <<fails, wait, wake>>
       ELSE /\ IF armed \/ running
               THEN UNCHANGED <<fails, wait>>
               ELSE fails' = 0 /\ wait' = Base
            /\ wake' = TRUE
    /\ UNCHANGED <<pc, marks, armed, timer, todo, fresh>>

\* pageDebounce has passed since kind k was last asked for.
DebounceOver(k) ==
    /\ k \in recent
    /\ recent' = recent \ {k}
    /\ UNCHANGED <<pc, marks, want, armed, fails, wait, timer, wake, todo, fresh>>

\* The back-off is over and its tick lies in the timer's channel.
Tick ==
    /\ timer = "set"
    /\ timer' = "fired"
    /\ UNCHANGED <<pc, marks, want, recent, armed, fails, wait, wake, todo, fresh>>

-----------------------------------------------------------------------------

\* The first round is over and Hold starts the goroutine.
Start ==
    /\ pc = "first"
    /\ pc' = "idle"
    /\ UNCHANGED <<marks, want, recent, armed, fails, wait, timer, wake, todo, fresh>>

\* The select of runResync receives the tick ...
WakeByTimer ==
    /\ pc = "idle" /\ timer = "fired"
    /\ pc' = "woken"
    /\ timer' = "off"
    /\ UNCHANGED <<marks, want, recent, armed, fails, wait, wake, todo, fresh>>

\* ... or the wake-up; with both ready it may take either.
WakeByRequest ==
    /\ pc = "idle" /\ wake
    /\ pc' = "woken"
    /\ wake' = FALSE
    /\ UNCHANGED <<marks, want, recent, armed, fails, wait, timer, todo, fresh>>

\* A plausible slip: the back-off stays noted as scheduled.
TakeKeepsArmed ==
    /\ pc = "woken"
    /\ pc' = "pulling"
    /\ timer' = "off"
    /\ todo' = IF All \in marks THEN {All} ELSE marks \cup want
    /\ marks' = {} /\ want' = {} /\ fresh' = {}
    /\ UNCHANGED <<armed, recent, fails, wait, wake>>

\* take: stop the timer, empty the set; a full mark covers every kind.
Take ==
    /\ pc = "woken"
    /\ pc' = "pulling"
    /\ timer' = "off"
    /\ armed' = FALSE
    /\ todo' = IF All \in marks THEN {All} ELSE marks \cup want
    /\ marks' = {} /\ want' = {} /\ fresh' = {}
    /\ UNCHANGED <<recent, fails, wait, wake>>

\* A pull succeeds, or is rejected for its content, which no retry would mend.
PullDone(m) ==
    /\ pc = "pulling" /\ m \in todo
    /\ todo' = todo \ {m}
    /\ UNCHANGED <<pc, marks, want, recent, armed, fails, wait, timer, wake, fresh>>

\* settle and failed: any other failure marks the same thing again.
PullFails(m) ==
    /\ pc = "pulling" /\ m \in todo
    /\ todo' = todo \ {m}
    /\ marks' = marks \cup {m}
    /\ Arm
    /\ UNCHANGED <<pc, want, recent, wake, fresh>>

\* The factory is retired or the pinned key conflicts: the round is abandoned.
PullFatal ==
    /\ pc = "pulling" /\ todo # {}
    /\ pc' = "retiring"
    /\ todo' = {}
    /\ UNCHANGED <<marks, want, recent, armed, fails, wait, timer, wake, fresh>>

Capped(n) == IF n > Cap THEN Cap ELSE n

\* A plausible slip: the timer that WakeByTimer drained is not set again.
FinishWithoutReset ==
    /\ running /\ todo = {}
    /\ pc' = IF pc = "retiring" THEN "gone" ELSE "idle"
    /\ IF marks = {}
       THEN fails' = 0 /\ UNCHANGED <<armed, wait>>
       ELSE /\ fails' = IF fails < MaxFails THEN fails + 1 ELSE fails
            /\ armed' = (fails' < MaxFails)
            /\ wait' = IF armed' THEN Capped(2 * wait) ELSE wait
    /\ UNCHANGED <<marks, want, recent, timer, wake, todo, fresh>>

\* A plausible slip: the back-off never grows.
FinishWithoutBackoff ==
    /\ running /\ todo = {}
    /\ pc' = IF pc = "retiring" THEN "gone" ELSE "idle"
    /\ IF marks = {}
       THEN fails' = 0 /\ UNCHANGED <<armed, timer>>
       ELSE /\ fails' = IF fails < MaxFails THEN fails + 1 ELSE fails
            /\ armed' = (fails' < MaxFails)
            /\ timer' = IF armed' THEN "set" ELSE timer
    /\ UNCHANGED <<marks, want, recent, wait, wake, todo, fresh>>

\* finish: clean, given up after MaxFails rounds, or scheduled again later.
Finish ==
    /\ running /\ todo = {}
    /\ pc' = IF pc = "retiring" THEN "gone" ELSE "idle"
    /\ IF marks = {}
       THEN fails' = 0 /\ UNCHANGED <<armed, wait, timer>>
       ELSE /\ fails' = IF fails < MaxFails THEN fails + 1 ELSE fails
            /\ IF fails' = MaxFails
               THEN UNCHANGED <<armed, wait, timer>>
               ELSE /\ wait' = Capped(2 * wait)
                    /\ armed' = TRUE
                    /\ timer' = "set"
    /\ UNCHANGED <<marks, want, recent, wake, todo, fresh>>

\* The connection is lost, fails its first round, or is cancelled; a pull in
\* flight is interrupted and not marked.
Leave ==
    /\ pc # "gone"
    /\ pc' = "gone"
    /\ timer' = "off"
    /\ todo' = {}
    /\ UNCHANGED <<marks, want, recent, armed, fails, wait, wake, fresh>>

\* The next connection builds its own set.
Reconnect ==
    /\ pc = "gone"
    /\ pc' = "first"
    /\ marks' = {} /\ want' = {} /\ recent' = {} /\ todo' = {} /\ fresh' = {}
    /\ armed' = FALSE /\ wake' = FALSE
    /\ fails' = 0 /\ wait' = 0
    /\ timer' = "off"

-----------------------------------------------------------------------------

Pull == PullFatal \/ \E m \in Marks : PullDone(m) \/ PullFails(m)

Next ==
    \/ \E m \in Marks : Mark(m)
    \/ \E ks \in {{k} : k \in Kinds} \cup {Kinds} : Request(ks)
    \/ \E k \in Kinds : DebounceOver(k)
    \/ Tick \/ Start \/ WakeByTimer \/ WakeByRequest
    \/ Take \/ Pull \/ Finish
    \/ Leave \/ Reconnect

Spec == Init /\ [][Next]_vars

\* The runtime fires a timer that is set and runs a goroutine that is ready; a
\* pull ends, by its answer or by its request timeout.  Nothing is assumed of
\* the network's answers, of the users or of the connection.
FairSpec ==
    /\ Spec
    /\ WF_vars(Tick) /\ WF_vars(Start)
    /\ WF_vars(WakeByTimer) /\ WF_vars(WakeByRequest)
    /\ WF_vars(Take) /\ WF_vars(Pull) /\ WF_vars(Finish)

-----------------------------------------------------------------------------

\* A scheduled back-off has its timer running, or its tick is being served.
ArmedHasTimer == armed /\ pc # "gone" => timer # "off" \/ pc = "woken"

\* A timer that runs belongs to a scheduled back-off.
TimerIsArmed == timer # "off" => armed

\* While a round runs, no back-off is scheduled: finish decides about the next.
RoundHoldsTimer == running => ~armed

\* Nothing that is marked is forgotten: it waits for the back-off, for a round
\* under way or a wake-up, unless it was given up after MaxFails failed rounds.
MarksServed ==
    marks # {} /\ pc # "gone"
        => armed \/ running \/ wake \/ pc = "woken" \/ fails = MaxFails

\* What a page asked for has its wake-up in the slot or in the goroutine's hand.
WantSignalled == want # {} /\ pc # "gone" => wake \/ pc = "woken"

\* A loss that no round has taken is still marked.
FreshIsMarked == fresh \subseteq marks

\* The dirty set's invariant: no mark and no page request can be stranded by the
\* races between the callback, the main loop, the timer and the goroutine.
NoneStranded ==
    /\ TypeOK
    /\ ArmedHasTimer /\ TimerIsArmed /\ RoundHoldsTimer
    /\ MarksServed /\ WantSignalled /\ FreshIsMarked
    /\ todo # {} => pc = "pulling"

\* The back-off that n failed rounds call for.
Backoff[n \in Nat] == IF n = 0 THEN Base ELSE Capped(2 * Backoff[n - 1])

\* The platform is never pulled by the timer sooner than the failures so far call for,
\* whatever requests and marks came between (the doubling in finish).
NeverTooSoon == armed => wait >= Backoff[fails]

GivenUp == pc = "idle" /\ marks # {} /\ ~armed /\ ~wake

\* What is given up has been pulled at least once since it was marked, as the
\* comment on retryMaxFails says of "one and the same" set of marks.
GivesUpOnlyTried == GivenUp => fresh = {}

\* Every page request is served by a round, even after failures were given up.
WantServed == \A k \in Kinds : (k \in want) ~> (k \notin want \/ pc = "gone")

\* Every loss is taken by a round or openly given up; it never just lies there.
LossTried == \A m \in Marks : (m \in fresh) ~> (m \notin fresh \/ GivenUp \/ pc = "gone")
=============================================================================
