------------------------------ MODULE HoldJobs ------------------------------
(***************************************************************************)
(* One connection of a factory to the WAN (wanchannel/hold.go: Hold) and   *)
(* the goroutines it starts: the background rounds and the software jobs.  *)
(* Leaving, Hold first stops and joins the rounds, then cancels and joins  *)
(* the jobs; commands and rounds apply what they bring under one mutex;    *)
(* a job may be waiting for a download that outlives the connection.       *)
(***************************************************************************)
EXTENDS Naturals, FiniteSets

CONSTANTS Packs,        \* releases that may be announced, "kind/version"
          MaxHolds      \* bound: connections

LatestJob == "latest"
ASSUME PacksAreNotTheLatestJob == LatestJob \notin Packs

VARIABLES main,         \* where Hold is
          rounds,       \* where the background goroutine is
          applying,     \* who holds the apply mutex
          active,       \* softwareJobs.active, counted by its WaitGroup
          closed,       \* softwareJobs.closed
          stop,         \* bctx and sctx cancelled
          waiting,      \* jobs inside EnsureSoftware
          softwareIn,   \* downloads, shared by all connections
          complete,     \* releases replicated in full
          holds

hvars == <<main, rounds, applying, active, closed, stop, waiting, softwareIn, complete, holds>>
jobs == <<active, closed, waiting>>
store == <<softwareIn, complete>>

Nobody == "nobody"
Running == [rounds |-> FALSE, jobs |-> FALSE]

HoldInit ==
    /\ main = "run" /\ rounds = "idle" /\ applying = Nobody
    /\ active = {} /\ closed = FALSE /\ stop = Running
    /\ waiting = {} /\ softwareIn = {} /\ complete = {}
    /\ holds = 1

\* spawn: nothing new for a key at work, nothing at all once Hold leaves.
CanSpawn(k) == k \notin active /\ ~closed

\* A command or the ticker in the main loop; a command waits for the mutex.
Announce(p) ==
    /\ main = "run" /\ applying = Nobody
    /\ active' = IF CanSpawn(p) THEN active \cup {p} ELSE active
    /\ UNCHANGED <<main, rounds, applying, closed, stop, waiting, store, holds>>

SoftTick ==
    /\ main = "run" /\ CanSpawn(LatestJob)
    /\ active' = active \cup {LatestJob}
    /\ UNCHANGED <<main, rounds, applying, closed, stop, waiting, store, holds>>

\* Any other command: applied with the mutex held, answering a question may
\* take its time.
HandleBegins ==
    /\ main = "run" /\ applying = Nobody
    /\ main' = "handle" /\ applying' = "main"
    /\ UNCHANGED <<rounds, jobs, stop, store, holds>>

HandleEnds ==
    /\ main = "handle"
    /\ \E next \in {"run", "leave"} : main' = next
    /\ applying' = Nobody
    /\ UNCHANGED <<rounds, jobs, stop, store, holds>>

-----------------------------------------------------------------------------
\* runResync: a round fetches without the mutex and applies with it.
BackgroundBegins ==
    /\ rounds = "idle" /\ ~stop.rounds
    /\ rounds' = "fetch"
    /\ UNCHANGED <<main, applying, jobs, stop, store, holds>>

BackgroundApplies ==
    /\ rounds = "fetch" /\ ~stop.rounds /\ applying = Nobody
    /\ rounds' = "apply" /\ applying' = "rounds"
    /\ UNCHANGED <<main, jobs, stop, store, holds>>

BackgroundEnds ==
    /\ \/ rounds = "apply" /\ applying' = Nobody
       \/ rounds = "fetch" /\ stop.rounds /\ applying' = applying
    /\ rounds' = "idle"
    /\ UNCHANGED <<main, jobs, stop, store, holds>>

BackgroundStops ==
    /\ rounds = "idle" /\ stop.rounds
    /\ rounds' = "gone"
    /\ UNCHANGED <<main, applying, jobs, stop, store, holds>>

-----------------------------------------------------------------------------
\* syncSoftware asks for the newest of every kind and accepts each.
LatestAsks(p) ==
    /\ LatestJob \in active /\ ~stop.jobs
    /\ CanSpawn(p)
    /\ active' = active \cup {p}
    /\ UNCHANGED <<main, rounds, applying, closed, stop, waiting, store, holds>>

LatestEnds ==
    /\ LatestJob \in active
    /\ active' = active \ {LatestJob}
    /\ UNCHANGED <<main, rounds, applying, closed, stop, waiting, store, holds>>

\* EnsureSoftware: joins the download of its key or starts one ...
Ensure(p) ==
    /\ p \in active \ waiting
    /\ IF p \in complete
       THEN active' = active \ {p} /\ UNCHANGED <<waiting, softwareIn>>
       ELSE /\ waiting' = waiting \cup {p}
            /\ softwareIn' = softwareIn \cup {p}
            /\ active' = active
    /\ UNCHANGED <<main, rounds, applying, closed, stop, complete, holds>>

\* A plausible slip: the waiter does not look at its context.
Answered(p) == p \notin softwareIn

\* ... and waits for its end or for the end of the connection.
MayLeave(p) == p \notin softwareIn \/ stop.jobs

JobLeaves(p) ==
    /\ p \in waiting /\ MayLeave(p)
    /\ waiting' = waiting \ {p} /\ active' = active \ {p}
    /\ UNCHANGED <<main, rounds, applying, closed, stop, store, holds>>

\* The download runs under no connection's context; it may take for ever.
DownloadEnds(p) ==
    /\ p \in softwareIn
    /\ softwareIn' = softwareIn \ {p}
    /\ complete' \in {complete, complete \cup {p}}
    /\ UNCHANGED <<main, rounds, applying, jobs, stop, holds>>

-----------------------------------------------------------------------------
\* The connection is lost, the factory retires, a handler fails.
Lose ==
    /\ main = "run"
    /\ main' = "leave"
    /\ UNCHANGED <<rounds, applying, jobs, stop, store, holds>>

CancelRounds ==
    /\ main = "leave"
    /\ main' = "joinRounds" /\ stop' = [stop EXCEPT !.rounds = TRUE]
    /\ UNCHANGED <<rounds, applying, jobs, store, holds>>

CancelJobs ==
    /\ main = "joinRounds" /\ rounds = "gone"
    /\ main' = "joinJobs" /\ stop' = [stop EXCEPT !.jobs = TRUE]
    /\ closed' = TRUE
    /\ UNCHANGED <<rounds, applying, active, waiting, store, holds>>

Leave ==
    /\ main = "joinJobs" /\ active = {}
    /\ main' = "gone"
    /\ UNCHANGED <<rounds, applying, jobs, stop, store, holds>>

\* holdChannel dials again after its back-off.
Redial ==
    /\ main = "gone" /\ holds < MaxHolds
    /\ holds' = holds + 1
    /\ main' = "run" /\ rounds' = "idle" /\ stop' = Running
    /\ active' = {} /\ closed' = FALSE /\ waiting' = {}
    /\ UNCHANGED <<applying, store>>

Leaving == CancelRounds \/ CancelJobs \/ Leave
Background == BackgroundEnds \/ BackgroundStops
Job == LatestEnds \/ \E p \in Packs : Ensure(p) \/ JobLeaves(p)

HoldNext ==
    \/ SoftTick \/ HandleBegins \/ HandleEnds
    \/ BackgroundBegins \/ BackgroundApplies \/ Background
    \/ Job \/ \E p \in Packs : Announce(p) \/ LatestAsks(p) \/ DownloadEnds(p)
    \/ Lose \/ Leaving \/ Redial

(* A connection that is being left comes to its end, whatever was being    *)
(* applied, asked for or downloaded: nobody waits for somebody who waits   *)
(* for Hold, and no wait lasts as long as a download.                      *)
HoldEnds == main = "leave" ~> main = "gone"
=============================================================================
