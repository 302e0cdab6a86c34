------------------------------ MODULE WeldPush ------------------------------
(***************************************************************************)
(* Weld figures on their way from the pads to the factory and from the     *)
(* factory to the WAN (service/stats.go on both sides).  A pad keeps what  *)
(* it has not seen accepted and sends it again; the factory merges a fact  *)
(* by its identity; a loop of its own sends the whole summary whenever a   *)
(* one-place signal says it changed; the WAN replaces what it has.  The    *)
(* summary stands for the set of facts it adds up.                         *)
(***************************************************************************)
EXTENDS Naturals, FiniteSets

CONSTANTS Facts,        \* facts recorded on pads
          Flushers,     \* calls of pads that may run at once
          SignRetries,  \* wanPushSignRetries
          MaxTroubles   \* bound: lost connections, failed pushes, restarts

ASSUME WeldConstants == SignRetries \in Nat /\ MaxTroubles \in Nat

VARIABLES outbox,       \* facts a pad has not seen accepted
          facts,         \* weld_facts
          flush,        \* per call: what is left to merge, what was accepted
          weldDirty,    \* the signal
          push,         \* the loop
          joined,       \* the WAN address is known: the channel was dialled
          askew,        \* the factory's clock is off
          summary,      \* facts in the WAN's summary
          troubles

wvars == <<outbox, facts, flush, weldDirty, push, joined, askew, summary, troubles>>
padsAndFactory == <<outbox, facts, flush>>

NoFlush == [left |-> {}, ok |-> {}, on |-> FALSE]
NoPush == [pc |-> "wait", sum |-> {}, sign |-> SignRetries]

WeldInit ==
    /\ outbox = Facts /\ facts = {} /\ summary = {}
    /\ flush = [c \in Flushers |-> NoFlush]
    /\ weldDirty = FALSE /\ push = NoPush
    /\ joined = FALSE /\ askew \in BOOLEAN
    /\ troubles = 0

Trouble == troubles < MaxTroubles /\ troubles' = troubles + 1

-----------------------------------------------------------------------------
\* FlushWeldFacts: a batch, merged fact by fact; a pad that gave up waiting
\* sends the same facts in another call.
FlushBegins(c) ==
    /\ ~flush[c].on
    /\ \E batch \in SUBSET outbox \ {{}} :
        flush' = [flush EXCEPT ![c] = [left |-> batch, ok |-> {}, on |-> TRUE]]
    /\ UNCHANGED <<outbox, facts, weldDirty, push, joined, askew, summary, troubles>>

\* MergeWeldFact: a fact that is there already is accepted as it is.
MergeWeldFact(c) ==
    \E f \in flush[c].left :
        /\ facts' = facts \cup {f}
        /\ flush' = [flush EXCEPT ![c].left = @ \ {f}, ![c].ok = @ \cup {f}]
        /\ UNCHANGED <<outbox, weldDirty, push, joined, askew, summary, troubles>>

\* RequestWANPush: a signal that nobody took yet stands for this one too.
RequestWANPush == weldDirty' = TRUE

FlushEnds(c) ==
    /\ flush[c].on /\ flush[c].left = {}
    /\ IF flush[c].ok # {} THEN RequestWANPush ELSE UNCHANGED weldDirty
    /\ flush' = [flush EXCEPT ![c] = NoFlush]
    /\ outbox' = outbox \ flush[c].ok
    /\ UNCHANGED <<facts, push, joined, askew, summary, troubles>>

\* The pad never hears: the call ends, the facts stay in its outbox; the
\* factory may have stored and signalled them.
FlushCutOff(c) ==
    /\ flush[c].on /\ Trouble
    /\ flush' = [flush EXCEPT ![c] = NoFlush]
    /\ IF flush[c].ok # {} THEN RequestWANPush ELSE UNCHANGED weldDirty
    /\ UNCHANGED <<outbox, facts, push, joined, askew, summary>>

-----------------------------------------------------------------------------
\* RunWANPush waits for the signal and takes it.
PushWakes ==
    /\ push.pc = "wait" /\ weldDirty
    /\ weldDirty' = FALSE
    /\ push' = [NoPush EXCEPT !.pc = "read"]
    /\ UNCHANGED <<padsAndFactory, joined, askew, summary, troubles>>

\* PushWANSummaries reads all facts, then sends them.  No address, no push.
PushReads ==
    /\ push.pc = "read"
    /\ push' = IF joined THEN [push EXCEPT !.pc = "send", !.sum = facts] ELSE NoPush
    /\ UNCHANGED <<padsAndFactory, weldDirty, joined, askew, summary, troubles>>

\* ReplaceWeldSummaries: old out and new in, in one transaction.
PushLands ==
    /\ push.pc = "send" /\ ~askew
    /\ summary' = push.sum
    /\ push' = NoPush
    /\ UNCHANGED <<padsAndFactory, weldDirty, joined, askew, troubles>>

\* Unreachable, or the answer was lost: it is tried again later.
PushFails ==
    /\ push.pc = "send" /\ Trouble
    /\ summary' \in {summary, push.sum}
    /\ push' = [push EXCEPT !.pc = "pause"]
    /\ UNCHANGED <<padsAndFactory, weldDirty, joined, askew>>

\* The signature is refused: the answer sets the clock right, and there are
\* a few tries left; after them the loop waits for the next signal.
PushRefused ==
    /\ push.pc = "send" /\ askew
    /\ askew' = FALSE
    /\ push' = IF push.sign > 0 THEN [push EXCEPT !.pc = "pause", !.sign = @ - 1]
               ELSE [NoPush EXCEPT !.sign = 0]
    /\ UNCHANGED <<padsAndFactory, weldDirty, joined, summary, troubles>>

\* A plausible slip: the facts are sent as they were read for the first try.
SendAgain == [push EXCEPT !.pc = "send"]

Again == [push EXCEPT !.pc = "read"]

\* After the back-off the facts are read anew, so the signal may go.
PushRetries ==
    /\ push.pc = "pause"
    /\ weldDirty' = FALSE
    /\ push' = Again
    /\ UNCHANGED <<padsAndFactory, joined, askew, summary, troubles>>

-----------------------------------------------------------------------------
\* dialHold: every dial of the channel raises the signal first.
Dial ==
    /\ ~joined
    /\ joined' = TRUE /\ RequestWANPush
    /\ UNCHANGED <<padsAndFactory, push, askew, summary, troubles>>

\* The server restarts: the signal and the loop are lost with it, calls too.
ServerRestarts ==
    /\ Trouble
    /\ joined' = FALSE /\ weldDirty' = FALSE /\ push' = NoPush
    /\ flush' = [c \in Flushers |-> NoFlush]
    /\ UNCHANGED <<outbox, facts, askew, summary>>

ClockSlips ==
    /\ ~askew /\ Trouble
    /\ askew' = TRUE
    /\ UNCHANGED <<padsAndFactory, weldDirty, push, joined, summary>>

Flush == \E c \in Flushers : MergeWeldFact(c) \/ FlushEnds(c)
Push == PushWakes \/ PushReads \/ PushLands \/ PushRefused \/ PushRetries

WeldNext ==
    \/ Flush \/ Push \/ PushFails
    \/ \E c \in Flushers : FlushBegins(c) \/ FlushCutOff(c)
    \/ Dial \/ ServerRestarts \/ ClockSlips

\* Refused for its signature as often as it may be; the next signal, at the
\* latest the next dial, starts over.
GaveUp == push.pc = "wait" /\ push.sign = 0

(* Once the pads and the network are quiet, the WAN's figures are those of *)
(* the factory, though calls wrote while a push was reading or waiting to  *)
(* be tried again, and a restart lost the signal.                          *)
FiguresArrive == <>[](summary = facts \/ GaveUp)
=============================================================================
