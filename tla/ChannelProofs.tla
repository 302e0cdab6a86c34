---------------------------- MODULE ChannelProofs ----------------------------
(***************************************************************************)
(* The two halves of a factory's WAN channel, for every instance.          *)
(*                                                                         *)
(* Resync: NoneStranded is inductive as it stands.  MarksServed needs      *)
(* ArmedHasTimer and TimerIsArmed to know that stopping the timer in take  *)
(* strands nothing, and WantSignalled is kept apart because a page request *)
(* is served without any back-off.  NeverTooSoon needs that the wait keeps *)
(* pace with the failures while a round runs or is called for, too.        *)
(*                                                                         *)
(* Delivery: RoundMirrors speaks of a round that is over; DInv says what   *)
(* holds while it runs.  Whatever the factory is to have is there, or its  *)
(* command is still to do, or its body is in the hand of the round and is  *)
(* what the WAN has now.  That is kept because nothing under way can undo  *)
(* it: a retraction is only ever of a deleted asset, no replica is ahead   *)
(* of the WAN, and all replicas marked retracted are of deleted assets.    *)
(***************************************************************************)
EXTENDS Resync, Delivery, FiniteSetTheorems, TLAPS

-----------------------------------------------------------------------------
(* The dirty set and the goroutine that serves it                          *)

\* The back-off never leaves its cap.
LEMMA CappedBounds == ASSUME NEW n \in Nat PROVE Capped(n) \in 0..Cap
  BY ResyncConstants DEF Capped

\* The empty set of a new connection satisfies the invariant.
LEMMA InitNoneStranded == Init => NoneStranded
<1> SUFFICES ASSUME Init PROVE NoneStranded
  OBVIOUS
<1>1. TypeOK
  <2>1. armed \in BOOLEAN /\ wake \in BOOLEAN
    BY DEF Init
  <2>2. fails \in 0..MaxFails /\ wait \in 0..Cap
    BY ResyncConstants DEF Init
  <2> QED
    BY <2>1, <2>2 DEF Init, TypeOK
<1>2. ~armed /\ timer = "off" /\ marks = {} /\ want = {} /\ fresh = {} /\ todo = {}
  BY DEF Init
<1> QED
  BY <1>1, <1>2 DEF NoneStranded, ArmedHasTimer, TimerIsArmed, RoundHoldsTimer,
     MarksServed, WantSignalled, FreshIsMarked

\* Every step of the callback, the main loop, the timer and the goroutine keeps it.
LEMMA NextNoneStranded == NoneStranded /\ [Next]_vars => NoneStranded'
<1> SUFFICES ASSUME NoneStranded, [Next]_vars PROVE NoneStranded'
  OBVIOUS
<1> USE ResyncConstants DEF NoneStranded, TypeOK, ArmedHasTimer, TimerIsArmed,
     RoundHoldsTimer, MarksServed, WantSignalled, FreshIsMarked, running, Marks
<1>1. ASSUME NEW m \in Marks, Mark(m) PROVE NoneStranded'
  <2>1. CASE armed \/ running
    BY <1>1, <2>1 DEF Mark, Arm
  <2>2. CASE ~(armed \/ running)
    BY <1>1, <2>2 DEF Mark, Arm
  <2> QED
    BY <2>1, <2>2
<1>2. ASSUME NEW ks \in {{k} : k \in Kinds} \cup {Kinds}, Request(ks)
      PROVE NoneStranded'
  <2>1. ks \subseteq Kinds
    BY <1>2
  <2>2. wake' \in BOOLEAN /\ fails' \in 0..MaxFails /\ wait' \in 0..Cap
    <3>1. wake' \in BOOLEAN
      BY <1>2 DEF Request
    <3>2. fails' = fails \/ fails' = 0
      BY <1>2 DEF Request
    <3>3. wait' = wait \/ wait' = Base
      BY <1>2 DEF Request
    <3> QED
      BY <3>1, <3>2, <3>3
  <2>3. CASE want' = {}
    BY <1>2, <2>1, <2>2, <2>3 DEF Request
  <2>4. CASE want' # {}
    BY <1>2, <2>1, <2>2, <2>4 DEF Request
  <2> QED
    BY <2>3, <2>4
<1>3. ASSUME NEW k \in Kinds, DebounceOver(k) PROVE NoneStranded'
  BY <1>3 DEF DebounceOver
<1>4. CASE Tick
  BY <1>4 DEF Tick
<1>5. CASE Start
  BY <1>5 DEF Start
<1>6. CASE WakeByTimer
  BY <1>6 DEF WakeByTimer
<1>7. CASE WakeByRequest
  BY <1>7 DEF WakeByRequest
<1>8. CASE Take
  BY <1>8 DEF Take
<1>9. CASE Pull
  <2>1. CASE PullFatal
    BY <2>1 DEF PullFatal
  <2>2. ASSUME NEW m \in Marks, PullDone(m) PROVE NoneStranded'
    BY <2>2 DEF PullDone
  <2>3. ASSUME NEW m \in Marks, PullFails(m) PROVE NoneStranded'
    BY <2>3 DEF PullFails, Arm
  <2> QED
    BY <1>9, <2>1, <2>2, <2>3 DEF Pull
<1>10. CASE Finish
  <2>1. Capped(2 * wait) \in 0..Cap
    BY CappedBounds
  <2>2. CASE marks = {}
    BY <1>10, <2>2 DEF Finish
  <2>3. CASE marks # {} /\ fails' = MaxFails
    BY <1>10, <2>3 DEF Finish
  <2>4. CASE marks # {} /\ fails' # MaxFails
    <3>1. fails' \in 0..MaxFails
      BY <1>10, <2>4 DEF Finish
    <3>2. armed' = TRUE /\ timer' = "set" /\ wait' \in 0..Cap
      BY <1>10, <2>1, <2>4 DEF Finish
    <3> QED
      BY <1>10, <2>4, <3>1, <3>2 DEF Finish
  <2> QED
    BY <2>2, <2>3, <2>4
<1>11. CASE Leave
  BY <1>11 DEF Leave
<1>12. CASE Reconnect
  <2>1. armed' \in BOOLEAN /\ wake' \in BOOLEAN
    BY <1>12 DEF Reconnect
  <2>2. fails' \in 0..MaxFails /\ wait' \in 0..Cap
    BY <1>12 DEF Reconnect
  <2> QED
    BY <1>12, <2>1, <2>2 DEF Reconnect
<1>13. CASE UNCHANGED vars
  BY <1>13 DEF vars
<1> QED
  BY <1>1, <1>2, <1>3, <1>4, <1>5, <1>6, <1>7, <1>8, <1>9, <1>10, <1>11,
     <1>12, <1>13 DEF Next

\* No mark and no page request is ever stranded by the races of hold.go's dirty
\* set, whatever the kinds, the give-up limit and the back-off are.
THEOREM NothingStranded == Spec => []NoneStranded
<1>1. Init => NoneStranded
  BY InitNoneStranded
<1>2. NoneStranded /\ [Next]_vars => NoneStranded'
  BY NextNoneStranded
<1> QED
  BY <1>1, <1>2, PTL DEF Spec

-----------------------------------------------------------------------------
(* The back-off is a recursive function: what it computes is shown by the  *)
(* least natural number that would be a counterexample.                    *)

\* A non-empty set of natural numbers has a least element.
LEMMA LeastExists ==
    ASSUME NEW S \in SUBSET Nat, S # {}
    PROVE  \E n \in S : \A m \in S : n <= m
<1>1. PICK k \in S : TRUE
  OBVIOUS
<1> DEFINE U == 0..k
           Below(v) == 0..v
           T == {Below(v) : v \in S \cap U}
<1>2. IsFiniteSet(U)
  BY <1>1, FS_Interval
<1>3. T \subseteq FiniteSubsetsOf(U) /\ T # {}
  <2>1. FiniteSubsetsOf(U) = SUBSET U
    BY <1>2, FS_FiniteSubsetsOfFinite
  <2>2. \A v \in S \cap U : Below(v) \subseteq U
    OBVIOUS
  <2>3. k \in S \cap U
    BY <1>1
  <2> QED
    BY <2>1, <2>2, <2>3
<1>4. IsWellFoundedOn(StrictSubsetOrdering(U), FiniteSubsetsOf(U))
  BY <1>2, FS_StrictSubsetOrderingWellFounded
<1>5. \E x \in T : \A y \in T : ~(<<y, x>> \in StrictSubsetOrdering(U))
  <2> HIDE DEF T, U
  <2> QED
    BY <1>3, <1>4, WFMin
<1>6. PICK n \in S \cap U : \A y \in T : <<y, Below(n)>> \notin StrictSubsetOrdering(U)
  BY <1>5
<1>7. ASSUME NEW m \in S, m < n PROVE FALSE
  <2>1. m \in S \cap U /\ n \in Nat /\ m \in Nat
    BY <1>1, <1>7
  <2>2. Below(m) \subseteq Below(n) /\ Below(m) # Below(n) /\ Below(n) \subseteq U
    <3>1. n \in Below(n) /\ n \notin Below(m)
      BY <1>7, <2>1
    <3> QED
      BY <1>7, <2>1, <3>1
  <2>3. <<Below(m), Below(n)>> \in StrictSubsetOrdering(U)
    BY <2>2 DEF StrictSubsetOrdering
  <2> QED
    BY <1>6, <2>1, <2>3
<1> QED
  BY <1>7

\* g is the back-off of up to n failures.
BackoffUpTo(g, n) ==
    g = [i \in 0..n |-> IF i = 0 THEN Base ELSE Capped(2 * g[i - 1])]

\* ... which its values are determined by.
LEMMA BackoffUnique ==
    ASSUME NEW g, NEW h, NEW m \in Nat, NEW n \in Nat,
           BackoffUpTo(g, m), BackoffUpTo(h, n)
    PROVE  \A i \in 0..m : i <= n => g[i] = h[i]
<1> DEFINE S == {i \in 0..m : i <= n /\ g[i] # h[i]}
<1> SUFFICES ASSUME S # {} PROVE FALSE
  OBVIOUS
<1>1. S \in SUBSET Nat
  OBVIOUS
<1>2. PICK i \in S : \A j \in S : i <= j
  <2> HIDE DEF S
  <2> QED
    BY <1>1, LeastExists
<1>3. g[i] = (IF i = 0 THEN Base ELSE Capped(2 * g[i - 1]))
  BY DEF BackoffUpTo
<1>4. h[i] = (IF i = 0 THEN Base ELSE Capped(2 * h[i - 1]))
  BY DEF BackoffUpTo
<1>5. i # 0 => i - 1 \in 0..m /\ i - 1 <= n /\ ~(i <= i - 1)
  OBVIOUS
<1>6. i # 0 => g[i - 1] = h[i - 1]
  BY <1>2, <1>5
<1> QED
  BY <1>3, <1>4, <1>6

\* ... and which exists for every number of failures.
LEMMA BackoffReaches == ASSUME NEW n \in Nat PROVE \E g : BackoffUpTo(g, n)
<1> DEFINE S == {i \in Nat : ~\E g : BackoffUpTo(g, i)}
<1> SUFFICES ASSUME S # {} PROVE FALSE
  OBVIOUS
<1>1. PICK i \in S : \A j \in S : i <= j
  <2>1. S \in SUBSET Nat
    OBVIOUS
  <2> HIDE DEF S
  <2> QED
    BY <2>1, LeastExists
<1>2. CASE i = 0
  <2>1. BackoffUpTo([j \in 0..0 |-> Base], 0)
    BY DEF BackoffUpTo
  <2> QED
    BY <1>2, <2>1
<1>3. CASE i # 0
  <2>1. PICK g : BackoffUpTo(g, i - 1)
    <3>1. i - 1 \in Nat /\ ~(i <= i - 1)
      BY <1>3
    <3> QED
      BY <1>1, <3>1
  <2> DEFINE h == [j \in 0..i |-> IF j = i THEN Capped(2 * g[i - 1]) ELSE g[j]]
  <2>2. ASSUME NEW j \in 0..i
        PROVE  h[j] = (IF j = 0 THEN Base ELSE Capped(2 * h[j - 1]))
    <3>1. CASE j = i
      <4>1. i - 1 \in 0..i /\ i - 1 # i
        BY <1>3
      <4> QED
        BY <1>3, <3>1, <4>1
    <3>2. CASE j # i
      <4>1. j \in 0..i - 1 /\ (j # 0 => j - 1 \in 0..i /\ j - 1 # i)
        BY <3>2
      <4>2. g[j] = (IF j = 0 THEN Base ELSE Capped(2 * g[j - 1]))
        BY <2>1, <4>1 DEF BackoffUpTo
      <4> QED
        BY <3>2, <4>1, <4>2
    <3> QED
      BY <3>1, <3>2
  <2>3. BackoffUpTo(h, i)
    <3>1. h = [j \in 0..i |-> h[j]]
      OBVIOUS
    <3> HIDE DEF h
    <3> QED
      BY <2>2, <3>1 DEF BackoffUpTo
  <2> QED
    BY <2>3
<1> QED
  BY <1>2, <1>3

\* Backoff is the function its equation describes.
LEMMA BackoffUnfolds ==
    Backoff = [n \in Nat |-> IF n = 0 THEN Base ELSE Capped(2 * Backoff[n - 1])]
<1> DEFINE G(n) == CHOOSE g : BackoffUpTo(g, n)
           F == [n \in Nat |-> G(n)[n]]
<1>1. ASSUME NEW n \in Nat PROVE BackoffUpTo(G(n), n)
  BY BackoffReaches
<1>2. ASSUME NEW n \in Nat
      PROVE  F[n] = (IF n = 0 THEN Base ELSE Capped(2 * F[n - 1]))
  <2>1. G(n)[n] = (IF n = 0 THEN Base ELSE Capped(2 * G(n)[n - 1]))
    <3>1. BackoffUpTo(G(n), n) /\ n \in 0..n
      BY <1>1
    <3> HIDE DEF G
    <3> QED
      BY <3>1 DEF BackoffUpTo
  <2>2. n # 0 => G(n)[n - 1] = G(n - 1)[n - 1]
    <3> SUFFICES ASSUME n # 0 PROVE G(n)[n - 1] = G(n - 1)[n - 1]
      OBVIOUS
    <3>1. n - 1 \in Nat /\ n - 1 \in 0..n /\ n - 1 <= n - 1
      OBVIOUS
    <3>2. BackoffUpTo(G(n), n) /\ BackoffUpTo(G(n - 1), n - 1)
      BY <1>1, <3>1
    <3> HIDE DEF G
    <3> QED
      BY <3>1, <3>2, BackoffUnique
  <2> HIDE DEF G
  <2> QED
    BY <2>1, <2>2
<1>3. F = [n \in Nat |-> IF n = 0 THEN Base ELSE Capped(2 * F[n - 1])]
  <2>1. F = [n \in Nat |-> F[n]]
    OBVIOUS
  <2> HIDE DEF F
  <2> QED
    BY <1>2, <2>1
<1> HIDE DEF F
<1> QED
  BY <1>3, Zenon DEF Backoff

\* The first back-off, and the next one.
LEMMA BackoffSteps ==
    /\ Backoff[0] = Base
    /\ \A n \in Nat : Backoff[n + 1] = Capped(2 * Backoff[n])
<1>1. \A n \in Nat : Backoff[n] = IF n = 0 THEN Base ELSE Capped(2 * Backoff[n - 1])
  BY BackoffUnfolds
<1>2. ASSUME NEW n \in Nat PROVE Backoff[n + 1] = Capped(2 * Backoff[n])
  <2>1. n + 1 \in Nat /\ n + 1 # 0 /\ (n + 1) - 1 = n
    OBVIOUS
  <2> QED
    BY <1>1, <2>1
<1> QED
  BY <1>1, <1>2

\* No back-off is above the cap.
LEMMA BackoffBounded == ASSUME NEW n \in Nat PROVE Backoff[n] \in 0..Cap
<1> DEFINE S == {i \in Nat : Backoff[i] \notin 0..Cap}
<1> SUFFICES ASSUME S # {} PROVE FALSE
  OBVIOUS
<1>1. PICK i \in S : \A j \in S : i <= j
  <2>1. S \in SUBSET Nat
    OBVIOUS
  <2> HIDE DEF S
  <2> QED
    BY <2>1, LeastExists
<1>2. i # 0
  BY BackoffSteps, ResyncConstants
<1>3. i - 1 \in Nat /\ ~(i <= i - 1) /\ (i - 1) + 1 = i
  BY <1>2
<1>4. Backoff[i - 1] \in 0..Cap
  BY <1>1, <1>3
<1>5. 2 * Backoff[i - 1] \in Nat
  BY <1>4, ResyncConstants
<1> QED
  BY <1>3, <1>5, BackoffSteps, CappedBounds

\* What waits for a round, or runs one, has at least the wait its failures call for; the
\* last failure gives up and is not waited for.
Pace ==
    /\ armed => fails # MaxFails
    /\ armed \/ wake \/ pc = "woken" \/ running =>
          wait >= Base /\ (fails # MaxFails => wait >= Backoff[fails])

\* Doubling and capping do not change the order.
LEMMA DoublingKeepsOrder ==
    ASSUME NEW m \in Nat, NEW n \in Nat, m >= n
    PROVE  Capped(2 * m) >= Capped(2 * n)
  BY ResyncConstants DEF Capped

\* Every step keeps the pace: only finish raises the failures, and it doubles the wait.
LEMMA PaceStep == NoneStranded /\ Pace /\ [Next]_vars => Pace'
<1> SUFFICES ASSUME NoneStranded, Pace, [Next]_vars PROVE Pace'
  OBVIOUS
<1>0. /\ Backoff[0] = Base
      /\ \A n \in Nat : Backoff[n] \in 0..Cap /\ Backoff[n + 1] = Capped(2 * Backoff[n])
  BY BackoffSteps, BackoffBounded
<1>1. TypeOK /\ TimerIsArmed /\ RoundHoldsTimer
  BY DEF NoneStranded
<1>2. /\ Base \in Nat \ {0} /\ MaxFails \in Nat \ {0} /\ 0 \in Nat /\ 0 # MaxFails
      /\ Base >= Base
  BY ResyncConstants
<1> USE <1>0, <1>1, <1>2 DEF Pace, TypeOK, running, TimerIsArmed, RoundHoldsTimer
<1>3. ASSUME NEW m \in Marks, Mark(m) PROVE Pace'
  BY <1>3 DEF Mark, Arm
<1>4. ASSUME NEW ks, Request(ks) PROVE Pace'
  <2>1. CASE want' = {}
    BY <1>4, <2>1 DEF Request
  <2>2. CASE want' # {} /\ (armed \/ running)
    BY <1>4, <2>2 DEF Request
  <2>3. CASE want' # {} /\ ~(armed \/ running)
    BY <1>4, <2>3 DEF Request
  <2> QED
    BY <2>1, <2>2, <2>3
<1>5. ASSUME NEW k \in Kinds, DebounceOver(k) PROVE Pace'
  BY <1>5 DEF DebounceOver
<1>6. CASE Tick \/ Start \/ WakeByTimer \/ WakeByRequest
  BY <1>6 DEF Tick, Start, WakeByTimer, WakeByRequest
<1>7. CASE Take
  BY <1>7 DEF Take
<1>8. CASE Pull
  BY <1>8 DEF Pull, PullFatal, PullDone, PullFails, Arm
<1>9. CASE Finish
  <2>1. CASE marks = {}
    BY <1>9, <2>1 DEF Finish
  <2>2. CASE marks # {} /\ fails' = MaxFails
    BY <1>9, <2>2 DEF Finish
  <2>3. CASE marks # {} /\ fails' # MaxFails
    <3>1. /\ fails \in Nat /\ fails < MaxFails /\ fails' = fails + 1
          /\ wait \in Nat /\ wait' = Capped(2 * wait)
      BY <1>9, <2>3 DEF Finish
    <3>2. wait >= Base /\ wait >= Backoff[fails] /\ Backoff[fails] \in Nat
      BY <1>9, <3>1 DEF Finish
    <3>3. wait' >= Backoff[fails']
      BY <3>1, <3>2, DoublingKeepsOrder
    <3>4. wait' >= Base
      BY <3>1, <3>2, ResyncConstants DEF Capped
    <3> QED
      BY <2>3, <3>3, <3>4
  <2> QED
    BY <2>1, <2>2, <2>3
<1>10. CASE Leave \/ Reconnect
  BY <1>10 DEF Leave, Reconnect
<1>11. CASE UNCHANGED vars
  BY <1>11 DEF vars
<1> QED
  BY <1>3, <1>4, <1>5, <1>6, <1>7, <1>8, <1>9, <1>10, <1>11 DEF Next

\* The platform is never pulled by the timer sooner than the failures so far call for,
\* whatever pages ask, what is lost meanwhile, and the constants of the back-off
\* (finish and armLocked of hold.go's dirty set).
THEOREM PlatformSpared == Spec => []NeverTooSoon
<1>1. Init => NoneStranded /\ Pace
  BY InitNoneStranded DEF Init, Pace, running
<1>2. (NoneStranded /\ Pace) /\ [Next]_vars => (NoneStranded /\ Pace)'
  BY NextNoneStranded, PaceStep
<1>3. NoneStranded /\ Pace => NeverTooSoon
  BY DEF Pace, NeverTooSoon
<1> QED
  BY <1>1, <1>2, <1>3, PTL DEF Spec

-----------------------------------------------------------------------------
(* Delivery of assets and templates: the types of what is under way        *)

Statuses == {"available", "disabled", "deleted"}
Pins == SUBSET (Processes \X Nat)
Replica == [id : Assets, rev : Nat, status : Statuses, deps : Pins]
TemplateReplica == [id : Templates, rev : Nat, text : Nat]
Remaining == [typ : {"remaining"}]

Deleted == {a \in Assets : wan[a].status = "deleted"}

\* A replica may be old, and is never ahead of the WAN.
Seen == {r \in Replica : r.rev <= wan[r.id].rev}

ClosureCmds == [typ : {"closure"}, id : Assets, rev : Nat]
TemplateCmds == [typ : {"template"}, id : Templates, rev : Nat]
SetCmds == [typ : {"set"}, keep : SUBSET ProjectTemplates]
RetractCmds == [typ : {"retract"}, id : Deleted]
Cmds == ClosureCmds \cup TemplateCmds \cup SetCmds \cup RetractCmds

ClosureHands == [typ : {"closure"}, cmd : ClosureCmds, body : Seq(Seen)]
TemplateHands == [typ : {"template"}, cmd : TemplateCmds,
                  body : {b \in Seq(TemplateReplica) : Len(b) = 1}]
SetHands == [typ : {"set"}, cmd : SetCmds, body : {<<>>}]
RetractHands == [typ : {"retract"}, cmd : RetractCmds, body : {<<>>}]
Hands == {Nothing} \cup ClosureHands \cup TemplateHands \cup SetHands \cup RetractHands

WanType ==
    /\ wan \in [Assets -> [rev : Nat, status : Statuses, deps : Pins]]
    /\ tpl \in [Templates -> [rev : Nat, text : Nat]]
    /\ \A t \in ProcessTemplates : tpl[t].rev > 0
    /\ changes \in Nat

\* Nothing under way retracts what the WAN still has.
WayType ==
    /\ owed \subseteq Seq(Cmds \cup Remaining) \ {<<>>}
    /\ queue \in Seq(Cmds)
    /\ hand \in Hands
    /\ round \in [at : {"idle", "full", "process", "project", "apply"},
                  todo : Seq(Cmds), hand : Hands]

DueType == due \subseteq {"full", "process", "project"}

FactoryType ==
    /\ rows \subseteq Seen /\ retracted \subseteq {r \in rows : r.id \in Deleted}
    /\ tplRows \subseteq TemplateReplica /\ IsFiniteSet(tplRows)
    /\ retired \subseteq tplRows

DType == WanType /\ WayType /\ FactoryType

RetractCmd(a) == [typ |-> "retract", id |-> a]
Listed(s, x) == \E i \in 1..Len(s) : s[i] = x
Pending(cmd) == Listed(round.todo, cmd)
InHand(typ, id) == round.hand.typ = typ /\ round.hand.cmd.id = id

Quiet ==
    /\ owed = {} /\ queue = <<>> /\ hand = Nothing /\ due = {}
    /\ round.at \in {"idle", "full", "apply"}
    /\ round.at # "apply" => round.hand = Nothing
    /\ round.at = "idle" => round.todo = <<>>

\* What the round holds, or has still to do, is what the WAN has now.
HandFresh ==
    /\ round.hand.typ = "closure" =>
          Deliverable(round.hand.cmd.id) /\ round.hand.body = Closure(round.hand.cmd.id)
    /\ round.hand.typ = "template" =>
          round.hand.cmd.id \in Live /\ round.hand.body = TemplateBody(round.hand.cmd.id)
    /\ round.hand.typ = "set" => round.hand.cmd = TemplateSetCmd
    /\ \A i \in 1..Len(round.todo) :
          round.todo[i].typ = "set" => round.todo[i] = TemplateSetCmd

Present(a) == \E r \in rows : r.id = a /\ r.rev = wan[a].rev /\ DepsHere(r)
AssetsCovered == \A a \in Assets : Deliverable(a) =>
    Present(a) \/ Pending(ClosureCmd(a)) \/ InHand("closure", a)

RetractionsCovered == \A a \in Deleted :
    Shown(a) = {} \/ Pending(RetractCmd(a)) \/ InHand("retract", a)

TemplateHere(t) == \E r \in tplRows : r.id = t /\ r.rev = tpl[t].rev
TemplatesCovered == \A t \in Live :
    TemplateHere(t) \/ Pending(TemplateCmd(t)) \/ InHand("template", t)

RetiredExactly == \A r \in tplRows : r \in retired <=> r.id \in ProjectTemplates \ Live
SetCovered == RetiredExactly \/ Pending(TemplateSetCmd) \/ round.hand.typ = "set"

Covered ==
    /\ AssetsCovered
    /\ round.at # "full" => RetractionsCovered /\ TemplatesCovered /\ SetCovered

CleanInv == Quiet /\ HandFresh /\ Covered

DInv == DType /\ DueType /\ (clean => CleanInv)

-----------------------------------------------------------------------------
(* Sequences                                                               *)

\* SetToSeq lists a finite set: all of it, and nothing else.
LEMMA SetToSeqLists ==
    ASSUME NEW S, IsFiniteSet(S)
    PROVE  SetToSeq(S) \in Seq(S) /\ \A x \in S : Listed(SetToSeq(S), x)
<1> DEFINE n == Cardinality(S)
           f == SetToSeq(S)
<1>1. n \in Nat /\ ExistsBijection(1..n, S)
  BY FS_CardinalityType
<1>2. \E g \in [1..n -> S] : IsInjective(g)
  BY <1>1 DEF ExistsBijection, Bijection, Injection
<1>3. f \in [1..n -> S] /\ IsInjective(f)
  BY <1>2 DEF SetToSeq
<1> HIDE DEF f
<1>4. f \in Injection(1..n, S)
  BY <1>3 DEF Injection
<1>5. IsFiniteSet(1..n) /\ Cardinality(1..n) = n
  BY <1>1, FS_Interval
<1>6. f \in Surjection(1..n, S)
  BY <1>4, <1>5, FS_Injection
<1>7. \A x \in S : \E i \in 1..n : f[i] = x
  BY <1>6 DEF Surjection
<1>8. f \in Seq(S) /\ Len(f) = n
  BY <1>1, <1>3
<1> QED
  BY <1>7, <1>8 DEF f, Listed

\* Taking the head leaves every other command to do, and adds none.
LEMMA TailKeeps ==
    ASSUME NEW S, NEW s \in Seq(S), s # <<>>
    PROVE  /\ Head(s) \in S /\ Tail(s) \in Seq(S)
           /\ \A x : Listed(s, x) => x = Head(s) \/ Listed(Tail(s), x)
           /\ \A i \in 1..Len(Tail(s)) : i + 1 \in 1..Len(s) /\ Tail(s)[i] = s[i + 1]
<1>1. ASSUME NEW x, NEW i \in 1..Len(s), s[i] = x PROVE x = Head(s) \/ Listed(Tail(s), x)
  <2>1. CASE i = 1
    BY <1>1, <2>1
  <2>2. CASE i # 1
    <3>1. i - 1 \in 1..Len(Tail(s)) /\ Tail(s)[i - 1] = x
      BY <1>1, <2>2
    <3> QED
      BY <3>1 DEF Listed
  <2> QED
    BY <2>1, <2>2
<1> QED
  BY <1>1 DEF Listed

\* What is in one of two sequences is in the two put together.
LEMMA ConcatKeeps ==
    ASSUME NEW S, NEW s \in Seq(S), NEW u \in Seq(S)
    PROVE  /\ s \o u \in Seq(S)
           /\ \A x : Listed(s, x) \/ Listed(u, x) => Listed(s \o u, x)
           /\ \A i \in 1..Len(s \o u) :
                 \/ i \in 1..Len(s) /\ (s \o u)[i] = s[i]
                 \/ i - Len(s) \in 1..Len(u) /\ (s \o u)[i] = u[i - Len(s)]
<1>1. ASSUME NEW x, NEW i \in 1..Len(s), s[i] = x PROVE Listed(s \o u, x)
  <2>1. i \in 1..Len(s \o u) /\ (s \o u)[i] = x
    BY <1>1
  <2> QED
    BY <2>1 DEF Listed
<1>2. ASSUME NEW x, NEW i \in 1..Len(u), u[i] = x PROVE Listed(s \o u, x)
  <2>1. Len(s) + i \in 1..Len(s \o u) /\ (s \o u)[Len(s) + i] = x
    BY <1>2
  <2> QED
    BY <2>1 DEF Listed
<1> QED
  BY <1>1, <1>2 DEF Listed

\* The image of a finite set under a function is finite.
LEMMA ImageFinite ==
    ASSUME NEW S, IsFiniteSet(S), NEW g, DOMAIN g = S, g = [x \in S |-> g[x]]
    PROVE  IsFiniteSet({g[x] : x \in S})
<1>1. g \in Surjection(S, {g[x] : x \in S})
  BY DEF Surjection
<1> QED
  BY <1>1, FS_Surjection

\* A finite set of templates has one of the highest revision.
LEMMA HighestExists ==
    ASSUME NEW S \in SUBSET TemplateReplica, IsFiniteSet(S), S # {}
    PROVE  \E r \in S : \A s \in S : s.rev <= r.rev
<1> DEFINE Above(v) == {w \in S : w.rev > v.rev}
           T == {Above(v) : v \in S}
<1>0. \A v \in S : v.rev \in Nat
  BY DEF TemplateReplica
<1>1. T \subseteq FiniteSubsetsOf(S)
  <2>1. FiniteSubsetsOf(S) = SUBSET S
    BY FS_FiniteSubsetsOfFinite
  <2> QED
    BY <2>1
<1>2. IsWellFoundedOn(StrictSubsetOrdering(S), FiniteSubsetsOf(S))
  BY FS_StrictSubsetOrderingWellFounded
<1>3. T # {}
  OBVIOUS
<1>4. \E x \in T : \A y \in T : ~(<<y, x>> \in StrictSubsetOrdering(S))
  <2> HIDE DEF T
  <2> QED
    BY <1>1, <1>2, <1>3, WFMin
<1>5. PICK v \in S : \A y \in T : <<y, Above(v)>> \notin StrictSubsetOrdering(S)
  BY <1>4
<1>6. ASSUME NEW u \in S, u.rev > v.rev PROVE FALSE
  <2>1. Above(u) \subseteq Above(v) /\ Above(u) # Above(v)
    <3>1. u \in Above(v) /\ u \notin Above(u)
      BY <1>0, <1>6
    <3>2. \A w \in S : w.rev > u.rev => w.rev > v.rev
      BY <1>0, <1>6
    <3> QED
      BY <3>1, <3>2
  <2>2. <<Above(u), Above(v)>> \in StrictSubsetOrdering(S)
    BY <2>1 DEF StrictSubsetOrdering
  <2> QED
    BY <1>5, <2>2
<1>7. \A w \in S : w.rev <= v.rev
  BY <1>0, <1>6
<1> QED
  BY <1>7

-----------------------------------------------------------------------------
(* Types                                                                   *)

\* Commands and bodies stay what they are while revisions only go up and
\* nothing deleted comes back.
LEMMA GrowsOnly ==
    ASSUME WanType, WanType', Deleted \subseteq Deleted',
           \A a \in Assets : wan[a].rev <= wan'[a].rev
    PROVE  Seen \subseteq Seen' /\ Cmds \subseteq Cmds' /\ Hands \subseteq Hands'
<1>1. Seen \subseteq Seen'
  <2> SUFFICES ASSUME NEW r \in Seen PROVE r \in Seen'
    OBVIOUS
  <2>1. r \in Replica /\ r.id \in Assets /\ r.rev \in Nat /\ r.rev <= wan[r.id].rev
    BY DEF Seen, Replica
  <2>2. wan[r.id].rev \in Nat /\ wan'[r.id].rev \in Nat
    BY <2>1 DEF WanType
  <2>3. r.rev <= wan'[r.id].rev
    BY <2>1, <2>2
  <2> QED
    BY <2>1, <2>3 DEF Seen
<1>2. RetractCmds \subseteq RetractCmds'
  BY DEF RetractCmds
<1>3. Cmds \subseteq Cmds'
  BY <1>2 DEF Cmds, ClosureCmds, TemplateCmds, SetCmds
<1>4. ClosureHands \subseteq ClosureHands'
  <2>1. Seq(Seen) \subseteq Seq(Seen')
    BY <1>1
  <2> QED
    BY <2>1 DEF ClosureHands, ClosureCmds
<1>5. RetractHands \subseteq RetractHands'
  BY <1>2 DEF RetractHands
<1>6. Hands \subseteq Hands'
  BY <1>4, <1>5 DEF Hands, TemplateHands, TemplateCmds, SetHands, SetCmds
<1> QED
  BY <1>1, <1>3, <1>6

\* With them, everything under way and at the factory keeps its type.
LEMMA GrowsKeep ==
    ASSUME Seen \subseteq Seen', Cmds \subseteq Cmds', Hands \subseteq Hands',
           Deleted \subseteq Deleted'
    PROVE  /\ \A s \in Seq(Cmds) : s \in Seq(Cmds')
           /\ \A s \in Seq(Cmds \cup Remaining) : s \in Seq(Cmds' \cup Remaining)
           /\ UNCHANGED <<queue, hand, round>> /\ WayType /\ owed' = owed => WayType'
           /\ UNCHANGED factory /\ FactoryType => FactoryType'
<1>1. \A s \in Seq(Cmds) : s \in Seq(Cmds')
  OBVIOUS
<1>2. \A s \in Seq(Cmds \cup Remaining) : s \in Seq(Cmds' \cup Remaining)
  <2>1. Cmds \cup Remaining \subseteq Cmds' \cup Remaining
    OBVIOUS
  <2> HIDE DEF Remaining
  <2> QED
    BY <2>1
<1>3. UNCHANGED <<queue, hand, round>> /\ WayType /\ owed' = owed => WayType'
  BY <1>1, <1>2 DEF WayType, Remaining
<1>4. UNCHANGED factory /\ FactoryType => FactoryType'
  BY DEF FactoryType, factory, TemplateReplica
<1> QED
  BY <1>1, <1>2, <1>3, <1>4

\* The WAN's own row is one a factory may have seen.
LEMMA ReplicaSeen == ASSUME WanType, NEW a \in Assets PROVE ReplicaOf(a) \in Seen
BY DEF WanType, ReplicaOf, Seen, Replica

\* The closure is sealed from rows of the WAN, the root and all it pins.
LEMMA ClosureLists ==
    ASSUME WanType, NEW a \in Assets
    PROVE  /\ Closure(a) \in Seq(Seen)
           /\ ReplicaOf(a) \in Members(Closure(a), Len(Closure(a)))
           /\ \A d \in wan[a].deps : ReplicaOf(d[1]) \in Members(Closure(a), Len(Closure(a)))
           /\ \A r \in Members(Closure(a), Len(Closure(a))) :
                  r = ReplicaOf(a) \/ \E d \in wan[a].deps : r = ReplicaOf(d[1])
<1> DEFINE pinned == {ReplicaOf(d[1]) : d \in wan[a].deps}
           s == SetToSeq(pinned)
<1>1. wan[a].deps \subseteq Processes \X Nat
  BY DEF WanType, Pins
<1>2. \A d \in wan[a].deps : d[1] \in Processes /\ d[1] \in Assets
  BY <1>1 DEF Assets
<1>3. IsFiniteSet(pinned)
  <2>1. IsFiniteSet({ReplicaOf(p) : p \in Processes})
    <3> DEFINE g == [p \in Processes |-> ReplicaOf(p)]
    <3>1. IsFiniteSet(Processes)
      BY FiniteTables, FS_Subset
    <3>2. IsFiniteSet({g[p] : p \in Processes})
      BY <3>1, ImageFinite
    <3> QED
      BY <3>2
  <2>2. pinned \in SUBSET {ReplicaOf(p) : p \in Processes}
    BY <1>2
  <2> QED
    BY <2>1, <2>2, FS_Subset
<1>4. pinned \subseteq Seen
  BY <1>2, ReplicaSeen
<1>5. s \in Seq(pinned) /\ \A x \in pinned : Listed(s, x)
  BY <1>3, SetToSeqLists
<1>6. ReplicaOf(a) \in Seen
  BY ReplicaSeen
<1>7. Closure(a) = <<ReplicaOf(a)>> \o s
  BY DEF Closure
<1> DEFINE c == <<ReplicaOf(a)>> \o s
<1>8. s \in Seq(Seen)
  <2> HIDE DEF pinned, s
  <2> QED
    BY <1>4, <1>5
<1>9. \A x \in pinned : Listed(c, x)
  <2> DEFINE root == <<ReplicaOf(a)>>
  <2>1. root \in Seq(Seen) /\ c = root \o s
    BY <1>6
  <2> HIDE DEF s, root, c, pinned
  <2> QED
    BY <1>5, <1>8, <2>1, ConcatKeeps
<1>10. \A i \in 1..Len(c) : c[i] = ReplicaOf(a) \/ c[i] \in pinned
  <2> HIDE DEF pinned, s
  <2> QED
    BY <1>5
<1>11. c \in Seq(Seen) /\ 1 \in 1..Len(c) /\ c[1] = ReplicaOf(a)
  <2> HIDE DEF s, pinned
  <2> QED
    BY <1>6, <1>8
<1> HIDE DEF c
<1>12. Closure(a) = c
  BY <1>7 DEF c
<1>13. Members(c, Len(c)) = {c[i] : i \in 1..Len(c)}
  BY DEF Members
<1>14. ReplicaOf(a) \in Members(c, Len(c))
  BY <1>11, <1>13
<1>15. \A x \in pinned : x \in Members(c, Len(c))
  <2> HIDE DEF pinned
  <2> QED
    BY <1>9, <1>13 DEF Listed
<1>16. \A d \in wan[a].deps : ReplicaOf(d[1]) \in Members(c, Len(c))
  BY <1>15
<1>17. \A r \in Members(c, Len(c)) : r = ReplicaOf(a) \/ r \in pinned
  <2> HIDE DEF pinned
  <2> QED
    BY <1>10, <1>13
<1>18. \A r \in Members(c, Len(c)) : r = ReplicaOf(a) \/ \E d \in wan[a].deps : r = ReplicaOf(d[1])
  BY <1>17
<1> QED
  BY <1>11, <1>12, <1>14, <1>16, <1>18

\* The index lists every closure that can be packed, every template there is,
\* the set of project templates and every retraction, each once the WAN's.
LEMMA PackLists ==
    ASSUME NEW k
    PROVE  /\ PackAvailable(k) \in Seq({ClosureCmd(a) : a \in Assets})
           /\ \A a \in OfKind(k) : Deliverable(a) => Listed(PackAvailable(k), ClosureCmd(a))
<1> DEFINE A == {b \in OfKind(k) : Deliverable(b)}
           C == {ClosureCmd(a) : a \in A}
           g == [a \in A |-> ClosureCmd(a)]
<1>1. IsFiniteSet(A) /\ A \subseteq Assets
  <2>1. A \subseteq Assets
    BY DEF OfKind
  <2> QED
    BY <2>1, FiniteTables, FS_Subset DEF Assets
<1>2. IsFiniteSet({g[a] : a \in A})
  <2> HIDE DEF A
  <2> QED
    BY <1>1, ImageFinite
<1>3. C = {g[a] : a \in A}
  OBVIOUS
<1>4. IsFiniteSet(C)
  BY <1>2, <1>3
<1>5. C \subseteq {ClosureCmd(a) : a \in Assets} /\ \A a \in A : ClosureCmd(a) \in C
  BY <1>1
<1>6. PackAvailable(k) = SetToSeq(C)
  BY DEF PackAvailable
<1> HIDE DEF C
<1>7. PackAvailable(k) \in Seq(C) /\ \A x \in C : Listed(PackAvailable(k), x)
  BY <1>4, <1>6, SetToSeqLists
<1>8. PackAvailable(k) \in Seq({ClosureCmd(a) : a \in Assets})
  BY <1>5, <1>7
<1>9. \A a \in A : Listed(PackAvailable(k), ClosureCmd(a))
  BY <1>5, <1>7
<1> QED
  BY <1>8, <1>9

\* The commands for a set of templates are listed, in some order.
LEMMA TemplatesLists ==
    ASSUME NEW X \in SUBSET Live
    PROVE  LET s == SetToSeq({TemplateCmd(t) : t \in X})
           IN  /\ s \in Seq({TemplateCmd(t) : t \in Live})
               /\ \A t \in X : Listed(s, TemplateCmd(t))
<1> DEFINE C == {TemplateCmd(t) : t \in X}
           g == [t \in X |-> TemplateCmd(t)]
           s == SetToSeq(C)
<1>1. IsFiniteSet(X)
  BY FiniteTables, FS_Subset DEF Live
<1>2. IsFiniteSet({g[t] : t \in X})
  BY <1>1, ImageFinite
<1>3. C = {g[t] : t \in X}
  OBVIOUS
<1>4. IsFiniteSet(C)
  BY <1>2, <1>3
<1>5. C \subseteq {TemplateCmd(t) : t \in Live} /\ \A t \in X : TemplateCmd(t) \in C
  OBVIOUS
<1> HIDE DEF C
<1>6. s \in Seq(C) /\ \A x \in C : Listed(s, x)
  BY <1>4, SetToSeqLists
<1> HIDE DEF s
<1>7. s \in Seq({TemplateCmd(t) : t \in Live}) /\ \A t \in X : Listed(s, TemplateCmd(t))
  BY <1>5, <1>6
<1> QED
  BY <1>7 DEF s, C

\* So are the retractions of what the WAN has deleted.
LEMMA RetractionsLists ==
    /\ Retractions \in Seq({RetractCmd(a) : a \in Deleted})
    /\ \A a \in Deleted : Listed(Retractions, RetractCmd(a))
<1> DEFINE C == {RetractCmd(a) : a \in Deleted}
           g == [a \in Deleted |-> RetractCmd(a)]
<1>1. IsFiniteSet(Deleted)
  BY FiniteTables, FS_Subset DEF Deleted, Assets
<1>2. IsFiniteSet({g[a] : a \in Deleted})
  BY <1>1, ImageFinite
<1>3. C = {g[a] : a \in Deleted}
  OBVIOUS
<1>4. IsFiniteSet(C)
  BY <1>2, <1>3
<1>5. Retractions = SetToSeq(C)
  BY DEF Retractions, RetractCmd, Deleted
<1>6. \A a \in Deleted : RetractCmd(a) \in C
  OBVIOUS
<1> HIDE DEF C
<1>7. Retractions \in Seq(C) /\ \A x \in C : Listed(Retractions, x)
  BY <1>4, <1>5, SetToSeqLists
<1> QED
  BY <1>6, <1>7 DEF C

\* All of them are commands.
LEMMA CmdTypes ==
    ASSUME WanType
    PROVE  /\ \A a \in Assets : ClosureCmd(a) \in ClosureCmds
           /\ \A t \in Live : TemplateCmd(t) \in TemplateCmds
           /\ \A a \in Deleted : RetractCmd(a) \in RetractCmds
           /\ TemplateSetCmd \in SetCmds
<1>1. \A a \in Assets : ClosureCmd(a) \in ClosureCmds
  BY DEF WanType, ClosureCmd, ClosureCmds
<1>2. \A t \in Live : TemplateCmd(t) \in TemplateCmds
  BY DEF WanType, TemplateCmd, TemplateCmds, Live
<1>3. \A a \in Deleted : RetractCmd(a) \in RetractCmds
  BY DEF RetractCmd, RetractCmds
<1>4. TemplateSetCmd \in SetCmds
  BY DEF TemplateSetCmd, SetCmds
<1> QED
  BY <1>1, <1>2, <1>3, <1>4

\* And these lists are of commands.
LEMMA ListTypes ==
    ASSUME WanType
    PROVE  /\ \A k : PackAvailable(k) \in Seq(Cmds)
           /\ \A X \in SUBSET Live : SetToSeq({TemplateCmd(t) : t \in X}) \in Seq(Cmds)
           /\ Retractions \in Seq(Cmds)
           /\ TemplateSetCmd \in Cmds
<1>1. ASSUME NEW k PROVE PackAvailable(k) \in Seq(Cmds)
  <2>1. {ClosureCmd(a) : a \in Assets} \subseteq Cmds
    BY CmdTypes DEF Cmds
  <2>2. PackAvailable(k) \in Seq({ClosureCmd(a) : a \in Assets})
    BY PackLists
  <2> DEFINE S == {ClosureCmd(a) : a \in Assets}
  <2> HIDE DEF S
  <2>3. S \subseteq Cmds /\ PackAvailable(k) \in Seq(S)
    BY <2>1, <2>2 DEF S
  <2> QED
    BY <2>3
<1>2. ASSUME NEW X \in SUBSET Live PROVE SetToSeq({TemplateCmd(t) : t \in X}) \in Seq(Cmds)
  <2> DEFINE S == {TemplateCmd(t) : t \in Live}
             s == SetToSeq({TemplateCmd(t) : t \in X})
  <2>1. S \subseteq Cmds
    BY CmdTypes DEF Cmds
  <2>2. s \in Seq(S)
    BY TemplatesLists
  <2> HIDE DEF S, s
  <2>3. s \in Seq(Cmds)
    BY <2>1, <2>2
  <2> QED
    BY <2>3 DEF s
<1>3. Retractions \in Seq(Cmds)
  <2> DEFINE S == {RetractCmd(a) : a \in Deleted}
  <2>1. S \subseteq Cmds
    BY CmdTypes DEF Cmds
  <2>2. Retractions \in Seq(S)
    BY RetractionsLists
  <2> HIDE DEF S
  <2> QED
    BY <2>1, <2>2
<1>4. TemplateSetCmd \in Cmds
  BY CmdTypes DEF Cmds
<1> QED
  BY <1>1, <1>2, <1>3, <1>4

\* The initial states are of these types.
LEMMA InitTypes == DeliveryInit => DType
<1> SUFFICES ASSUME DeliveryInit PROVE DType
  OBVIOUS
<1> USE DEF DeliveryInit
<1>1. \A a \in Assets : StartRow(a) \in [rev : Nat, status : Statuses, deps : Pins]
                        /\ StartRow(a).rev = 1 /\ StartRow(a).status = "available"
  BY DEF StartRow, Statuses, Pins
<1>2. WanType
  <2>1. wan \in [Assets -> [rev : Nat, status : Statuses, deps : Pins]]
    BY <1>1
  <2>2. tpl \in [Templates -> [rev : Nat, text : Nat]] /\ \A t \in Templates : tpl[t].rev > 0
    BY Bounds
  <2> QED
    BY <2>1, <2>2, FiniteTables DEF WanType, Templates
<1>3. WayType
  <2>1. round \in [at : {"idle", "full", "process", "project", "apply"}, todo : Seq(Cmds),
                   hand : Hands]
    BY DEF NoRound, Hands
  <2> QED
    BY <2>1 DEF WayType, Hands
<1>4. rows \subseteq Seen
  <2> SUFFICES ASSUME NEW a \in Assets
      PROVE  [id |-> a, rev |-> 1, status |-> "available", deps |-> wan[a].deps] \in Seen
    OBVIOUS
  <2>1. wan[a].rev = 1 /\ wan[a].deps \in Pins
    BY <1>1
  <2> QED
    BY <2>1 DEF Seen, Replica, Statuses
<1>5. tplRows \subseteq TemplateReplica /\ IsFiniteSet(tplRows)
  <2> DEFINE g == [t \in Templates |-> [id |-> t, rev |-> 2, text |-> MaxChanges + 1]]
  <2>1. IsFiniteSet({g[t] : t \in Templates})
    <3>1. IsFiniteSet(Templates)
      BY FiniteTables
    <3>2. DOMAIN g = Templates /\ g = [t \in Templates |-> g[t]]
      OBVIOUS
    <3> HIDE DEF g
    <3> QED
      BY <3>1, <3>2, ImageFinite
  <2>2. tplRows = {} \/ tplRows = {g[t] : t \in Templates}
    OBVIOUS
  <2>3. IsFiniteSet({})
    BY FS_EmptySet
  <2>4. tplRows \subseteq TemplateReplica
    BY Bounds DEF TemplateReplica
  <2> QED
    BY <2>1, <2>2, <2>3, <2>4
<1> QED
  BY <1>2, <1>3, <1>4, <1>5 DEF DType, FactoryType

\* A change on the WAN lets revisions only go up, revives nothing, and puts
\* commands on their way.
LEMMA ChangeTypes ==
    ASSUME DType, NEW call, Change(call), WanType',
           Deleted \subseteq Deleted', \A a \in Assets : wan[a].rev <= wan'[a].rev,
           call \in Seq(Cmds' \cup Remaining), call # <<>>
    PROVE  DType'
<1>1. Seen \subseteq Seen' /\ Cmds \subseteq Cmds' /\ Hands \subseteq Hands'
  BY GrowsOnly DEF DType
<1>2. owed' \subseteq Seq(Cmds' \cup Remaining) \ {<<>>}
  <2>1. \A s \in Seq(Cmds \cup Remaining) : s \in Seq(Cmds' \cup Remaining)
    BY <1>1, GrowsKeep
  <2>2. owed \subseteq Seq(Cmds \cup Remaining) \ {<<>>}
    BY DEF DType, WayType
  <2>3. owed' = owed \cup {call}
    BY DEF Change
  <2> QED
    BY <2>1, <2>2, <2>3
<1>3. queue' \in Seq(Cmds')
  BY <1>1, GrowsKeep DEF DType, WayType, Change
<1>4. hand' \in Hands' /\ round' \in [at : {"idle", "full", "process", "project", "apply"},
                                      todo : Seq(Cmds'), hand : Hands']
  <2>1. Seq(Cmds) \subseteq Seq(Cmds')
    BY <1>1, GrowsKeep
  <2> QED
    BY <1>1, <2>1 DEF DType, WayType, Change
<1>5. FactoryType'
  BY <1>1, GrowsKeep DEF DType, Change
<1> QED
  BY <1>2, <1>3, <1>4, <1>5 DEF DType, WayType, Remaining

\* A change announces one command.
LEMMA OneCall == ASSUME NEW S, NEW c \in S PROVE <<c>> \in Seq(S) /\ <<c>> # <<>>
OBVIOUS

\* One more revision of a row, announced as a closure.
LEMMA MutateTypes ==
    ASSUME DType, NEW a \in Assets, wan[a].status # "deleted",
           NEW row \in [rev : Nat, status : Statuses, deps : Pins], row.rev = wan[a].rev,
           Mutate(a, row)
    PROVE  DType'
<1> DEFINE new == [row EXCEPT !.rev = @ + 1]
           cmd == [typ |-> "closure", id |-> a, rev |-> wan[a].rev + 1]
<1>1. new \in [rev : Nat, status : Statuses, deps : Pins] /\ new.rev = wan[a].rev + 1
  OBVIOUS
<1>2. wan' = [wan EXCEPT ![a] = new] /\ tpl' = tpl /\ Change(<<cmd>>)
  BY DEF Mutate
<1> HIDE DEF new
<1>3. changes \in Nat /\ changes' = changes + 1
  BY <1>2 DEF Change, DType, WanType
<1>4. WanType'
  BY <1>1, <1>2, <1>3 DEF DType, WanType
<1>5. \A b \in Assets : wan[b].rev <= wan'[b].rev
  BY <1>1, <1>2 DEF DType, WanType
<1>6. Deleted \subseteq Deleted'
  BY <1>2 DEF DType, WanType, Deleted
<1>7. cmd \in Cmds'
  BY DEF Cmds, ClosureCmds, DType, WanType
<1> HIDE DEF cmd
<1>8. <<cmd>> \in Seq(Cmds' \cup Remaining) /\ <<cmd>> # <<>>
  BY <1>7, OneCall
<1> QED
  BY <1>2, <1>4, <1>5, <1>6, <1>8, ChangeTypes

\* The calls of an administrator on assets.
LEMMA AssetChangeTypes == ASSUME DType, AssetChange PROVE DType'
<1>0. wan \in [Assets -> [rev : Nat, status : Statuses, deps : Pins]]
  BY DEF DType, WanType
<1>1. ASSUME NEW a \in Assets, UpdateAssetRow(a) PROVE DType'
  BY <1>0, <1>1, MutateTypes DEF UpdateAssetRow
<1>2. ASSUME NEW a \in Assets, Disable(a) PROVE DType'
  <2>1. [wan[a] EXCEPT !.status = "disabled"] \in [rev : Nat, status : Statuses, deps : Pins]
        /\ [wan[a] EXCEPT !.status = "disabled"].rev = wan[a].rev
    BY <1>0 DEF Statuses
  <2> QED
    BY <1>2, <2>1, MutateTypes DEF Disable
<1>3. ASSUME NEW a \in Assets, Reenable(a) PROVE DType'
  <2>1. [wan[a] EXCEPT !.status = "available"] \in [rev : Nat, status : Statuses, deps : Pins]
        /\ [wan[a] EXCEPT !.status = "available"].rev = wan[a].rev
    BY <1>0 DEF Statuses
  <2> QED
    BY <1>3, <2>1, MutateTypes DEF Reenable
<1>4. ASSUME NEW a \in Projects, NEW ps \in SUBSET Processes, SetDeps(a, ps) PROVE DType'
  <2> DEFINE pins == {<<p, wan[p].rev>> : p \in ps}
  <2>0. a \in Assets
    BY DEF Assets
  <2>1. pins \in Pins
    BY <1>0 DEF Pins, Assets
  <2>2. wan[a].status = "available" /\ Mutate(a, [wan[a] EXCEPT !.deps = pins])
    BY <1>4 DEF SetDeps
  <2> HIDE DEF pins
  <2>3. [wan[a] EXCEPT !.deps = pins] \in [rev : Nat, status : Statuses, deps : Pins]
        /\ [wan[a] EXCEPT !.deps = pins].rev = wan[a].rev
    BY <1>0, <2>0, <2>1
  <2> QED
    BY <2>0, <2>2, <2>3, MutateTypes
<1>5. ASSUME NEW a \in Assets, Delete(a) PROVE DType'
  <2> DEFINE cmd == [typ |-> "retract", id |-> a]
  <2>1. wan' = [wan EXCEPT ![a].status = "deleted"] /\ tpl' = tpl /\ Change(<<cmd>>)
    BY <1>5 DEF Delete
  <2>2. \A b \in Assets : wan'[b] \in [rev : Nat, status : Statuses, deps : Pins]
                          /\ wan'[b].rev = wan[b].rev
    BY <1>0, <2>1 DEF Statuses
  <2>3. WanType'
    <3>1. changes \in Nat /\ changes' = changes + 1
      BY <2>1 DEF Change, DType, WanType
    <3> QED
      BY <1>0, <2>1, <2>2, <3>1 DEF DType, WanType
  <2>4. Deleted' = Deleted \cup {a}
    BY <1>0, <2>1 DEF Deleted
  <2>5. \A b \in Assets : wan[b].rev <= wan'[b].rev
    BY <1>0, <2>2
  <2>6. cmd \in Cmds'
    BY <2>4 DEF Cmds, RetractCmds
  <2> HIDE DEF cmd
  <2>7. <<cmd>> \in Seq(Cmds' \cup Remaining) /\ <<cmd>> # <<>>
    BY <2>6, OneCall
  <2> QED
    BY <2>1, <2>3, <2>4, <2>5, <2>7, ChangeTypes
<1> QED
  BY <1>1, <1>2, <1>3, <1>4, <1>5 DEF AssetChange

\* A template is announced by its own command, or by all that remain.
LEMMA AnnounceTypes ==
    ASSUME DType, wan' = wan, NEW call, Change(call),
           NEW t \in Templates, NEW new \in [rev : Nat, text : Nat],
           new.rev > 0 \/ t \notin ProcessTemplates, tpl' = [tpl EXCEPT ![t] = new],
           call \in Seq(TemplateCmds \cup Remaining), call # <<>>
    PROVE  DType'
<1>1. changes \in Nat /\ changes' = changes + 1
  BY DEF Change, DType, WanType
<1>2. WanType'
  BY <1>1 DEF DType, WanType, Templates
<1>3. Deleted \subseteq Deleted' /\ \A a \in Assets : wan[a].rev <= wan'[a].rev
  BY DEF Deleted, DType, WanType
<1>4. call \in Seq(Cmds' \cup Remaining)
  <2>1. TemplateCmds \cup Remaining \subseteq Cmds' \cup Remaining
    BY DEF Cmds, TemplateCmds
  <2> HIDE DEF Remaining
  <2> QED
    BY <2>1
<1> QED
  BY <1>2, <1>3, <1>4, ChangeTypes

\* The calls of an administrator on templates.
LEMMA TemplateChangeTypes == ASSUME DType, TemplateChange PROVE DType'
<1>0. tpl \in [Templates -> [rev : Nat, text : Nat]] /\ changes \in Nat
  BY DEF DType, WanType
<1>1. ASSUME NEW t \in Templates, NEW n \in Nat,
             AnnounceTemplate(t, n)
      PROVE  /\ wan' = wan
             /\ LET call == <<[typ |-> "template", id |-> t, rev |-> n]>>
                IN Change(call) /\ call \in Seq(TemplateCmds \cup Remaining) /\ call # <<>>
  <2> DEFINE cmd == [typ |-> "template", id |-> t, rev |-> n]
  <2>1. cmd \in TemplateCmds \cup Remaining
    BY DEF TemplateCmds
  <2>2. wan' = wan /\ Change(<<cmd>>)
    BY <1>1 DEF AnnounceTemplate
  <2> HIDE DEF cmd
  <2>3. <<cmd>> \in Seq(TemplateCmds \cup Remaining) /\ <<cmd>> # <<>>
    BY <2>1, OneCall
  <2> QED
    BY <2>2, <2>3 DEF cmd
<1>2. ASSUME NEW t \in Templates, CreateProjectTemplate(t) PROVE DType'
  <2> DEFINE new == [rev |-> 1, text |-> 0]
  <2>1. tpl' = [tpl EXCEPT ![t] = new] /\ AnnounceTemplate(t, 1)
    BY <1>2 DEF CreateProjectTemplate, InsertTemplate
  <2>2. new \in [rev : Nat, text : Nat] /\ new.rev > 0
    OBVIOUS
  <2> HIDE DEF new
  <2> QED
    BY <1>1, <2>1, <2>2, AnnounceTypes
<1>3. ASSUME NEW t \in Templates, PutTemplate(t), AnnounceTemplate(t, tpl[t].rev + 1) PROVE DType'
  <2> DEFINE new == [rev |-> tpl[t].rev + 1, text |-> changes + 1]
  <2>1. new \in [rev : Nat, text : Nat] /\ new.rev > 0 /\ tpl[t].rev + 1 \in Nat
    BY <1>0
  <2>2. tpl' = [tpl EXCEPT ![t] = new]
    BY <1>3 DEF PutTemplate
  <2> HIDE DEF new
  <2> QED
    BY <1>1, <1>3, <2>1, <2>2, AnnounceTypes
<1>4. ASSUME NEW t \in Templates, DeleteProjectTemplate(t) PROVE DType'
  <2>1. tpl' = [tpl EXCEPT ![t] = [rev |-> 0, text |-> 0]] /\ wan' = wan
        /\ Change(<<[typ |-> "remaining"]>>) /\ t \notin ProcessTemplates
    BY <1>4, FiniteTables DEF DeleteProjectTemplate, RemoveTemplate
  <2>2. <<[typ |-> "remaining"]>> \in Seq(TemplateCmds \cup Remaining)
        /\ <<[typ |-> "remaining"]>> # <<>>
    <3>1. [typ |-> "remaining"] \in TemplateCmds \cup Remaining
      BY DEF Remaining
    <3> QED
      BY <3>1, OneCall
  <2> QED
    BY <2>1, <2>2, AnnounceTypes
<1> QED
  BY <1>2, <1>3, <1>4 DEF TemplateChange, UpdateProjectTemplate, UpdateTemplate

\* Where the WAN's rows stay, types are kept by whoever keeps its own part.
LEMMA SameWan ==
    ASSUME DType, UNCHANGED <<wan, tpl, changes>>
    PROVE  /\ WanType' /\ Seen' = Seen /\ Cmds' = Cmds /\ Hands' = Hands /\ Deleted' = Deleted
           /\ UNCHANGED factory => FactoryType'
<1>1. WanType' /\ Deleted' = Deleted /\ Seen' = Seen
  BY DEF DType, WanType, Deleted, Seen
<1>2. Cmds' = Cmds
  BY <1>1 DEF Cmds, ClosureCmds, TemplateCmds, SetCmds, RetractCmds
<1>3. Hands' = Hands
  BY <1>1 DEF Hands, ClosureHands, ClosureCmds, TemplateHands, TemplateCmds, SetHands, SetCmds,
              RetractHands, RetractCmds
<1>4. UNCHANGED factory => FactoryType'
  BY <1>1 DEF DType, FactoryType, factory, TemplateReplica
<1> QED
  BY <1>1, <1>2, <1>3, <1>4

\* A publication puts a command of its type in the queue.
LEMMA PublishTypes == ASSUME DType, Publish PROVE DType'
<1> PICK call \in owed :
      /\ IF Head(call).typ = "remaining"
         THEN owed' = (owed \ {call}) \cup {RemainingCmds} /\ UNCHANGED queue
         ELSE /\ owed' = (owed \ {call}) \cup ({Tail(call)} \ {<<>>})
              /\ queue' = Append(queue, Head(call))
      /\ UNCHANGED <<wanvars, hand, round, factory, due, changes, faults, clean, rejected>>
  BY DEF Publish
<1>1. WanType' /\ Cmds' = Cmds /\ Hands' = Hands /\ FactoryType'
  BY SameWan DEF wanvars
<1>2. owed \subseteq Seq(Cmds \cup Remaining) \ {<<>>} /\ queue \in Seq(Cmds)
      /\ hand \in Hands
      /\ round \in [at : {"idle", "full", "process", "project", "apply"},
                    todo : Seq(Cmds), hand : Hands]
  BY DEF DType, WayType
<1>3. call \in Seq(Cmds \cup Remaining) /\ call # <<>>
  BY <1>2
<1>4. owed' \subseteq Seq(Cmds \cup Remaining) \ {<<>>} /\ queue' \in Seq(Cmds)
  <2>1. CASE Head(call).typ = "remaining"
    <3> DEFINE s == SetToSeq({TemplateCmd(t) : t \in Live})
    <3>1. s \in Seq(Cmds) /\ TemplateSetCmd \in Cmds
      BY ListTypes DEF DType
    <3>2. RemainingCmds = Append(s, TemplateSetCmd)
      BY DEF RemainingCmds
    <3> HIDE DEF s, Remaining
    <3>3. RemainingCmds \in Seq(Cmds \cup Remaining) /\ RemainingCmds # <<>>
      BY <3>1, <3>2
    <3> QED
      BY <1>2, <2>1, <3>3
  <2>2. CASE Head(call).typ # "remaining"
    <3>1. Tail(call) \in Seq(Cmds \cup Remaining) /\ Head(call) \in Cmds \cup Remaining
      <4> HIDE DEF Remaining
      <4> QED
        BY <1>3, TailKeeps
    <3>2. Head(call) \in Cmds
      BY <2>2, <3>1 DEF Remaining
    <3> HIDE DEF Remaining
    <3>3. owed' = (owed \ {call}) \cup ({Tail(call)} \ {<<>>})
          /\ queue' = Append(queue, Head(call))
      BY <2>2
    <3>4. Append(queue, Head(call)) \in Seq(Cmds)
      BY <1>2, <3>2
    <3>5. owed' \subseteq Seq(Cmds \cup Remaining) \ {<<>>}
      BY <1>2, <3>1, <3>3
    <3> QED
      BY <3>3, <3>4, <3>5
  <2> QED
    BY <2>1, <2>2
<1> QED
  BY <1>1, <1>2, <1>4 DEF DType, WayType, Remaining

\* What is pulled for a command is a body of its type.
LEMMA FetchTypes ==
    ASSUME DType, NEW cmd \in Cmds, NEW held \in Hands, NEW held2, Fetch(cmd, held, held2)
    PROVE  held2 \in Hands
<1>1. CASE held2 = held
  BY <1>1
<1>2. CASE held2 = Carry(cmd, Body(cmd)) /\ (Pulled(cmd) => Body(cmd) # <<>>) /\ ~AlreadyHas(cmd)
  <2>1. CASE cmd \in ClosureCmds
    <3>1. Body(cmd) \in Seq(Seen)
      <4>1. cmd.id \in Assets /\ cmd.typ = "closure"
        BY <2>1 DEF ClosureCmds
      <4>2. Closure(cmd.id) \in Seq(Seen)
        BY <4>1, ClosureLists DEF DType
      <4> QED
        BY <4>1, <4>2 DEF Body
    <3>2. held2 \in ClosureHands
      BY <1>2, <2>1, <3>1 DEF Carry, ClosureHands, ClosureCmds
    <3> QED
      BY <3>2 DEF Hands
  <2>2. CASE cmd \in TemplateCmds
    <3>1. cmd.id \in Templates /\ cmd.typ = "template"
      BY <2>2 DEF TemplateCmds
    <3>2. Body(cmd) = TemplateBody(cmd.id) /\ Body(cmd) # <<>>
      BY <1>2, <3>1 DEF Body, Pulled
    <3>3. [id |-> cmd.id, rev |-> tpl[cmd.id].rev, text |-> tpl[cmd.id].text] \in TemplateReplica
      BY <3>1 DEF DType, WanType, TemplateReplica
    <3>4. Body(cmd) = <<[id |-> cmd.id, rev |-> tpl[cmd.id].rev, text |-> tpl[cmd.id].text]>>
      BY <3>2 DEF TemplateBody
    <3>5. Body(cmd) \in Seq(TemplateReplica) /\ Len(Body(cmd)) = 1
      BY <3>3, <3>4
    <3>6. held2 \in TemplateHands
      BY <1>2, <2>2, <3>1, <3>5 DEF Carry, TemplateHands
    <3> QED
      BY <3>6 DEF Hands
  <2>3. CASE cmd \in SetCmds
    <3>1. cmd.typ = "set" /\ Body(cmd) = <<>>
      BY <2>3 DEF SetCmds, Body
    <3>2. held2 \in SetHands
      BY <1>2, <2>3, <3>1 DEF Carry, SetHands
    <3> QED
      BY <3>2 DEF Hands
  <2>4. CASE cmd \in RetractCmds
    <3>1. cmd.typ = "retract" /\ Body(cmd) = <<>>
      BY <2>4 DEF RetractCmds, Body
    <3>2. held2 \in RetractHands
      BY <1>2, <2>4, <3>1 DEF Carry, RetractHands
    <3> QED
      BY <3>2 DEF Hands
  <2> QED
    BY <2>1, <2>2, <2>3, <2>4 DEF Cmds
<1> QED
  BY <1>1, <1>2 DEF Fetch

\* What applying a hand does, type by type.
LEMMA ApplyCases ==
    ASSUME DType, NEW h \in Hands, h # Nothing, Apply(h)
    PROVE  /\ retracted' = retracted \/ h \in RetractHands
           /\ retired' = retired \/ h \in SetHands
           /\ tplRows' = tplRows \/ h \in TemplateHands
           /\ rows' = rows \/ h \in ClosureHands
           /\ rows \subseteq rows' /\ tplRows \subseteq tplRows'
           /\ h \in ClosureHands => \A r \in rows' : r \in rows \/ r \in Members(h.body, Len(h.body))
           /\ h \in TemplateHands => tplRows' \subseteq tplRows \cup {h.body[1]}
           /\ h \in SetHands => retired' \in {retired, Retire(h.cmd.keep)}
           /\ h \in RetractHands =>
                 retracted' = retracted \/ retracted' = retracted \cup {r \in rows : r.id = h.cmd.id}
<1>1. CASE h \in ClosureHands
  <2>1. h.typ = "closure" /\ h.body \in Seq(Seen)
    BY <1>1 DEF ClosureHands
  <2>2. UNCHANGED <<retracted, tplRows, retired>> /\ rows \subseteq rows'
        /\ \A r \in rows' : r \in rows \/ r \in Members(h.body, Len(h.body))
    <3>1. CASE AcceptPlatformDelivery(h.body)
      BY <3>1 DEF AcceptPlatformDelivery
    <3>2. CASE AcceptInPart(h.body)
      <4>1. PICK n \in 0..Len(h.body) : rows' = rows \cup Members(h.body, n)
        BY <3>2 DEF AcceptInPart
      <4>2. Members(h.body, n) \subseteq Members(h.body, Len(h.body))
        BY <2>1 DEF Members
      <4> QED
        BY <3>2, <4>1, <4>2 DEF AcceptInPart
    <3> QED
      BY <2>1, <3>1, <3>2 DEF Apply
  <2>3. h \notin TemplateHands /\ h \notin SetHands /\ h \notin RetractHands
    BY <2>1 DEF TemplateHands, SetHands, RetractHands
  <2> QED
    BY <1>1, <2>2, <2>3
<1>2. CASE h \in TemplateHands
  <2>1. h.typ = "template"
    BY <1>2 DEF TemplateHands
  <2>2. AcceptTemplateDelivery(h.body[1]) \/ UNCHANGED factory
    BY <2>1 DEF Apply
  <2>3. h \notin ClosureHands /\ h \notin SetHands /\ h \notin RetractHands
    BY <2>1 DEF ClosureHands, SetHands, RetractHands
  <2>4. UNCHANGED <<rows, retracted, retired>> /\ tplRows \subseteq tplRows'
        /\ tplRows' \subseteq tplRows \cup {h.body[1]}
    BY <2>2 DEF AcceptTemplateDelivery, InsertTemplateReplica, factory
  <2> QED
    BY <1>2, <2>3, <2>4
<1>3. CASE h \in SetHands
  <2>1. h.typ = "set"
    BY <1>3 DEF SetHands
  <2>2. SyncTemplateSet(h.cmd.keep) \/ UNCHANGED factory
    BY <2>1 DEF Apply
  <2>3. h \notin ClosureHands /\ h \notin TemplateHands /\ h \notin RetractHands
    BY <2>1 DEF ClosureHands, TemplateHands, RetractHands
  <2>4. UNCHANGED <<rows, retracted, tplRows>> /\ retired' \in {retired, Retire(h.cmd.keep)}
    BY <2>2 DEF SyncTemplateSet, factory
  <2> QED
    BY <1>3, <2>3, <2>4
<1>4. CASE h \in RetractHands
  <2>1. h.typ = "retract"
    BY <1>4 DEF RetractHands
  <2>2. RetractPlatformDelivery(h.cmd.id) \/ UNCHANGED factory
    BY <2>1 DEF Apply
  <2>3. h \notin ClosureHands /\ h \notin TemplateHands /\ h \notin SetHands
    BY <2>1 DEF ClosureHands, TemplateHands, SetHands
  <2>4. UNCHANGED <<rows, retired, tplRows>>
        /\ (retracted' = retracted \/ retracted' = retracted \cup {r \in rows : r.id = h.cmd.id})
    BY <2>2 DEF RetractPlatformDelivery, factory
  <2> QED
    BY <1>4, <2>3, <2>4
<1> QED
  BY <1>1, <1>2, <1>3, <1>4 DEF Hands

\* Applying a hand keeps the types of what the factory holds.
LEMMA ApplyTypes ==
    ASSUME DType, UNCHANGED <<wan, tpl, changes>>, NEW h \in Hands, h # Nothing, Apply(h)
    PROVE  FactoryType'
<1>1. Seen' = Seen /\ Deleted' = Deleted
  BY SameWan
<1>2. rows' \subseteq Seen
  <2>1. CASE h \in ClosureHands
    <3>1. h.body \in Seq(Seen)
      BY <2>1 DEF ClosureHands
    <3>2. Members(h.body, Len(h.body)) \subseteq Seen
      BY <3>1 DEF Members
    <3> QED
      BY <2>1, <3>2, ApplyCases DEF DType, FactoryType
  <2>2. CASE h \notin ClosureHands
    BY <2>2, ApplyCases DEF DType, FactoryType
  <2> QED
    BY <2>1, <2>2
<1>3. retracted' \subseteq {r \in rows' : r.id \in Deleted}
  <2>1. rows \subseteq rows'
    BY ApplyCases
  <2>2. CASE h \in RetractHands
    <3>1. h.cmd.id \in Deleted
      BY <2>2 DEF RetractHands, RetractCmds
    <3> QED
      BY <2>1, <2>2, <3>1, ApplyCases DEF DType, FactoryType
  <2>3. CASE h \notin RetractHands
    BY <2>1, <2>3, ApplyCases DEF DType, FactoryType
  <2> QED
    BY <2>2, <2>3
<1>4. tplRows' \subseteq TemplateReplica /\ IsFiniteSet(tplRows')
  <2>0. tplRows \subseteq TemplateReplica /\ IsFiniteSet(tplRows)
    BY DEF DType, FactoryType
  <2>1. CASE h \in TemplateHands
    <3>1. h.body \in Seq(TemplateReplica) /\ Len(h.body) = 1
      BY <2>1 DEF TemplateHands
    <3>2. h.body[1] \in TemplateReplica
      BY <3>1
    <3>3. IsFiniteSet(tplRows \cup {h.body[1]})
      BY <2>0, FS_AddElement
    <3>4. tplRows' \subseteq tplRows \cup {h.body[1]}
      BY <2>1, ApplyCases
    <3> QED
      BY <2>0, <3>2, <3>3, <3>4, FS_Subset
  <2>2. CASE h \notin TemplateHands
    BY <2>0, <2>2, ApplyCases
  <2> QED
    BY <2>1, <2>2
<1>5. retired' \subseteq tplRows'
  <2>1. tplRows \subseteq tplRows' /\ retired \subseteq tplRows
    BY ApplyCases DEF DType, FactoryType
  <2>2. CASE h \in SetHands
    <3>1. retired' \in {retired, Retire(h.cmd.keep)}
      BY <2>2, ApplyCases
    <3> QED
      BY <2>1, <3>1 DEF Retire
  <2>3. CASE h \notin SetHands
    BY <2>1, <2>3, ApplyCases
  <2> QED
    BY <2>2, <2>3
<1> QED
  BY <1>1, <1>2, <1>3, <1>4, <1>5 DEF FactoryType, TemplateReplica

\* The main loop.
LEMMA MainTypes == ASSUME DType, Main PROVE DType'
<1>0. UNCHANGED <<wan, tpl, changes>> /\ UNCHANGED <<owed, round>>
  BY DEF Main, MainTakes, MainApplies, wanvars
<1>1. WanType' /\ Cmds' = Cmds /\ Hands' = Hands /\ (UNCHANGED factory => FactoryType')
  BY <1>0, SameWan
<1>2. owed \subseteq Seq(Cmds \cup Remaining) \ {<<>>} /\ queue \in Seq(Cmds)
      /\ hand \in Hands
      /\ round \in [at : {"idle", "full", "process", "project", "apply"},
                    todo : Seq(Cmds), hand : Hands]
  BY DEF DType, WayType
<1>3. CASE MainTakes
  <2>1. queue # <<>> /\ queue' = Tail(queue) /\ Fetch(Head(queue), hand, hand')
        /\ UNCHANGED factory
    BY <1>3 DEF MainTakes
  <2>2. Head(queue) \in Cmds /\ queue' \in Seq(Cmds)
    BY <1>2, <2>1, TailKeeps
  <2>3. hand' \in Hands
    BY <1>2, <2>1, <2>2, FetchTypes
  <2> QED
    BY <1>0, <1>1, <1>2, <2>1, <2>2, <2>3 DEF DType, WayType, Remaining
<1>4. CASE MainApplies
  <2>1. FactoryType'
    BY <1>0, <1>2, <1>4, ApplyTypes DEF MainApplies
  <2>2. hand' \in Hands /\ queue' = queue
    BY <1>4 DEF MainApplies, Hands
  <2> QED
    BY <1>0, <1>1, <1>2, <2>1, <2>2 DEF DType, WayType, Remaining
<1> QED
  BY <1>3, <1>4 DEF Main

\* The background rounds.
LEMMA RoundsTypes == ASSUME DType, DueType, Rounds PROVE DType'
<1> DEFINE R == [at : {"idle", "full", "process", "project", "apply"},
                 todo : Seq(Cmds), hand : Hands]
<1>0. UNCHANGED <<wan, tpl, changes, owed, queue, hand>>
  BY DEF Rounds, RoundBegins, RestOfIndex, RoundTakes, RoundApplies, RoundEnds, wanvars
<1>1. WanType' /\ Cmds' = Cmds /\ Hands' = Hands /\ (UNCHANGED factory => FactoryType')
  BY <1>0, SameWan
<1>2. owed \subseteq Seq(Cmds \cup Remaining) \ {<<>>} /\ queue \in Seq(Cmds)
      /\ hand \in Hands /\ round \in R
  BY DEF DType, WayType
<1>3. ASSUME round' \in R, FactoryType' PROVE DType'
  BY <1>0, <1>1, <1>2, <1>3 DEF DType, WayType, Remaining
<1>4. round.todo \in Seq(Cmds) /\ round.hand \in Hands
  BY <1>2
<1>5. CASE RoundBegins
  <2>1. PICK k \in due : round' = [NoRound EXCEPT !.at = k, !.todo = PackAvailable(k)]
    BY <1>5 DEF RoundBegins
  <2>2. PackAvailable(k) \in Seq(Cmds)
    BY ListTypes DEF DType
  <2>3. k \in {"full", "process", "project"}
    BY DEF DueType
  <2>4. round' = [at |-> k, todo |-> PackAvailable(k), hand |-> Nothing]
    BY <2>1 DEF NoRound
  <2>5. round' \in R
    BY <2>2, <2>3, <2>4 DEF Hands
  <2> QED
    BY <1>1, <1>3, <1>5, <2>5 DEF RoundBegins
<1>6. CASE RestOfIndex
  <2> DEFINE more == (IF round.at = "full" THEN Retractions ELSE <<>>)
             index == TemplatesOfIndex(round.at)
  <2>1. index \in Seq(Cmds)
    <3> DEFINE X == {x \in Live : round.at \in {"full", KindOf(x)}}
               s == SetToSeq({TemplateCmd(t) : t \in X})
               u == (IF round.at = "process" THEN <<>> ELSE <<TemplateSetCmd>>)
    <3>1. s \in Seq(Cmds) /\ TemplateSetCmd \in Cmds
      BY ListTypes DEF DType
    <3>2. u \in Seq(Cmds)
      BY <3>1
    <3>3. index = s \o u
      BY DEF TemplatesOfIndex
    <3> HIDE DEF s, u, index
    <3> QED
      BY <3>1, <3>2, <3>3
  <2>2. more \in Seq(Cmds)
    BY ListTypes DEF DType
  <2>3. round' = [round EXCEPT !.at = "apply", !.todo = @ \o index \o more] /\ UNCHANGED factory
    BY <1>6 DEF RestOfIndex
  <2> HIDE DEF index, more
  <2>4. round.todo \o index \o more \in Seq(Cmds)
    BY <1>4, <2>1, <2>2
  <2>5. round' = [at |-> "apply", todo |-> round.todo \o index \o more, hand |-> round.hand]
    BY <1>2, <2>3
  <2>6. round' \in R
    BY <1>4, <2>4, <2>5
  <2> QED
    BY <1>1, <1>3, <2>3, <2>6
<1>7. CASE RoundTakes
  <2>1. PICK h \in {Nothing, Carry(Head(round.todo), Body(Head(round.todo)))} :
          /\ Fetch(Head(round.todo), Nothing, h)
          /\ round' = [round EXCEPT !.todo = Tail(@), !.hand = h]
    BY <1>7 DEF RoundTakes
  <2>2. round.todo # <<>> /\ UNCHANGED factory
    BY <1>7 DEF RoundTakes
  <2>3. Head(round.todo) \in Cmds /\ Tail(round.todo) \in Seq(Cmds)
    BY <1>4, <2>2, TailKeeps
  <2>4. h \in Hands
    BY <2>1, <2>3, FetchTypes DEF Hands
  <2>5. round' = [at |-> round.at, todo |-> Tail(round.todo), hand |-> h]
    BY <1>2, <2>1
  <2>6. round' \in R
    BY <1>2, <2>3, <2>4, <2>5
  <2> QED
    BY <1>1, <1>3, <2>2, <2>6
<1>8. CASE RoundApplies
  <2>1. FactoryType'
    BY <1>0, <1>4, <1>8, ApplyTypes DEF RoundApplies
  <2>2. round' = [at |-> round.at, todo |-> round.todo, hand |-> Nothing]
    BY <1>2, <1>8 DEF RoundApplies
  <2>3. round' \in R
    BY <1>2, <2>2 DEF Hands
  <2> QED
    BY <1>3, <2>1, <2>3
<1>9. CASE RoundEnds
  <2>1. round' \in R /\ UNCHANGED factory
    BY <1>9 DEF RoundEnds, NoRound, Hands
  <2> QED
    BY <1>1, <1>3, <2>1
<1> QED
  BY <1>5, <1>6, <1>7, <1>8, <1>9 DEF Rounds

\* The marks are always of a known kind.
LEMMA MarksTypes == ASSUME DueType, DeliveryNext PROVE DueType'
<1>0. \A cmd : MarkOf(cmd) \in {"full", "process", "project"}
  BY DEF MarkOf, KindOf
<1>1. \A cmd, held, held2 : Fetch(cmd, held, held2) => due' = due \/ due' = due \cup {MarkOf(cmd)}
  BY DEF Fetch, Failed, Rejected
<1>2. \A h : Apply(h) => due' = due \/ due' = due \cup {MarkOf(h.cmd)}
  BY DEF Apply, Failed, Rejected
<1>3. CASE AssetChange \/ TemplateChange \/ Publish
  <2>1. due' = due
    BY <1>3 DEF AssetChange, UpdateAssetRow, Disable, Reenable, Delete, SetDeps, Mutate, Change,
               TemplateChange, CreateProjectTemplate, UpdateProjectTemplate, UpdateTemplate,
               DeleteProjectTemplate, AnnounceTemplate, Publish
  <2> QED
    BY <2>1 DEF DueType
<1>4. CASE Main
  <2>1. due' = due \/ \E cmd : due' = due \cup {MarkOf(cmd)}
    BY <1>1, <1>2, <1>4 DEF Main, MainTakes, MainApplies
  <2> QED
    BY <1>0, <2>1 DEF DueType
<1>5. CASE Rounds
  <2>1. CASE RoundBegins
    BY <2>1 DEF RoundBegins, DueType
  <2>2. CASE RestOfIndex \/ RoundEnds
    BY <2>2 DEF RestOfIndex, RoundEnds, DueType
  <2>3. CASE RoundTakes \/ RoundApplies
    <3>1. due' = due \/ \E cmd : due' = due \cup {MarkOf(cmd)}
      BY <1>1, <1>2, <2>3 DEF RoundTakes, RoundApplies
    <3> QED
      BY <1>0, <3>1 DEF DueType
  <2> QED
    BY <1>5, <2>1, <2>2, <2>3 DEF Rounds
<1>6. CASE NewSession
  BY <1>6 DEF NewSession, DueType
<1> QED
  BY <1>3, <1>4, <1>5, <1>6 DEF DeliveryNext

\* A new session starts from nothing.
LEMMA SessionTypes == ASSUME DType, NewSession PROVE DType'
<1>1. UNCHANGED <<wan, tpl, changes, owed>> /\ UNCHANGED factory
      /\ queue' = <<>> /\ hand' = Nothing /\ round' = NoRound
  BY DEF NewSession, wanvars
<1>2. WanType' /\ Cmds' = Cmds /\ Hands' = Hands /\ FactoryType'
  BY <1>1, SameWan
<1>3. owed \subseteq Seq(Cmds \cup Remaining) \ {<<>>}
  BY DEF DType, WayType
<1>4. NoRound \in [at : {"idle", "full", "process", "project", "apply"},
                   todo : Seq(Cmds), hand : Hands]
      /\ Nothing \in Hands
  BY DEF NoRound, Hands
<1> QED
  BY <1>1, <1>2, <1>3, <1>4 DEF DType, WayType, Remaining

\* Every step keeps the types.
LEMMA TypesStep == ASSUME DType, DueType, [DeliveryNext]_dvars PROVE DType' /\ DueType'
<1>1. CASE DeliveryNext
  BY <1>1, AssetChangeTypes, TemplateChangeTypes, PublishTypes, MainTypes, RoundsTypes,
     SessionTypes, MarksTypes DEF DeliveryNext
<1>2. CASE UNCHANGED dvars
  <2>1. UNCHANGED <<wan, tpl, changes, owed, queue, hand, round, due>> /\ UNCHANGED factory
    BY <1>2 DEF dvars, wanvars
  <2>2. WanType' /\ Cmds' = Cmds /\ Hands' = Hands /\ FactoryType'
    BY <2>1, SameWan
  <2> QED
    BY <2>1, <2>2 DEF DType, WayType, DueType, Remaining
<1> QED
  BY <1>1, <1>2

-----------------------------------------------------------------------------
(* A round that saw everything                                             *)

\* Grants that a round or a pull records make nothing deliverable that was not.
LEMMA SameView ==
    ASSUME UNCHANGED <<wan, tpl>>, UNCHANGED granted \/ \E as : Grant(as)
    PROVE  /\ \A a \in Assets : /\ Deliverable(a)' <=> Deliverable(a)
                                /\ Closure(a)' = Closure(a) /\ ClosureCmd(a)' = ClosureCmd(a)
           /\ Live' = Live /\ Deleted' = Deleted /\ TemplateSetCmd' = TemplateSetCmd
           /\ \A t \in Templates : /\ TemplateCmd(t)' = TemplateCmd(t)
                                   /\ TemplateBody(t)' = TemplateBody(t)
<1>1. ASSUME NEW a \in Assets PROVE Deliverable(a)' <=> Deliverable(a)
  <2>1. Packable(a)' <=> Packable(a)
    BY DEF Packable
  <2>2. CASE UNCHANGED granted
    BY <2>1, <2>2 DEF Deliverable
  <2>3. CASE \E as : Grant(as)
    <3>1. PICK as : Grant(as)
      BY <2>3
    <3>2. wan[a].status = "disabled" => (a \in granted' <=> a \in granted)
      BY <3>1 DEF Grant
    <3> QED
      BY <2>1, <3>2 DEF Deliverable
  <2> QED
    BY <2>2, <2>3
<1>2. ASSUME NEW a \in Assets PROVE Closure(a)' = Closure(a) /\ ClosureCmd(a)' = ClosureCmd(a)
  <2>1. \A b : ReplicaOf(b)' = ReplicaOf(b)
    BY DEF ReplicaOf
  <2>2. {ReplicaOf(d[1]) : d \in wan[a].deps}' = {ReplicaOf(d[1]) : d \in wan[a].deps}
    BY DEF ReplicaOf
  <2> DEFINE pinned == {ReplicaOf(d[1]) : d \in wan[a].deps}
  <2>3. Closure(a) = <<ReplicaOf(a)>> \o SetToSeq(pinned)
    BY DEF Closure
  <2>4. Closure(a)' = <<ReplicaOf(a)'>> \o SetToSeq(pinned')
    BY DEF Closure
  <2>5. pinned' = pinned
    BY <2>2
  <2> HIDE DEF pinned
  <2>6. Closure(a)' = Closure(a)
    BY <2>1, <2>3, <2>4, <2>5
  <2> QED
    BY <2>6 DEF ClosureCmd
<1>3. Live' = Live /\ Deleted' = Deleted
  BY DEF Live, Deleted
<1>4. TemplateSetCmd' = TemplateSetCmd
  BY <1>3 DEF TemplateSetCmd
<1>5. \A t \in Templates : TemplateCmd(t)' = TemplateCmd(t) /\ TemplateBody(t)' = TemplateBody(t)
  BY DEF TemplateCmd, TemplateBody
<1> QED
  BY <1>1, <1>2, <1>3, <1>4, <1>5

\* What can be packed was not deleted, and neither was what it pins.
LEMMA DeliverableIsThere ==
    ASSUME WanType, NEW a \in Assets, Deliverable(a)
    PROVE  /\ a \notin Deleted
           /\ \A d \in wan[a].deps : /\ d[1] \in Assets /\ d[1] \notin Deleted
                                     /\ wan[d[1]].rev = d[2]
<1>1. wan[a].deps \subseteq Processes \X Nat
  BY DEF WanType, Pins
<1>2. \A d \in wan[a].deps : d[1] \in Assets
  BY <1>1 DEF Assets
<1> QED
  BY <1>2 DEF Deliverable, Packable, Deleted

\* A factory that starts in step with the WAN has all there is.
LEMMA InitCovered == DeliveryInit /\ clean => CleanInv
<1> SUFFICES ASSUME DeliveryInit, clean PROVE CleanInv
  OBVIOUS
<1>0. /\ wan = [a \in Assets |-> StartRow(a)]
      /\ tpl = [t \in Templates |-> [rev |-> 2, text |-> MaxChanges + 1]]
      /\ owed = {} /\ queue = <<>> /\ hand = Nothing /\ round = NoRound
      /\ rows = {[id |-> a, rev |-> 1, status |-> "available", deps |-> wan[a].deps] : a \in Assets}
      /\ tplRows = {[id |-> t, rev |-> 2, text |-> MaxChanges + 1] : t \in Templates}
      /\ retracted = {} /\ retired = {} /\ due = {}
  BY DEF DeliveryInit
<1>1. \A a \in Assets : wan[a].rev = 1 /\ wan[a].status = "available"
  BY <1>0 DEF StartRow
<1>2. Quiet /\ HandFresh
  <2>1. round.at = "idle" /\ round.hand = Nothing /\ round.todo = <<>> /\ Nothing.typ = "none"
    BY <1>0 DEF NoRound, Nothing
  <2>2. owed = {} /\ queue = <<>> /\ hand = Nothing /\ due = {}
    BY <1>0
  <2>3. Quiet
    BY <2>1, <2>2 DEF Quiet
  <2>4. HandFresh
    BY <2>1 DEF HandFresh
  <2> QED
    BY <2>3, <2>4
<1>3. \A a \in Assets : \E r \in rows : r.id = a /\ r.rev = 1 /\ r.deps = wan[a].deps
  <2> TAKE a \in Assets
  <2> DEFINE row == [id |-> a, rev |-> 1, status |-> "available", deps |-> wan[a].deps]
  <2>1. row \in rows /\ row.id = a /\ row.rev = 1 /\ row.deps = wan[a].deps
    BY <1>0
  <2> HIDE DEF row
  <2> QED
    BY <2>1
<1>4. AssetsCovered
  <2> SUFFICES ASSUME NEW a \in Assets PROVE Present(a)
    BY DEF AssetsCovered
  <2>1. PICK r \in rows : r.id = a /\ r.rev = 1 /\ r.deps = wan[a].deps
    BY <1>3
  <2>2. ASSUME NEW d \in wan[a].deps PROVE RowOf(d[1], d[2]) # {}
    <3>1. d[1] \in Assets /\ d[2] = 1
      BY <1>0, <2>2 DEF StartRow, Assets
    <3> QED
      BY <1>3, <3>1 DEF RowOf
  <2> QED
    BY <1>1, <2>1, <2>2 DEF Present, DepsHere
<1>5. RetractionsCovered
  BY <1>1 DEF RetractionsCovered, Deleted
<1>6. Live = Templates
  BY <1>0 DEF Live
<1>7. TemplatesCovered
  <2> SUFFICES ASSUME NEW t \in Templates PROVE TemplateHere(t)
    BY <1>6 DEF TemplatesCovered
  <2> DEFINE row == [id |-> t, rev |-> 2, text |-> MaxChanges + 1]
  <2>1. row \in tplRows /\ row.id = t /\ row.rev = 2 /\ tpl[t].rev = 2
    BY <1>0
  <2> HIDE DEF row
  <2> QED
    BY <2>1 DEF TemplateHere
<1>8. SetCovered
  BY <1>0, <1>6 DEF SetCovered, RetiredExactly, Templates
<1> QED
  BY <1>2, <1>4, <1>5, <1>7, <1>8 DEF CleanInv, Covered

\* A clean state comes from a full round that begins with nothing under way,
\* or from a clean state by a step of the round that fails nowhere.
LEMMA CleanSteps ==
    ASSUME DType, clean => Quiet, DeliveryNext, clean'
    PROVE  \/ RoundBegins
           \/ clean /\ (RestOfIndex \/ RoundTakes \/ RoundApplies \/ RoundEnds)
<1>1. ~AssetChange
  BY DEF AssetChange, UpdateAssetRow, Disable, Reenable, Delete, SetDeps, Mutate, Change
<1>2. ~TemplateChange
  BY DEF TemplateChange, CreateProjectTemplate, UpdateProjectTemplate, UpdateTemplate,
         DeleteProjectTemplate, AnnounceTemplate, Change
<1>3. ~NewSession
  BY DEF NewSession
<1>4. ~Publish
  <2> SUFFICES ASSUME Publish PROVE FALSE
    OBVIOUS
  <2>1. clean' = clean /\ owed # {}
    BY DEF Publish
  <2> QED
    BY <2>1 DEF Quiet
<1>5. \A cmd, held, held2 : Fetch(cmd, held, held2) => clean' = clean
  BY DEF Fetch, Failed, Rejected
<1>6. \A h : Apply(h) => clean' = clean
  BY DEF Apply, Failed, Rejected
<1>7. ~Main
  <2>1. ASSUME MainTakes PROVE FALSE
    <3>1. clean' = clean /\ queue # <<>>
      BY <1>5, <2>1 DEF MainTakes
    <3> QED
      BY <3>1 DEF Quiet
  <2>2. ASSUME MainApplies PROVE FALSE
    <3>1. clean' = clean /\ hand # Nothing
      BY <1>6, <2>2 DEF MainApplies
    <3> QED
      BY <3>1 DEF Quiet
  <2> QED
    BY <2>1, <2>2 DEF Main
<1>8. RestOfIndex \/ RoundTakes \/ RoundApplies \/ RoundEnds => clean' = clean
  BY <1>5, <1>6 DEF RestOfIndex, RoundTakes, RoundApplies, RoundEnds
<1> QED
  BY <1>1, <1>2, <1>3, <1>4, <1>7, <1>8 DEF DeliveryNext, Rounds

\* The first half of the index names every closure there is to have.
LEMMA BeginCovers == ASSUME DType, RoundBegins, clean' PROVE CleanInv'
<1>1. PICK k \in due :
      /\ due' = IF k = "full" THEN {} ELSE due \ {k}
      /\ round' = [NoRound EXCEPT !.at = k, !.todo = PackAvailable(k)]
      /\ Grant(OfKind(k))
      /\ clean' = (k = "full" /\ owed = {} /\ queue = <<>> /\ hand = Nothing)
      /\ UNCHANGED <<wan, tpl, owed, queue, hand, factory, changes, faults>>
  BY DEF RoundBegins
<1>2. k = "full" /\ owed = {} /\ queue = <<>> /\ hand = Nothing /\ due' = {}
  BY <1>1
<1>3. round' = [at |-> "full", todo |-> PackAvailable("full"), hand |-> Nothing]
  BY <1>1, <1>2 DEF NoRound
<1>4. Quiet'
  <2>1. round'.at = "full" /\ round'.hand = Nothing
    BY <1>3
  <2>2. owed' = {} /\ queue' = <<>> /\ hand' = Nothing
    BY <1>1, <1>2
  <2> QED
    BY <1>2, <2>1, <2>2 DEF Quiet, Nothing
<1>5. HandFresh'
  <2> DEFINE s == PackAvailable("full")
             C == {ClosureCmd(a) : a \in Assets}
  <2>1. s \in Seq(C)
    BY PackLists
  <2>2. \A c \in C : c.typ = "closure"
    BY DEF ClosureCmd
  <2> HIDE DEF s, C
  <2>3. \A i \in 1..Len(s) : s[i].typ # "set"
    BY <2>1, <2>2
  <2>4. round'.todo = s /\ round'.hand.typ = "none"
    BY <1>3 DEF Nothing, s
  <2> QED
    BY <2>3, <2>4 DEF HandFresh
<1>6. AssetsCovered'
  <2> SUFFICES ASSUME NEW a \in Assets, Deliverable(a)'
      PROVE  Pending(ClosureCmd(a))'
    BY DEF AssetsCovered
  <2>1. Deliverable(a) /\ ClosureCmd(a)' = ClosureCmd(a)
    BY <1>1, SameView
  <2>2. a \in OfKind("full")
    BY DEF OfKind
  <2>3. Listed(PackAvailable("full"), ClosureCmd(a))
    BY <2>1, <2>2, PackLists
  <2> QED
    BY <1>3, <2>1, <2>3 DEF Pending, Listed
<1> QED
  BY <1>3, <1>4, <1>5, <1>6 DEF CleanInv, Covered

\* The rest of the index names every template, the set and every retraction.
LEMMA RestCovers == ASSUME DType, CleanInv, RestOfIndex PROVE CleanInv'
<1>1. round.at = "full" /\ round.hand = Nothing
  BY DEF CleanInv, Quiet, RestOfIndex
<1> DEFINE X == {x \in Live : "full" \in {"full", KindOf(x)}}
           s == SetToSeq({TemplateCmd(t) : t \in X})
           set == <<TemplateSetCmd>>
           rest == round.todo
           all == rest \o (s \o set) \o Retractions
<1>2. UNCHANGED <<wanvars, owed, queue, hand, factory, due, changes, faults, clean, rejected>>
  BY DEF RestOfIndex
<1>3. X = Live
  OBVIOUS
<1>4. TemplatesOfIndex("full") = s \o set
  BY DEF TemplatesOfIndex
<1>5. round' = [round EXCEPT !.at = "apply", !.todo = @ \o TemplatesOfIndex("full") \o Retractions]
  BY <1>1 DEF RestOfIndex
<1>6. round' = [at |-> "apply", todo |-> all, hand |-> Nothing]
  BY <1>1, <1>4, <1>5 DEF DType, WayType
<1>7. s \in Seq(Cmds) /\ set \in Seq(Cmds) /\ Retractions \in Seq(Cmds) /\ rest \in Seq(Cmds)
  BY ListTypes DEF DType, WayType
<1>8. \A t \in Live : Listed(s, TemplateCmd(t))
  BY <1>3, TemplatesLists
<1>9. Listed(set, TemplateSetCmd)
  BY DEF Listed
<1>10. \A a \in Deleted : Listed(Retractions, RetractCmd(a))
  BY RetractionsLists
<1>11. \A i \in 1..Len(s) : s[i].typ # "set"
  <2> DEFINE C == {TemplateCmd(t) : t \in Live}
  <2>1. s \in Seq(C)
    BY <1>3, TemplatesLists
  <2>2. \A c \in C : c.typ = "template"
    BY DEF TemplateCmd
  <2> HIDE DEF s, C
  <2> QED
    BY <2>1, <2>2
<1>12. \A i \in 1..Len(Retractions) : Retractions[i].typ # "set"
  <2> DEFINE C == {RetractCmd(a) : a \in Deleted}
  <2>1. Retractions \in Seq(C)
    BY RetractionsLists
  <2>2. \A c \in C : c.typ = "retract"
    BY DEF RetractCmd
  <2> HIDE DEF C
  <2> QED
    BY <2>1, <2>2
<1>13. \A i \in 1..Len(set) : set[i] = TemplateSetCmd
  OBVIOUS
<1> HIDE DEF s, set, all, rest
<1>14. s \o set \in Seq(Cmds) /\ rest \o (s \o set) \in Seq(Cmds)
  BY <1>7, ConcatKeeps
<1>15. /\ \A x : Listed(rest, x) \/ Listed(s, x) \/ Listed(set, x) \/ Listed(Retractions, x)
                  => Listed(all, x)
  <2>1. \A x : Listed(s, x) \/ Listed(set, x) => Listed(s \o set, x)
    BY <1>7, ConcatKeeps
  <2>2. \A x : Listed(rest, x) \/ Listed(s \o set, x) => Listed(rest \o (s \o set), x)
    BY <1>7, <1>14, ConcatKeeps
  <2>3. \A x : Listed(rest \o (s \o set), x) \/ Listed(Retractions, x) => Listed(all, x)
    BY <1>7, <1>14, ConcatKeeps DEF all
  <2> QED
    BY <2>1, <2>2, <2>3
<1>16. \A i \in 1..Len(all) : all[i].typ = "set" => all[i] = TemplateSetCmd
  <2>1. \A i \in 1..Len(s \o set) : (s \o set)[i].typ = "set" => (s \o set)[i] = TemplateSetCmd
    BY <1>7, <1>11, <1>13, ConcatKeeps
  <2>2. \A i \in 1..Len(rest) : rest[i].typ = "set" => rest[i] = TemplateSetCmd
    BY DEF CleanInv, HandFresh, rest
  <2> DEFINE front == rest \o (s \o set)
  <2>3. \A i \in 1..Len(front) : front[i].typ = "set" => front[i] = TemplateSetCmd
    <3> DEFINE index == s \o set
    <3>1. index \in Seq(Cmds) /\ front = rest \o index
          /\ \A i \in 1..Len(index) : index[i].typ = "set" => index[i] = TemplateSetCmd
      BY <1>14, <2>1
    <3> HIDE DEF index, front
    <3> QED
      BY <1>7, <2>2, <3>1, ConcatKeeps
  <2>4. front \in Seq(Cmds) /\ all = front \o Retractions
    BY <1>14 DEF all
  <2> HIDE DEF front
  <2> QED
    BY <1>7, <1>12, <2>3, <2>4, ConcatKeeps
<1>17. /\ \A a \in Assets : /\ Deliverable(a)' <=> Deliverable(a)
                            /\ Closure(a)' = Closure(a) /\ ClosureCmd(a)' = ClosureCmd(a)
       /\ Live' = Live /\ Deleted' = Deleted /\ TemplateSetCmd' = TemplateSetCmd
       /\ \A t \in Templates : TemplateCmd(t)' = TemplateCmd(t)
  BY <1>2, SameView DEF wanvars
<1>18. \A x : Pending(x)' <=> Listed(all, x)
  BY <1>6 DEF Pending, Listed
<1>19. Quiet'
  BY <1>2, <1>6 DEF CleanInv, Quiet, Nothing
<1>20. HandFresh'
  <2>1. round'.todo = all /\ round'.hand.typ = "none"
    BY <1>6 DEF Nothing
  <2> QED
    BY <1>16, <1>17, <2>1 DEF HandFresh
<1>21. AssetsCovered'
  <2> SUFFICES ASSUME NEW a \in Assets, Deliverable(a)'
      PROVE  Present(a)' \/ Pending(ClosureCmd(a))'
    BY DEF AssetsCovered
  <2>1. Present(a) \/ Listed(rest, ClosureCmd(a))
    BY <1>1, <1>17 DEF CleanInv, Covered, AssetsCovered, Pending, InHand, Nothing, rest
  <2>2. Present(a)' <=> Present(a)
    BY <1>2 DEF Present, DepsHere, RowOf, wanvars, factory
  <2> QED
    BY <1>15, <1>17, <1>18, <2>1, <2>2
<1>22. RetractionsCovered'
  BY <1>10, <1>15, <1>17, <1>18 DEF RetractionsCovered, RetractCmd
<1>23. TemplatesCovered'
  BY <1>8, <1>15, <1>17, <1>18 DEF TemplatesCovered, Live
<1>24. SetCovered'
  BY <1>9, <1>15, <1>17, <1>18 DEF SetCovered
<1> QED
  BY <1>19, <1>20, <1>21, <1>22, <1>23, <1>24 DEF CleanInv, Covered

\* A command taken is in the hand, with what the WAN has now, or its effect is there.
LEMMA TakeCovers == ASSUME DType, CleanInv, RoundTakes, clean' PROVE CleanInv'
<1> DEFINE rest == round.todo
           cmd == Head(rest)
<1>1. round.at = "apply" /\ round.hand = Nothing /\ rest # <<>>
  BY DEF RoundTakes
<1>2. PICK h \in {Nothing, Carry(cmd, Body(cmd))} :
        Fetch(cmd, Nothing, h) /\ round' = [round EXCEPT !.todo = Tail(@), !.hand = h]
  BY DEF RoundTakes
<1>3. UNCHANGED <<wan, tpl, owed, queue, hand, factory, changes>>
  BY DEF RoundTakes
<1>4. rest \in Seq(Cmds) /\ round \in [at : {"idle", "full", "process", "project", "apply"},
                                       todo : Seq(Cmds), hand : Hands]
  BY DEF DType, WayType
<1>5. round' = [at |-> "apply", todo |-> Tail(rest), hand |-> h]
  BY <1>1, <1>2, <1>4
<1>6. /\ cmd \in Cmds /\ Tail(rest) \in Seq(Cmds)
      /\ \A x : Listed(rest, x) => x = cmd \/ Listed(Tail(rest), x)
      /\ \A i \in 1..Len(Tail(rest)) : i + 1 \in 1..Len(rest) /\ Tail(rest)[i] = rest[i + 1]
  BY <1>1, <1>4, TailKeeps
<1>7. /\ UNCHANGED due
      /\ UNCHANGED granted \/ \E as : Grant(as)
      /\ \/ (Pulled(cmd) => Body(cmd) # <<>>) /\ ~AlreadyHas(cmd) /\ h = Carry(cmd, Body(cmd))
         \/ AlreadyHas(cmd) /\ h = Nothing
  <2>1. ~Failed(cmd) /\ ~Rejected(cmd, Body(cmd))
    BY DEF Failed, Rejected
  <2> QED
    BY <1>2, <2>1 DEF Fetch, GrantAsked
<1>8. /\ \A a \in Assets : /\ Deliverable(a)' <=> Deliverable(a)
                           /\ Closure(a)' = Closure(a) /\ ClosureCmd(a)' = ClosureCmd(a)
      /\ Live' = Live /\ Deleted' = Deleted /\ TemplateSetCmd' = TemplateSetCmd
      /\ \A t \in Templates : /\ TemplateCmd(t)' = TemplateCmd(t)
                              /\ TemplateBody(t)' = TemplateBody(t)
  BY <1>3, <1>7, SameView
<1>9. cmd = rest[1] /\ 1 \in 1..Len(rest)
  BY <1>1, <1>4
<1>10. h.typ = "none" \/ (h.typ = cmd.typ /\ h.cmd = cmd /\ h.body = Body(cmd)
                            /\ (Pulled(cmd) => Body(cmd) # <<>>) /\ ~AlreadyHas(cmd))
  BY <1>7 DEF Carry, Nothing
<1>11. AlreadyHas(cmd) \/ (h.typ = cmd.typ /\ h.cmd = cmd)
  BY <1>7 DEF Carry
<1>12. \A x : Pending(x) => x = cmd \/ Pending(x)'
  <2>1. \A x : Pending(x)' <=> Listed(Tail(rest), x)
    BY <1>5 DEF Pending, Listed
  <2> QED
    BY <1>6, <2>1 DEF Pending
<1>13. \A typ, id : ~InHand(typ, id) \/ typ = "none"
  BY <1>1 DEF InHand, Nothing
<1>14. \A typ, id : InHand(typ, id)' <=> h.typ = typ /\ h.cmd.id = id
  BY <1>5 DEF InHand
<1> HIDE DEF rest, cmd
<1>15. Quiet'
  BY <1>3, <1>5, <1>7 DEF CleanInv, Quiet
<1>16. HandFresh'
  <2>0. round'.hand = h /\ round'.todo = Tail(rest)
    BY <1>5
  <2>1. ASSUME h.typ = "closure" PROVE Deliverable(h.cmd.id)' /\ h.body = Closure(h.cmd.id)'
    <3>1. cmd.typ = "closure" /\ h.cmd = cmd /\ h.body = Body(cmd) /\ Body(cmd) # <<>>
      BY <1>10, <2>1 DEF Pulled
    <3>2. cmd.id \in Assets
      BY <1>6, <3>1 DEF Cmds, ClosureCmds, TemplateCmds, SetCmds, RetractCmds
    <3>3. Deliverable(cmd.id) /\ Body(cmd) = Closure(cmd.id)
      BY <3>1 DEF Body
    <3> QED
      BY <1>8, <3>1, <3>2, <3>3
  <2>2. ASSUME h.typ = "template" PROVE h.cmd.id \in Live' /\ h.body = TemplateBody(h.cmd.id)'
    <3>1. cmd.typ = "template" /\ h.cmd = cmd /\ h.body = Body(cmd) /\ Body(cmd) # <<>>
      BY <1>10, <2>2 DEF Pulled
    <3>2. cmd.id \in Templates
      BY <1>6, <3>1 DEF Cmds, ClosureCmds, TemplateCmds, SetCmds, RetractCmds
    <3>3. Body(cmd) = TemplateBody(cmd.id)
      BY <3>1 DEF Body
    <3>4. tpl[cmd.id].rev # 0 /\ tpl[cmd.id].rev \in Nat
      BY <3>1, <3>2, <3>3 DEF TemplateBody, DType, WanType
    <3>5. cmd.id \in Live
      BY <3>2, <3>4 DEF Live
    <3> QED
      BY <1>8, <3>1, <3>2, <3>3, <3>5
  <2>3. \A i \in 1..Len(rest) : rest[i].typ = "set" => rest[i] = TemplateSetCmd
    BY DEF CleanInv, HandFresh, rest
  <2>4. h.typ = "set" => h.cmd = TemplateSetCmd
    BY <1>9, <1>10, <2>3
  <2>5. \A i \in 1..Len(Tail(rest)) :
            Tail(rest)[i].typ = "set" => Tail(rest)[i] = TemplateSetCmd
    BY <1>6, <2>3
  <2> QED
    BY <1>8, <2>0, <2>1, <2>2, <2>4, <2>5 DEF HandFresh
<1>17. AssetsCovered'
  <2> SUFFICES ASSUME NEW a \in Assets, Deliverable(a)'
      PROVE  Present(a)' \/ Pending(ClosureCmd(a))' \/ InHand("closure", a)'
    BY <1>8 DEF AssetsCovered
  <2>1. Present(a) \/ Pending(ClosureCmd(a))
    BY <1>8, <1>13 DEF CleanInv, Covered, AssetsCovered
  <2>2. Present(a)' <=> Present(a)
    BY <1>3 DEF Present, DepsHere, RowOf, factory
  <2>3. ASSUME cmd = ClosureCmd(a) PROVE Present(a) \/ InHand("closure", a)'
    <3>1. cmd.typ = "closure" /\ cmd.id = a /\ cmd.rev = wan[a].rev
      BY <2>3 DEF ClosureCmd
    <3>2. AlreadyHas(cmd) => Present(a)
      BY <3>1 DEF AlreadyHas, HasPlatformDelivery, RowOf, Present
    <3> QED
      BY <1>11, <1>14, <3>1, <3>2
  <2> QED
    BY <1>8, <1>12, <2>1, <2>2, <2>3
<1>18. RetractionsCovered'
  <2> SUFFICES ASSUME NEW a \in Deleted
      PROVE  Shown(a)' = {} \/ Pending(RetractCmd(a))' \/ InHand("retract", a)'
    BY <1>8 DEF RetractionsCovered, RetractCmd
  <2>1. Shown(a) = {} \/ Pending(RetractCmd(a))
    BY <1>1, <1>13 DEF CleanInv, Covered, RetractionsCovered
  <2>2. Shown(a)' = Shown(a)
    BY <1>3 DEF Shown, factory
  <2>3. ASSUME cmd = RetractCmd(a) PROVE InHand("retract", a)'
    <3>1. cmd.typ = "retract" /\ cmd.id = a
      BY <2>3 DEF RetractCmd
    <3>2. ~AlreadyHas(cmd)
      BY <3>1 DEF AlreadyHas
    <3> QED
      BY <1>11, <1>14, <3>1, <3>2
  <2> QED
    BY <1>12, <2>1, <2>2, <2>3
<1>19. TemplatesCovered'
  <2> SUFFICES ASSUME NEW t \in Live
      PROVE  TemplateHere(t)' \/ Pending(TemplateCmd(t))' \/ InHand("template", t)'
    BY <1>8 DEF TemplatesCovered
  <2>0. t \in Templates
    BY DEF Live
  <2>1. TemplateHere(t) \/ Pending(TemplateCmd(t))
    BY <1>1, <1>13 DEF CleanInv, Covered, TemplatesCovered
  <2>2. TemplateHere(t)' <=> TemplateHere(t)
    BY <1>3 DEF TemplateHere, factory
  <2>3. ASSUME cmd = TemplateCmd(t) PROVE TemplateHere(t) \/ InHand("template", t)'
    <3>1. cmd.typ = "template" /\ cmd.id = t /\ cmd.rev = tpl[t].rev
      BY <2>3 DEF TemplateCmd
    <3>2. AlreadyHas(cmd) => TemplateHere(t)
      BY <3>1 DEF AlreadyHas, HasTemplateDelivery, TemplateHere
    <3> QED
      BY <1>11, <1>14, <3>1, <3>2
  <2> QED
    BY <1>8, <1>12, <2>0, <2>1, <2>2, <2>3
<1>20. SetCovered'
  <2>1. RetiredExactly \/ Pending(TemplateSetCmd)
    BY <1>1 DEF CleanInv, Covered, SetCovered, Nothing
  <2>2. RetiredExactly' <=> RetiredExactly
    BY <1>3, <1>8 DEF RetiredExactly, factory
  <2>3. ASSUME cmd = TemplateSetCmd PROVE round'.hand.typ = "set"
    <3>1. cmd.typ = "set"
      BY <2>3 DEF TemplateSetCmd
    <3>2. ~AlreadyHas(cmd)
      BY <3>1 DEF AlreadyHas
    <3> QED
      BY <1>5, <1>11, <3>1, <3>2
  <2> QED
    BY <1>8, <1>12, <2>1, <2>2, <2>3 DEF SetCovered
<1> QED
  BY <1>15, <1>16, <1>17, <1>18, <1>19, <1>20 DEF CleanInv, Covered

\* Where nothing fails, applying does all of it.
LEMMA ApplyClean ==
    ASSUME DType, NEW h \in Hands, h # Nothing, Apply(h), clean'
    PROVE  /\ UNCHANGED due
           /\ \/ h \in ClosureHands /\ AcceptPlatformDelivery(h.body)
              \/ h \in TemplateHands /\ AcceptTemplateDelivery(h.body[1])
              \/ h \in SetHands /\ SyncTemplateSet(h.cmd.keep)
              \/ h \in RetractHands /\ RetractPlatformDelivery(h.cmd.id)
<1>1. ~Failed(h.cmd) /\ ~Rejected(h.cmd, h.body)
  BY DEF Failed, Rejected
<1>2. /\ CASE h.typ = "closure" -> AcceptPlatformDelivery(h.body)
           [] h.typ = "template" -> AcceptTemplateDelivery(h.body[1])
           [] h.typ = "set" -> SyncTemplateSet(h.cmd.keep)
           [] h.typ = "retract" -> RetractPlatformDelivery(h.cmd.id)
      /\ UNCHANGED <<due, faults, clean, rejected>>
  BY <1>1 DEF Apply
<1>3. CASE h \in ClosureHands
  BY <1>2, <1>3 DEF ClosureHands
<1>4. CASE h \in TemplateHands
  BY <1>2, <1>4 DEF TemplateHands
<1>5. CASE h \in SetHands
  BY <1>2, <1>5 DEF SetHands
<1>6. CASE h \in RetractHands
  BY <1>2, <1>6 DEF RetractHands
<1> QED
  BY <1>3, <1>4, <1>5, <1>6 DEF Hands

\* A body applied is the WAN's, so what it was to bring is there, and what it
\* brings besides was not deleted.
LEMMA ApplyCovers == ASSUME DType, CleanInv, RoundApplies, clean' PROVE CleanInv'
<1> DEFINE h == round.hand
<1>1. h # Nothing /\ Apply(h) /\ round' = [round EXCEPT !.hand = Nothing]
      /\ UNCHANGED <<wanvars, owed, queue, hand, changes>>
  BY DEF RoundApplies
<1>2. round.at = "apply"
  BY <1>1 DEF CleanInv, Quiet
<1>3. h \in Hands
  BY DEF DType, WayType
<1>4. round' = [at |-> "apply", todo |-> round.todo, hand |-> Nothing]
  BY <1>1, <1>2 DEF DType, WayType
<1>5. /\ \A a \in Assets : /\ Deliverable(a)' <=> Deliverable(a)
                           /\ Closure(a)' = Closure(a) /\ ClosureCmd(a)' = ClosureCmd(a)
      /\ Live' = Live /\ Deleted' = Deleted /\ TemplateSetCmd' = TemplateSetCmd
      /\ \A t \in Templates : TemplateCmd(t)' = TemplateCmd(t)
  BY <1>1, SameView DEF wanvars
<1>6. \A x : Pending(x)' <=> Pending(x)
  BY <1>4 DEF Pending, Listed
<1>7. /\ AssetsCovered /\ RetractionsCovered /\ TemplatesCovered /\ SetCovered
      /\ HandFresh
  BY <1>2 DEF CleanInv, Covered
<1>8. /\ UNCHANGED due
      /\ \/ h \in ClosureHands /\ AcceptPlatformDelivery(h.body)
         \/ h \in TemplateHands /\ AcceptTemplateDelivery(h.body[1])
         \/ h \in SetHands /\ SyncTemplateSet(h.cmd.keep)
         \/ h \in RetractHands /\ RetractPlatformDelivery(h.cmd.id)
  BY <1>1, <1>3, ApplyClean
<1>9. \A typ, id : InHand(typ, id) <=> h.typ = typ /\ h.cmd.id = id
  BY DEF InHand
<1>10. /\ h.typ = "closure" => Deliverable(h.cmd.id) /\ h.body = Closure(h.cmd.id)
       /\ h.typ = "template" => h.cmd.id \in Live /\ h.body = TemplateBody(h.cmd.id)
       /\ h.typ = "set" => h.cmd = TemplateSetCmd
  BY <1>7 DEF HandFresh
<1> HIDE DEF h
<1>11. Quiet'
  BY <1>1, <1>4, <1>8 DEF CleanInv, Quiet
<1>12. HandFresh'
  <2>1. round'.todo = round.todo /\ round'.hand.typ = "none"
    BY <1>4 DEF Nothing
  <2> QED
    BY <1>5, <1>7, <2>1 DEF HandFresh
<1>13. wan' = wan /\ tpl' = tpl
  BY <1>1 DEF wanvars
\* What was there stays, while rows are only added.
<1>14. ASSUME NEW a \in Assets, Present(a), rows \subseteq rows' PROVE Present(a)'
  <2>1. PICK r \in rows : r.id = a /\ r.rev = wan[a].rev /\ DepsHere(r)
    BY <1>14 DEF Present
  <2>2. DepsHere(r)'
    BY <1>14, <2>1 DEF DepsHere, RowOf
  <2> QED
    BY <1>13, <1>14, <2>1, <2>2 DEF Present
<1>15. ASSUME NEW a \in Assets, Deliverable(a)', h.typ # "closure" \/ h.cmd.id # a, rows \subseteq rows'
       PROVE  Present(a)' \/ Pending(ClosureCmd(a))'
  <2>1. Present(a) \/ Pending(ClosureCmd(a))
    BY <1>5, <1>7, <1>9, <1>15 DEF AssetsCovered
  <2> QED
    BY <1>5, <1>6, <1>14, <1>15, <2>1
<1>16. ASSUME NEW a \in Deleted, h.typ # "retract" \/ h.cmd.id # a, Shown(a)' \subseteq Shown(a)
       PROVE  Shown(a)' = {} \/ Pending(RetractCmd(a))'
  BY <1>6, <1>7, <1>9, <1>16 DEF RetractionsCovered
<1>17. ASSUME NEW t \in Live, h.typ # "template" \/ h.cmd.id # t, tplRows \subseteq tplRows'
       PROVE  TemplateHere(t)' \/ Pending(TemplateCmd(t))'
  <2>1. TemplateHere(t) \/ Pending(TemplateCmd(t))
    BY <1>7, <1>9, <1>17 DEF TemplatesCovered
  <2>2. TemplateHere(t) => TemplateHere(t)'
    BY <1>13, <1>17 DEF TemplateHere
  <2>3. TemplateCmd(t)' = TemplateCmd(t)
    BY <1>5 DEF Live
  <2> QED
    BY <1>6, <2>1, <2>2, <2>3
<1>18. ASSUME \A a \in Assets : Deliverable(a)' => Present(a)' \/ Pending(ClosureCmd(a))',
              \A a \in Deleted : Shown(a)' = {} \/ Pending(RetractCmd(a))',
              \A t \in Live : TemplateHere(t)' \/ Pending(TemplateCmd(t))',
              RetiredExactly' \/ Pending(TemplateSetCmd)'
       PROVE  CleanInv'
  <2>1. AssetsCovered'
    BY <1>18 DEF AssetsCovered
  <2>2. RetractionsCovered'
    BY <1>5, <1>18 DEF RetractionsCovered, RetractCmd
  <2>3. TemplatesCovered'
    BY <1>5, <1>18 DEF TemplatesCovered
  <2>4. SetCovered'
    BY <1>18 DEF SetCovered
  <2> QED
    BY <1>11, <1>12, <2>1, <2>2, <2>3, <2>4 DEF CleanInv, Covered
<1>19. RetiredExactly /\ UNCHANGED <<tplRows, retired>> => RetiredExactly'
  BY <1>5 DEF RetiredExactly
<1>20. h.typ # "set" => RetiredExactly \/ Pending(TemplateSetCmd)
  BY <1>7 DEF SetCovered, h
<1>21. CASE h \in ClosureHands /\ AcceptPlatformDelivery(h.body)
  <2> DEFINE new == Members(h.body, Len(h.body))
  <2>0. h.typ = "closure" /\ h.cmd.id \in Assets
    BY <1>21 DEF ClosureHands, ClosureCmds
  <2>1. PICK a0 \in Assets : h.typ = "closure" /\ h.cmd.id = a0
    BY <2>0
  <2>2. Deliverable(a0) /\ h.body = Closure(a0)
    BY <1>10, <2>1
  <2>3. /\ ReplicaOf(a0) \in new
        /\ \A d \in wan[a0].deps : ReplicaOf(d[1]) \in new
        /\ \A r \in new : r = ReplicaOf(a0) \/ \E d \in wan[a0].deps : r = ReplicaOf(d[1])
    BY <2>1, <2>2, ClosureLists DEF DType
  <2>4. /\ a0 \notin Deleted
        /\ \A d \in wan[a0].deps : /\ d[1] \in Assets /\ d[1] \notin Deleted
                                   /\ wan[d[1]].rev = d[2]
    BY <2>1, <2>2, DeliverableIsThere DEF DType
  <2>5. rows' = rows \cup new /\ UNCHANGED <<retracted, tplRows, retired>>
    BY <1>21 DEF AcceptPlatformDelivery
  <2> HIDE DEF new
  <2>6. \A b : /\ ReplicaOf(b).id = b /\ ReplicaOf(b).rev = wan[b].rev
               /\ ReplicaOf(b).deps = wan[b].deps
    BY DEF ReplicaOf
  <2>7. Present(a0)'
    <3>1. \A d \in wan[a0].deps : RowOf(d[1], d[2])' # {}
      <4> TAKE d \in wan[a0].deps
      <4>1. ReplicaOf(d[1]) \in rows' /\ ReplicaOf(d[1]).id = d[1] /\ ReplicaOf(d[1]).rev = d[2]
        BY <2>3, <2>4, <2>5, <2>6
      <4> QED
        BY <4>1 DEF RowOf
    <3>2. DepsHere(ReplicaOf(a0))'
      <4>1. (ReplicaOf(a0).deps)' = wan[a0].deps
        BY <1>13, <2>6 DEF ReplicaOf
      <4> QED
        BY <3>1, <4>1 DEF DepsHere
    <3>3. ReplicaOf(a0)' = ReplicaOf(a0)
      BY <1>13 DEF ReplicaOf
    <3> QED
      BY <1>13, <2>3, <2>5, <2>6, <3>2, <3>3 DEF Present
  <2>8. \A a \in Deleted : Shown(a)' \subseteq Shown(a)
    <3>1. \A r \in new : r.id \notin Deleted
      BY <2>3, <2>4, <2>6
    <3> QED
      BY <2>5, <3>1 DEF Shown
  <2>9. \A a \in Assets : Deliverable(a)' => Present(a)' \/ Pending(ClosureCmd(a))'
    <3> TAKE a \in Assets
    <3>1. CASE a = a0
      BY <2>7, <3>1
    <3>2. CASE a # a0
      BY <1>15, <2>1, <2>5, <3>2
    <3> QED
      BY <3>1, <3>2
  <2>10. \A a \in Deleted : Shown(a)' = {} \/ Pending(RetractCmd(a))'
    BY <1>16, <2>1, <2>8
  <2>11. \A t \in Live : TemplateHere(t)' \/ Pending(TemplateCmd(t))'
    BY <1>17, <2>1, <2>5
  <2>12. RetiredExactly' \/ Pending(TemplateSetCmd)'
    BY <1>5, <1>6, <1>19, <1>20, <2>1, <2>5
  <2> QED
    BY <1>18, <2>9, <2>10, <2>11, <2>12
<1>22. CASE h \in TemplateHands /\ AcceptTemplateDelivery(h.body[1])
  <2>0. h.typ = "template" /\ h.cmd.id \in Templates
    BY <1>22 DEF TemplateHands, TemplateCmds
  <2>1. PICK t0 \in Templates : h.typ = "template" /\ h.cmd.id = t0
    BY <2>0
  <2> DEFINE body == [id |-> t0, rev |-> tpl[t0].rev, text |-> tpl[t0].text]
  <2>2. t0 \in Live /\ h.body = TemplateBody(t0)
    BY <1>10, <2>1
  <2>3. h.body[1] = body
    <3>1. tpl[t0].rev # 0
      BY <2>2 DEF Live, DType, WanType
    <3>2. h.body = <<body>>
      BY <2>2, <3>1 DEF TemplateBody
    <3> QED
      BY <3>2
  <2>4. PICK row : row = body /\ row.id = t0 /\ row.rev = tpl[t0].rev
    <3>1. body.id = t0 /\ body.rev = tpl[t0].rev
      OBVIOUS
    <3> HIDE DEF body
    <3> QED
      BY <3>1
  <2>5. tplRows' = tplRows \cup {row} /\ UNCHANGED <<rows, retracted, retired>>
    BY <1>22, <2>3, <2>4 DEF AcceptTemplateDelivery, InsertTemplateReplica
  <2> HIDE DEF body
  <2>6. TemplateHere(t0)'
    BY <1>13, <2>4, <2>5 DEF TemplateHere
  <2>7. RetiredExactly => RetiredExactly'
    <3>1. row.id \notin ProjectTemplates \ Live
      BY <2>2, <2>4
    <3>2. retired \subseteq tplRows
      BY DEF DType, FactoryType
    <3> QED
      BY <1>5, <2>5, <3>1, <3>2 DEF RetiredExactly
  <2>8. \A a \in Assets : Deliverable(a)' => Present(a)' \/ Pending(ClosureCmd(a))'
    BY <1>15, <2>1, <2>5
  <2>9. \A a \in Deleted : Shown(a)' = {} \/ Pending(RetractCmd(a))'
    <3>1. \A a \in Deleted : Shown(a)' = Shown(a)
      BY <2>5 DEF Shown
    <3> QED
      BY <1>16, <2>1, <3>1
  <2>10. \A t \in Live : TemplateHere(t)' \/ Pending(TemplateCmd(t))'
    <3> TAKE t \in Live
    <3>1. CASE t = t0
      BY <2>6, <3>1
    <3>2. CASE t # t0
      BY <1>17, <2>1, <2>5, <3>2
    <3> QED
      BY <3>1, <3>2
  <2>11. RetiredExactly' \/ Pending(TemplateSetCmd)'
    BY <1>5, <1>6, <1>20, <2>1, <2>7
  <2> QED
    BY <1>18, <2>8, <2>9, <2>10, <2>11
<1>23. CASE h \in SetHands /\ SyncTemplateSet(h.cmd.keep)
  <2>1. h.typ = "set"
    BY <1>23 DEF SetHands
  <2>2. h.cmd.keep = Live \cap ProjectTemplates
    BY <1>10, <2>1 DEF TemplateSetCmd
  <2>3. retired' = Retire(h.cmd.keep) /\ UNCHANGED <<rows, retracted, tplRows>>
    BY <1>23 DEF SyncTemplateSet
  <2>4. RetiredExactly'
    BY <1>5, <2>2, <2>3 DEF RetiredExactly, Retire
  <2>5. \A a \in Assets : Deliverable(a)' => Present(a)' \/ Pending(ClosureCmd(a))'
    BY <1>15, <2>1, <2>3
  <2>6. \A a \in Deleted : Shown(a)' = {} \/ Pending(RetractCmd(a))'
    <3>1. \A a \in Deleted : Shown(a)' = Shown(a)
      BY <2>3 DEF Shown
    <3> QED
      BY <1>16, <2>1, <3>1
  <2>7. \A t \in Live : TemplateHere(t)' \/ Pending(TemplateCmd(t))'
    BY <1>17, <2>1, <2>3
  <2> QED
    BY <1>18, <2>4, <2>5, <2>6, <2>7
<1>24. CASE h \in RetractHands /\ RetractPlatformDelivery(h.cmd.id)
  <2>1. h.typ = "retract"
    BY <1>24 DEF RetractHands
  <2>2. /\ retracted' = retracted \cup {r \in rows : r.id = h.cmd.id}
        /\ UNCHANGED <<rows, tplRows, retired>>
    BY <1>24 DEF RetractPlatformDelivery
  <2>3. \A a \in Assets : Deliverable(a)' => Present(a)' \/ Pending(ClosureCmd(a))'
    BY <1>15, <2>1, <2>2
  <2>4. \A a \in Deleted : Shown(a)' = {} \/ Pending(RetractCmd(a))'
    <3> TAKE a \in Deleted
    <3>1. CASE a = h.cmd.id
      BY <2>2, <3>1 DEF Shown
    <3>2. CASE a # h.cmd.id
      <4>1. Shown(a)' \subseteq Shown(a)
        BY <2>2 DEF Shown
      <4> QED
        BY <1>16, <3>2, <4>1
    <3> QED
      BY <3>1, <3>2
  <2>5. \A t \in Live : TemplateHere(t)' \/ Pending(TemplateCmd(t))'
    BY <1>17, <2>1, <2>2
  <2>6. RetiredExactly' \/ Pending(TemplateSetCmd)'
    BY <1>5, <1>6, <1>19, <1>20, <2>1, <2>2
  <2> QED
    BY <1>18, <2>3, <2>4, <2>5, <2>6
<1> QED
  BY <1>8, <1>21, <1>22, <1>23, <1>24

\* A round that ends has nothing left to do, so all of it is there.
LEMMA EndCovers == ASSUME DType, CleanInv, RoundEnds PROVE CleanInv'
<1>1. round.at = "apply" /\ round.hand = Nothing /\ round.todo = <<>> /\ round' = NoRound
      /\ UNCHANGED <<wanvars, owed, queue, hand, factory, due, changes, faults, clean, rejected>>
  BY DEF RoundEnds
<1>2. NoRound.at = "idle" /\ NoRound.hand = Nothing /\ NoRound.todo = <<>> /\ Nothing.typ = "none"
  BY DEF NoRound, Nothing
<1>3. \A x : ~Pending(x)
  BY <1>1 DEF Pending, Listed
<1>4. \A typ, id : InHand(typ, id) => typ = "none"
  BY <1>1, <1>2 DEF InHand
<1>5. /\ \A a \in Assets : Deliverable(a) => Present(a)
      /\ \A a \in Deleted : Shown(a) = {}
      /\ \A t \in Live : TemplateHere(t)
      /\ RetiredExactly
  <2>1. AssetsCovered /\ RetractionsCovered /\ TemplatesCovered /\ SetCovered
    BY <1>1 DEF CleanInv, Covered
  <2>2. \A a \in Assets : Deliverable(a) => Present(a)
    BY <1>3, <1>4, <2>1 DEF AssetsCovered
  <2>3. \A a \in Deleted : Shown(a) = {}
    BY <1>3, <1>4, <2>1 DEF RetractionsCovered
  <2>4. \A t \in Live : TemplateHere(t)
    BY <1>3, <1>4, <2>1 DEF TemplatesCovered
  <2>5. RetiredExactly
    BY <1>1, <1>2, <1>3, <2>1 DEF SetCovered
  <2> QED
    BY <2>2, <2>3, <2>4, <2>5
<1>6. /\ \A a \in Assets : Deliverable(a)' <=> Deliverable(a)
      /\ Live' = Live /\ Deleted' = Deleted
  BY <1>1, SameView DEF wanvars
<1>7. AssetsCovered'
  <2>1. \A a \in Assets : Present(a)' <=> Present(a)
    BY <1>1 DEF Present, DepsHere, RowOf, wanvars, factory
  <2> QED
    BY <1>5, <1>6, <2>1 DEF AssetsCovered
<1>8. RetractionsCovered'
  <2>1. \A a \in Assets : Shown(a)' = Shown(a)
    BY <1>1 DEF Shown, factory
  <2> QED
    BY <1>5, <1>6, <2>1 DEF RetractionsCovered, Deleted
<1>9. TemplatesCovered'
  <2>1. \A t \in Templates : TemplateHere(t)' <=> TemplateHere(t)
    BY <1>1 DEF TemplateHere, wanvars, factory
  <2> QED
    BY <1>5, <1>6, <2>1 DEF TemplatesCovered, Live
<1>10. SetCovered'
  <2>1. RetiredExactly' <=> RetiredExactly
    BY <1>1, <1>6 DEF RetiredExactly, factory
  <2> QED
    BY <1>5, <2>1 DEF SetCovered
<1>11. Quiet'
  BY <1>1, <1>2 DEF CleanInv, Quiet
<1>12. HandFresh'
  BY <1>1, <1>2 DEF HandFresh
<1> QED
  BY <1>7, <1>8, <1>9, <1>10, <1>11, <1>12 DEF CleanInv, Covered

\* Every step keeps the invariant.
LEMMA DeliveryStep == DInv /\ [DeliveryNext]_dvars => DInv'
<1> SUFFICES ASSUME DInv, [DeliveryNext]_dvars PROVE DInv'
  OBVIOUS
<1>1. DType' /\ DueType'
  BY TypesStep DEF DInv
<1>2. clean => CleanInv
  BY DEF DInv
<1>3. ASSUME DeliveryNext, clean' PROVE CleanInv'
  <2>1. \/ RoundBegins
        \/ clean /\ (RestOfIndex \/ RoundTakes \/ RoundApplies \/ RoundEnds)
    BY <1>2, <1>3, CleanSteps DEF DInv, CleanInv
  <2> QED
    BY <1>2, <1>3, <2>1, BeginCovers, RestCovers, TakeCovers, ApplyCovers, EndCovers DEF DInv
<1>4. ASSUME UNCHANGED dvars, clean' PROVE CleanInv'
  <2>1. CleanInv /\ UNCHANGED <<wan, tpl, granted, owed, queue, hand, round, due>> /\ UNCHANGED factory
    BY <1>2, <1>4 DEF dvars, wanvars
  <2>2. /\ \A a \in Assets : /\ Deliverable(a)' <=> Deliverable(a)
                             /\ Closure(a)' = Closure(a) /\ ClosureCmd(a)' = ClosureCmd(a)
        /\ Live' = Live /\ Deleted' = Deleted /\ TemplateSetCmd' = TemplateSetCmd
        /\ \A t \in Templates : /\ TemplateCmd(t)' = TemplateCmd(t)
                                /\ TemplateBody(t)' = TemplateBody(t)
    BY <2>1, SameView
  <2>3. (\A x : Pending(x)' <=> Pending(x)) /\ (\A typ, id : InHand(typ, id)' <=> InHand(typ, id))
    BY <2>1 DEF Pending, Listed, InHand
  <2>4. Quiet'
    BY <2>1 DEF CleanInv, Quiet
  <2>5. HandFresh'
    <3>1. round.hand \in Hands
      BY DEF DInv, DType, WayType
    <3>2. round.hand.typ = "closure" => round.hand.cmd.id \in Assets
      BY <3>1 DEF Hands, ClosureHands, ClosureCmds, TemplateHands, SetHands, RetractHands, Nothing
    <3>3. round.hand.typ = "template" => round.hand.cmd.id \in Templates
      BY <2>1 DEF CleanInv, HandFresh, Live
    <3> QED
      BY <2>1, <2>2, <3>2, <3>3 DEF CleanInv, HandFresh
  <2>6. AssetsCovered'
    <3>1. \A a \in Assets : Present(a)' <=> Present(a)
      BY <2>1 DEF Present, DepsHere, RowOf, factory
    <3> QED
      BY <2>1, <2>2, <2>3, <3>1 DEF CleanInv, Covered, AssetsCovered
  <2>7. round.at # "full" => RetractionsCovered'
    <3>1. \A a \in Assets : Shown(a)' = Shown(a)
      BY <2>1 DEF Shown, factory
    <3> QED
      BY <2>1, <2>2, <2>3, <3>1 DEF CleanInv, Covered, RetractionsCovered, Deleted, RetractCmd
  <2>8. round.at # "full" => TemplatesCovered'
    <3>1. \A t \in Templates : TemplateHere(t)' <=> TemplateHere(t)
      BY <2>1 DEF TemplateHere, factory
    <3> QED
      BY <2>1, <2>2, <2>3, <3>1 DEF CleanInv, Covered, TemplatesCovered, Live
  <2>9. round.at # "full" => SetCovered'
    <3>1. RetiredExactly' <=> RetiredExactly
      BY <2>1, <2>2 DEF RetiredExactly, factory
    <3> QED
      BY <2>1, <2>2, <2>3, <3>1 DEF CleanInv, Covered, SetCovered
  <2> QED
    BY <2>1, <2>4, <2>5, <2>6, <2>7, <2>8, <2>9 DEF CleanInv, Covered
<1> QED
  BY <1>1, <1>3, <1>4 DEF DInv, CleanInv

\* A replica of the WAN's revision is the one shown, where nothing was deleted.
LEMMA PresentIsDelivered ==
    ASSUME DType, NEW a \in Assets, a \notin Deleted, Present(a) PROVE Delivered(a)
<1>1. PICK r \in rows : r.id = a /\ r.rev = wan[a].rev /\ DepsHere(r)
  BY DEF Present
<1>2. r \notin retracted
  BY <1>1 DEF DType, FactoryType
<1>3. \A s \in Shown(a) : s.rev <= r.rev
  BY <1>1 DEF Shown, DType, FactoryType, Seen
<1>4. r \in LatestReplica(a)
  BY <1>1, <1>2, <1>3 DEF LatestReplica, Shown
<1> QED
  BY <1>1, <1>4 DEF Delivered

\* At rest after such a round, the factory is as the WAN is.
LEMMA CoveredMirrors == DInv => RoundMirrors
<1> SUFFICES ASSUME DInv, clean, round.at = "idle"
    PROVE  /\ \A a \in Assets : Deliverable(a) => Delivered(a)
           /\ \A a \in Assets : wan[a].status = "deleted" => Shown(a) = {}
           /\ {t \in Templates : LatestTemplate(t) # {}} = Live
  BY DEF RoundMirrors
<1>1. round.hand = Nothing /\ round.todo = <<>> /\ Nothing.typ = "none"
  BY DEF DInv, CleanInv, Quiet, Nothing
<1>2. \A x : ~Pending(x)
  BY <1>1 DEF Pending, Listed
<1>3. \A typ, id : InHand(typ, id) => typ = "none"
  BY <1>1 DEF InHand
<1>4. AssetsCovered /\ RetractionsCovered /\ TemplatesCovered /\ SetCovered
  BY DEF DInv, CleanInv, Covered
<1>5. ASSUME NEW a \in Assets, Deliverable(a) PROVE Delivered(a)
  <2>1. Present(a)
    BY <1>2, <1>3, <1>4, <1>5 DEF AssetsCovered
  <2>2. a \notin Deleted
    BY <1>5, DeliverableIsThere DEF DInv, DType
  <2> QED
    BY <2>1, <2>2, PresentIsDelivered DEF DInv
<1>6. \A a \in Assets : wan[a].status = "deleted" => Shown(a) = {}
  BY <1>2, <1>3, <1>4 DEF RetractionsCovered, Deleted
<1>7. RetiredExactly
  BY <1>1, <1>2, <1>4 DEF SetCovered
<1>8. tplRows \subseteq TemplateReplica /\ IsFiniteSet(tplRows)
  BY DEF DInv, DType, FactoryType
<1>9. ASSUME NEW t \in Live PROVE LatestTemplate(t) # {}
  <2> DEFINE S == {r \in tplRows \ retired : r.id = t}
  <2>1. TemplateHere(t)
    BY <1>2, <1>3, <1>4 DEF TemplatesCovered
  <2>2. S # {}
    BY <1>7, <2>1 DEF TemplateHere, RetiredExactly
  <2>3. S \in SUBSET TemplateReplica /\ IsFiniteSet(S)
    BY <1>8, FS_Subset
  <2>4. S \subseteq tplRows \ retired /\ (\A r \in S : r.id = t)
        /\ \A s \in tplRows \ retired : s.id = t => s \in S
    OBVIOUS
  <2> HIDE DEF S
  <2>5. PICK r \in S : \A s \in S : s.rev <= r.rev
    BY <2>2, <2>3, HighestExists
  <2>6. r \in LatestTemplate(t)
    BY <2>4, <2>5 DEF LatestTemplate
  <2> QED
    BY <2>6
<1>10. ASSUME NEW t \in Templates, LatestTemplate(t) # {} PROVE t \in Live
  <2>1. PICK r \in tplRows \ retired : r.id = t
    BY <1>10 DEF LatestTemplate
  <2>2. t \notin ProjectTemplates \ Live
    BY <1>7, <2>1 DEF RetiredExactly
  <2>3. t \in ProcessTemplates => t \in Live
    BY <1>10 DEF Live, DInv, DType, WanType
  <2> QED
    BY <1>10, <2>2, <2>3 DEF Templates
<1>11. {t \in Templates : LatestTemplate(t) # {}} = Live
  BY <1>9, <1>10 DEF Live
<1> QED
  BY <1>5, <1>6, <1>11

\* RoundMirrors is an invariant for every set of assets and templates, every
\* bound on revisions, changes and faults: a full round in which nothing
\* failed leaves the factory with what the WAN has, however the main loop,
\* the publications and earlier rounds were interleaved before it.
THEOREM FullRoundMirrors == DeliverySpec => []RoundMirrors
<1>1. DeliveryInit => DInv
  <2>1. DeliveryInit => DueType
    BY DEF DeliveryInit, DueType
  <2> QED
    BY <2>1, InitTypes, InitCovered DEF DInv, CleanInv
<1>2. DInv /\ [DeliveryNext]_dvars => DInv'
  BY DeliveryStep
<1>3. DInv => RoundMirrors
  BY CoveredMirrors
<1> QED
  BY <1>1, <1>2, <1>3, PTL DEF DeliverySpec
=============================================================================
