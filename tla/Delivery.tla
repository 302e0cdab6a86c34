------------------------------ MODULE Delivery ------------------------------
(***************************************************************************)
(* How platform assets and content templates reach one active factory.     *)
(* The WAN commits a change and then publishes small commands; the factory *)
(* pulls the body of a command over HTTPS, outside its apply mutex, and    *)
(* applies it under the mutex.  Two workers do so: the main loop, from the *)
(* queue of the session, and the background rounds, from an index of all   *)
(* that the factory should have.  A failure marks the kind for another     *)
(* round, unless it is taken for bad content, which is only logged; a new  *)
(* session starts from a full round.                                       *)
(***************************************************************************)
EXTENDS Naturals, FiniteSets, SequencesExt

CONSTANTS Processes, Projects,  \* platform assets
          ProcessTemplates,     \* the template of processes: it may only be rewritten
          ProjectTemplates,     \* templates of projects
          Seeds,                \* those that may be created again under their id
          MaxRev,               \* bound: revision of an asset or a template
          MaxChanges,           \* bound: changes on the WAN
          MaxFaults             \* bound: lost sessions, failed pulls and applies

Templates == ProcessTemplates \cup ProjectTemplates

ASSUME SeedsAreTemplates == Seeds \subseteq ProjectTemplates

\* The WAN's tables are finite, and an asset or a template is of one kind.
ASSUME FiniteTables ==
    /\ IsFiniteSet(Processes \cup Projects) /\ IsFiniteSet(Templates)
    /\ Processes \cap Projects = {} /\ ProcessTemplates \cap ProjectTemplates = {}

ASSUME Bounds == MaxRev \in Nat /\ MaxChanges \in Nat /\ MaxFaults \in Nat

VARIABLES wan,          \* the WAN's rows of the assets
          granted,      \* assets with an active grant for this factory
          tpl,          \* the WAN's rows of the templates; revision 0: no row
          owed,         \* commands of changes committed and not yet published
          queue,        \* commands of the session
          hand,         \* command and body the main loop holds
          round,        \* the round in progress
          rows,         \* replicas of assets at the factory
          retracted,    \* those marked retracted
          tplRows,      \* replicas of templates at the factory
          retired,      \* those marked retired
          due,          \* dirtySet: what another round is due for
          changes, faults,
          clean,        \* history: the last full round saw all there was to see
          rejected      \* history: closures taken for bad content since a round of
                        \* their kind began, with their revision

wanvars == <<wan, granted, tpl>>
factory == <<rows, retracted, tplRows, retired>>
dvars == <<wanvars, owed, queue, hand, round, factory, due, changes, faults, clean,
           rejected>>

Assets == Processes \cup Projects
Nothing == [typ |-> "none"]
NoRound == [at |-> "idle", todo |-> <<>>, hand |-> Nothing]
KindOf(id) == IF id \in Processes \cup ProcessTemplates THEN "process" ELSE "project"

-----------------------------------------------------------------------------
(* The WAN                                                                 *)

\* The factory is new to the WAN, or has all the WAN has after some editing.
StartRow(a) == [rev |-> 1, status |-> "available",
                deps |-> IF a \in Projects THEN {<<p, 1>> : p \in Processes} ELSE {}]

DeliveryInit == \E inSync \in BOOLEAN :
    /\ wan = [a \in Assets |-> StartRow(a)]
    /\ tpl = [t \in Templates |-> IF inSync THEN [rev |-> 2, text |-> MaxChanges + 1]
                                             ELSE [rev |-> 1, text |-> 0]]
    /\ owed = {} /\ queue = <<>> /\ hand = Nothing /\ round = NoRound
    /\ rows = IF inSync THEN {[id |-> a, rev |-> 1, status |-> "available",
                               deps |-> wan[a].deps] : a \in Assets} ELSE {}
    /\ tplRows = IF inSync THEN {[id |-> t, rev |-> 2, text |-> MaxChanges + 1] : t \in Templates}
                           ELSE {}
    /\ granted = IF inSync THEN Assets ELSE {}
    /\ retracted = {} /\ retired = {}
    /\ due = IF inSync THEN {} ELSE {"full"}
    /\ changes = 0 /\ faults = 0 /\ clean = inSync /\ rejected = {}

\* packPlatform: every pinned process must still be at the pinned revision.
Packable(a) ==
    \A d \in wan[a].deps : wan[d[1]].status # "deleted" /\ wan[d[1]].rev = d[2]

\* packOneForFactory: an available asset grants itself, a disabled one only
\* goes where a grant is.
Deliverable(a) ==
    /\ wan[a].status = "available" \/ (wan[a].status = "disabled" /\ a \in granted)
    /\ Packable(a)

\* UpsertFactoryGrant, before it is known whether the asset can be packed.
Grant(as) == granted' = granted \cup {a \in as : wan[a].status = "available"}

ReplicaOf(a) == [id |-> a, rev |-> wan[a].rev, status |-> wan[a].status, deps |-> wan[a].deps]

\* The sealed closure: the root first, then the processes it pins.
Closure(a) == <<ReplicaOf(a)>> \o SetToSeq({ReplicaOf(d[1]) : d \in wan[a].deps})

ClosureCmd(a) == [typ |-> "closure", id |-> a, rev |-> wan[a].rev]
TemplateCmd(t) == [typ |-> "template", id |-> t, rev |-> tpl[t].rev]
Live == {t \in Templates : tpl[t].rev > 0}

Change(call) ==
    /\ changes < MaxChanges /\ changes' = changes + 1
    /\ clean' = FALSE
    /\ owed' = owed \cup {call}
    /\ UNCHANGED <<queue, hand, round, factory, due, faults, rejected>>

\* mutatePlatform and SetPlatformProjectDeps: one more revision, then the
\* closure is announced.
Mutate(a, row) ==
    /\ wan[a].rev < MaxRev
    /\ wan' = [wan EXCEPT ![a] = [row EXCEPT !.rev = @ + 1]]
    /\ Change(<<[typ |-> "closure", id |-> a, rev |-> wan[a].rev + 1]>>)
    /\ UNCHANGED <<granted, tpl>>

UpdateAssetRow(a) == wan[a].status = "available" /\ Mutate(a, wan[a])
Disable(a) == wan[a].status = "available" /\ Mutate(a, [wan[a] EXCEPT !.status = "disabled"])
Reenable(a) == wan[a].status = "disabled" /\ Mutate(a, [wan[a] EXCEPT !.status = "available"])

SetDeps(q, ps) ==
    /\ wan[q].status = "available"
    /\ \A p \in ps : wan[p].status = "available"
    /\ Mutate(q, [wan[q] EXCEPT !.deps = {<<p, wan[p].rev>> : p \in ps}])

\* DeleteAssetAndRetract: never while a project pins it; the grants go too.
Delete(a) ==
    /\ wan[a].status # "deleted"
    /\ \A q \in Projects : wan[q].status # "deleted" => \A d \in wan[q].deps : d[1] # a
    /\ wan' = [wan EXCEPT ![a].status = "deleted"]
    /\ granted' = granted \ {a}
    /\ Change(<<[typ |-> "retract", id |-> a]>>)
    /\ UNCHANGED tpl

AnnounceTemplate(t, rev) ==
    Change(<<[typ |-> "template", id |-> t, rev |-> rev]>>) /\ UNCHANGED <<wan, granted>>

\* CreateProjectTemplate under the id of a seed that has no row any more.
InsertTemplate(t) ==
    tpl[t].rev = 0 /\ tpl' = [tpl EXCEPT ![t] = [rev |-> 1, text |-> 0]]

CreateProjectTemplate(t) == t \in Seeds /\ InsertTemplate(t) /\ AnnounceTemplate(t, 1)

\* The store goes by the revision the caller expects; another text makes another one.
PutTemplate(t) ==
    /\ tpl[t].rev \in 1..(MaxRev - 1)
    /\ tpl' = [tpl EXCEPT ![t] = [rev |-> @.rev + 1, text |-> changes + 1]]

UpdateProjectTemplate(t) ==
    t \in ProjectTemplates /\ PutTemplate(t) /\ AnnounceTemplate(t, tpl[t].rev + 1)

\* UpdateTemplate, of the template of processes.
UpdateTemplate(t) ==
    t \in ProcessTemplates /\ PutTemplate(t) /\ AnnounceTemplate(t, tpl[t].rev + 1)

\* DeleteProjectTemplate; what remains is read afterwards.
RemoveTemplate(t) ==
    tpl[t].rev > 0 /\ tpl' = [tpl EXCEPT ![t] = [rev |-> 0, text |-> 0]]

DeleteProjectTemplate(t) ==
    /\ t \in ProjectTemplates /\ RemoveTemplate(t)
    /\ Change(<<[typ |-> "remaining"]>>)
    /\ UNCHANGED <<wan, granted>>

\* templateSetCmd: all project templates there are.
TemplateSetCmd == [typ |-> "set", keep |-> Live \cap ProjectTemplates]

RemainingCmds ==
    Append(SetToSeq({TemplateCmd(t) : t \in Live}), TemplateSetCmd)

\* publishActive, one command after the other; notifyRemainingTemplates
\* reads the templates first.
Publish == \E call \in owed :
    /\ IF Head(call).typ = "remaining"
       THEN owed' = (owed \ {call}) \cup {RemainingCmds} /\ UNCHANGED queue
       ELSE /\ owed' = (owed \ {call}) \cup ({Tail(call)} \ {<<>>})
            /\ queue' = Append(queue, Head(call))
    /\ UNCHANGED <<wanvars, hand, round, factory, due, changes, faults, clean, rejected>>

-----------------------------------------------------------------------------
(* The factory                                                             *)

RowOf(id, rev) == {r \in rows : r.id = id /\ r.rev = rev}
Shown(id) == {r \in rows \ retracted : r.id = id}
LatestReplica(id) == {r \in Shown(id) : \A s \in Shown(id) : s.rev <= r.rev}
LatestTemplate(id) ==
    {r \in tplRows \ retired : r.id = id /\ \A s \in tplRows \ retired : s.id = id => s.rev <= r.rev}

DepsHere(r) == \A d \in r.deps : RowOf(d[1], d[2]) # {}

HasPlatformDelivery(id, rev) ==
    \E r \in RowOf(id, rev) \ retracted : DepsHere(r)

HasTemplateDelivery(id, rev) == \E r \in tplRows : r.id = id /\ r.rev = rev

AlreadyHas(cmd) ==
    CASE cmd.typ = "closure" -> HasPlatformDelivery(cmd.id, cmd.rev)
      [] cmd.typ = "template" -> HasTemplateDelivery(cmd.id, cmd.rev)
      [] OTHER -> FALSE

\* SnapshotForFactory: none of a template that is gone.
TemplateBody(t) ==
    IF tpl[t].rev = 0 THEN <<>> ELSE <<[id |-> t, rev |-> tpl[t].rev, text |-> tpl[t].text]>>

\* The body as the WAN has it now, not as it was when announced.
Body(cmd) ==
    CASE cmd.typ = "closure" -> IF Deliverable(cmd.id) THEN Closure(cmd.id) ELSE <<>>
      [] cmd.typ = "template" -> TemplateBody(cmd.id)
      [] OTHER -> <<>>

MarkOf(cmd) ==
    CASE cmd.typ \in {"closure", "template"} -> KindOf(cmd.id)
      [] cmd.typ = "set" -> "project"
      [] OTHER -> "full"

\* Mutated form: logged, and no more.
FailedLogged(cmd) == UNCHANGED <<due, rejected>> /\ clean' = FALSE

\* dirtySet.failed: the kind is due for another round.
Failed(cmd) == due' = due \cup {MarkOf(cmd)} /\ clean' = FALSE /\ UNCHANGED rejected

\* The same, of an error taken for bad content (contentRejected): a 403, a body
\* that cannot be verified, an asset code or a revision in use.  No mark is left.
Rejected(cmd, body) ==
    /\ cmd.typ \in {"closure", "template"} /\ body # <<>>
    /\ rejected' = rejected \cup (({cmd.id} \cap Assets) \X {body[1].rev})
    /\ clean' = FALSE /\ UNCHANGED due

Carry(cmd, body) == [typ |-> cmd.typ, cmd |-> cmd, body |-> body]
Fault == faults < MaxFaults /\ faults' = faults + 1

Pulled(cmd) == cmd.typ \in {"closure", "template"} /\ ~AlreadyHas(cmd)

\* PackAssetForFactory: what is asked for is granted to this factory.
GrantAsked(cmd) == Grant(IF cmd.typ = "closure" THEN {cmd.id} ELSE {})

\* fetchBody: drops what is here already, marks what cannot be pulled.
Fetch(cmd, held, held2) ==
    \/ /\ Pulled(cmd) => Body(cmd) # <<>>
       /\ ~AlreadyHas(cmd)
       /\ held2 = Carry(cmd, Body(cmd)) /\ GrantAsked(cmd)
       /\ UNCHANGED <<due, faults, clean, rejected>>
    \/ /\ AlreadyHas(cmd)
       /\ held2 = held /\ UNCHANGED <<granted, due, faults, clean, rejected>>
    \/ /\ Pulled(cmd)
       /\ \/ Body(cmd) = <<>> /\ GrantAsked(cmd) /\ UNCHANGED faults /\ Failed(cmd)
          \/ /\ Body(cmd) # <<>> /\ Fault /\ UNCHANGED granted
             /\ Failed(cmd) \/ Rejected(cmd, Body(cmd))
       /\ held2 = held

Members(body, n) == {body[i] : i \in 1..n}

\* validateClosure: the root, then exactly what it pins.
ValidClosure(body) ==
    {<<r.id, r.rev>> : r \in Members(body, Len(body)) \ {body[1]}} = body[1].deps

AcceptPlatformDelivery(body) ==
    /\ ValidClosure(body)
    /\ rows' = rows \cup Members(body, Len(body))
    /\ UNCHANGED <<retracted, tplRows, retired>>

\* A closure is written member by member, then placed in the tree of folders: a
\* failure leaves the members before it.
AcceptInPart(body) ==
    /\ \E n \in 0..Len(body) : rows' = rows \cup Members(body, n)
    /\ UNCHANGED <<retracted, tplRows, retired>>

RetractPlatformDelivery(id) ==
    /\ retracted' = retracted \cup {r \in rows : r.id = id}
    /\ UNCHANGED <<rows, tplRows, retired>>

\* Another text under a revision that is here.
Conflicts(t) == \E r \in tplRows : r.id = t.id /\ r.rev = t.rev /\ r # t

InsertTemplateReplica(t) == ~Conflicts(t) /\ tplRows' = tplRows \cup {t}

AcceptTemplateDelivery(t) ==
    InsertTemplateReplica(t) /\ UNCHANGED <<rows, retracted, retired>>

\* SyncTemplateReplicas: of project templates only.
Retire(keep) == {r \in tplRows : r.id \in ProjectTemplates \ keep}

SyncTemplateSet(keep) == retired' = Retire(keep) /\ UNCHANGED <<rows, retracted, tplRows>>

\* applyCmd, under the mutex.
Apply(h) ==
    \/ /\ CASE h.typ = "closure" -> AcceptPlatformDelivery(h.body)
            [] h.typ = "template" -> AcceptTemplateDelivery(h.body[1])
            [] h.typ = "set" -> SyncTemplateSet(h.cmd.keep)
            [] h.typ = "retract" -> RetractPlatformDelivery(h.cmd.id)
       /\ UNCHANGED <<due, faults, clean, rejected>>
    \/ /\ Fault
       /\ Failed(h.cmd) \/ Rejected(h.cmd, h.body)
       /\ IF h.typ = "closure" THEN AcceptInPart(h.body) ELSE UNCHANGED factory
    \/ /\ h.typ = "template" /\ Conflicts(h.body[1])
       /\ Rejected(h.cmd, h.body) /\ UNCHANGED <<factory, faults>>

MainTakes ==
    /\ hand = Nothing /\ queue # <<>>
    /\ Fetch(Head(queue), hand, hand')
    /\ queue' = Tail(queue)
    /\ UNCHANGED <<wan, tpl, owed, round, factory, changes>>

MainApplies ==
    /\ hand # Nothing /\ Apply(hand) /\ hand' = Nothing
    /\ UNCHANGED <<wanvars, owed, queue, round, changes>>

\* packAvailable: every available asset of the kind is granted, whatever can be packed
\* is listed.
OfKind(k) == {a \in Assets : k \in {"full", KindOf(a)}}
PackAvailable(k) == SetToSeq({ClosureCmd(a) : a \in {b \in OfKind(k) : Deliverable(b)}})

\* indexForFactory: assets first, what else there is later.
RoundBegins == \E k \in due :
    /\ round.at = "idle"
    /\ k = "full" \/ "full" \notin due
    /\ due' = IF k = "full" THEN {} ELSE due \ {k}
    /\ rejected' = {x \in rejected : x[1] \notin OfKind(k)}
    /\ round' = [NoRound EXCEPT !.at = k, !.todo = PackAvailable(k)]
    /\ Grant(OfKind(k))
    /\ clean' = (k = "full" /\ owed = {} /\ queue = <<>> /\ hand = Nothing)
    /\ UNCHANGED <<wan, tpl, owed, queue, hand, factory, changes, faults>>

\* Mutated form: the index only names what there is.
NoRetractions == <<>>

Retractions == SetToSeq({[typ |-> "retract", id |-> a] : a \in {b \in Assets : wan[b].status = "deleted"}})

\* SnapshotsForFactory: the templates of the kind, and the set of project templates.
TemplatesOfIndex(k) ==
    SetToSeq({TemplateCmd(t) : t \in {x \in Live : k \in {"full", KindOf(x)}}})
    \o (IF k = "process" THEN <<>> ELSE <<TemplateSetCmd>>)

RestOfIndex ==
    /\ round.at \in {"full", "process", "project"}
    /\ round' = [round EXCEPT
                   !.at = "apply",
                   !.todo = @ \o TemplatesOfIndex(round.at)
                              \o (IF round.at = "full" THEN Retractions ELSE <<>>)]
    /\ UNCHANGED <<wanvars, owed, queue, hand, factory, due, changes, faults, clean, rejected>>

RoundTakes ==
    /\ round.at = "apply" /\ round.hand = Nothing /\ round.todo # <<>>
    /\ \E h \in {Nothing, Carry(Head(round.todo), Body(Head(round.todo)))} :
         /\ Fetch(Head(round.todo), Nothing, h)
         /\ round' = [round EXCEPT !.todo = Tail(@), !.hand = h]
    /\ UNCHANGED <<wan, tpl, owed, queue, hand, factory, changes>>

RoundApplies ==
    /\ round.hand # Nothing /\ Apply(round.hand)
    /\ round' = [round EXCEPT !.hand = Nothing]
    /\ UNCHANGED <<wanvars, owed, queue, hand, changes>>

RoundEnds ==
    /\ round.at = "apply" /\ round.hand = Nothing /\ round.todo = <<>>
    /\ round' = NoRound
    /\ UNCHANGED <<wanvars, owed, queue, hand, factory, due, changes, faults, clean, rejected>>

\* The session is lost and dialled again: the queue is gone, a full round is due.
NewSession ==
    /\ Fault
    /\ queue' = <<>> /\ hand' = Nothing /\ round' = NoRound
    /\ due' = {"full"} /\ clean' = FALSE
    /\ UNCHANGED <<wanvars, owed, factory, changes, rejected>>

Main == MainTakes \/ MainApplies
Rounds == RoundBegins \/ RestOfIndex \/ RoundTakes \/ RoundApplies \/ RoundEnds

AssetChange == \E a \in Assets :
    UpdateAssetRow(a) \/ Disable(a) \/ Reenable(a) \/ Delete(a)
        \/ (a \in Projects /\ \E ps \in SUBSET Processes : SetDeps(a, ps))

TemplateChange == \E t \in Templates :
    \/ CreateProjectTemplate(t) \/ UpdateProjectTemplate(t) \/ DeleteProjectTemplate(t)
    \/ UpdateTemplate(t)

DeliveryNext == AssetChange \/ TemplateChange \/ Publish \/ Main \/ Rounds \/ NewSession

DeliverySpec == DeliveryInit /\ [][DeliveryNext]_dvars
                /\ WF_dvars(Publish) /\ WF_dvars(Main) /\ WF_dvars(Rounds)

-----------------------------------------------------------------------------
(* Properties                                                              *)

Delivered(a) == \E r \in LatestReplica(a) : r.rev = wan[a].rev /\ DepsHere(r)

\* A full round that began after the last change, with no command under way,
\* and in which nothing failed, leaves the factory as the WAN is: every
\* asset that can be packed is shown at its revision with all it pins, none
\* that was deleted is shown, and exactly the WAN's templates are listed.
\* (fetchBody skips what is here, the two workers apply out of order, and a
\* failed closure leaves its first members.)
RoundMirrors ==
    clean /\ round.at = "idle" =>
        /\ \A a \in Assets : Deliverable(a) => Delivered(a)
        /\ \A a \in Assets : wan[a].status = "deleted" => Shown(a) = {}
        /\ {t \in Templates : LatestTemplate(t) # {}} = Live

\* When the WAN comes to rest, every asset that can be packed is in the end
\* at the factory, at its revision and with the processes it pins: through
\* lost sessions, failed pulls and closures that were written in part.  The one
\* exception is a revision taken for bad content, until a round tries it again.
AssetsArrive == <>[](\A a \in Assets :
    Deliverable(a) => Delivered(a) \/ <<a, wan[a].rev>> \in rejected)

\* hold.go:531 holds that what contentRejected names is bad content, which another
\* pull would find as bad.  A 403, an asset code that a local asset has, and a
\* folder that cannot be placed are among it and pass; nothing tries again then
\* until a round is due for another reason.
EveryAssetArrives == <>[](\A a \in Assets : Deliverable(a) => Delivered(a))

\* docs/specs/04 (frozen design, line 73) says a disabled revision is sent on
\* by the channel to the factories that have a grant.  It is not when a
\* process the project pins has moved on: the closure cannot be packed, and
\* the factory goes on offering the project.
DisabledReaches ==
    clean /\ round.at = "idle" =>
        \A a \in granted : wan[a].status = "disabled" =>
            \A r \in LatestReplica(a) : r.status = "disabled"

\* What the code does not promise, each with a short counterexample: that a
\* retracted asset stays away (a closure fetched before the deletion may be
\* applied after the retraction, until the next full round); that a project
\* shown has all it pins (a closure written in part cannot be completed once
\* the WAN cannot pack it); and that the templates listed are the WAN's, text
\* for text (a seed created again starts at revision 1, and the factory goes
\* by the highest revision it ever received).
RetractedStays ==
    [][\A a \in Assets : Shown(a) = {} /\ (\E r \in retracted : r.id = a) => Shown(a)' = {}]_dvars

ShownComplete ==
    clean /\ round.at = "idle" => \A a \in Assets : \A r \in LatestReplica(a) : DepsHere(r)

TemplatesAgree ==
    clean /\ round.at = "idle" =>
        \A t \in Live : \A r \in LatestTemplate(t) : r.text = tpl[t].text
=============================================================================
