---------------------------- MODULE ContentLease ----------------------------
(***************************************************************************)
(* How a factory keeps bodies of assets sealed: the WAN issues a lease key *)
(* per factory and renews it (store/lease.go); the factory wraps its own   *)
(* master key in the lease key, keeps both in memory only while the lease  *)
(* lasts, and seals every body with the master key, its identity and its   *)
(* revision (store/crypt.go).  Edits that leave the body alone go on while *)
(* no lease is held, so a body may stay sealed for an older revision.      *)
(***************************************************************************)
EXTENDS Naturals

CONSTANTS Bodies,       \* assets with a body
          MaxSeal,      \* bound: revisions of an asset
          MaxIssues,    \* bound: leases issued
          MaxStarts     \* bound: restarts of the factory

NoKey == 0

VARIABLES lk,           \* content_leases.lease_key at the WAN
          answers,      \* leases on their way to the factory
          master,       \* content_master: the lease key it is wrapped in, the master key
          held,         \* keys in memory: lease key and master key
          body,         \* per asset: revision, key and revision it is sealed with
          scan,         \* left-over plain text: rows read to be sealed
          issues, starts

lvars == <<lk, answers, master, held, body, scan, issues, starts>>

NoMaster == [l |-> NoKey, mk |-> NoKey]
Nothing == [l |-> NoKey, mk |-> NoKey]
NoScan == [on |-> FALSE, done |-> FALSE, rows |-> {}]
Plain(r) == [rev |-> r, mk |-> NoKey, at |-> 0]

\* A factory from before sealing has plain bodies; others have none yet.
LeaseInit ==
    /\ lk = NoKey /\ answers = {}
    /\ master = NoMaster /\ held = Nothing
    /\ body \in [Bodies -> {Plain(0), Plain(1)}]
    /\ scan = NoScan
    /\ issues = 0 /\ starts = 0

Live == held.mk # NoKey
Sealed(r) == [rev |-> r, mk |-> held.mk, at |-> r]

-----------------------------------------------------------------------------
\* IssueContentLease: the key is drawn once and kept; only the term is new.
\* Several answers may be on their way (HTTPS calls time out and are retried).
IssueContentLease ==
    /\ issues < MaxIssues
    /\ issues' = issues + 1
    /\ lk' = IF lk = NoKey THEN issues + 1 ELSE lk
    /\ answers' = answers \cup {lk'}
    /\ UNCHANGED <<master, held, body, scan, starts>>

\* The WAN is restored from before the key was drawn: the next one differs.
ForgetLease ==
    /\ issues < MaxIssues /\ lk # NoKey
    /\ lk' = NoKey
    /\ UNCHANGED <<answers, master, held, body, scan, issues, starts>>

\* The master key a lease opens: wrapped in this lease, or still in memory;
\* the first lease of all draws it.
Unwrapped(l) ==
    IF master = NoMaster THEN l
    ELSE IF master.l = l THEN master.mk
    ELSE held.mk

\* ApplyContentLease, with crypt.mu held: a lease too old is refused (the
\* answer is dropped, below), one that neither opens the master key nor
\* finds it in memory too; otherwise it is wrapped anew where it has to be.
ApplyContentLease ==
    \E l \in answers :
        /\ answers' = answers \ {l}
        /\ IF Unwrapped(l) = NoKey
           THEN UNCHANGED <<master, held, scan>>
           ELSE /\ master' = [l |-> l, mk |-> Unwrapped(l)]
                /\ held' = [l |-> l, mk |-> Unwrapped(l)]
                /\ scan' = IF scan.done THEN scan ELSE [scan EXCEPT !.on = TRUE]
        /\ UNCHANGED <<lk, body, issues, starts>>

AnswerDropped ==
    \E l \in answers :
        /\ answers' = answers \ {l}
        /\ UNCHANGED <<lk, master, held, body, scan, issues, starts>>

\* liveMKLocked: past the deadline both keys are wiped; also ClearContentLease.
Expire ==
    /\ Live
    /\ held' = Nothing
    /\ UNCHANGED <<lk, answers, master, body, scan, issues, starts>>

Restart ==
    /\ starts < MaxStarts
    /\ starts' = starts + 1
    /\ held' = Nothing /\ scan' = NoScan
    /\ UNCHANGED <<lk, answers, master, body, issues>>

-----------------------------------------------------------------------------
\* A body is written: needs the lease.
WriteBody(a) ==
    /\ Live /\ body[a].rev < MaxSeal
    /\ body' = [body EXCEPT ![a] = Sealed(body[a].rev + 1)]
    /\ UNCHANGED <<lk, answers, master, held, scan, issues, starts>>

\* A plausible slip: openAsset tries the revision of the row only.
TriesCurrent(b) == {b.rev}

\* openAsset: from the revision of the row down to the first.
Tries(b) == 1 .. b.rev

Opens(b, mk) == b.mk = mk /\ b.at \in Tries(b)

\* rewrapIfSealed: an edit that leaves the body alone raises the revision;
\* the body is sealed anew when the lease is there, left as it is when it is
\* not; plain text is sealed, so that edit needs the lease.
Touch(a) ==
    /\ body[a].rev \in 1 .. MaxSeal - 1
    /\ \/ /\ Live /\ (body[a].mk = NoKey \/ Opens(body[a], held.mk))
          /\ body' = [body EXCEPT ![a] = Sealed(body[a].rev + 1)]
       \/ /\ ~Live /\ body[a].mk # NoKey
          /\ body' = [body EXCEPT ![a].rev = @ + 1]
    /\ UNCHANGED <<lk, answers, master, held, scan, issues, starts>>

\* sealPlainTable: the rows are read, then sealed one by one, each only if
\* it still has the revision that was read; once all are through, this
\* process does not look again.
ScanRead ==
    /\ scan.on /\ scan.rows = {} /\ ~scan.done
    /\ \E a \in Bodies : body[a].rev > 0 /\ body[a].mk = NoKey
    /\ scan' = [scan EXCEPT !.rows =
                   {<<a, body[a].rev>> : a \in {b \in Bodies : body[b].rev > 0 /\ body[b].mk = NoKey}}]
    /\ UNCHANGED <<lk, answers, master, held, body, issues, starts>>

ScanSeal ==
    \E p \in scan.rows :
        /\ IF ~Live
           THEN scan' = [scan EXCEPT !.on = FALSE, !.rows = {}] /\ body' = body
           ELSE /\ scan' = [scan EXCEPT !.rows = @ \ {p}]
                /\ body' = IF body[p[1]].rev = p[2]
                           THEN [body EXCEPT ![p[1]] = Sealed(p[2])] ELSE body
        /\ UNCHANGED <<lk, answers, master, held, issues, starts>>

ScanDone ==
    /\ scan.on /\ scan.rows = {}
    /\ \A a \in Bodies : body[a].rev > 0 => body[a].mk # NoKey
    /\ scan' = [NoScan EXCEPT !.done = TRUE]
    /\ UNCHANGED <<lk, answers, master, held, body, issues, starts>>

LeaseNext ==
    \/ IssueContentLease \/ ForgetLease \/ ApplyContentLease \/ AnswerDropped
    \/ Expire \/ Restart
    \/ \E a \in Bodies : WriteBody(a) \/ Touch(a)
    \/ ScanRead \/ ScanSeal \/ ScanDone

LeaseSpec == LeaseInit /\ [][LeaseNext]_lvars

(* Whatever leases came, ran out, were replaced or came late, every sealed *)
(* body can be opened with the one master key the database holds, though   *)
(* edits raised its revision while nobody could seal it anew.              *)
BodiesOpen ==
    \A a \in Bodies :
        body[a].mk # NoKey => Opens(body[a], master.mk)
=============================================================================
