--------------------------- MODULE ServicesProofs ---------------------------
(***************************************************************************)
(* The smaller services, one part each, as in MCServices.                  *)
(*                                                                         *)
(* Content keys: every sealed body can be opened, because the master key,  *)
(* once drawn, never changes: a lease either opens it or finds it in       *)
(* memory (OneMaster).  Enrollment: the key the WAN registers is the       *)
(* signing key of a server that has a database and an owner, because a     *)
(* signing key, once there, stays (Sound).                                 *)
(*                                                                         *)
(* Questions to a factory: the broker's table holds one channel for each   *)
(* call in progress (ParkFits); a number is given to one call only, so     *)
(* that every message about it that is still under way, however old, is    *)
(* about what that call asked (MessagesFit).                               *)
(*                                                                         *)
(* Organisation: what refers to a unit is looked at in the statement that  *)
(* writes.  The roster: the number kept for a person is that of the        *)
(* connections counted up and not down (CountFits), because the table      *)
(* keeps a connection that came online to its end (TableFits).  Accounts:  *)
(* the last super admin and the newest pad session.                        *)
(*                                                                         *)
(* The factory's own row: FollowsWAN alone is not inductive, since a row   *)
(* read by one goroutine is written back later; so the rows in flight      *)
(* (snap and arg) must be genuine too, and a close is genuine only while   *)
(* the WAN's status is retired, which RetiredIsLast makes permanent.       *)
(***************************************************************************)
EXTENDS ContentLease, Enrollment, FactoryCall, OrgUnits, PadPresence, Accounts,
        Lifecycle, FiniteSetTheorems, TLAPS

-----------------------------------------------------------------------------
(* Content keys                                                            *)

Body == [rev : Nat, mk : Nat, at : Nat]
Scan == [on : BOOLEAN, done : BOOLEAN, rows : SUBSET (Bodies \X (Nat \ {0}))]

LeaseTypeOK ==
    /\ lk \in Nat /\ issues \in Nat
    /\ answers \subseteq Nat \ {NoKey}
    /\ master \in [l : Nat, mk : Nat] /\ held \in [l : Nat, mk : Nat]
    /\ body \in [Bodies -> Body]
    /\ scan \in Scan

\* There is one master key: it is drawn with the first row, and memory has it or nothing.
OneMaster ==
    /\ master # NoMaster => master.mk # NoKey
    /\ held.mk \in {NoKey, master.mk}

\* A sealed body is sealed with it, for a revision the body has had.
SealedOnce ==
    \A a \in Bodies :
        /\ body[a].mk \in {NoKey, master.mk}
        /\ body[a].mk # NoKey => body[a].at \in 1..body[a].rev

LeaseInv == LeaseTypeOK /\ OneMaster /\ SealedOnce

\* To begin with nothing is sealed and no key is drawn.
LEMMA InitLease == LeaseInit => LeaseInv
BY DEF LeaseInit, LeaseInv, LeaseTypeOK, OneMaster, SealedOnce, NoMaster, Nothing, NoScan,
   NoKey, Plain, Body, Scan

\* A body sealed now, with a lease held, is sealed as SealedOnce wants it.
LEMMA SealKeepsInv ==
  ASSUME LeaseInv, Live, NEW a \in Bodies, NEW r \in Nat \ {0},
         body' = [body EXCEPT ![a] = Sealed(r)],
         UNCHANGED <<lk, answers, master, held, issues>>,
         scan' \in Scan
  PROVE  LeaseInv'
<1>1. Sealed(r) \in Body /\ Sealed(r).mk = master.mk /\ Sealed(r).at \in 1..Sealed(r).rev
  BY DEF LeaseInv, LeaseTypeOK, OneMaster, Live, Sealed, Body
<1>2. LeaseTypeOK'
  BY <1>1 DEF LeaseInv, LeaseTypeOK
<1>3. SealedOnce'
  BY <1>1 DEF LeaseInv, LeaseTypeOK, SealedOnce
<1> QED
  BY <1>2, <1>3 DEF LeaseInv, OneMaster

\* Nothing is sealed, and the master key stays as it is.
LEMMA KeysKeepInv ==
  ASSUME LeaseInv, LeaseTypeOK', UNCHANGED <<master, body>>, held' \in {held, Nothing}
  PROVE  LeaseInv'
BY DEF LeaseInv, OneMaster, SealedOnce, Nothing

\* The factory takes a lease: its master key is the one there is.
LEMMA ApplyKeepsInv == ASSUME LeaseInv, ApplyContentLease PROVE LeaseInv'
<1>1. PICK l \in answers :
        /\ answers' = answers \ {l}
        /\ IF Unwrapped(l) = NoKey
           THEN UNCHANGED <<master, held, scan>>
           ELSE /\ master' = [l |-> l, mk |-> Unwrapped(l)]
                /\ held' = [l |-> l, mk |-> Unwrapped(l)]
                /\ scan' = IF scan.done THEN scan ELSE [scan EXCEPT !.on = TRUE]
        /\ UNCHANGED <<lk, body, issues, starts>>
  BY DEF ApplyContentLease
<1>2. CASE Unwrapped(l) = NoKey
  BY <1>1, <1>2, KeysKeepInv DEF LeaseInv, LeaseTypeOK
<1>3. CASE Unwrapped(l) # NoKey
  <2>1. Unwrapped(l) \in Nat /\ l \in Nat
    BY DEF LeaseInv, LeaseTypeOK, Unwrapped
  <2>2. master # NoMaster => Unwrapped(l) = master.mk
    BY <1>3 DEF LeaseInv, OneMaster, Unwrapped
  <2>3. master = NoMaster => \A a \in Bodies : body[a].mk = NoKey
    <3>1. master = NoMaster => master.mk = NoKey
      BY DEF NoMaster
    <3> QED
      BY <3>1 DEF LeaseInv, SealedOnce
  <2>4. /\ master' = [l |-> l, mk |-> Unwrapped(l)] /\ held' = [l |-> l, mk |-> Unwrapped(l)]
        /\ answers' \subseteq answers /\ UNCHANGED <<lk, body, issues>>
    BY <1>1, <1>3
  <2>5. scan' \in Scan
    BY <1>1, <1>3 DEF LeaseInv, LeaseTypeOK, Scan
  <2>6. LeaseTypeOK'
    BY <2>1, <2>4, <2>5 DEF LeaseInv, LeaseTypeOK
  <2>7. OneMaster'
    BY <1>3, <2>4 DEF OneMaster
  <2>8. SealedOnce'
    BY <2>2, <2>3, <2>4 DEF LeaseInv, SealedOnce
  <2> QED
    BY <2>6, <2>7, <2>8 DEF LeaseInv
<1> QED
  BY <1>2, <1>3

\* Every step keeps one master key and bodies sealed with it.
LEMMA NextLease == LeaseInv /\ [LeaseNext]_lvars => LeaseInv'
<1> SUFFICES ASSUME LeaseInv, [LeaseNext]_lvars PROVE LeaseInv'
  OBVIOUS
<1>1. ASSUME IssueContentLease PROVE LeaseInv'
  <2>1. lk' \in Nat \ {NoKey} /\ issues' \in Nat /\ answers' = answers \cup {lk'}
    BY <1>1 DEF IssueContentLease, LeaseInv, LeaseTypeOK, NoKey
  <2>2. UNCHANGED <<master, held, body, scan>>
    BY <1>1 DEF IssueContentLease
  <2>3. LeaseTypeOK'
    BY <2>1, <2>2 DEF LeaseInv, LeaseTypeOK
  <2> QED
    BY <2>2, <2>3, KeysKeepInv
<1>6. ASSUME ForgetLease \/ AnswerDropped \/ Expire \/ Restart \/ ScanDone \/ UNCHANGED lvars
      PROVE  LeaseInv'
  <2>1. /\ lk' \in Nat /\ issues' \in Nat /\ answers' \subseteq answers
        /\ UNCHANGED <<master, body>> /\ held' \in {held, Nothing}
    BY <1>6 DEF ForgetLease, AnswerDropped, Expire, Restart, ScanDone, lvars, LeaseInv,
       LeaseTypeOK, NoKey
  <2>2. NoScan \in Scan /\ [NoScan EXCEPT !.done = TRUE] \in Scan
    BY DEF NoScan, Scan
  <2>3. scan' \in Scan
    BY <1>6, <2>2 DEF ForgetLease, AnswerDropped, Expire, Restart, ScanDone, lvars, LeaseInv,
       LeaseTypeOK
  <2>4. LeaseTypeOK'
    BY <2>1, <2>3 DEF LeaseInv, LeaseTypeOK, Nothing, NoKey
  <2> QED
    BY <2>1, <2>4, KeysKeepInv
<1>2. ASSUME NEW a \in Bodies, WriteBody(a) PROVE LeaseInv'
  <2>1. body[a].rev + 1 \in Nat \ {0}
    BY DEF LeaseInv, LeaseTypeOK, Body
  <2> QED
    BY <1>2, <2>1, SealKeepsInv DEF WriteBody, LeaseInv, LeaseTypeOK
<1>3. ASSUME NEW a \in Bodies, Touch(a) PROVE LeaseInv'
  <2>1. body[a] \in Body /\ body[a].rev + 1 \in Nat \ {0}
    BY DEF LeaseInv, LeaseTypeOK, Body
  <2>2. CASE Live /\ body' = [body EXCEPT ![a] = Sealed(body[a].rev + 1)]
    BY <1>3, <2>1, <2>2, SealKeepsInv DEF Touch, LeaseInv, LeaseTypeOK
  <2>3. CASE body' = [body EXCEPT ![a].rev = @ + 1]
    <3>1. /\ body'[a] \in Body /\ body'[a].mk = body[a].mk /\ body'[a].at = body[a].at
          /\ body'[a].rev = body[a].rev + 1
      BY <2>1, <2>3 DEF LeaseInv, LeaseTypeOK, Body
    <3>2. LeaseTypeOK'
      BY <1>3, <2>3, <3>1 DEF Touch, LeaseInv, LeaseTypeOK
    <3>3. SealedOnce'
      BY <1>3, <2>1, <2>3, <3>1 DEF Touch, LeaseInv, LeaseTypeOK, SealedOnce, Body
    <3> QED
      BY <1>3, <3>2, <3>3 DEF Touch, LeaseInv, OneMaster
  <2> QED
    BY <1>3, <2>2, <2>3 DEF Touch
<1>4. ASSUME ScanRead PROVE LeaseInv'
  <2> DEFINE read == {<<b, body[b].rev>> : b \in {c \in Bodies : body[c].rev > 0
                                                             /\ body[c].mk = NoKey}}
  <2>1. scan' = [scan EXCEPT !.rows = read]
    BY <1>4 DEF ScanRead
  <2>2. read \subseteq Bodies \X (Nat \ {0})
    BY DEF LeaseInv, LeaseTypeOK, Body
  <2> HIDE DEF read
  <2>3. LeaseTypeOK'
    BY <1>4, <2>1, <2>2 DEF ScanRead, LeaseInv, LeaseTypeOK, Scan
  <2> QED
    BY <1>4, <2>3, KeysKeepInv DEF ScanRead
<1>5. ASSUME ScanSeal PROVE LeaseInv'
  <2>1. PICK p \in scan.rows :
          IF ~Live
          THEN scan' = [scan EXCEPT !.on = FALSE, !.rows = {}] /\ body' = body
          ELSE /\ scan' = [scan EXCEPT !.rows = @ \ {p}]
               /\ body' = IF body[p[1]].rev = p[2]
                          THEN [body EXCEPT ![p[1]] = Sealed(p[2])] ELSE body
    BY <1>5 DEF ScanSeal
  <2>2. UNCHANGED <<lk, answers, master, held, issues>>
    BY <1>5 DEF ScanSeal
  <2>3. scan' \in Scan
    <3>1. scan \in Scan /\ {} \in SUBSET (Bodies \X (Nat \ {0}))
      BY DEF LeaseInv, LeaseTypeOK
    <3>2. scan.rows \ {p} \in SUBSET (Bodies \X (Nat \ {0}))
      BY <3>1 DEF Scan
    <3>3. [scan EXCEPT !.on = FALSE, !.rows = {}] \in Scan
      BY <3>1 DEF Scan
    <3>4. [scan EXCEPT !.rows = @ \ {p}] \in Scan
      BY <3>1, <3>2 DEF Scan
    <3>5. scan' \in {[scan EXCEPT !.on = FALSE, !.rows = {}], [scan EXCEPT !.rows = @ \ {p}]}
      BY <2>1
    <3> QED
      BY <3>3, <3>4, <3>5
  <2>4. CASE body' = body
    <3>1. LeaseTypeOK'
      BY <2>2, <2>3, <2>4 DEF LeaseInv, LeaseTypeOK
    <3> QED
      BY <2>2, <2>4, <3>1, KeysKeepInv
  <2>5. CASE Live /\ body' = [body EXCEPT ![p[1]] = Sealed(p[2])] /\ body' # body
    <3>1. p[1] \in Bodies /\ p[2] \in Nat \ {0}
      BY <2>5 DEF LeaseInv, LeaseTypeOK, Scan
    <3> QED
      BY <2>2, <2>3, <2>5, <3>1, SealKeepsInv
  <2> QED
    BY <2>1, <2>4, <2>5
<1> QED
  BY <1>1, <1>2, <1>3, <1>4, <1>5, <1>6, ApplyKeepsInv DEF LeaseNext

\* ApplyContentLease, rewrapIfSealed and openAsset: whatever leases came, ran out, were
\* replaced or came late, every sealed body opens with the master key of the database.
THEOREM SealedBodiesOpen == LeaseSpec => []BodiesOpen
<1>1. LeaseInv => BodiesOpen
  BY DEF LeaseInv, SealedOnce, BodiesOpen, Opens, Tries
<1>2. LeaseSpec => []LeaseInv
  BY InitLease, NextLease, PTL DEF LeaseSpec
<1> QED
  BY <1>1, <1>2, PTL

-----------------------------------------------------------------------------
(* Signing keys                                                            *)

Hub == [db : BOOLEAN, pwd : Claims \cup {"none"}, key : Nat]
Steps == {"idle", "open", "accept", "key", "install", "confirm", "register", "channel"}
Claim == [pc : Steps, s : Servers \cup {"none"}, key : Nat]

EnrollTypeOK ==
    /\ code \in BOOLEAN /\ factoryKey \in Nat /\ keys \in Nat
    /\ hubs \in [Servers -> Hub]
    /\ claim \in [Claims -> Claim]

\* A signing key is drawn for an owner only, an owner is made in a database only.
KeyHasOwner ==
    \A s \in Servers : hubs[s].key # NoSign => hubs[s].db /\ hubs[s].pwd # "none"

\* What a call has done so far is still so at its server.
Sound(c) ==
    /\ claim[c].pc # "idle" => claim[c].s \in Servers
    /\ claim[c].pc \notin {"idle", "open"} => hubs[claim[c].s].db
    /\ claim[c].pc \notin {"idle", "open", "accept"} => hubs[claim[c].s].pwd # "none"
    /\ claim[c].pc = "install" => claim[c].key # NoSign
    /\ claim[c].pc \in {"confirm", "register"} =>
         claim[c].key # NoSign /\ hubs[claim[c].s].key = claim[c].key

EnrollInv ==
    EnrollTypeOK /\ KeyHasOwner /\ (\A c \in Claims : Sound(c)) /\ ClaimedOnce

\* Databases, owners and keys come and stay.
HubsGrow ==
    \A s \in Servers :
        /\ hubs[s].db => hubs'[s].db
        /\ hubs[s].pwd # "none" => hubs'[s].pwd # "none"
        /\ hubs[s].key # NoSign => hubs'[s].key = hubs[s].key

\* To begin with no server has a key and nobody claims.
LEMMA InitEnroll == EnrollInit => EnrollInv
<1> SUFFICES ASSUME EnrollInit PROVE EnrollInv
  OBVIOUS
<1>1. NoHub \in Hub /\ NoHub.key = NoSign /\ NoClaim \in Claim /\ NoClaim.pc = "idle"
  BY DEF NoHub, NoClaim, NoSign, Hub, Claim, Steps
<1>2. EnrollTypeOK
  BY <1>1 DEF EnrollInit, EnrollTypeOK, NoSign
<1> QED
  BY <1>1, <1>2 DEF EnrollInit, EnrollInv, KeyHasOwner, Sound, ClaimedOnce

\* A step that leaves the WAN alone, or registers a server's key, and moves one call on.
LEMMA OneCallMoves ==
  ASSUME EnrollInv, EnrollTypeOK', HubsGrow, KeyHasOwner', ClaimedOnce',
         NEW c \in Claims, \A d \in Claims \ {c} : claim'[d] \in {claim[d], NoClaim},
         Sound(c)'
  PROVE  EnrollInv'
<1>1. ASSUME NEW d \in Claims, d # c PROVE Sound(d)'
  <2>1. claim'[d] = claim[d] \/ claim'[d] = NoClaim
    BY <1>1
  <2>2. CASE claim'[d] = claim[d]
    <3>1. Sound(d) /\ claim[d] \in Claim
      BY DEF EnrollInv, EnrollTypeOK
    <3> QED
      BY <2>2, <3>1 DEF Sound, HubsGrow, Claim, Steps
  <2>3. CASE claim'[d] = NoClaim
    BY <2>3 DEF Sound, NoClaim
  <2> QED
    BY <2>1, <2>2, <2>3
<1> QED
  BY <1>1 DEF EnrollInv

\* What a server does for itself, the WAN's record untouched, leaves a claimed factory
\* its key.
LEMMA WanAlone ==
  ASSUME EnrollInv, HubsGrow, UNCHANGED wanSide
  PROVE  ClaimedOnce'
BY DEF EnrollInv, HubsGrow, ClaimedOnce, wanSide

\* A call ends, or moves on (with its key); nothing else of it changes.
LEMMA CallsOf ==
  ASSUME EnrollInv, NEW c \in Claims, NEW m \in Claim, claim' = [claim EXCEPT ![c] = m]
  PROVE  /\ claim' \in [Claims -> Claim] /\ claim'[c] = m
         /\ \A d \in Claims \ {c} : claim'[d] \in {claim[d], NoClaim}
BY DEF EnrollInv, EnrollTypeOK

\* A claim that moves on keeps its server and its key.
LEMMA ClaimFields ==
  ASSUME EnrollInv, NEW c \in Claims, NEW to \in Steps, NEW m, m = [claim[c] EXCEPT !.pc = to]
  PROVE  m \in Claim /\ m.pc = to /\ m.s = claim[c].s /\ m.key = claim[c].key
<1>1. claim[c] \in Claim
  BY DEF EnrollInv, EnrollTypeOK
<1> QED
  BY <1>1 DEF Claim

\* A claim that has ended asks nothing of anybody.
LEMMA IdleIsSound ==
  /\ NoClaim \in Claim /\ NoClaim.pc = "idle"
  /\ \A c : claim'[c] = NoClaim => Sound(c)'
BY DEF NoClaim, Claim, Steps, Sound, NoSign

\* When the servers are as they were, keys have owners as before.
LEMMA HubsAlone ==
  ASSUME EnrollInv, UNCHANGED hubs
  PROVE  HubsGrow /\ KeyHasOwner'
BY DEF EnrollInv, HubsGrow, KeyHasOwner

\* A claim begins at some server.
LEMMA OfferKeepsInv ==
  ASSUME EnrollInv, NEW c \in Claims, NEW s \in Servers, Offer(c, s) PROVE EnrollInv'
<1> DEFINE m == [NoClaim EXCEPT !.pc = "open", !.s = s]
<1>1. m \in Claim /\ m.pc = "open" /\ m.s = s
  BY DEF NoClaim, Claim, Steps, NoSign
<1>2. claim' = [claim EXCEPT ![c] = m] /\ UNCHANGED <<code, factoryKey, hubs, keys>>
  BY DEF Offer, wanSide, bounds
<1> HIDE DEF m
<1>3. Sound(c)'
  BY <1>1, <1>2, CallsOf DEF Sound
<1>4. EnrollTypeOK'
  BY <1>1, <1>2, CallsOf DEF EnrollInv, EnrollTypeOK
<1> QED
  BY <1>1, <1>2, <1>3, <1>4, HubsAlone, WanAlone, CallsOf, OneCallMoves DEF wanSide

\* The server has its database made, or has it.
LEMMA OpenKeepsInv ==
  ASSUME EnrollInv, NEW c \in Claims, Open(c) PROVE EnrollInv'
<1> DEFINE s == claim[c].s
           m == [claim[c] EXCEPT !.pc = "accept"]
<1>1. s \in Servers /\ hubs[s] \in Hub /\ "accept" \in Steps
  BY DEF Open, EnrollInv, EnrollTypeOK, Sound, Steps
<1>2. [hubs[s] EXCEPT !.db = TRUE] \in Hub
  BY <1>1 DEF Hub
<1>3. /\ [hubs[s] EXCEPT !.db = TRUE].db
      /\ [hubs[s] EXCEPT !.db = TRUE].pwd = hubs[s].pwd
      /\ [hubs[s] EXCEPT !.db = TRUE].key = hubs[s].key
  BY <1>1 DEF Hub
<1>4. /\ hubs' = [hubs EXCEPT ![s] = [hubs[s] EXCEPT !.db = TRUE]]
      /\ claim' = [claim EXCEPT ![c] = m]
      /\ UNCHANGED <<code, factoryKey, keys>>
  BY DEF Open, Step, wanSide, bounds
<1>5. m \in Claim /\ m.pc = "accept" /\ m.s = s
  BY <1>1, ClaimFields
<1> HIDE DEF m
<1>6. HubsGrow /\ KeyHasOwner' /\ hubs'[s].db
  BY <1>1, <1>3, <1>4 DEF HubsGrow, KeyHasOwner, EnrollInv, EnrollTypeOK
<1>7. EnrollTypeOK'
  BY <1>1, <1>2, <1>4, <1>5, CallsOf DEF EnrollInv, EnrollTypeOK
<1>8. Sound(c)'
  BY <1>1, <1>4, <1>5, <1>6, CallsOf DEF Sound
<1> QED
  BY <1>4, <1>5, <1>6, <1>7, <1>8, WanAlone, CallsOf, OneCallMoves DEF wanSide

\* The server is given its owner; claimed again, the password is the later one's.
LEMMA AcceptKeepsInv ==
  ASSUME EnrollInv, NEW c \in Claims, AcceptEnrollment(c) PROVE EnrollInv'
<1> DEFINE s == claim[c].s
           m == [claim[c] EXCEPT !.pc = "key"]
<1>1. s \in Servers /\ hubs[s] \in Hub /\ hubs[s].db /\ "key" \in Steps /\ c # "none"
  BY ClaimsAssumption DEF AcceptEnrollment, EnrollInv, EnrollTypeOK, Sound, Steps
<1>2. [hubs[s] EXCEPT !.pwd = c] \in Hub
  BY <1>1 DEF Hub
<1>3. /\ [hubs[s] EXCEPT !.pwd = c].db = hubs[s].db
      /\ [hubs[s] EXCEPT !.pwd = c].pwd = c
      /\ [hubs[s] EXCEPT !.pwd = c].key = hubs[s].key
  BY <1>1 DEF Hub
<1>4. /\ hubs' = [hubs EXCEPT ![s] = [hubs[s] EXCEPT !.pwd = c]]
      /\ claim' = [claim EXCEPT ![c] = m]
      /\ UNCHANGED <<code, factoryKey, keys>>
  BY DEF AcceptEnrollment, Step, wanSide, bounds
<1>5. m \in Claim /\ m.pc = "key" /\ m.s = s
  BY <1>1, ClaimFields
<1> HIDE DEF m
<1>6. /\ HubsGrow /\ KeyHasOwner'
      /\ hubs'[s].db /\ hubs'[s].pwd # "none"
  BY <1>1, <1>3, <1>4 DEF HubsGrow, KeyHasOwner, EnrollInv, EnrollTypeOK
<1>7. EnrollTypeOK'
  BY <1>1, <1>2, <1>4, <1>5, CallsOf DEF EnrollInv, EnrollTypeOK
<1>8. Sound(c)'
  BY <1>1, <1>4, <1>5, <1>6, CallsOf DEF Sound
<1> QED
  BY <1>4, <1>5, <1>6, <1>7, <1>8, WanAlone, CallsOf, OneCallMoves DEF wanSide

\* The signing key is looked for; one that is there is taken, or a new one drawn.
LEMMA LookKeepsInv ==
  ASSUME EnrollInv, NEW c \in Claims, LookForKey(c) PROVE EnrollInv'
<1> DEFINE s == claim[c].s
           next == keys + 1
           known == [claim[c] EXCEPT !.pc = "confirm", !.key = hubs[s].key]
           drawn == [claim[c] EXCEPT !.pc = "install", !.key = next]
<1>1. /\ s \in Servers /\ hubs[s].db /\ hubs[s].pwd # "none"
      /\ hubs[s].key \in Nat /\ next \in Nat \ {NoSign}
      /\ "confirm" \in Steps /\ "install" \in Steps
  BY DEF LookForKey, EnrollInv, EnrollTypeOK, Sound, Steps, Hub, NoSign
<1>2. UNCHANGED <<code, factoryKey, hubs>>
  BY DEF LookForKey, wanSide
<1> HIDE DEF next
<1>3. /\ known \in Claim /\ known.pc = "confirm" /\ known.s = s /\ known.key = hubs[s].key
      /\ drawn \in Claim /\ drawn.pc = "install" /\ drawn.s = s /\ drawn.key = next
  <2>1. hubs[s].key \in Nat /\ next \in Nat /\ claim[c] \in Claim
    BY <1>1 DEF EnrollInv, EnrollTypeOK
  <2>2. known \in Claim /\ known.pc = "confirm" /\ known.s = s /\ known.key = hubs[s].key
    BY <1>1, <2>1 DEF Claim
  <2>3. drawn \in Claim /\ drawn.pc = "install" /\ drawn.s = s /\ drawn.key = next
    BY <1>1, <2>1 DEF Claim
  <2> QED
    BY <2>2, <2>3
<1>4. \/ hubs[s].key # NoSign /\ claim' = [claim EXCEPT ![c] = known] /\ keys' = keys
      \/ claim' = [claim EXCEPT ![c] = drawn] /\ keys' = next
  BY DEF LookForKey, next
<1> HIDE DEF known, drawn
<1>5. EnrollTypeOK'
  BY <1>1, <1>2, <1>3, <1>4, CallsOf DEF EnrollInv, EnrollTypeOK
<1>6. Sound(c)'
  BY <1>1, <1>2, <1>3, <1>4, CallsOf DEF Sound
<1>7. \A d \in Claims \ {c} : claim'[d] \in {claim[d], NoClaim}
  BY <1>3, <1>4, CallsOf
<1> QED
  BY <1>2, <1>5, <1>6, <1>7, HubsAlone, WanAlone, OneCallMoves DEF wanSide

\* The key drawn is installed, unless another claim was first, which ends this one.
LEMMA InstallKeepsInv ==
  ASSUME EnrollInv, NEW c \in Claims, InstallSigningKey(c) PROVE EnrollInv'
<1> DEFINE s == claim[c].s
           new == PutSigningKey(hubs[s].key, claim[c].key)
           m == [claim[c] EXCEPT !.pc = "confirm"]
<1>1. /\ s \in Servers /\ hubs[s] \in Hub /\ hubs[s].db /\ hubs[s].pwd # "none"
      /\ claim[c] \in Claim /\ claim[c].key \in Nat \ {NoSign} /\ "confirm" \in Steps
  BY DEF InstallSigningKey, EnrollInv, EnrollTypeOK, Sound, Steps, Claim
<1>2. new \in Nat /\ (hubs[s].key # NoSign => new = hubs[s].key)
  BY <1>1 DEF PutSigningKey, Hub
<1> HIDE DEF new
<1>3. [hubs[s] EXCEPT !.key = new] \in Hub
  BY <1>1, <1>2 DEF Hub
<1>4. /\ [hubs[s] EXCEPT !.key = new].db = hubs[s].db
      /\ [hubs[s] EXCEPT !.key = new].pwd = hubs[s].pwd
      /\ [hubs[s] EXCEPT !.key = new].key = new
  BY <1>1 DEF Hub
<1>5. /\ hubs' = [hubs EXCEPT ![s] = [hubs[s] EXCEPT !.key = new]]
      /\ claim' = IF hubs'[s].key = claim[c].key THEN [claim EXCEPT ![c] = m]
                  ELSE [claim EXCEPT ![c] = NoClaim]
      /\ UNCHANGED <<code, factoryKey, keys>>
  BY DEF InstallSigningKey, Step, wanSide, bounds, new
<1>6. m \in Claim /\ m.pc = "confirm" /\ m.s = s /\ m.key = claim[c].key
  BY <1>1, ClaimFields
<1> HIDE DEF m
<1>7. /\ HubsGrow /\ KeyHasOwner'
      /\ hubs'[s].db /\ hubs'[s].pwd # "none"
  BY <1>1, <1>2, <1>4, <1>5 DEF HubsGrow, KeyHasOwner, EnrollInv, EnrollTypeOK
<1>8. EnrollTypeOK' /\ (\A d \in Claims \ {c} : claim'[d] \in {claim[d], NoClaim})
  BY <1>1, <1>3, <1>5, <1>6, CallsOf, IdleIsSound DEF EnrollInv, EnrollTypeOK
<1>9. Sound(c)'
  <2>1. CASE hubs'[s].key = claim[c].key
    BY <1>1, <1>5, <1>6, <1>7, <2>1, CallsOf DEF Sound
  <2>2. CASE hubs'[s].key # claim[c].key
    BY <1>5, <2>2, CallsOf, IdleIsSound
  <2> QED
    BY <2>1, <2>2
<1> QED
  BY <1>5, <1>7, <1>8, <1>9, WanAlone, OneCallMoves DEF wanSide

\* The WAN registers what the claim carries: a key its server has for good.
LEMMA ConfirmKeepsInv ==
  ASSUME EnrollInv, NEW c \in Claims, ConfirmLooks(c) \/ ConfirmEnrollment(c)
  PROVE  EnrollInv'
<1> DEFINE s == claim[c].s
           m(to) == [claim[c] EXCEPT !.pc = to]
<1>1. /\ s \in Servers /\ hubs[s].db /\ hubs[s].pwd # "none"
      /\ claim[c].key \in Nat \ {NoSign} /\ hubs[s].key = claim[c].key
      /\ "register" \in Steps /\ "channel" \in Steps
  BY DEF ConfirmLooks, ConfirmEnrollment, EnrollInv, EnrollTypeOK, Sound, Steps, Claim
<1>2. UNCHANGED <<hubs, keys>>
  BY DEF ConfirmLooks, ConfirmEnrollment, bounds
<1>3. PICK to \in {"register", "channel"} : claim' = [claim EXCEPT ![c] = m(to)]
  BY DEF ConfirmLooks, ConfirmEnrollment, Step
<1>4. /\ m(to) \in Claim /\ m(to).pc = to /\ m(to).s = s /\ m(to).key = claim[c].key
  <2>1. to \in Steps
    BY <1>1
  <2> QED
    BY <2>1, ClaimFields
<1> HIDE DEF m
<1>5. Sound(c)'
  BY <1>1, <1>2, <1>3, <1>4, CallsOf DEF Sound
<1>6. \/ UNCHANGED wanSide
      \/ factoryKey' = claim[c].key /\ code' = FALSE
  BY DEF ConfirmLooks, ConfirmEnrollment
<1>7. EnrollTypeOK'
  BY <1>1, <1>2, <1>3, <1>4, <1>6, CallsOf DEF EnrollInv, EnrollTypeOK, wanSide
<1>8. ClaimedOnce'
  <2>1. CASE UNCHANGED wanSide
    BY <1>2, <2>1, HubsAlone, WanAlone
  <2>2. CASE factoryKey' = claim[c].key /\ code' = FALSE
    BY <1>1, <1>2, <2>2 DEF ClaimedOnce
  <2> QED
    BY <1>6, <2>1, <2>2
<1> QED
  BY <1>2, <1>3, <1>4, <1>5, <1>7, <1>8, HubsAlone, CallsOf, OneCallMoves

\* EnsureChannel, CutOff, a restart and the loops: calls end, the rest stays.
LEMMA EndsKeepInv ==
  ASSUME EnrollInv, UNCHANGED <<code, factoryKey, hubs, keys>>,
         claim' \in [Claims -> Claim],
         \A d \in Claims : claim'[d] \in {claim[d], NoClaim}
  PROVE  EnrollInv'
<1>1. EnrollTypeOK'
  BY DEF EnrollInv, EnrollTypeOK
<1>2. CASE Claims = {}
  BY <1>1, <1>2, HubsAlone, WanAlone DEF EnrollInv, wanSide
<1>3. ASSUME NEW c \in Claims PROVE EnrollInv'
  <2>1. Sound(c)'
    BY IdleIsSound DEF EnrollInv, Sound
  <2> QED
    BY <1>1, <2>1, HubsAlone, WanAlone, OneCallMoves DEF wanSide
<1> QED
  BY <1>2, <1>3

\* Every step of a claim, of the servers and of the WAN keeps the invariant.
LEMMA NextEnroll == EnrollInv /\ [EnrollNext]_evars => EnrollInv'
<1> SUFFICES ASSUME EnrollInv, [EnrollNext]_evars PROVE EnrollInv'
  OBVIOUS
<1>1. claim \in [Claims -> Claim] /\ NoClaim \in Claim
  BY IdleIsSound DEF EnrollInv, EnrollTypeOK
<1>2. ASSUME NEW c \in Claims, EnsureChannel(c) \/ CutOff(c) PROVE EnrollInv'
  BY <1>1, <1>2, EndsKeepInv DEF EnsureChannel, CutOff, wanSide, bounds
<1>3. ASSUME NEW s \in Servers, HubRestarts(s) PROVE EnrollInv'
  <2>1. claim' = [c \in Claims |-> IF claim[c].s = s THEN NoClaim ELSE claim[c]]
    BY <1>3 DEF HubRestarts
  <2>2. \A c \in Claims : claim'[c] \in {claim[c], NoClaim}
    BY <2>1
  <2>3. claim' \in [Claims -> Claim]
    BY <1>1, <2>1
  <2> QED
    BY <1>3, <2>2, <2>3, EndsKeepInv DEF HubRestarts, wanSide
<1>4. ASSUME UNCHANGED evars
             \/ \E s \in Servers : DialReads(s) \/ StopChannel(s) \/ Redials(s) \/ RenewReads(s)
      PROVE  EnrollInv'
  <2>1. UNCHANGED <<code, factoryKey, hubs, claim, keys>>
    BY <1>4 DEF evars, DialReads, StopChannel, Redials, RenewReads, wanSide, bounds
  <2> QED
    BY <1>1, <2>1, EndsKeepInv
<1> QED
  BY <1>2, <1>3, <1>4, OfferKeepsInv, OpenKeepsInv, AcceptKeepsInv, LookKeepsInv,
     InstallKeepsInv, ConfirmKeepsInv DEF EnrollNext

\* Claim, AcceptEnrollment, PutSigningKey and ConfirmEnrollment: the key the WAN registers is
\* the signing key of a server with the database and an owner, and uses the code up.
THEOREM KeyOfTheOwner == EnrollSpec => []ClaimedOnce
<1>1. EnrollInv => ClaimedOnce
  BY DEF EnrollInv
<1>2. EnrollSpec => []EnrollInv
  BY InitEnroll, NextEnroll, PTL DEF EnrollSpec
<1> QED
  BY <1>1, <1>2, PTL

-----------------------------------------------------------------------------
(* Questions to a factory                                                  *)

Call == [pc : {"idle", "wait", "told"}, f : Factories \cup {NoFactory},
         what : Asked \cup {0}, id : Nat]
Question == [f : Factories, what : Asked, id : Nat]
Answer == [f : Factories, told : Asked, id : Nat]
Parked == [key : Factories \X Nat, id : Nat]
Result == [f : Factories \cup {NoFactory}, what : Asked \cup {0},
           from : Factories \cup {NoFactory}, told : Asked \cup {0}]

CallTypeOK ==
    /\ call \in [Callers -> Call]
    /\ park \subseteq Parked
    /\ down \subseteq Question /\ up \subseteq Answer
    /\ handing \subseteq [to : Nat, a : Answer]
    /\ result \in [Callers -> Result]
    /\ asked \in Nat

InProgress(c) == call[c].pc # "idle"

\* A call that is over has left nothing; one in progress asks a factory, under a number
\* of its own that has been given out.
CallsFit ==
    \A c \in Callers :
      /\ ~InProgress(c) => call[c] = NoCalling
      /\ InProgress(c) =>
           /\ call[c].f \in Factories /\ call[c].id \in 1..asked
           /\ \A d \in Callers : InProgress(d) /\ call[d].id = call[c].id => d = c

\* One channel for every call in progress, under the call's key.
ParkFits ==
    /\ \A p \in park : \E c \in Callers :
         InProgress(c) /\ p.id = call[c].id /\ p.key = Key(call[c].f, call[c].id)
    /\ \A c \in Callers : InProgress(c) =>
         \E p \in park : p.id = call[c].id /\ p.key = Key(call[c].f, call[c].id)

\* What is said under a call's number is about the call; no message has a number yet to
\* be given out.
About(id, f, what) ==
    /\ id <= asked
    /\ \A c \in Callers :
         InProgress(c) /\ call[c].id = id => f = call[c].f /\ what = call[c].what

MessagesFit ==
    /\ \A q \in down : About(q.id, q.f, q.what)
    /\ \A a \in up : About(a.id, a.f, a.told)
    /\ \A h \in handing : About(h.to, h.a.f, h.a.told)

\* The first half of OwnAnswer.
ToldRight ==
    \A c \in Callers : result[c] # Unasked =>
        result[c].from = result[c].f /\ result[c].told = result[c].what

CallInv == CallTypeOK /\ CallsFit /\ ParkFits /\ MessagesFit /\ ToldRight

-----------------------------------------------------------------------------
\* The invariant has the property as a part, in other words.
LEMMA InvGivesOwnAnswer == CallInv => OwnAnswer
<1> SUFFICES ASSUME CallInv PROVE OwnAnswer
  OBVIOUS
<1>1. \A c \in Callers : call[c] # NoCalling <=> InProgress(c)
  BY DEF CallInv, CallsFit, InProgress, NoCalling
<1>2. {p.id : p \in park} = {call[c].id : c \in {d \in Callers : call[d] # NoCalling}}
  BY <1>1 DEF CallInv, ParkFits
<1> QED
  BY <1>2 DEF OwnAnswer, CallInv, ToldRight

\* To begin with nothing is asked.
LEMMA InitCall == CallInit => CallInv
BY DEF CallInit, CallInv, CallTypeOK, CallsFit, ParkFits, MessagesFit, ToldRight, InProgress,
   NoCalling, Unasked, Call, Result

\* A call begins: its number is in no table and in no message.
LEMMA AskKeepsInv ==
  ASSUME CallInv, NEW c \in Callers, NEW f \in Factories, NEW w \in Asked, Ask(c, f, w)
  PROVE  CallInv'
<1> DEFINE n == asked + 1
           new == [pc |-> "wait", f |-> f, what |-> w, id |-> n]
<1>1. asked \in Nat /\ n \in Nat /\ asked' = n /\ n > asked
  BY DEF CallInv, CallTypeOK, Ask
<1>2. new \in Call
  BY <1>1 DEF Call
<1>3. call' = [call EXCEPT ![c] = new] /\ ~InProgress(c)
  BY DEF Ask, InProgress, NoCalling
<1>4. /\ call'[c] = new /\ InProgress(c)'
      /\ \A d \in Callers \ {c} : call'[d] = call[d] /\ (InProgress(d)' <=> InProgress(d))
  BY <1>2, <1>3 DEF CallInv, CallTypeOK, InProgress
<1>5. \A p \in park : p.id <= asked /\ p.key # Key(f, n)
  BY <1>1 DEF CallInv, ParkFits, CallsFit, Key
<1>6. park' = park \cup {[key |-> Key(f, n), id |-> n]}
  BY <1>5 DEF Ask, WaitKey
<1>7. CallTypeOK'
  BY <1>1, <1>2, <1>3, <1>6
     DEF CallInv, CallTypeOK, Ask, Parked, Key, Question, Result, Unasked
<1>8. CallsFit'
  BY <1>1, <1>3, <1>4 DEF CallInv, CallsFit
<1>9. ParkFits'
  <2>1. \A p \in park' : \E d \in Callers :
          InProgress(d)' /\ p.id = call'[d].id /\ p.key = Key(call'[d].f, call'[d].id)
    BY <1>3, <1>4, <1>6 DEF CallInv, ParkFits
  <2>2. ASSUME NEW d \in Callers, InProgress(d)'
        PROVE  \E p \in park' : p.id = call'[d].id /\ p.key = Key(call'[d].f, call'[d].id)
    <3>1. CASE d = c
      <4>1. call'[d].id = n /\ call'[d].f = f
        BY <1>4, <3>1
      <4> DEFINE p == [key |-> Key(f, n), id |-> n]
      <4>2. p \in park' /\ p.id = n /\ p.key = Key(f, n)
        BY <1>6
      <4> HIDE DEF p, n
      <4> QED
        BY <4>1, <4>2
    <3>2. CASE d # c
      BY <1>4, <1>6, <2>2, <3>2 DEF CallInv, ParkFits
    <3> QED
      BY <3>1, <3>2
  <2> QED
    BY <2>1, <2>2 DEF ParkFits
<1>10. ASSUME NEW id \in Nat, NEW g, NEW what, About(id, g, what)
       PROVE  About(id, g, what)'
  BY <1>1, <1>4, <1>10 DEF About
<1>11. ASSUME NEW id \in Nat, id = n PROVE About(id, f, w)'
  <2>1. call'[c].f = f /\ call'[c].what = w
    BY <1>4
  <2>2. \A d \in Callers \ {c} : InProgress(d)' => call'[d].id # n
    BY <1>1, <1>4 DEF CallInv, CallsFit
  <2> QED
    BY <1>1, <1>11, <2>1, <2>2 DEF About
<1>12. MessagesFit'
  <2>1. \A q \in down' : About(q.id, q.f, q.what)'
    <3> DEFINE q == [f |-> f, what |-> w, id |-> n]
    <3>1. down' = down \cup {q} /\ q.id = n /\ q.f = f /\ q.what = w
      BY DEF Ask
    <3> HIDE DEF q
    <3> QED
      BY <1>1, <1>10, <1>11, <3>1 DEF CallInv, CallTypeOK, MessagesFit, Question
  <2>2. \A a \in up' : About(a.id, a.f, a.told)'
    BY <1>10 DEF CallInv, CallTypeOK, MessagesFit, Ask, Answer
  <2>3. \A h \in handing' : About(h.to, h.a.f, h.a.told)'
    BY <1>10 DEF CallInv, CallTypeOK, MessagesFit, Ask
  <2> QED
    BY <2>1, <2>2, <2>3 DEF MessagesFit
<1>13. ToldRight'
  BY DEF CallInv, CallTypeOK, ToldRight, Ask
<1> QED
  BY <1>7, <1>8, <1>9, <1>12, <1>13 DEF CallInv

\* A call is over: its channel goes, and only its own.
LEMMA EndKeepsInv ==
  ASSUME CallInv, NEW c \in Callers, InProgress(c),
         call' = [call EXCEPT ![c] = NoCalling], park' = Unparked(c),
         UNCHANGED <<down, up, handing, result, asked>>
  PROVE  CallInv'
<1>1. NoCalling \in Call
  BY DEF NoCalling, Call
<1>2. /\ call'[c] = NoCalling /\ ~InProgress(c)'
      /\ \A d \in Callers \ {c} : call'[d] = call[d] /\ (InProgress(d)' <=> InProgress(d))
  BY <1>1 DEF CallInv, CallTypeOK, InProgress, NoCalling
<1>3. CallTypeOK'
  BY <1>1 DEF CallInv, CallTypeOK, Unparked
<1>4. CallsFit'
  BY <1>2 DEF CallInv, CallsFit
<1>5. ParkFits'
  <2>1. \A p \in park' : \E d \in Callers :
          InProgress(d)' /\ p.id = call'[d].id /\ p.key = Key(call'[d].f, call'[d].id)
    BY <1>2 DEF CallInv, ParkFits, Unparked, WaitKey
  <2>2. ASSUME NEW d \in Callers, InProgress(d)'
        PROVE  \E p \in park' : p.id = call'[d].id /\ p.key = Key(call'[d].f, call'[d].id)
    <3>1. d # c /\ InProgress(d) /\ call'[d] = call[d]
      BY <1>2, <2>2
    <3>2. call[d].id # call[c].id
      BY <3>1 DEF CallInv, CallsFit
    <3> QED
      BY <3>1, <3>2 DEF CallInv, ParkFits, Unparked, WaitKey, Key
  <2> QED
    BY <2>1, <2>2 DEF ParkFits
<1>6. MessagesFit'
  BY <1>2 DEF CallInv, MessagesFit, About
<1>7. ToldRight'
  BY DEF CallInv, ToldRight
<1> QED
  BY <1>3, <1>4, <1>5, <1>6, <1>7 DEF CallInv

\* Messages are repeated, lost or matched; the calls stay as they are.
LEMMA MessagesKeepInv ==
  ASSUME CallInv, UNCHANGED <<call, park, result, asked>>, CallTypeOK', MessagesFit'
  PROVE  CallInv'
BY DEF CallInv, CallsFit, ParkFits, ToldRight, InProgress

\* A factory answers, once or more often, what it was asked.
LEMMA ReplyKeepsInv == ASSUME CallInv, NEW q \in down, Reply(q) PROVE CallInv'
<1>1. [f |-> q.f, told |-> q.what, id |-> q.id] \in Answer
  BY DEF CallInv, CallTypeOK, Question, Answer
<1>2. CallTypeOK'
  BY <1>1 DEF CallInv, CallTypeOK, Reply
<1>3. MessagesFit'
  BY DEF CallInv, MessagesFit, About, InProgress, Reply
<1> QED
  BY <1>2, <1>3, MessagesKeepInv DEF Reply

\* An answer goes to the channel parked under its number, if there is one.
LEMMA DeliverKeepsInv == ASSUME CallInv, NEW a \in up, Deliver(a) PROVE CallInv'
<1>1. PICK p \in park : p.key = WaitKey(a.f, a.id)
                        /\ handing' = handing \cup {[to |-> p.id, a |-> a]}
  BY DEF Deliver
<1>2. a \in Answer /\ p.id = a.id
  BY <1>1 DEF CallInv, CallTypeOK, ParkFits, WaitKey, Key
<1>3. CallTypeOK'
  BY <1>1, <1>2 DEF CallInv, CallTypeOK, Deliver, Answer
<1>4. MessagesFit'
  BY <1>1, <1>2 DEF CallInv, MessagesFit, About, InProgress, Deliver
<1> QED
  BY <1>3, <1>4, MessagesKeepInv DEF Deliver

\* The waiting call takes what lies in its channel.
LEMMA HandKeepsInv == ASSUME CallInv, NEW h \in handing, Hand(h) PROVE CallInv'
<1>1. PICK c \in Callers :
        IF call[c].pc = "wait" /\ call[c].id = h.to
        THEN /\ call' = [call EXCEPT ![c].pc = "told"]
             /\ result' = [result EXCEPT ![c] =
                   [f |-> call[c].f, what |-> call[c].what, from |-> h.a.f, told |-> h.a.told]]
        ELSE /\ \A d \in Callers : ~(call[d].pc = "wait" /\ call[d].id = h.to)
             /\ UNCHANGED <<call, result>>
  BY DEF Hand
<1>2. h.a \in Answer /\ About(h.to, h.a.f, h.a.told)
  BY DEF CallInv, CallTypeOK, MessagesFit
<1>3. CASE UNCHANGED <<call, result>>
  <2>1. CallTypeOK' /\ MessagesFit'
    BY <1>3 DEF CallInv, CallTypeOK, MessagesFit, About, InProgress, Hand
  <2> QED
    BY <1>3, <2>1, MessagesKeepInv DEF Hand
<1>4. CASE /\ call[c].pc = "wait" /\ call[c].id = h.to
           /\ call' = [call EXCEPT ![c].pc = "told"]
           /\ result' = [result EXCEPT ![c] =
                 [f |-> call[c].f, what |-> call[c].what, from |-> h.a.f, told |-> h.a.told]]
  <2>1. call[c] \in Call /\ InProgress(c)
    BY <1>4 DEF CallInv, CallTypeOK, InProgress
  <2>2. /\ call'[c] \in Call /\ InProgress(c)'
        /\ call'[c].f = call[c].f /\ call'[c].what = call[c].what /\ call'[c].id = call[c].id
        /\ \A d \in Callers \ {c} : call'[d] = call[d]
    BY <1>4, <2>1 DEF CallInv, CallTypeOK, InProgress, Call
  <2>3. \A d \in Callers : /\ InProgress(d)' <=> InProgress(d)
                           /\ call'[d].f = call[d].f /\ call'[d].what = call[d].what
                           /\ call'[d].id = call[d].id
    BY <2>1, <2>2 DEF InProgress
  <2>4. h.a.f = call[c].f /\ h.a.told = call[c].what
    BY <1>2, <1>4, <2>1 DEF About
  <2>5. call' \in [Callers -> Call]
    BY <1>4, <2>2 DEF CallInv, CallTypeOK
  <2>6. result' \in [Callers -> Result]
    BY <1>2, <1>4, <2>1 DEF CallInv, CallTypeOK, Answer, Result, Call
  <2>7. CallTypeOK'
    BY <2>5, <2>6 DEF CallInv, CallTypeOK, Hand
  <2>8. CallsFit'
    BY <2>1, <2>2, <2>3 DEF CallInv, CallsFit, Hand, InProgress
  <2>9. ParkFits'
    BY <2>3 DEF CallInv, ParkFits, Hand
  <2>10. MessagesFit'
    BY <2>3 DEF CallInv, MessagesFit, About, Hand
  <2>11. ToldRight'
    BY <1>4, <2>4 DEF CallInv, CallTypeOK, ToldRight
  <2> QED
    BY <2>7, <2>8, <2>9, <2>10, <2>11 DEF CallInv
<1> QED
  BY <1>1, <1>3, <1>4

\* Every step keeps the numbers and the messages about them apart.
LEMMA NextCall == CallInv /\ [CallNext]_cvars => CallInv'
<1> SUFFICES ASSUME CallInv, [CallNext]_cvars PROVE CallInv'
  OBVIOUS
<1>1. ASSUME NEW c \in Callers, TimeOut(c) \/ Return(c) PROVE CallInv'
  BY <1>1, EndKeepsInv DEF TimeOut, Return, InProgress
<1>2. ASSUME NEW c \in Callers, NEW f \in Factories, NEW w \in Asked, Ask(c, f, w)
      PROVE  CallInv'
  BY <1>2, AskKeepsInv
<1>3. ASSUME Lost PROVE CallInv'
  BY <1>3, MessagesKeepInv DEF Lost, CallInv, CallTypeOK, MessagesFit, About, InProgress
<1>4. CASE UNCHANGED cvars
  BY <1>4 DEF cvars, CallInv, CallTypeOK, CallsFit, ParkFits, MessagesFit, ToldRight, About,
     InProgress
<1> QED
  BY <1>1, <1>2, <1>3, <1>4, ReplyKeepsInv, DeliverKeepsInv, HandKeepsInv DEF CallNext

\* CallFactory and Broker.Call: whoever is told something is told what it asked, by whom it
\* asked, and the broker keeps a channel for exactly the calls in progress.
THEOREM AnswersAreOwn == CallSpec => []OwnAnswer
<1>1. CallSpec => []CallInv
  BY InitCall, NextCall, PTL DEF CallSpec
<1> QED
  BY <1>1, InvGivesOwnAnswer, PTL

-----------------------------------------------------------------------------
(* Organisation                                                            *)

Unit == [status : {"absent", "gone", "active", "disabled"}, parent : Units \cup {Top}]
Edit == {NoEdit}
        \cup [op : {"create", "reparent"}, u : Units, p : Units \cup {Top}]
        \cup [op : {"person"}, p : Members, u : Units \cup {Top}]
        \cup [op : {"disable", "enable", "delete"}, u : Units]

OrgTypeOK ==
    /\ unit \in [Units -> Unit]
    /\ member \in [Members -> Units \cup {Top}]
    /\ edit \in [Editors -> Edit]
    /\ edits \in Nat

\* A unit that is not there hangs nowhere, so that whether it is there shows in its status.
StatusTells ==
    \A u \in Units : unit[u].status \in {"absent", "gone"} => unit[u].parent = Top

\* The units there are, and ReferencesExist in terms of them.
There == {u \in Units : unit[u] \notin {Absent, Gone}}
ReferencesAreThere ==
    /\ \A u \in There : unit[u].parent \in {Top} \cup There
    /\ \A p \in Members : member[p] \in {Top} \cup There

OrgInv == OrgTypeOK /\ StatusTells /\ ReferencesAreThere

\* The invariant has the property as one of its parts.
LEMMA InvGivesReferences == OrgInv => ReferencesExist
BY DEF OrgInv, ReferencesAreThere, ReferencesExist, There, Exists, HasRow

\* A unit exists as long as its status does not say it is removed.
LEMMA ExistsByStatus ==
  ASSUME OrgTypeOK, StatusTells, NEW u \in Units
  PROVE  Exists(u) <=> unit[u].status \in {"active", "disabled"}
<1>1. /\ unit[u] \in Unit
      /\ unit[u].status \in {"absent", "gone"} => unit[u].parent = Top
  BY DEF OrgTypeOK, StatusTells
<1> HIDE DEF OrgTypeOK, StatusTells
<1> QED
  BY <1>1 DEF Unit, Exists, Absent, Gone

\* To begin with there are no units, and people are members of none.
LEMMA InitOrg == OrgInit => OrgInv
BY DEF OrgInit, OrgInv, OrgTypeOK, StatusTells, ReferencesAreThere, There, Absent, Gone,
   Unit, Edit, NoEdit, Top

\* A look writes down the edit and nothing else.
LEMMA LookWrittenDown ==
  ASSUME OrgInv, NEW e \in Editors, NEW ed \in Edit, Look(e, ed)
  PROVE  OrgInv'
<1>1. OrgTypeOK'
  BY DEF Look, OrgInv, OrgTypeOK
<1>2. StatusTells' /\ ReferencesAreThere'
  BY DEF Look, OrgInv, StatusTells, ReferencesAreThere, There
<1> QED
  BY <1>1, <1>2 DEF OrgInv

\* One unit changes: it stays or comes to be, under a parent there is.
LEMMA UnitKept ==
  ASSUME OrgInv, NEW u \in Units, NEW st \in {"active", "disabled"}, NEW p \in Units \cup {Top},
         HasRow(p), unit' = [unit EXCEPT ![u] = [status |-> st, parent |-> p]],
         UNCHANGED member, edit' \in [Editors -> Edit], edits' \in Nat
  PROVE  OrgInv'
<1> DEFINE new == [status |-> st, parent |-> p]
<1>1. new \in Unit /\ new.status = st /\ new.parent = p
  BY DEF Unit
<1>2. /\ unit'[u] = new
      /\ \A v \in Units \ {u} : unit'[v] = unit[v]
      /\ unit' \in [Units -> Unit]
  BY <1>1 DEF OrgInv, OrgTypeOK
<1> HIDE DEF new
<1>3. OrgTypeOK'
  BY <1>2 DEF OrgInv, OrgTypeOK
<1>4. StatusTells'
  BY <1>1, <1>2 DEF OrgInv, StatusTells
<1>5. unit'[u] \notin {Absent, Gone}
  BY <1>1, <1>2 DEF Absent, Gone
<1>6. \A v \in There : v \in There'
  BY <1>2, <1>5 DEF There
<1>7. ASSUME NEW v \in There' PROVE unit'[v].parent \in {Top} \cup There'
  <2>1. CASE v = u
    BY <1>1, <1>2, <1>6, <2>1 DEF HasRow, Exists, There
  <2>2. CASE v # u
    BY <1>2, <1>6, <2>2 DEF OrgInv, ReferencesAreThere, There
  <2> QED
    BY <2>1, <2>2
<1>8. \A m \in Members : member'[m] \in {Top} \cup There'
  BY <1>6 DEF OrgInv, ReferencesAreThere
<1> QED
  BY <1>3, <1>4, <1>7, <1>8 DEF OrgInv, ReferencesAreThere

\* A change of one field, written out.
LEMMA FieldWritten ==
  ASSUME NEW u \in Units, unit \in [Units -> Unit]
  PROVE  /\ \A p : [unit EXCEPT ![u].parent = p]
                     = [unit EXCEPT ![u] = [status |-> unit[u].status, parent |-> p]]
         /\ \A st : [unit EXCEPT ![u].status = st]
                     = [unit EXCEPT ![u] = [status |-> st, parent |-> unit[u].parent]]
<1>1. unit[u] \in Unit
  OBVIOUS
<1>2. /\ \A p : [unit[u] EXCEPT !.parent = p] = [status |-> unit[u].status, parent |-> p]
      /\ \A st : [unit[u] EXCEPT !.status = st] = [status |-> st, parent |-> unit[u].parent]
  BY <1>1 DEF Unit
<1> QED
  BY <1>2

\* A request that ends leaves the others as they are.
LEMMA WriteTypes ==
  ASSUME OrgInv, NEW e \in Editors, NEW op, Write(e, op)
  PROVE  edit' \in [Editors -> Edit] /\ edits' \in Nat
BY DEF Write, OrgInv, OrgTypeOK, Edit

\* A request that writes nothing cannot break a reference.
LEMMA NothingWritten ==
  ASSUME OrgInv, UNCHANGED <<unit, member>>, edit' \in [Editors -> Edit], edits' \in Nat
  PROVE  OrgInv'
BY DEF OrgInv, OrgTypeOK, StatusTells, ReferencesAreThere, There

\* A unit is created under a parent that the statement looks at again.
LEMMA CreateKeepsInv ==
  ASSUME OrgInv, NEW e \in Editors, CreateWrites(e)
  PROVE  OrgInv'
<1>1. edit' \in [Editors -> Edit] /\ edits' \in Nat
  BY WriteTypes DEF CreateWrites
<1>2. edit[e] \in Edit /\ edit[e].op = "create"
  BY DEF CreateWrites, Write, OrgInv, OrgTypeOK
<1>3. edit[e].u \in Units /\ edit[e].p \in Units \cup {Top}
  BY <1>2 DEF Edit, NoEdit
<1>4. CASE unit[edit[e].u] = Absent /\ HasRow(edit[e].p)
  BY <1>1, <1>3, <1>4, UnitKept DEF CreateWrites
<1>5. CASE ~(unit[edit[e].u] = Absent /\ HasRow(edit[e].p))
  BY <1>1, <1>5, NothingWritten DEF CreateWrites
<1> QED
  BY <1>4, <1>5

\* A unit gets another parent, looked at in the same statement.
LEMMA ReparentKeepsInv ==
  ASSUME OrgInv, NEW e \in Editors, ReparentWrites(e)
  PROVE  OrgInv'
<1> DEFINE u == edit[e].u
           p == edit[e].p
<1>1. edit' \in [Editors -> Edit] /\ edits' \in Nat
  BY WriteTypes DEF ReparentWrites
<1>2. edit[e] \in Edit /\ edit[e].op = "reparent"
  BY DEF ReparentWrites, Write, OrgInv, OrgTypeOK
<1>3. u \in Units /\ p \in Units \cup {Top}
  BY <1>2 DEF Edit, NoEdit
<1>4. CASE Exists(u) /\ HasRow(p)
  <2>1. unit[u] \in Unit /\ unit[u].status \in {"active", "disabled"}
    BY <1>3, <1>4, ExistsByStatus DEF OrgInv, OrgTypeOK
  <2>2. unit' = [unit EXCEPT ![u] = [status |-> unit[u].status, parent |-> p]]
    BY <1>3, <1>4, FieldWritten DEF ReparentWrites, OrgInv, OrgTypeOK
  <2> HIDE DEF u, p
  <2> QED
    BY <1>1, <1>3, <1>4, <2>1, <2>2, UnitKept DEF ReparentWrites
<1>5. CASE ~(Exists(u) /\ HasRow(p))
  BY <1>1, <1>5, NothingWritten DEF ReparentWrites
<1> QED
  BY <1>4, <1>5

\* A unit is disabled or enabled, which removes nothing.
LEMMA StatusKeepsInv ==
  ASSUME OrgInv, NEW e \in Editors, NEW op \in {"disable", "enable"},
         NEW st \in {"active", "disabled"}, StatusWrites(e, op, st)
  PROVE  OrgInv'
<1> DEFINE u == edit[e].u
<1>1. edit' \in [Editors -> Edit] /\ edits' \in Nat
  BY WriteTypes DEF StatusWrites
<1>2. edit[e] \in Edit /\ edit[e].op = op
  BY DEF StatusWrites, Write, OrgInv, OrgTypeOK
<1>3. u \in Units
  BY <1>2 DEF Edit, NoEdit
<1>4. CASE Exists(u)
  <2>1. unit[u] \in Unit /\ unit[u].parent \in Units \cup {Top} /\ HasRow(unit[u].parent)
    BY <1>3, <1>4 DEF OrgInv, OrgTypeOK, ReferencesAreThere, There, HasRow, Exists, Unit
  <2>2. unit' = [unit EXCEPT ![u] = [status |-> st, parent |-> unit[u].parent]]
    BY <1>3, <1>4, FieldWritten DEF StatusWrites, OrgInv, OrgTypeOK
  <2> HIDE DEF u
  <2> QED
    BY <1>1, <1>3, <2>1, <2>2, UnitKept DEF StatusWrites
<1>5. CASE ~Exists(u)
  BY <1>1, <1>5, NothingWritten DEF StatusWrites
<1> QED
  BY <1>4, <1>5

\* A person joins a unit that the statement looks at again.
LEMMA PersonKeepsInv ==
  ASSUME OrgInv, NEW e \in Editors, PersonWrites(e)
  PROVE  OrgInv'
<1>1. edit' \in [Editors -> Edit] /\ edits' \in Nat
  BY WriteTypes DEF PersonWrites
<1>2. edit[e] \in Edit /\ edit[e].op = "person"
  BY DEF PersonWrites, Write, OrgInv, OrgTypeOK
<1>3. edit[e].p \in Members /\ edit[e].u \in Units \cup {Top}
  BY <1>2 DEF Edit, NoEdit
<1>4. OrgTypeOK'
  BY <1>1, <1>3 DEF PersonWrites, OrgInv, OrgTypeOK
<1>5. StatusTells' /\ ReferencesAreThere'
  BY <1>3 DEF PersonWrites, OrgInv, OrgTypeOK, StatusTells, ReferencesAreThere, There, HasRow,
     Exists
<1> QED
  BY <1>4, <1>5 DEF OrgInv

\* The foreign keys: nothing refers to the row that goes.
LEMMA DeleteKeepsInv ==
  ASSUME OrgInv, NEW e \in Editors, DeleteWrites(e)
  PROVE  OrgInv'
<1> DEFINE u == edit[e].u
<1>1. edit' \in [Editors -> Edit] /\ edits' \in Nat
  BY WriteTypes DEF DeleteWrites
<1>2. edit[e] \in Edit /\ edit[e].op = "delete"
  BY DEF DeleteWrites, Write, OrgInv, OrgTypeOK
<1>3. u \in Units
  BY <1>2 DEF Edit, NoEdit
<1>4. CASE Exists(u) /\ ~Referenced(u)
  <2>1. Gone \in Unit /\ unit' = [unit EXCEPT ![u] = Gone] /\ member' = member
    BY <1>4 DEF DeleteWrites, MayGo, Gone, Unit
  <2>2. unit'[u] = Gone /\ \A v \in Units \ {u} : unit'[v] = unit[v]
    BY <1>3, <2>1 DEF OrgInv, OrgTypeOK
  <2> HIDE DEF u
  <2>3. OrgTypeOK'
    BY <1>1, <2>1 DEF OrgInv, OrgTypeOK
  <2>4. StatusTells'
    BY <2>2 DEF OrgInv, StatusTells, Gone
  <2>5. There' = There \ {u}
    BY <2>2 DEF There
  <2>6. ASSUME NEW v \in There' PROVE unit'[v].parent \in {Top} \cup There'
    <3>1. v \in There /\ unit'[v] = unit[v]
      BY <2>2, <2>5 DEF There
    <3>2. unit[v].parent # u
      BY <1>4, <3>1 DEF Referenced, Children, There, Exists
    <3> QED
      BY <2>5, <3>1, <3>2 DEF OrgInv, ReferencesAreThere
  <2>7. \A m \in Members : member'[m] \in {Top} \cup There'
    BY <1>4, <2>1, <2>5 DEF Referenced, OrgInv, ReferencesAreThere
  <2> QED
    BY <2>3, <2>4, <2>6, <2>7 DEF OrgInv, ReferencesAreThere
<1>5. CASE ~(Exists(u) /\ ~Referenced(u))
  BY <1>1, <1>5, NothingWritten DEF DeleteWrites, MayGo
<1> QED
  BY <1>4, <1>5

\* Every request, looking or writing, keeps the references.
LEMMA NextOrg == OrgInv /\ [OrgNext]_ovars => OrgInv'
<1> SUFFICES ASSUME OrgInv, [OrgNext]_ovars PROVE OrgInv'
  OBVIOUS
<1>1. CASE UNCHANGED ovars
  BY <1>1, NothingWritten DEF ovars, OrgInv, OrgTypeOK
<1>2. ASSUME NEW e \in Editors, NEW u \in Units, NEW p \in Units \cup {Top},
             CreateLooks(e, u, p) \/ ReparentLooks(e, u, p)
      PROVE  OrgInv'
  <2>1. /\ [op |-> "create", u |-> u, p |-> p] \in Edit
        /\ [op |-> "reparent", u |-> u, p |-> p] \in Edit
    BY DEF Edit
  <2> QED
    BY <1>2, <2>1, LookWrittenDown DEF CreateLooks, ReparentLooks
<1>3. ASSUME NEW e \in Editors, NEW p \in Members, NEW u \in Units \cup {Top}, PersonLooks(e, p, u)
      PROVE  OrgInv'
  <2>1. [op |-> "person", p |-> p, u |-> u] \in Edit
    BY DEF Edit
  <2> QED
    BY <1>3, <2>1, LookWrittenDown DEF PersonLooks
<1>4. ASSUME NEW e \in Editors, NEW u \in Units,
             DisableLooks(e, u) \/ EnableLooks(e, u) \/ DeleteLooks(e, u)
      PROVE  OrgInv'
  <2>1. \A op \in {"disable", "enable", "delete"} : [op |-> op, u |-> u] \in Edit
    BY DEF Edit
  <2> QED
    BY <1>4, <2>1, LookWrittenDown DEF DisableLooks, EnableLooks, DeleteLooks
<1>5. ASSUME NEW e \in Editors,
             \/ CreateWrites(e) \/ ReparentWrites(e) \/ PersonWrites(e)
             \/ StatusWrites(e, "disable", "disabled") \/ StatusWrites(e, "enable", "active")
             \/ DeleteWrites(e)
      PROVE  OrgInv'
  BY <1>5, CreateKeepsInv, ReparentKeepsInv, PersonKeepsInv, StatusKeepsInv, DeleteKeepsInv
<1> QED
  BY <1>1, <1>2, <1>3, <1>4, <1>5 DEF OrgNext

\* Whatever edits run at once, a unit's parent and a person's unit exist: the foreign keys
\* of the database see to it at the write, whatever the looks before it saw (ReferencesExist).
THEOREM UnitsReferToUnits == OrgSpec => []ReferencesExist
<1> QED
  BY InvGivesReferences, InitOrg, NextOrg, PTL DEF OrgSpec

-----------------------------------------------------------------------------
(* The roster                                                              *)

Conn == {NoConn}
        \cup [pc : {"auth", "added", "acked", "marked", "online", "silent", "forgotten", "gone"},
              d : Devices, p : Persons]

PadsTypeOK ==
    /\ conn \in [Conns -> Conn]
    /\ shut \subseteq Conns
    /\ Known \subseteq Conns /\ persons \in [Known -> BOOLEAN]
    /\ mqttOnline \in [Persons -> Nat]

\* Connections of p that have been counted up and not down yet.
Counted(p) == {c \in Conns : conn[c].pc \in {"online", "forgotten"} /\ conn[c].p = p}

\* A connection that came online is in the table, marked so, until its end; one that found
\* itself gone from the table stays out of it, as one yet to come is.
TableFits ==
    \A c \in Conns :
      /\ conn[c].pc \in {"marked", "online"} => c \in Known /\ persons[c]
      /\ conn[c].pc \in {"none", "silent"} => c \notin Known

\* The number kept for a person is that of the connections counted.
CountFits == \A p \in Persons : mqttOnline[p] = Cardinality(Counted(p))

PadsInv == PadsTypeOK /\ TableFits /\ CountFits

\* Connections that count for a person are finitely many.
LEMMA CountedFinite == \A p : IsFiniteSet(Counted(p))
<1>1. IsFiniteSet(Conns)
  BY PadsAssumption, FS_Interval DEF Conns
<1> QED
  BY <1>1, FS_Subset DEF Counted

\* In a quiet state counted up and connected are the same.
LEMMA InvGivesRoster == PadsInv => RosterIsConnected
<1> SUFFICES ASSUME PadsInv, NEW p \in Persons PROVE mqttOnline[p] > 0 <=> Counted(p) # {}
  BY DEF RosterIsConnected, Counted
<1>1. mqttOnline[p] = Cardinality(Counted(p)) /\ mqttOnline[p] \in Nat
  BY DEF PadsInv, CountFits, PadsTypeOK
<1>2. Cardinality(Counted(p)) = 0 <=> Counted(p) = {}
  BY CountedFinite, FS_EmptySet
<1> QED
  BY <1>1, <1>2

\* To begin with nobody is connected and no number is kept.
LEMMA InitPads == PresenceInit => PadsInv
<1> SUFFICES ASSUME PresenceInit PROVE PadsInv
  OBVIOUS
<1>1. \A c \in Conns : conn[c].pc = "none"
  BY DEF PresenceInit, NoConn
<1>2. Known = {}
  BY DEF PresenceInit, Known
<1>3. PadsTypeOK
  BY <1>2 DEF PresenceInit, PadsTypeOK, Conn, Known
<1>4. \A p : Counted(p) = {}
  BY <1>1 DEF Counted
<1>5. CountFits
  BY <1>4, FS_EmptySet DEF CountFits, PresenceInit
<1> QED
  BY <1>1, <1>2, <1>3, <1>5 DEF PadsInv, TableFits

\* A connection moves on and is counted as before.
LEMMA CountKept ==
  ASSUME PadsInv, PadsTypeOK', TableFits', UNCHANGED mqttOnline,
         \A p \in Persons : Counted(p)' = Counted(p)
  PROVE  PadsInv'
BY DEF PadsInv, CountFits

\* A connection goes to another point of its life.
LEMMA Moves ==
  ASSUME PadsTypeOK, NEW c \in Conns, NEW to, Goto(c, to), conn[c] # NoConn,
         to \in {"auth", "added", "acked", "marked", "online", "silent", "forgotten", "gone"}
  PROVE  /\ conn' \in [Conns -> Conn]
         /\ conn'[c].pc = to /\ conn'[c].p = conn[c].p /\ conn[c].p \in Persons
         /\ \A o \in Conns \ {c} : conn'[o] = conn[o]
<1>1. conn[c] \in Conn \ {NoConn}
  BY DEF PadsTypeOK
<1>2. conn[c] \in [pc : {"auth", "added", "acked", "marked", "online", "silent", "forgotten", "gone"},
              d : Devices, p : Persons]
  BY <1>1 DEF Conn
<1> DEFINE new == [conn[c] EXCEPT !.pc = to]
<1>3. new \in Conn /\ new.pc = to /\ new.p = conn[c].p /\ conn[c].p \in Persons
  BY <1>2 DEF Conn
<1>4. conn' = [conn EXCEPT ![c] = new]
  BY DEF Goto
<1> HIDE DEF new
<1> QED
  BY <1>3, <1>4 DEF PadsTypeOK

\* A connection at any label is one.
LEMMA Somewhere ==
  ASSUME PadsTypeOK, NEW c \in Conns, conn[c].pc # "none"
  PROVE  conn[c] # NoConn
BY DEF NoConn

\* Steps that leave the table and the count, between points that count alike.
LEMMA MoveKeepsInv ==
  ASSUME PadsInv, NEW c \in Conns, NEW to, Goto(c, to), conn[c].pc # "none",
         to \in {"added", "acked", "silent", "forgotten", "gone"},
         to = "silent" => c \notin Known,
         to = "forgotten" <=> conn[c].pc = "online", conn[c].pc # "forgotten",
         shut' \subseteq Conns, Known' \in {Known, Known \ {c}},
         persons' = [o \in Known' |-> persons[o]], UNCHANGED mqttOnline
  PROVE  PadsInv'
<1>1. /\ conn' \in [Conns -> Conn] /\ conn'[c].pc = to /\ conn'[c].p = conn[c].p
      /\ \A o \in Conns \ {c} : conn'[o] = conn[o]
  BY Moves, Somewhere DEF PadsInv
<1>2. PadsTypeOK'
  BY <1>1 DEF PadsInv, PadsTypeOK
<1>3. \A o \in Known' : persons'[o] = persons[o]
  OBVIOUS
<1>4. TableFits'
  BY <1>1, <1>3 DEF PadsInv, TableFits
<1>5. \A p \in Persons : Counted(p)' = Counted(p)
  BY <1>1 DEF Counted
<1> QED
  BY <1>2, <1>4, <1>5, CountKept

\* A pad connects, and takes over from an earlier connection of it.
LEMMA AuthenticateKeepsInv ==
  ASSUME PadsInv, NEW c \in Conns, NEW d \in Devices, NEW p \in Persons, Authenticate(c, d, p)
  PROVE  PadsInv'
<1> DEFINE new == [pc |-> "auth", d |-> d, p |-> p]
<1>1. new \in Conn /\ new.pc = "auth"
  BY DEF Conn
<1>2. conn' = [conn EXCEPT ![c] = new] /\ conn[c].pc = "none"
  BY DEF Authenticate, NoConn
<1>3. /\ conn' \in [Conns -> Conn] /\ conn'[c].pc = "auth"
      /\ \A o \in Conns \ {c} : conn'[o] = conn[o]
  BY <1>1, <1>2 DEF PadsInv, PadsTypeOK
<1> HIDE DEF new
<1>4. /\ Known' = (Known \ LeftBehind(d)) \cup {c}
      /\ persons' = [o \in Known' |-> o # c /\ persons[o]]
  BY DEF Authenticate, Known
<1>5. \A o \in Known : persons[o] => o \notin LeftBehind(d)
  BY DEF LeftBehind
<1>6. \A o \in Known' \ {c} : o \in Known /\ persons'[o] = persons[o]
  <2>1. ASSUME NEW o \in Known' \ {c} PROVE o \in Known /\ persons'[o] = persons[o]
    <3>1. o \in Known /\ (persons'[o] <=> persons[o])
      BY <1>4
    <3>2. persons'[o] \in BOOLEAN /\ persons[o] \in BOOLEAN
      BY <1>4, <3>1 DEF PadsInv, PadsTypeOK
    <3> QED
      BY <3>1, <3>2
  <2> QED
    BY <2>1
<1>7. PadsTypeOK'
  BY <1>3, <1>4 DEF PadsInv, PadsTypeOK, Authenticate
<1>8. TableFits'
  BY <1>3, <1>4, <1>5, <1>6 DEF PadsInv, TableFits
<1>9. \A q \in Persons : Counted(q)' = Counted(q)
  BY <1>2, <1>3 DEF Counted
<1> QED
  BY <1>7, <1>8, <1>9, CountKept DEF Authenticate

\* A connection comes online, in the table first.
LEMMA MarkKeepsInv ==
  ASSUME PadsInv, NEW c \in Conns, MarkOnline(c)
  PROVE  PadsInv'
<1>1. CASE c \in Known
  <2>1. /\ conn' \in [Conns -> Conn] /\ conn'[c].pc = "marked"
        /\ \A o \in Conns \ {c} : conn'[o] = conn[o]
    BY <1>1, Moves, Somewhere DEF MarkOnline, At, PadsInv
  <2>2. /\ Known' = Known /\ persons' \in [Known -> BOOLEAN]
        /\ persons'[c] = TRUE /\ \A o \in Known \ {c} : persons'[o] = persons[o]
    BY <1>1 DEF MarkOnline, Known, PadsInv, PadsTypeOK
  <2>3. PadsTypeOK'
    BY <2>1, <2>2 DEF MarkOnline, PadsInv, PadsTypeOK
  <2>4. TableFits'
    BY <1>1, <2>1, <2>2 DEF PadsInv, TableFits
  <2>5. \A p \in Persons : Counted(p)' = Counted(p)
    BY <2>1 DEF Counted, MarkOnline, At
  <2> QED
    BY <2>3, <2>4, <2>5, CountKept DEF MarkOnline
<1>2. CASE c \notin Known
  <2>1. persons' = [o \in Known' |-> persons[o]] /\ Known' = Known
    BY <1>2 DEF MarkOnline, Known, PadsInv, PadsTypeOK
  <2> QED
    BY <1>2, <2>1, MoveKeepsInv DEF MarkOnline, At, PadsInv, PadsTypeOK
<1> QED
  BY <1>1, <1>2

\* Its person's number goes up.
LEMMA CountUpKeepsInv ==
  ASSUME PadsInv, NEW c \in Conns, CountUp(c)
  PROVE  PadsInv'
<1> DEFINE w == conn[c].p
<1>1. /\ conn' \in [Conns -> Conn] /\ conn'[c].pc = "online" /\ conn'[c].p = w /\ w \in Persons
      /\ \A o \in Conns \ {c} : conn'[o] = conn[o]
  BY Moves, Somewhere DEF CountUp, At, PadsInv
<1>2. conn[c].pc = "marked" /\ mqttOnline' = [mqttOnline EXCEPT ![w] = @ + 1] /\ UNCHANGED <<shut, persons>>
  BY DEF CountUp, At
<1> HIDE DEF w
<1>3. PadsTypeOK' /\ TableFits' 
  BY <1>1, <1>2 DEF PadsInv, PadsTypeOK, TableFits, Known
<1>4. ASSUME NEW p \in Persons PROVE mqttOnline'[p] = Cardinality(Counted(p)')
  <2>1. mqttOnline[p] = Cardinality(Counted(p)) /\ IsFiniteSet(Counted(p))
    BY CountedFinite DEF PadsInv, CountFits
  <2>2. CASE p = w
    <3>1. Counted(p)' = Counted(p) \cup {c} /\ c \notin Counted(p)
      BY <1>1, <1>2, <2>2 DEF Counted
    <3>2. Cardinality(Counted(p)') = Cardinality(Counted(p)) + 1
      BY <2>1, <3>1, FS_AddElement
    <3>3. mqttOnline'[p] = mqttOnline[p] + 1
      BY <1>2, <2>2 DEF PadsInv, PadsTypeOK
    <3> QED
      BY <2>1, <3>2, <3>3
  <2>3. CASE p # w
    <3>1. Counted(p)' = Counted(p)
      BY <1>1, <1>2, <2>3 DEF Counted
    <3> QED
      BY <1>2, <2>1, <2>3, <3>1 DEF PadsInv, PadsTypeOK
  <2> QED
    BY <2>2, <2>3
<1> QED
  BY <1>3, <1>4 DEF PadsInv, CountFits

\* The number goes down again for a connection that has been forgotten.
LEMMA CountDownKeepsInv ==
  ASSUME PadsInv, NEW c \in Conns, CountDown(c)
  PROVE  PadsInv'
<1> DEFINE w == conn[c].p
<1>1. /\ conn' \in [Conns -> Conn] /\ conn'[c].pc = "gone" /\ conn'[c].p = w /\ w \in Persons
      /\ \A o \in Conns \ {c} : conn'[o] = conn[o]
  BY Moves, Somewhere DEF CountDown, At, PadsInv
<1>2. /\ conn[c].pc = "forgotten" /\ UNCHANGED <<shut, persons>>
      /\ mqttOnline' = [mqttOnline EXCEPT ![w] = IF @ <= 1 THEN 0 ELSE @ - 1]
  BY DEF CountDown, At
<1>0. conn[c].p = w
  OBVIOUS
<1> HIDE DEF w
<1>3. PadsTypeOK' /\ TableFits'
  BY <1>1, <1>2 DEF PadsInv, PadsTypeOK, TableFits, Known
<1>4. ASSUME NEW p \in Persons PROVE mqttOnline'[p] = Cardinality(Counted(p)')
  <2>1. mqttOnline[p] = Cardinality(Counted(p)) /\ IsFiniteSet(Counted(p)) /\ mqttOnline[p] \in Nat
    BY CountedFinite DEF PadsInv, CountFits, PadsTypeOK
  <2>2. CASE p = w
    <3>1. Counted(p)' = Counted(p) \ {c} /\ c \in Counted(p)
      BY <1>0, <1>1, <1>2, <2>2 DEF Counted
    <3>2. Cardinality(Counted(p)') = Cardinality(Counted(p)) - 1
      <4>1. Cardinality(Counted(p) \ {c}) = IF c \in Counted(p) THEN Cardinality(Counted(p)) - 1
                                            ELSE Cardinality(Counted(p))
        BY ONLY <2>1, FS_RemoveElement
      <4> QED
        BY <3>1, <4>1
    <3>3. Cardinality(Counted(p)') \in Nat
      BY <2>1, <3>1, FS_Subset, FS_CardinalityType
    <3>4. mqttOnline'[p] = IF mqttOnline[p] <= 1 THEN 0 ELSE mqttOnline[p] - 1
      BY <1>2, <2>2 DEF PadsInv, PadsTypeOK
    <3> QED
      BY <2>1, <3>2, <3>3, <3>4
  <2>3. CASE p # w
    <3>1. Counted(p)' = Counted(p)
      BY <1>0, <1>1, <1>2, <2>3 DEF Counted
    <3> QED
      BY <1>2, <2>1, <2>3, <3>1 DEF PadsInv, PadsTypeOK
  <2> QED
    BY <2>2, <2>3
<1> QED
  BY <1>3, <1>4 DEF PadsInv, CountFits

\* A connection that has closed is forgotten: it comes off the table.
LEMMA ForgetKeepsInv ==
  ASSUME PadsInv, NEW c \in Conns, ForgetPerson(c)
  PROVE  PadsInv'
<1>1. conn[c].pc = "online" <=> c \in Known
  BY DEF ForgetPerson, PadsInv, TableFits
<1>2. Known' = Known \ {c} /\ persons' = [o \in Known' |-> persons[o]]
  BY DEF ForgetPerson, Without, Known
<1> QED
  BY <1>1, <1>2, MoveKeepsInv DEF ForgetPerson, PadsInv, PadsTypeOK

\* A restart ends all connections and forgets the numbers.
LEMMA RestartKeepsInv ==
  ASSUME PadsInv, BrokerRestarts
  PROVE  PadsInv'
<1>1. ASSUME NEW c \in Conns PROVE conn'[c] \in Conn /\ conn'[c].pc \in {"none", "gone"}
  <2>1. CASE conn[c] = NoConn
    BY <2>1 DEF BrokerRestarts, NoConn, Conn
  <2>2. CASE conn[c] # NoConn
    <3>1. conn[c] \in Conn \ {NoConn} /\ conn'[c] = [conn[c] EXCEPT !.pc = "gone"]
      BY <2>2 DEF BrokerRestarts, PadsInv, PadsTypeOK
    <3> QED
      BY <3>1 DEF Conn
  <2> QED
    BY <2>1, <2>2
<1>2. Known' = {}
  BY DEF BrokerRestarts, Known
<1>3. conn' \in [Conns -> Conn]
  BY <1>1 DEF BrokerRestarts
<1>4. PadsTypeOK'
  BY <1>2, <1>3 DEF PadsTypeOK, BrokerRestarts, Known
<1>5. TableFits'
  BY <1>1, <1>2 DEF TableFits
<1>6. \A p : Counted(p)' = {}
  BY <1>1 DEF Counted
<1>7. CountFits'
  BY <1>6, FS_EmptySet DEF CountFits, BrokerRestarts
<1> QED
  BY <1>4, <1>5, <1>7 DEF PadsInv

\* Every step keeps the numbers those of the connections that count.
LEMMA NextPads == PadsInv /\ [PresenceNext]_pvars => PadsInv'
<1> SUFFICES ASSUME PadsInv, [PresenceNext]_pvars PROVE PadsInv'
  OBVIOUS
<1>1. ASSUME NEW c \in Conns, TakeOver(c) \/ Acknowledge(c) PROVE PadsInv'
  <2>1. UNCHANGED <<persons, mqttOnline>> /\ shut' \subseteq Conns
    BY <1>1 DEF TakeOver, Acknowledge, PadsInv, PadsTypeOK
  <2>2. Known' = Known /\ persons' = [o \in Known' |-> persons[o]]
    BY <2>1 DEF Known, PadsInv, PadsTypeOK
  <2>3. conn[c].pc \in {"auth", "added"} /\ \E to \in {"added", "acked", "gone"} : Goto(c, to)
    BY <1>1 DEF TakeOver, Acknowledge, At
  <2> QED
    BY <2>1, <2>2, <2>3, MoveKeepsInv
<1>2. ASSUME NEW c \in Conns, Close(c) PROVE PadsInv'
  BY <1>2 DEF Close, PadsInv, PadsTypeOK, TableFits, CountFits, Counted, Known
<1>3. CASE UNCHANGED pvars
  BY <1>3 DEF pvars, PadsInv, PadsTypeOK, TableFits, CountFits, Counted, Known
<1> QED
  BY <1>1, <1>2, <1>3, AuthenticateKeepsInv, MarkKeepsInv, CountUpKeepsInv, ForgetKeepsInv,
     CountDownKeepsInv, RestartKeepsInv DEF PresenceNext

\* The people the factory's server lists as online are those with a connection that came
\* online and whose end has not been handled, through takeovers of a device whose old
\* connection ends late and acknowledgements that fail (RosterIsConnected).
THEOREM RosterHolds == PadsSpec => []RosterIsConnected
<1> QED
  BY InvGivesRoster, InitPads, NextPads, PTL DEF PadsSpec

-----------------------------------------------------------------------------
(* Accounts                                                                *)

Person == [status : Statuses, grant : Nat]
Session == [n : Nat, who : People, kind : {"web", "pad"}]
Request == {NoRequest}
           \cup [op : {"disable", "create", "enable", "clear"}, to : People]
           \cup [op : {"revoke", "grant"}, to : People, grant : Nat \ {0}]
           \cup [op : {"reset"}, to : People, status : {"active", "disabled"}]
           \cup [op : {"login", "opened", "change"}, session : Session]

AccountsTypeOK ==
    /\ person \in [People -> Person]
    /\ sessions \subseteq Session
    /\ request \in [Requests -> Request]
    /\ requests \in Nat /\ opened \in Nat

\* The people, sessions and requests to begin with have their types.
LEMMA InitAccounts == AccountsInit => AccountsTypeOK
<1> SUFFICES ASSUME AccountsInit PROVE AccountsTypeOK
  OBVIOUS
<1>1. [status : Statuses, grant : {0, 1}] \subseteq Person
  BY DEF Person
<1>2. SuperAdmins \subseteq People
  BY DEF SuperAdmins
<1>3. sessions \subseteq Session
  BY <1>2 DEF AccountsInit, Session
<1>4. NoRequest \in Request
  BY DEF Request
<1> QED
  BY <1>1, <1>3, <1>4 DEF AccountsInit, AccountsTypeOK

\* What a request is, by what it does.
LEMMA RequestFields ==
  ASSUME AccountsTypeOK, NEW r \in Requests
  PROVE  /\ request[r].op \in {"disable", "create", "enable", "clear", "revoke", "grant", "reset"}
              => request[r].to \in People
         /\ request[r].op \in {"revoke", "grant"} => request[r].grant \in Nat \ {0}
         /\ request[r].op = "reset" => request[r].status \in {"active", "disabled"}
         /\ request[r].op \in {"login", "opened", "change"} => request[r].session \in Session
<1>1. request[r] \in Request
  BY DEF AccountsTypeOK
<1> QED
  BY <1>1 DEF Request, NoRequest

\* A person's status or grant is written.
LEMMA PersonWritten ==
  ASSUME AccountsTypeOK, NEW p \in People
  PROVE  /\ \A st \in Statuses :
              /\ [person EXCEPT ![p].status = st] \in [People -> Person]
              /\ [person EXCEPT ![p].status = st][p].status = st
              /\ [person EXCEPT ![p].status = st][p].grant = person[p].grant
              /\ \A q \in People \ {p} : [person EXCEPT ![p].status = st][q] = person[q]
         /\ \A g \in Nat :
              /\ [person EXCEPT ![p].grant = g] \in [People -> Person]
              /\ [person EXCEPT ![p].grant = g][p].grant = g
              /\ [person EXCEPT ![p].grant = g][p].status = person[p].status
              /\ \A q \in People \ {p} : [person EXCEPT ![p].grant = g][q] = person[q]
<1>1. person[p] \in Person
  BY DEF AccountsTypeOK
<1>2. ASSUME NEW st \in Statuses
      PROVE  /\ [person[p] EXCEPT !.status = st] \in Person
             /\ [person[p] EXCEPT !.status = st].status = st
             /\ [person[p] EXCEPT !.status = st].grant = person[p].grant
  BY <1>1 DEF Person
<1>3. ASSUME NEW g \in Nat
      PROVE  /\ [person[p] EXCEPT !.grant = g] \in Person
             /\ [person[p] EXCEPT !.grant = g].grant = g
             /\ [person[p] EXCEPT !.grant = g].status = person[p].status
  BY <1>1 DEF Person
<1>4. ASSUME NEW x \in Person
      PROVE  /\ [person EXCEPT ![p] = x] \in [People -> Person]
             /\ [person EXCEPT ![p] = x][p] = x
             /\ \A q \in People \ {p} : [person EXCEPT ![p] = x][q] = person[q]
  BY DEF AccountsTypeOK
<1> QED
  BY <1>2, <1>3, <1>4

\* A request moves on or ends; what it holds stays well formed.
LEMMA RequestsTyped ==
  ASSUME AccountsTypeOK, NEW r \in Requests
  PROVE  /\ End(r) => request' \in [Requests -> Request] /\ requests' \in Nat /\ opened' \in Nat
         /\ ApplyPersonPassword(r) => request' \in [Requests -> Request]
         /\ CreateSession(r) => request' \in [Requests -> Request]
<1>1. NoRequest \in Request
  BY DEF Request
<1>2. End(r) => request' \in [Requests -> Request] /\ requests' \in Nat /\ opened' \in Nat
  BY <1>1 DEF End, AccountsTypeOK
<1>3. ASSUME ApplyPersonPassword(r) PROVE request' \in [Requests -> Request]
  <2>1. request[r].to \in People
    BY <1>3, RequestFields DEF ApplyPersonPassword
  <2>2. [op |-> "clear", to |-> request[r].to] \in Request
    BY <2>1 DEF Request
  <2> QED
    BY <1>3, <2>2 DEF ApplyPersonPassword, AccountsTypeOK
<1>4. ASSUME CreateSession(r) PROVE request' \in [Requests -> Request]
  <2>1. request[r] \in [op : {"login", "opened", "change"}, session : Session]
    BY <1>4 DEF CreateSession, AccountsTypeOK, Request, NoRequest
  <2>2. [request[r] EXCEPT !.op = "opened"] \in [op : {"login", "opened", "change"}, session : Session]
    BY <2>1
  <2>3. request' = [request EXCEPT ![r] = [request[r] EXCEPT !.op = "opened"]]
    BY <1>4 DEF CreateSession
  <2>4. [request[r] EXCEPT !.op = "opened"] \in Request
    BY <2>2 DEF Request
  <2> QED
    BY <2>3, <2>4 DEF AccountsTypeOK
<1> QED
  BY <1>2, <1>3, <1>4

\* A request begins: it is well formed and writes nothing yet.
LEMMA BeginKeepsType ==
  ASSUME AccountsTypeOK, NEW r \in Requests, NEW q \in Request, Begin(r, q),
         requests' \in Nat, opened' \in Nat
  PROVE  AccountsTypeOK' /\ person' = person
BY DEF Begin, AccountsTypeOK

\* A request about a person begins; nobody changes.
LEMMA ManageKeepsType ==
  ASSUME AccountsTypeOK, NEW r \in Requests, NEW q \in Request, Manage(r, q)
  PROVE  AccountsTypeOK' /\ person' = person
BY BeginKeepsType DEF Manage, AccountsTypeOK

Begins(r, p) ==
    \/ DisableAccount(r, p) \/ RevokeRole(r, p) \/ GrantRole(r, p)
    \/ CreatePerson(r, p) \/ EnableAccount(r, p) \/ ResetPassword(r, p)
    \/ \E kind \in {"web", "pad"} : Login(r, p, kind)

\* A person's own request begins; nobody changes.
LEMMA BeginsKeepType ==
  ASSUME AccountsTypeOK, NEW r \in Requests, NEW p \in People, Begins(r, p)
  PROVE  AccountsTypeOK' /\ person' = person
<1>1. person[p] \in Person
  BY DEF AccountsTypeOK
<1>2. \A op \in {"disable", "create", "enable"} : [op |-> op, to |-> p] \in Request
  BY DEF Request
<1>3. CASE DisableAccount(r, p) \/ CreatePerson(r, p) \/ EnableAccount(r, p)
  BY <1>2, <1>3, ManageKeepsType DEF DisableAccount, CreatePerson, EnableAccount
<1>4. CASE RevokeRole(r, p)
  <2>1. [op |-> "revoke", to |-> p, grant |-> person[p].grant] \in Request
    BY <1>1, <1>4 DEF RevokeRole, Request, Person
  <2> QED
    BY <1>4, <2>1, ManageKeepsType DEF RevokeRole
<1>5. CASE GrantRole(r, p)
  <2>1. requests + 2 \in Nat \ {0}
    BY DEF AccountsTypeOK
  <2>2. [op |-> "grant", to |-> p, grant |-> requests + 2] \in Request
    BY <2>1 DEF Request
  <2> QED
    BY <1>5, <2>2, ManageKeepsType DEF GrantRole
<1>6. CASE ResetPassword(r, p)
  <2>1. [op |-> "reset", to |-> p, status |-> person[p].status] \in Request
    BY <1>1, <1>6 DEF ResetPassword, Request, Person, Statuses
  <2> QED
    BY <1>6, <2>1, ManageKeepsType DEF ResetPassword
<1>7. ASSUME NEW kind \in {"web", "pad"}, Login(r, p, kind) PROVE AccountsTypeOK' /\ person' = person
  <2>1. opened + 1 \in Nat
    BY DEF AccountsTypeOK
  <2>2. [n |-> opened + 1, who |-> p, kind |-> kind] \in Session
    BY <2>1 DEF Session
  <2>3. [op |-> "login", session |-> [n |-> opened + 1, who |-> p, kind |-> kind]] \in Request
    BY <2>2 DEF Request
  <2>4. requests' \in Nat /\ opened' \in Nat
    BY <1>7, <2>1 DEF Login, AccountsTypeOK
  <2> QED
    BY <1>7, <2>3, <2>4, BeginKeepsType DEF Login
<1> QED
  BY <1>3, <1>4, <1>5, <1>6, <1>7 DEF Begins

\* Whoever does without one person in an accounts' set of two and more has another.
LEMMA Another ==
  ASSUME NEW S, IsFiniteSet(S), Cardinality(S) > 1, NEW p
  PROVE  \E q \in S : q # p
<1> SUFFICES ASSUME S \subseteq {p} PROVE FALSE
  OBVIOUS
<1>1. IsFiniteSet({p}) /\ Cardinality({p}) = 1
  BY FS_Singleton
<1>2. Cardinality(S) <= Cardinality({p}) /\ Cardinality(S) \in Nat
  BY <1>1, FS_Subset, FS_CardinalityType
<1> QED
  BY <1>1, <1>2

\* Where the last super admin is kept, another one is left.
LEMMA Keep ==
  ASSUME NEW p \in People, KeepLastAdmin(p), SuperAdmins # {}
  PROVE  \E q \in SuperAdmins : q # p
<1>1. IsFiniteSet(SuperAdmins)
  BY AccountsAssumption, FS_Subset DEF SuperAdmins
<1> QED
  BY <1>1, Another DEF KeepLastAdmin

\* The write that may take the last super admin away.
WritesBack(r) == ApplyPersonPassword(r) /\ request[r].status = "disabled"

\* The writes to people: each is well formed, and one other than a reset leaves a super admin.
LEMMA PeopleWrites ==
  ASSUME AccountsTypeOK, NEW r \in Requests,
         \/ DisablePersonKeepAdmin(r) \/ RevokeRoleKeepAdmin(r) \/ InsertGrant(r)
         \/ InsertPerson(r) \/ SetPersonStatus(r) \/ ApplyPersonPassword(r)
  PROVE  /\ person' \in [People -> Person]
         /\ SuperAdmins # {} /\ ~WritesBack(r) => \E q \in People : Active(q)' /\ person'[q].grant > 0
<1> DEFINE p == request[r].to
           Left == SuperAdmins # {} /\ ~WritesBack(r) => \E q \in People : Active(q)' /\ person'[q].grant > 0
<1>1. p \in People
  BY RequestFields DEF DisablePersonKeepAdmin, RevokeRoleKeepAdmin, InsertGrant, InsertPerson,
     SetPersonStatus, ApplyPersonPassword, p
<1>2. \A q \in People : person[q] \in Person /\ person[q].grant \in Nat
  BY DEF AccountsTypeOK, Person
<1>3. \A q \in SuperAdmins : q \in People /\ Active(q) /\ person[q].grant > 0
  BY DEF SuperAdmins
<1>0. "active" \in Statuses /\ "disabled" \in Statuses
  BY DEF Statuses
<1> HIDE DEF p
<1>4. CASE UNCHANGED person
  BY <1>3, <1>4 DEF AccountsTypeOK, Active
<1>5. CASE person' = [person EXCEPT ![p].status = "active"]
  <2>1. /\ person' \in [People -> Person] /\ person'[p].status = "active"
        /\ person'[p].grant = person[p].grant /\ \A q \in People \ {p} : person'[q] = person[q]
    BY <1>0, <1>1, <1>5, PersonWritten
  <2> QED
    BY <1>3, <2>1 DEF Active
<1>6. CASE person' = [person EXCEPT ![p].status = "disabled"] /\ KeepLastAdmin(p)
  <2>1. person' \in [People -> Person] /\ \A q \in People \ {p} : person'[q] = person[q]
    BY <1>0, <1>1, <1>6, PersonWritten
  <2>2. SuperAdmins # {} => \E q \in SuperAdmins : q # p
    BY <1>1, <1>6, Keep
  <2> QED
    BY <1>3, <2>1, <2>2 DEF Active
<1>7. CASE person' = [person EXCEPT ![p].grant = 0] /\ KeepLastAdmin(p)
  <2>1. person' \in [People -> Person] /\ \A q \in People \ {p} : person'[q] = person[q]
    BY <1>1, <1>7, PersonWritten
  <2>2. SuperAdmins # {} => \E q \in SuperAdmins : q # p
    BY <1>1, <1>7, Keep
  <2> QED
    BY <1>3, <2>1, <2>2 DEF Active
<1>8. CASE InsertGrant(r) /\ ~(UNCHANGED person)
  <2>1. request[r].grant \in Nat \ {0}
    BY <1>8, RequestFields DEF InsertGrant
  <2>2. person' = [person EXCEPT ![p].grant = request[r].grant]
    BY <1>8 DEF InsertGrant, p
  <2>3. /\ person' \in [People -> Person] /\ person'[p].grant = request[r].grant
        /\ person'[p].status = person[p].status /\ \A q \in People \ {p} : person'[q] = person[q]
    BY <1>1, <2>1, <2>2, PersonWritten
  <2> QED
    BY <1>3, <2>1, <2>3 DEF Active
<1>9. CASE ApplyPersonPassword(r)
  <2>1. request[r].status \in {"active", "disabled"}
    BY <1>9, RequestFields DEF ApplyPersonPassword
  <2>2. person' = [person EXCEPT ![p].status = request[r].status]
    BY <1>9 DEF ApplyPersonPassword, SetStatus, p
  <2>3. CASE request[r].status = "disabled"
    BY <1>0, <1>1, <1>9, <2>2, <2>3, PersonWritten DEF WritesBack
  <2>4. CASE request[r].status = "active"
    BY <1>5, <2>2, <2>4
  <2> QED
    BY <2>1, <2>3, <2>4
<1> QED
  BY <1>4, <1>5, <1>6, <1>7, <1>8, <1>9 DEF DisablePersonKeepAdmin, RevokeRoleKeepAdmin,
     InsertGrant, InsertPerson, SetPersonStatus, SetStatus, p

\* The writes to sessions.
LEMMA SessionWrites ==
  ASSUME AccountsTypeOK, NEW r \in Requests,
         \/ CreateSession(r) \/ LoginEnds(r) \/ LoginFails(r) \/ ReplacePasswordKeepSession(r)
         \/ DeleteSessionsForPerson(r) \/ DisablePersonKeepAdmin(r)
  PROVE  sessions' \subseteq Session
<1>1. CreateSession(r) => request[r].session \in Session
  BY RequestFields DEF CreateSession
<1> QED
  BY <1>1 DEF CreateSession, LoginEnds, LoginFails, ReplacePasswordKeepSession,
     DeleteSessionsForPerson, DisablePersonKeepAdmin, DropSessions, AccountsTypeOK

Works(r) ==
    \/ DisablePersonKeepAdmin(r) \/ RevokeRoleKeepAdmin(r) \/ InsertGrant(r)
    \/ InsertPerson(r) \/ SetPersonStatus(r) \/ ApplyPersonPassword(r)
    \/ DeleteSessionsForPerson(r) \/ CreateSession(r) \/ LoginEnds(r)
    \/ LoginFails(r) \/ ReplacePasswordKeepSession(r)

\* A request does its work on one person and on sessions.
LEMMA WorksKeepType ==
  ASSUME AccountsTypeOK, NEW r \in Requests, Works(r)
  PROVE  AccountsTypeOK'
<1>1. person' \in [People -> Person]
  BY PeopleWrites DEF Works, AccountsTypeOK, CreateSession, LoginEnds, LoginFails,
     ReplacePasswordKeepSession, DeleteSessionsForPerson
<1>2. sessions' \subseteq Session
  BY SessionWrites DEF Works, AccountsTypeOK, RevokeRoleKeepAdmin, InsertGrant, InsertPerson,
     SetPersonStatus, ApplyPersonPassword
<1>3. request' \in [Requests -> Request] /\ requests' \in Nat /\ opened' \in Nat
  <2>1. End(r) \/ ((ApplyPersonPassword(r) \/ CreateSession(r)) /\ UNCHANGED <<requests, opened>>)
    BY DEF Works, DisablePersonKeepAdmin, RevokeRoleKeepAdmin, InsertGrant, InsertPerson,
       SetPersonStatus, ApplyPersonPassword, CreateSession, LoginEnds, LoginFails,
       ReplacePasswordKeepSession, DeleteSessionsForPerson
  <2> QED
    BY <2>1, RequestsTyped DEF AccountsTypeOK
<1> QED
  BY <1>1, <1>2, <1>3 DEF AccountsTypeOK

\* A change of password is asked for; nobody changes yet.
LEMMA ChangeKeepsType ==
  ASSUME AccountsTypeOK, NEW r \in Requests, NEW s \in sessions, ChangePassword(r, s)
  PROVE  AccountsTypeOK' /\ person' = person
<1>1. [op |-> "change", session |-> s] \in Request
  BY DEF Request, AccountsTypeOK
<1> QED
  BY <1>1, BeginKeepsType DEF ChangePassword, AccountsTypeOK

\* The disjuncts of AccountsNext, gathered.
LEMMA NextIsOne ==
  ASSUME [AccountsNext]_avars
  PROVE  \/ \E r \in Requests, p \in People : Begins(r, p)
         \/ \E r \in Requests : Works(r)
         \/ \E r \in Requests, s \in sessions : ChangePassword(r, s)
         \/ \E s \in sessions : SessionEnds(s)
         \/ UNCHANGED avars
BY DEF AccountsNext, Begins, Works

\* Every step keeps the types of people, sessions and requests.
LEMMA NextAccounts == AccountsTypeOK /\ [AccountsNext]_avars => AccountsTypeOK'
<1> SUFFICES ASSUME AccountsTypeOK, [AccountsNext]_avars PROVE AccountsTypeOK'
  OBVIOUS
<1>1. ASSUME NEW s \in sessions, SessionEnds(s) PROVE AccountsTypeOK'
  BY <1>1 DEF SessionEnds, AccountsTypeOK
<1>2. CASE UNCHANGED avars
  BY <1>2 DEF avars, AccountsTypeOK
<1> QED
  BY <1>1, <1>2, NextIsOne, BeginsKeepType, WorksKeepType, ChangeKeepsType

AdminsStep ==
    SuperAdmins # {} /\ SuperAdmins' = {}
      => \E r \in Requests : request[r].op = "reset" /\ request[r].status = "disabled"
                             /\ request'[r].op = "clear"

\* A step leaves the server without a super admin only where a reset that disables commits.
LEMMA StepKeepsAdmins == AccountsTypeOK /\ [AccountsNext]_avars => AdminsStep
<1> SUFFICES ASSUME AccountsTypeOK, [AccountsNext]_avars, SuperAdmins # {}, SuperAdmins' = {}
             PROVE  \E r \in Requests : /\ request[r].op = "reset" /\ request[r].status = "disabled"
                                        /\ request'[r].op = "clear"
  BY DEF AdminsStep
<1>1. \A q \in People : ~(Active(q)' /\ person'[q].grant > 0)
  BY DEF SuperAdmins
<1>2. person' # person
  BY <1>1 DEF SuperAdmins, Active
<1>3. PICK r \in Requests : Works(r)
  BY <1>2, NextIsOne, BeginsKeepType, ChangeKeepsType DEF SessionEnds, avars
<1>4. \/ DisablePersonKeepAdmin(r) \/ RevokeRoleKeepAdmin(r) \/ InsertGrant(r)
      \/ InsertPerson(r) \/ SetPersonStatus(r) \/ ApplyPersonPassword(r)
  BY <1>2, <1>3 DEF Works, DeleteSessionsForPerson, CreateSession, LoginEnds, LoginFails,
     ReplacePasswordKeepSession
<1>5. WritesBack(r)
  BY <1>1, <1>4, PeopleWrites
<1>6. request'[r].op = "clear"
  <2>1. request' = [request EXCEPT ![r] = [op |-> "clear", to |-> request[r].to]]
    BY <1>5 DEF WritesBack, ApplyPersonPassword
  <2> QED
    BY <2>1 DEF AccountsTypeOK
<1> QED
  BY <1>5, <1>6 DEF WritesBack, ApplyPersonPassword

\* The super admins of a factory are lost in one way only, by a password reset that writes
\* back the status it read before: those who disable each other, or take each other's role,
\* at the same time never both succeed (AdminsKept).
THEOREM AdminsStay == AccountsSpec => AdminsKept
<1> USE DEF AdminsStep
<1> QED
  BY InitAccounts, NextAccounts, StepKeepsAdmins, PTL DEF AccountsSpec, AdminsKept

NewestStep ==
    \A r \in Requests : LoginEnds(r) =>
      \A s \in sessions : s.kind = "pad" /\ (\A o \in PadSessions(s.who) : o.n <= s.n)
        => s \in sessions'

\* A login that ends drops none of the sessions that are the newest by then.
LEMMA StepKeepsNewest == AccountsTypeOK => NewestStep
<1> SUFFICES ASSUME AccountsTypeOK, NEW r \in Requests, LoginEnds(r), NEW s \in sessions,
                    s.kind = "pad", \A o \in PadSessions(s.who) : o.n <= s.n,
                    s \notin sessions'
             PROVE  FALSE
  BY DEF NewestStep
<1> DEFINE new == request[r].session
<1>1. new \in sessions /\ s \in PadSessions(new.who) /\ s.n < new.n /\ new.kind = "pad"
  BY DEF LoginEnds, Earlier
<1>2. new \in PadSessions(s.who) /\ new \in Session /\ s \in Session
  BY <1>1 DEF PadSessions, AccountsTypeOK
<1>3. new.n \in Nat /\ s.n \in Nat /\ new.n <= s.n
  BY <1>2 DEF Session
<1> HIDE DEF new
<1> QED
  BY <1>1, <1>3

\* The end of a pad login never drops the newest pad session of a person: of two logins at
\* once the later one stays (NewestPadStays).
THEOREM NewestPadKept == AccountsSpec => NewestPadStays
<1> USE DEF NewestStep
<1> QED
  BY InitAccounts, NextAccounts, StepKeepsNewest, PTL DEF AccountsSpec, NewestPadStays

-----------------------------------------------------------------------------
(* The factory's own row                                                   *)

\* A genuine row that says retired, or no longer WAN's latest, is told apart by
\* its revision: an open row of a retired factory is behind WAN.
LEMMA OpenIsBehind ==
  ASSUME TypeOK, RetiredIsLast, NEW r \in Row, Genuine(r)
  PROVE  /\ r.st = "retired" => Wan = "retired"
         /\ r.st # "retired" /\ Wan = "retired" => r.rev + 1 <= rev
<1>1. r.rev \in 0..rev
  BY DEF TypeOK, Genuine, Row
<1>2. r.st = "retired" => Wan = "retired"
  BY <1>1 DEF Genuine, RetiredIsLast, Wan
<1>3. r.st # "retired" /\ Wan = "retired" => r.rev # rev
  BY DEF Genuine, Wan
<1> QED
  BY <1>1, <1>2, <1>3 DEF TypeOK

\* The initial state satisfies the invariant.
LEMMA InitLifecycle == Init => LifecycleInv
<1> SUFFICES ASSUME Init PROVE LifecycleInv
  OBVIOUS
<1>1. TypeOK
  <2>1. row \in Row
    BY DEF Init, Row, Status
  <2>2. snap \in [Threads -> Row]
    BY <2>1 DEF Init
  <2>3. arg \in [Threads -> [st : Status, rev : Nat, close : BOOLEAN]]
    BY DEF Init, Status
  <2>4. pc \in [Threads -> {"down", "first", "check", "online", "index", "loop", "put",
                           "putsave", "apply", "save", "close", "wait", "stop", "off", "done"}]
    BY DEF Init, Threads
  <2>5. /\ wan \in [0..MaxRev -> Status] /\ rev \in 0..MaxRev
        /\ notices \subseteq 0..rev /\ faults \in Nat
    BY LifecycleBounds DEF Init, Status
  <2>6. /\ online \in BOOLEAN /\ cancelled \in BOOLEAN
        /\ dirty \in BOOLEAN /\ born \in BOOLEAN
    BY DEF Init
  <2> QED
    BY <2>1, <2>2, <2>3, <2>4, <2>5, <2>6 DEF TypeOK
<1>2. RetiredIsLast
  BY LifecycleBounds DEF Init, RetiredIsLast
<1>3. ClosesOnlyRetired /\ FollowsWAN
  BY LifecycleBounds DEF Init, ClosesOnlyRetired, FollowsWAN, Genuine, Threads, Row
<1> QED
  BY <1>1, <1>2, <1>3 DEF LifecycleInv

\* What an index step, a transaction or a stop of goroutine t keeps.
LEMMA ThreadStep ==
  ASSUME LifecycleInv, NEW t \in Threads, Thread(t) PROVE LifecycleInv'
<1> USE DEF LifecycleInv, Runs, Proceed, Threads, wanVars, Wan
<1>0. wan' = wan /\ rev' = rev
  BY DEF Thread, Renew, CheckAlive, SetOnline, ApplyRead, ApplySave, CloseFromWAN, Stop, Quit
<1>1. RetiredIsLast'
  BY <1>0 DEF RetiredIsLast
<1>2. ASSUME NEW r, Genuine(r) PROVE Genuine(r)'
  BY <1>0, <1>2 DEF Genuine
<1>3. CASE Renew(t)
  BY <1>1, <1>3 DEF Renew, TypeOK, ClosesOnlyRetired, FollowsWAN, Genuine
<1>4. CASE CheckAlive(t)
  BY <1>1, <1>4 DEF CheckAlive, TypeOK, ClosesOnlyRetired, FollowsWAN, Genuine
<1>5. CASE SetOnline(t)
  BY <1>1, <1>5 DEF SetOnline, TypeOK, ClosesOnlyRetired, FollowsWAN, Genuine
<1>6. CASE ApplyRead(t)
  <2>1. row.st = "retired" => Wan = "retired"
    BY OpenIsBehind DEF FollowsWAN, TypeOK
  <2> QED
    BY <1>1, <1>6, <2>1 DEF ApplyRead, After, TypeOK, ClosesOnlyRetired, FollowsWAN, Genuine
<1>7. CASE ApplySave(t)
  <2>1. Genuine(arg[t])
    BY <1>7 DEF ApplySave, FollowsWAN
  <2>2. row' = [st |-> arg[t].st, rev |-> arg[t].rev] /\ row' \in Row /\ Genuine(row')
    BY <1>7, <2>1 DEF ApplySave, TypeOK, Row, Genuine
  <2>3. arg[t].st = "retired" => Wan = "retired"
    BY <2>2, OpenIsBehind DEF Genuine
  <2> QED
    BY <1>0, <1>1, <1>7, <2>2, <2>3
       DEF ApplySave, After, TypeOK, ClosesOnlyRetired, FollowsWAN, Genuine
<1>8. CASE CloseFromWAN(t)
  <2>1. Wan = "retired"
    BY <1>8 DEF CloseFromWAN, ClosesOnlyRetired
  <2>2. row.st # "retired" => row.rev + 1 \in Nat /\ row.rev + 1 <= rev
    BY <2>1, OpenIsBehind DEF FollowsWAN, TypeOK, Row
  <2>3. TypeOK'
    <3>1. CASE row.st = "retired"
      BY <1>8, <3>1 DEF CloseFromWAN, TypeOK
    <3>2. CASE row.st # "retired"
      <4>1. [st |-> "retired", rev |-> row.rev + 1, close |-> TRUE]
              \in [st : Status, rev : Nat, close : BOOLEAN]
        BY <2>2, <3>2 DEF Status
      <4>2. arg' \in [Threads -> [st : Status, rev : Nat, close : BOOLEAN]]
        <5> DEFINE a == [st |-> "retired", rev |-> row.rev + 1, close |-> TRUE]
        <5>1. arg' = [arg EXCEPT ![t] = a]
          BY <1>8, <3>2 DEF CloseFromWAN
        <5>2. a \in [st : Status, rev : Nat, close : BOOLEAN]
          BY <4>1
        <5> HIDE DEF a
        <5> QED
          BY <5>1, <5>2 DEF TypeOK
      <4>3. /\ pc' = [pc EXCEPT ![t] = "apply"]
            /\ UNCHANGED <<wanVars, notices, dirty, row, online, cancelled, snap, born, faults>>
        BY <1>8, <3>2 DEF CloseFromWAN
      <4> QED
        BY <4>2, <4>3 DEF TypeOK
    <3> QED
      BY <3>1, <3>2
  <2>4. ClosesOnlyRetired'
    <3>1. Wan' = "retired"
      BY <1>0, <2>1
    <3>2. CASE row.st = "retired"
      <4>1. pc' = [pc EXCEPT ![t] = "stop"] /\ arg' = arg
        BY <1>8, <3>2 DEF CloseFromWAN
      <4>2. pc'["lease"] \in {"apply", "save"} => arg'["lease"].close
        BY <4>1 DEF ClosesOnlyRetired, TypeOK
      <4> QED
        BY <3>1, <4>2 DEF ClosesOnlyRetired
    <3>3. CASE row.st # "retired"
      <4>1. \A u \in Threads : u # t => pc'[u] = pc[u] /\ arg'[u] = arg[u]
        BY <1>8, <3>3 DEF CloseFromWAN, TypeOK
      <4>2. arg'[t].close
        BY <1>8, <3>3 DEF CloseFromWAN, TypeOK
      <4>3. pc'["lease"] \in {"apply", "save"} => arg'["lease"].close
        BY <4>1, <4>2 DEF ClosesOnlyRetired
      <4> QED
        BY <3>1, <4>3 DEF ClosesOnlyRetired
    <3> QED
      BY <3>2, <3>3
  <2>5. FollowsWAN'
    BY <1>8, <2>1, <2>2 DEF CloseFromWAN, FollowsWAN, Genuine, TypeOK
  <2> QED
    BY <1>1, <2>3, <2>4, <2>5
<1>9. CASE Stop(t)
  BY <1>1, <1>9 DEF Stop, TypeOK, ClosesOnlyRetired, FollowsWAN, Genuine
<1>10. CASE Quit(t)
  BY <1>1, <1>10 DEF Quit, TypeOK, ClosesOnlyRetired, FollowsWAN, Genuine
<1> QED
  BY <1>3, <1>4, <1>5, <1>6, <1>7, <1>8, <1>9, <1>10 DEF Thread

\* Every step keeps the invariant.
LEMMA NextLifecycle == LifecycleInv /\ [Next]_vars => LifecycleInv'
<1> SUFFICES ASSUME LifecycleInv, [Next]_vars PROVE LifecycleInv'
  OBVIOUS
<1> USE DEF LifecycleInv, Runs, Proceed, Threads, wanVars, Wan
<1>1. ASSUME NEW s \in Status, SetFactoryStatus(s) PROVE LifecycleInv'
  <2>1. rev + 1 \in 0..MaxRev /\ rev' = rev + 1 /\ wan' = [wan EXCEPT ![rev + 1] = s]
    BY <1>1, LifecycleBounds DEF SetFactoryStatus, TypeOK
  <2>2. TypeOK'
    BY <1>1, <2>1 DEF SetFactoryStatus, TypeOK
  <2>3. \A r \in 0..rev : wan'[r] = wan[r] /\ wan[r] # "retired"
    BY <1>1, <2>1 DEF SetFactoryStatus, TypeOK, RetiredIsLast
  <2>4. RetiredIsLast'
    BY <2>1, <2>3 DEF RetiredIsLast, TypeOK
  <2>5. ClosesOnlyRetired'
    BY <1>1 DEF SetFactoryStatus, ClosesOnlyRetired
  <2>6. ASSUME NEW r, r.rev \in Nat, Genuine(r) PROVE Genuine(r)'
    BY <1>1, <2>1, <2>3, <2>6 DEF Genuine, SetFactoryStatus, TypeOK
  <2>7. FollowsWAN'
    BY <1>1, <2>6 DEF SetFactoryStatus, FollowsWAN, TypeOK, Row
  <2> QED
    BY <2>2, <2>4, <2>5, <2>7
<1>2. ASSUME NEW t \in Threads, Thread(t) PROVE LifecycleInv'
  BY <1>2, ThreadStep
<1>3. CASE Dial
  BY <1>3 DEF Dial, TypeOK, RetiredIsLast, ClosesOnlyRetired, FollowsWAN, Genuine
<1>4. CASE PullIndex
  <2>1. notices' \subseteq 0..rev
    <3>1. rev \in 0..rev
      BY LifecycleBounds DEF TypeOK
    <3>2. notices' \subseteq notices \cup {rev}
      BY <1>4 DEF PullIndex
    <3> QED
      BY <3>1, <3>2 DEF TypeOK
  <2>11. TypeOK'
    BY <1>4, <2>1 DEF PullIndex, TypeOK
  <2>12. RetiredIsLast'
    BY <1>4 DEF PullIndex, RetiredIsLast
  <2>13. ClosesOnlyRetired'
    BY <1>4, <2>1 DEF PullIndex, ClosesOnlyRetired, TypeOK
  <2>14. FollowsWAN'
    BY <1>4, <2>1 DEF PullIndex, FollowsWAN, Genuine, TypeOK
  <2> QED
    BY <2>11, <2>12, <2>13, <2>14
<1>5. CASE PutRead
  <2>11. TypeOK'
    BY <1>5 DEF PutRead, TypeOK
  <2>12. RetiredIsLast'
    BY <1>5 DEF PutRead, RetiredIsLast
  <2>13. ClosesOnlyRetired'
    BY <1>5 DEF PutRead, ClosesOnlyRetired, TypeOK
  <2>14. FollowsWAN'
    BY <1>5 DEF PutRead, FollowsWAN, Genuine, TypeOK
  <2> QED
    BY <2>11, <2>12, <2>13, <2>14
<1>6. CASE PutSave
  <2>11. TypeOK'
    BY <1>6 DEF PutSave, TypeOK
  <2>12. RetiredIsLast'
    BY <1>6 DEF PutSave, RetiredIsLast
  <2>13. ClosesOnlyRetired'
    BY <1>6 DEF PutSave, ClosesOnlyRetired, TypeOK
  <2>14. FollowsWAN'
    BY <1>6 DEF PutSave, FollowsWAN, Genuine, TypeOK
  <2> QED
    BY <2>11, <2>12, <2>13, <2>14
<1>7. ASSUME NEW n \in notices, Handle(n) PROVE LifecycleInv'
  <2>1. n \in 0..rev /\ n \in Nat /\ wan[n] \in Status
    BY LifecycleBounds DEF TypeOK
  <2>11. TypeOK'
    BY <1>7, <2>1 DEF Handle, TypeOK
  <2>12. RetiredIsLast'
    BY <1>7 DEF Handle, RetiredIsLast
  <2>13. ClosesOnlyRetired'
    BY <1>7, <2>1 DEF Handle, ClosesOnlyRetired, TypeOK
  <2>14. FollowsWAN'
    BY <1>7, <2>1 DEF Handle, FollowsWAN, Genuine, TypeOK
  <2> QED
    BY <2>11, <2>12, <2>13, <2>14
<1>8. CASE SetOffline
  BY <1>8 DEF SetOffline, TypeOK, RetiredIsLast, ClosesOnlyRetired, FollowsWAN, Genuine
<1>9. ASSUME NEW n \in notices, Overflow(n) PROVE LifecycleInv'
  BY <1>9 DEF Overflow, TypeOK, RetiredIsLast, ClosesOnlyRetired, FollowsWAN, Genuine
<1>10. CASE Disconnect
  BY <1>10 DEF Disconnect, TypeOK, RetiredIsLast, ClosesOnlyRetired, FollowsWAN, Genuine
<1>11. ASSUME NEW t \in Threads, Fails(t) PROVE LifecycleInv'
  <2>1. faults' \in Nat
    BY <1>11 DEF Fails, Fault, TypeOK
  <2>2. dirty' \in BOOLEAN
    BY <1>11 DEF Fails, TypeOK
  <2>3. \E l \in {"down", "close"} :
           /\ pc' = [pc EXCEPT ![t] = l]
           /\ l = "close" => t = "lease" /\ pc[t] \in {"apply", "save", "close"}
    BY <1>11 DEF Fails
  <2>11. TypeOK'
    BY <1>11, <2>1, <2>2, <2>3 DEF Fails, TypeOK
  <2>12. RetiredIsLast'
    BY <1>11 DEF Fails, RetiredIsLast
  <2>13. ClosesOnlyRetired'
    BY <1>11, <2>1, <2>2, <2>3 DEF Fails, ClosesOnlyRetired, TypeOK
  <2>14. FollowsWAN'
    BY <1>11, <2>1, <2>2, <2>3 DEF Fails, FollowsWAN, Genuine, TypeOK
  <2> QED
    BY <2>11, <2>12, <2>13, <2>14
<1>12. CASE Reboot
  <2>1. pc' \in [Threads -> {"down", "wait"}]
    BY <1>12 DEF Reboot
  <2>2. faults' \in Nat /\ born' \in BOOLEAN
    BY <1>12 DEF Reboot, Fault, TypeOK
  <2>11. TypeOK'
    BY <1>12, <2>1, <2>2 DEF Reboot, TypeOK
  <2>12. RetiredIsLast'
    BY <1>12 DEF Reboot, RetiredIsLast
  <2>13. ClosesOnlyRetired'
    BY <1>12, <2>1 DEF Reboot, ClosesOnlyRetired, TypeOK
  <2>14. FollowsWAN'
    BY <1>12, <2>1 DEF Reboot, FollowsWAN, Genuine, TypeOK
  <2> QED
    BY <2>11, <2>12, <2>13, <2>14
<1>13. CASE UNCHANGED vars
  <2>11. TypeOK'
    BY <1>13 DEF vars, TypeOK
  <2>12. RetiredIsLast'
    BY <1>13 DEF vars, RetiredIsLast
  <2>13. ClosesOnlyRetired'
    <3>1. /\ cancelled' = cancelled /\ wan' = wan /\ rev' = rev
          /\ pc' = pc /\ arg' = arg
      BY <1>13 DEF vars
    <3>2. ClosesOnlyRetired
      OBVIOUS
    <3> QED
      BY <3>1, <3>2, Zenon DEF ClosesOnlyRetired
  <2>14. FollowsWAN'
    BY <1>13 DEF vars, FollowsWAN, Genuine, TypeOK
  <2> QED
    BY <2>11, <2>12, <2>13, <2>14
<1> QED
  BY <1>1, <1>2, <1>3, <1>4, <1>5, <1>6, <1>7, <1>8, <1>9, <1>10, <1>11, <1>12,
     <1>13 DEF Next, Hold, Lease

\* Whatever the overlaps of the two goroutines' transactions, the factory's row only
\* says what WAN has said, and only a retired factory is closed or stopped.
THEOREM LifecycleFollowsWAN == Spec => []LifecycleInv
<1>1. Init => LifecycleInv
  BY InitLifecycle
<1>2. LifecycleInv /\ [Next]_vars => LifecycleInv'
  BY NextLifecycle
<1> QED
  BY <1>1, <1>2, PTL DEF Spec

=============================================================================
