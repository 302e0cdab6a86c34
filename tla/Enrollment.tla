----------------------------- MODULE Enrollment -----------------------------
(***************************************************************************)
(* Claiming a factory: with the one-time code of the WAN's directory a     *)
(* factory server fetches the offer, builds the factory's database, its    *)
(* initial super admin and its signing key, and has the WAN register the   *)
(* public key, which uses the code up (F hub/hub.go: Claim, open; G        *)
(* store/channel.go: LookupEnrollment, ConfirmEnrollment).  Then the       *)
(* server keeps one loop to the WAN and one that renews the content lease  *)
(* (hub/channel.go).  Calls may be made twice, on two servers, be cut off  *)
(* anywhere and be made again; servers restart.                            *)
(***************************************************************************)
EXTENDS Naturals

CONSTANTS Servers, Claims,
          MaxKeys,      \* bound: signing keys drawn
          MaxBreaks     \* bound: calls cut off, answers lost, restarts

\* A password is known by the call that set it; "none" stands for no password.
ASSUME ClaimsAssumption == "none" \notin Claims

NoSign == 0

VARIABLES code,         \* the enrollment code is still good
          factoryKey,   \* factory_public_keys at the WAN
          hubs,         \* per server: database, owner's password, signing key
          claim,        \* per call: what it does, where, with which password
          channel,      \* per server: the outbound loop
          renew,        \* per server: the lease loop
          keys, breaks

evars == <<code, factoryKey, hubs, claim, channel, renew, keys, breaks>>

NoHub == [db |-> FALSE, pwd |-> "none", key |-> NoSign]
NoClaim == [pc |-> "idle", s |-> "none", key |-> NoSign]

EnrollInit ==
    /\ code = TRUE /\ factoryKey = NoSign
    /\ hubs = [s \in Servers |-> NoHub]
    /\ claim = [c \in Claims |-> NoClaim]
    /\ channel = [s \in Servers |-> "none"] /\ renew = [s \in Servers |-> "none"]
    /\ keys = 0 /\ breaks = 0

wanSide == <<code, factoryKey>>
loops == <<channel, renew>>
bounds == <<keys, breaks>>
Step(c, pc) == claim' = [claim EXCEPT ![c].pc = pc]
Break == breaks < MaxBreaks /\ breaks' = breaks + 1

-----------------------------------------------------------------------------
\* Claim asks for the offer: nothing changes at either side.
Offer(c, s) ==
    /\ claim[c] = NoClaim /\ code
    /\ claim' = [claim EXCEPT ![c] = [NoClaim EXCEPT !.pc = "open", !.s = s]]
    /\ UNCHANGED <<wanSide, hubs, loops, bounds>>

\* ensure: one opener at a time, the database is made once; it may fail.
Open(c) ==
    /\ claim[c].pc = "open"
    /\ hubs' = [hubs EXCEPT ![claim[c].s].db = TRUE]
    /\ Step(c, "accept")
    /\ UNCHANGED <<wanSide, loops, bounds>>

\* AcceptEnrollment: the person the WAN names; claimed again, the password
\* of the last attempt stands and older sessions are dropped.
AcceptEnrollment(c) ==
    /\ claim[c].pc = "accept"
    /\ hubs' = [hubs EXCEPT ![claim[c].s].pwd = c]
    /\ Step(c, "key")
    /\ UNCHANGED <<wanSide, loops, bounds>>

\* signingMaterial: the key that is there, or a new one ...
LookForKey(c) ==
    /\ claim[c].pc = "key"
    /\ IF hubs[claim[c].s].key # NoSign
       THEN /\ claim' = [claim EXCEPT ![c].pc = "confirm", ![c].key = hubs[claim[c].s].key]
            /\ keys' = keys
       ELSE /\ keys < MaxKeys /\ keys' = keys + 1
            /\ claim' = [claim EXCEPT ![c].pc = "install", ![c].key = keys + 1]
    /\ UNCHANGED <<wanSide, hubs, loops, breaks>>

\* A plausible slip: the row is written over.
PutOver(k, new) == new

\* PutSigningKey: one row, so the second writer is refused.
PutSigningKey(k, new) == IF k = NoSign THEN new ELSE k

InstallSigningKey(c) ==
    LET s == claim[c].s IN
    /\ claim[c].pc = "install"
    /\ hubs' = [hubs EXCEPT ![s].key = PutSigningKey(@, claim[c].key)]
    /\ IF hubs'[s].key = claim[c].key THEN Step(c, "confirm") ELSE claim' = [claim EXCEPT ![c] = NoClaim]
    /\ UNCHANGED <<wanSide, loops, bounds>>

\* The WAN looks the code up once more ...
ConfirmLooks(c) ==
    /\ claim[c].pc = "confirm"
    /\ Step(c, IF code THEN "register" ELSE "channel")
    /\ UNCHANGED <<wanSide, hubs, loops, bounds>>

\* ... and registers the key, in a transaction of its own: the first key
\* stays, the same key again is fine.
ConfirmEnrollment(c) ==
    /\ claim[c].pc = "register"
    /\ IF factoryKey \in {NoSign, claim[c].key}
       THEN factoryKey' = claim[c].key /\ code' = FALSE
       ELSE UNCHANGED wanSide
    /\ Step(c, "channel")
    /\ UNCHANGED <<hubs, loops, bounds>>

\* ensureChannel, whatever the answer was: one loop per factory.
StartLoops(s) ==
    IF channel[s] = "none"
    THEN /\ channel' = [channel EXCEPT ![s] = "dial"]
         /\ renew' = [renew EXCEPT ![s] = "look"]
    ELSE UNCHANGED loops

EnsureChannel(c) ==
    /\ claim[c].pc = "channel"
    /\ StartLoops(claim[c].s)
    /\ claim' = [claim EXCEPT ![c] = NoClaim]
    /\ UNCHANGED <<wanSide, hubs, bounds>>

\* The call fails between two steps (no database, no answer, no password).
CutOff(c) ==
    /\ claim[c].pc \in {"open", "accept", "key", "install"} /\ Break
    /\ claim' = [claim EXCEPT ![c] = NoClaim]
    /\ UNCHANGED <<wanSide, hubs, loops, keys>>

-----------------------------------------------------------------------------
\* dialHold reads the key: without one the loop is to be stopped ...
DialReads(s) ==
    /\ channel[s] = "dial"
    /\ channel' = [channel EXCEPT ![s] = IF hubs[s].key = NoSign THEN "stop" ELSE "hold"]
    /\ UNCHANGED <<wanSide, hubs, claim, renew, bounds>>

\* ... which takes the entry away and cancels what runs under it.
StopChannel(s) ==
    /\ channel[s] = "stop"
    /\ channel' = [channel EXCEPT ![s] = "none"]
    /\ renew' = [renew EXCEPT ![s] = "none"]
    /\ UNCHANGED <<wanSide, hubs, claim, bounds>>

\* Held or not, the loop dials again.
Redials(s) ==
    /\ channel[s] = "hold" /\ Break
    /\ channel' = [channel EXCEPT ![s] = "dial"]
    /\ UNCHANGED <<wanSide, hubs, claim, renew, keys>>

\* leaseMaterial reads the key on its own; without one the loop ends.
RenewReads(s) ==
    /\ renew[s] = "look"
    /\ renew' = [renew EXCEPT ![s] = IF hubs[s].key = NoSign THEN "ended" ELSE "renewing"]
    /\ UNCHANGED <<wanSide, hubs, claim, channel, bounds>>

\* The server starts again: StartChannel, for every database it finds.
HubRestarts(s) ==
    /\ Break
    /\ claim' = [c \in Claims |-> IF claim[c].s = s THEN NoClaim ELSE claim[c]]
    /\ channel' = [channel EXCEPT ![s] = IF hubs[s].db THEN "dial" ELSE "none"]
    /\ renew' = [renew EXCEPT ![s] = IF hubs[s].db THEN "look" ELSE "none"]
    /\ UNCHANGED <<wanSide, hubs, keys>>

EnrollNext ==
    \/ \E c \in Claims :
        \/ \E s \in Servers : Offer(c, s)
        \/ Open(c) \/ AcceptEnrollment(c) \/ LookForKey(c) \/ InstallSigningKey(c)
        \/ ConfirmLooks(c) \/ ConfirmEnrollment(c) \/ EnsureChannel(c) \/ CutOff(c)
    \/ \E s \in Servers :
        DialReads(s) \/ StopChannel(s) \/ Redials(s) \/ RenewReads(s) \/ HubRestarts(s)

EnrollSpec == EnrollInit /\ [][EnrollNext]_evars

(* The key the WAN registered is the signing key of one server, that has   *)
(* the database and an owner, and the code is used up with it: no retry,   *)
(* double claim or race of two servers leaves a factory whose server signs *)
(* with another key.                                                       *)
ClaimedOnce ==
    /\ factoryKey # NoSign <=> ~code
    /\ factoryKey # NoSign =>
        \E s \in Servers : hubs[s].db /\ hubs[s].pwd # "none" /\ hubs[s].key = factoryKey

(* A server that holds the key has its loop to the WAN, if no claim is at  *)
(* work there and the loop is not about to change: what Claim says of      *)
(* itself.                                                                 *)
ClaimedHolds ==
    \A s \in Servers :
        hubs[s].key # NoSign /\ hubs[s].key = factoryKey /\ (\A c \in Claims : claim[c].s # s)
            => channel[s] # "none"
=============================================================================
