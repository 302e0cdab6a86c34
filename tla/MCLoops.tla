------------------------------- MODULE MCLoops -------------------------------
(***************************************************************************)
(* Goroutines that live as long as their server, one part for each initial *)
(* state: the WAN broker's hooks (Presence), the jobs of a factory's       *)
(* connection (HoldJobs), the push of weld figures (WeldPush) and a        *)
(* server's replacement of itself (SelfUpdate).  The parts share nothing;  *)
(* a fairness condition that names several parts is one of each, since     *)
(* only the part chosen at the start ever takes a step.                    *)
(***************************************************************************)
EXTENDS Presence, HoldJobs, WeldPush, SelfUpdate

VARIABLE part

allVars == <<part, vars, hvars, wvars, uvars>>

LoopsInit ==
    /\ part \in {"presence", "hold", "weld", "update"}
    /\ Init /\ HoldInit /\ WeldInit /\ UpdateInit
    \* One start is enough for the parts that stand still.
    /\ part # "weld" => ~askew
    \* Nothing recorded as installed counts as little as the version that runs.
    /\ installed = 0

InPresence(act) == part = "presence" /\ act /\ UNCHANGED <<part, hvars, wvars, uvars>>
InHold(act) == part = "hold" /\ act /\ UNCHANGED <<part, vars, wvars, uvars>>
InWeld(act) == part = "weld" /\ act /\ UNCHANGED <<part, vars, hvars, uvars>>
InUpdate(act) == part = "update" /\ act /\ UNCHANGED <<part, vars, hvars, wvars>>

LoopsNext ==
    InPresence(Next) \/ InHold(HoldNext) \/ InWeld(WeldNext) \/ InUpdate(UpdateNext)

\* The fairness of Presence!FairSpec; the goroutines of the other parts get
\* their turn, the updater and a poll of its progress too.
LoopsSpec ==
    /\ LoopsInit /\ [][LoopsNext]_allVars
    /\ WF_allVars(InPresence(Boot) \/ InHold(Leaving) \/ InWeld(Flush) \/ InUpdate(Updater))
    /\ WF_allVars(InHold(Background) \/ InWeld(Push) \/ InUpdate(Record))
    /\ WF_allVars(InHold(Job) \/ InWeld(Dial) \/ InUpdate(Stage))
    /\ WF_allVars(InHold(HandleEnds))
    /\ \A c \in Conns :
        /\ SF_allVars(InPresence(Online(c))) /\ WF_allVars(InPresence(Register(c)))
        /\ SF_allVars(InPresence(Offline(c)))
        /\ WF_allVars(InPresence(End(c) /\ c \in taken))
=============================================================================
