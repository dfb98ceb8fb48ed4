----------------------------- MODULE Lifecycle -----------------------------
(***************************************************************************)
(* What a device server promises, without probes, retries or datagrams: it *)
(* looks for its public address, decides once how it is reachable,         *)
(* announces itself and goes online for good.                              *)
(***************************************************************************)
VARIABLES
    stage,      \* "idle", "probing", "registering" or "online"
    reach,      \* the running mode it settled on, or "undecided"
    keepAlive   \* whether the registration is being refreshed

lifeVars == <<stage, reach, keepAlive>>

LifeInit ==
    /\ stage = "idle"
    /\ reach = "undecided"
    /\ keepAlive = FALSE

StartProbing ==
    /\ stage = "idle"
    /\ stage' = "probing"
    /\ UNCHANGED <<reach, keepAlive>>

\* The probes are over.  A server that does not ask to be relayed has seen
\* all of them answered and keeps its registration alive from here on.
Decide ==
    /\ stage = "probing"
    /\ stage' = "registering"
    /\ reach' \in {"REMOTE_DIRECT_MODE", "REMOTE_RELAY_MODE", "LOCAL_MODE"}
    /\ keepAlive' \in BOOLEAN
    /\ reach' # "REMOTE_RELAY_MODE" => keepAlive'

\* The first probe is never answered: no registration, no keep-alive.
GoLocal ==
    /\ stage = "probing"
    /\ stage' = "online"
    /\ reach' = "LOCAL_MODE"
    /\ UNCHANGED keepAlive

\* The registration is acknowledged, or given up in favour of local mode.
GoOnline ==
    /\ stage = "registering"
    /\ stage' = "online"
    /\ reach' \in {reach, "LOCAL_MODE"}
    /\ UNCHANGED keepAlive

LifeNext == StartProbing \/ Decide \/ GoLocal \/ GoOnline

LifeSpec == LifeInit /\ [][LifeNext]_lifeVars
=============================================================================
