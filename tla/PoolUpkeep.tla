------------------------------ MODULE PoolUpkeep ------------------------------
(***************************************************************************)
(* The pool together with its managers: the cleanup of cleanup.go, which   *)
(* closes idle connections that are expired, idle for too long, unhealthy  *)
(* or too many, and the probes of health.go, which set the health flag.    *)
(* Both take a snapshot of the map and then act on connections that        *)
(* goroutines may be taking, returning and closing at the same time.       *)
(***************************************************************************)
EXTENDS PoolProperties

CONSTANTS
    EnableStats,  \* config; without statistics the idle limit is not enforced
    Idling        \* may a connection exceed IdleTimeout?

ASSUME UpkeepAssumption == {EnableStats, Idling} \subseteq BOOLEAN

VARIABLES
    sweep,    \* where the cleanup manager is
    phase,    \* "scan" in performCleanup, "cull" in enforceMaxIdleConnections
    todo,     \* the connections of the snapshot it has yet to look at
    target,   \* the connection it is looking at
    probe,    \* the probe of each connection: none, due, or its result
    stopped   \* the managers whose Stop has returned

sweepVars  == <<sweep, phase, todo, target>>
upkeepVars == <<sweepVars, probe, stopped>>
allVars    == <<vars, upkeepVars>>

Managers == {"health", "cleanup"}

-----------------------------------------------------------------------------
(* The cleanup manager: performCleanup, ...                                *)

\* A panic anywhere ends the managers, too.
At(label) == sweep = label /\ panic = "none"

\* A tick of the 30 s ticker; one that is pending may still win the select
\* against stopChan.
SweepTick ==
    /\ At("rest") /\ "cleanup" \notin stopped
    /\ sweep' = "scan" /\ phase' = "scan" /\ todo' = connections
    /\ UNCHANGED <<target, probe, stopped, vars>>

\* Fault: a connection in use is looked at until it is no longer.
LookAgain(c) ==
    /\ At("scan") /\ c \in todo
    /\ IF c \in inUse
       THEN UNCHANGED <<todo, sweep, target>>
       ELSE todo' = todo \ {c} /\ target' = c /\ sweep' = "judge"
    /\ UNCHANGED <<phase, probe, stopped, vars>>

\* Fault: the judgement is passed on the connection looked at before.
LookBehind(c) ==
    /\ At("scan") /\ c \in todo
    /\ todo' = todo \ {c}
    /\ sweep' = IF c \in inUse THEN "scan" ELSE "judge"
    /\ UNCHANGED <<target, phase, probe, stopped, vars>>

\* The first look at InUse.
Look(c) ==
    /\ At("scan") /\ c \in todo
    /\ todo' = todo \ {c}
    /\ IF c \in inUse
       THEN UNCHANGED <<sweep, target>>
       ELSE sweep' = "judge" /\ target' = c
    /\ UNCHANGED <<phase, probe, stopped, vars>>

\* Expired, idle too long or unhealthy: marked as unhealthy (all that
\* removeFromIdlePool does), so that whoever takes it from a channel closes it.
JudgeOverdue ==
    /\ At("judge")
    /\ \/ target \in expired
       \/ Idling /\ target \notin inUse
       \/ EnableHealthCheck /\ target \in unhealthy
    /\ unhealthy' = unhealthy \cup {target}
    /\ sweep' = "recheck"
    /\ UNCHANGED <<phase, todo, target, probe, stopped>>
    /\ UNCHANGED <<registry, kind, live, expired, inUse>>
    /\ UNCHANGED <<chanVars, waitVars, closeVars, locals>>

JudgeFit ==
    /\ At("judge")
    /\ target \notin expired
    /\ EnableHealthCheck => target \notin unhealthy
    /\ sweep' = "scan"
    /\ UNCHANGED <<phase, todo, target, probe, stopped, vars>>

\* Fault: only what was removed from the idle pool is closed, that is nothing.
RecheckRemoved ==
    /\ At("recheck")
    /\ sweep' = "scan"
    /\ UNCHANGED <<phase, todo, target, probe, stopped, vars>>

\* The second look at InUse.
Recheck ==
    /\ At("recheck")
    /\ sweep' = IF target \in inUse THEN "scan" ELSE "retire"
    /\ UNCHANGED <<phase, todo, target, probe, stopped, vars>>

\* Fault: whoever takes the connection from its channel will close it.
SweepRetireOnly ==
    /\ At("retire")
    /\ unhealthy' = unhealthy \cup {target}
    /\ connections' = connections \ {target}
    /\ sweep' = phase
    /\ UNCHANGED <<phase, todo, target, probe, stopped>>
    /\ UNCHANGED <<createSemaphore, kind, live, expired, inUse>>
    /\ UNCHANGED <<chanVars, waitVars, closeVars, locals>>

\* closeConnection, in the two steps it has for everybody.
SweepRetire ==
    /\ At("retire")
    /\ unhealthy' = unhealthy \cup {target}
    /\ connections' = connections \ {target}
    /\ sweep' = "shut"
    /\ UNCHANGED <<phase, todo, target, probe, stopped>>
    /\ UNCHANGED <<createSemaphore, kind, live, expired, inUse>>
    /\ UNCHANGED <<chanVars, waitVars, closeVars, locals>>

SweepShut ==
    /\ At("shut")
    /\ live' = live \ {target}
    /\ sweep' = phase
    /\ UNCHANGED <<phase, todo, target, probe, stopped>>
    /\ UNCHANGED <<registry, kind, expired, unhealthy, inUse>>
    /\ UNCHANGED <<chanVars, waitVars, closeVars, locals>>

-----------------------------------------------------------------------------
(* ... and enforceMaxIdleConnections.                                      *)

\* Of the connections not in use, those above the limit are selected, by a
\* time of last use the model does not have.
Select ==
    LET spare  == connections \ inUse
        excess == Cardinality(spare) - MaxIdleConnections
    IN
    /\ At("scan") /\ todo = {}
    /\ IF EnableStats /\ excess > 0
       THEN /\ sweep' = "cull" /\ phase' = "cull"
            /\ todo' \in {S \in SUBSET spare : Cardinality(S) = excess}
       ELSE sweep' = "rest" /\ UNCHANGED <<phase, todo>>
    /\ UNCHANGED <<target, probe, stopped, vars>>

Cull(c) ==
    /\ At("cull") /\ c \in todo
    /\ todo' = todo \ {c}
    /\ IF c \in inUse
       THEN UNCHANGED <<sweep, target>>
       ELSE sweep' = "retire" /\ target' = c
    /\ UNCHANGED <<phase, probe, stopped, vars>>

Culled ==
    /\ At("cull") /\ todo = {}
    /\ sweep' = "rest"
    /\ UNCHANGED <<phase, todo, target, probe, stopped, vars>>

-----------------------------------------------------------------------------
(* The health manager: a round probes every connection of the map and ends *)
(* when all probes have.                                                   *)

ProbeRound ==
    /\ EnableHealthCheck /\ "health" \notin stopped /\ panic = "none"
    /\ \A c \in Conns : probe[c] = "none"
    /\ probe' = [c \in Conns |-> IF c \in connections THEN "due" ELSE "none"]
    /\ UNCHANGED <<sweepVars, stopped, vars>>

\* A connection in use is skipped.  A probe may fail, or time out, on any
\* connection; it succeeds only on an open one.
ProbeRead(c) ==
    /\ probe[c] = "due" /\ panic = "none"
    /\ \E result \in {"none", "ill", "well"} :
        /\ c \in inUse <=> result = "none"
        /\ result = "well" => c \in live
        /\ probe' = [probe EXCEPT ![c] = result]
    /\ UNCHANGED <<sweepVars, stopped, vars>>

\* UpdateHealth, with the result of a moment ago.
ProbeReport(c) ==
    /\ probe[c] \in {"ill", "well"} /\ panic = "none"
    /\ unhealthy' = IF probe[c] = "ill" THEN unhealthy \cup {c} ELSE unhealthy \ {c}
    /\ probe' = [probe EXCEPT ![c] = "none"]
    /\ UNCHANGED <<sweepVars, stopped>>
    /\ UNCHANGED <<registry, kind, live, expired, inUse>>
    /\ UNCHANGED <<chanVars, waitVars, closeVars, locals>>

-----------------------------------------------------------------------------
(* Close stops the managers, the health checks first, and waits for each.  *)

StopHealth ==
    /\ closer = "stopping" /\ "health" \notin stopped
    /\ \A c \in Conns : probe[c] = "none"
    /\ stopped' = stopped \cup {"health"}
    /\ UNCHANGED <<sweepVars, probe, vars>>

\* Fault: Stop does not wait for a cleanup that is under way.
StopCleanupUnwaited ==
    /\ closer = "stopping" /\ stopped = {"health"}
    /\ stopped' = Managers
    /\ UNCHANGED <<sweepVars, probe, vars>>

StopCleanup ==
    /\ closer = "stopping" /\ stopped = {"health"}
    /\ sweep = "rest"
    /\ stopped' = Managers
    /\ UNCHANGED <<sweepVars, probe, vars>>

ManagedClose == CloseStep /\ (closer = "stopping" => stopped = Managers)

-----------------------------------------------------------------------------
UpkeepInit ==
    /\ Init
    /\ sweep = "rest" /\ phase = "scan" /\ todo = {} /\ target = None
    /\ probe = [c \in Conns |-> "none"]
    /\ stopped = {}

SweepStep ==
    \/ SweepTick \/ (\E c \in Conns : Look(c) \/ Cull(c))
    \/ JudgeOverdue \/ JudgeFit \/ Recheck \/ SweepRetire \/ SweepShut
    \/ Select \/ Culled
ProbeStep == ProbeRound \/ \E c \in Conns : ProbeRead(c) \/ ProbeReport(c)
StopStep == StopHealth \/ StopCleanup

PoolStep ==
    \/ \E p \in Procs : CallStep(p) \/ UserStep(p)
    \/ CloseBegin \/ ManagedClose
    \/ \E c \in Conns : Expire(c)
    \/ Halted

UpkeepNext ==
    \/ PoolStep /\ UNCHANGED upkeepVars
    \/ SweepStep \/ ProbeStep \/ StopStep

UpkeepSpec == UpkeepInit /\ [][UpkeepNext]_allVars

\* Calls and Close as before; tickers tick, managers run, and a select between
\* a tick and stopChan, which picks at random, does not ignore stopChan for ever.
UpkeepFairness ==
    /\ CallFairness
    /\ WF_allVars(ManagedClose /\ UNCHANGED upkeepVars)
    /\ WF_allVars(SweepStep)
    /\ WF_allVars(ProbeStep)
    /\ SF_allVars(StopStep)

FairUpkeep == UpkeepSpec /\ UpkeepFairness

-----------------------------------------------------------------------------
(* Properties.                                                             *)

\* The managers' variables keep their shape, and the cleanup manager closes a
\* connection only after it has chosen one.
UpkeepTypeOK ==
    /\ sweep \in {"rest", "scan", "judge", "recheck", "retire", "shut", "cull"}
    /\ phase \in {"scan", "cull"}
    /\ todo \subseteq Conns /\ target \in Conns \cup {None}
    /\ sweep \in {"judge", "recheck", "retire", "shut"} => target \in Conns
    /\ probe \in [Conns -> {"none", "due", "ill", "well"}]
    /\ stopped \subseteq Managers

\* With the cleanup manager closing connections as well, an open connection is
\* still in the map, on the list of Close, or about to be closed by whoever
\* took it out of the map: marking it unhealthy is not enough.
UpkeepNoOrphan ==
    panic = "none" => \A c \in live :
        \/ c \in connections \cup doomed
        \/ \E p \in Procs : pc[p] = "shut" /\ frame[p].conn = c
        \/ sweep = "shut" /\ target = c

\* An expired connection gives its place in the map back, sooner or later, even
\* if nobody calls Get or Put, unless somebody has borrowed it.
ExpiredReclaimed ==
    \A c \in Conns :
        c \in expired \cap connections
            ~> \/ c \notin connections \/ panic # "none"
               \/ \E p \in Procs : pc[p] = "held" /\ frame[p].conn = c

\* Close, which waits for the managers, still runs to its end.
ManagedCloseCompletes == closer = "stopping" ~> Terminated \/ panic # "none"

\* "Check again if connection is in use": nobody but its borrower closes a
\* borrowed connection while the pool is open.
BorrowerUndisturbed ==
    ~closed => \A p \in Procs : pc[p] = "held" => frame[p].conn \in live

=============================================================================
