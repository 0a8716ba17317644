----------------------------- MODULE PoolStartup -----------------------------
(***************************************************************************)
(* NewPool: Validate (config.go), which corrects the caller's Config in    *)
(* place, the synchronous warm-up and the start of the managers.  Nobody   *)
(* else has the pool yet; what varies is the configuration, the dials and  *)
(* the time.  A time is a number of units; arithmetic on times wraps       *)
(* around at Width bits, as it does at 64 in the code.                     *)
(***************************************************************************)
EXTENDS Integers

CONSTANTS
    Configs,     \* the configurations of the callers
    Width,       \* of time.Duration (64 in the code)
    MaxWarmUp,   \* ten minutes
    Second, Minute,
    DefaultPackets,  \* 100 in the code
    DialsFail    \* may the dialer fail, or be slow?

ConfigType ==
    [Mode : {"client", "server", "other"}, Dialer : BOOLEAN, Listener : BOOLEAN,
     Acceptor : {"nil", "default", "own"},
     MaxConnections : Int, MinConnections : Int, MaxIdleConnections : Int,
     ConnectionTimeout : Int, HealthCheckInterval : Int, HealthCheckTimeout : Int,
     ConnectionLeakTimeout : Int, LeakDetectionInterval : Int,
     MaxBufferClearPackets : Int, EnableHealthCheck : BOOLEAN]

ASSUME StartupAssumption ==
    /\ Configs \subseteq ConfigType
    /\ Width \in Nat \ {0} /\ MaxWarmUp \in Nat \ {0} /\ DefaultPackets \in Nat \ {0}
    /\ Second \in Nat \ {0} /\ Minute \in Nat /\ Second <= Minute
    /\ DialsFail \in BOOLEAN

VARIABLES
    config,   \* the caller's Config, which the pool keeps
    at,       \* how far NewPool is
    turn,     \* i of the warm-up loop
    late,     \* has the context of the warm-up ended?
    idle,     \* what the two idle channels hold
    tally,    \* how many dials were kept, closed by Put, refused and failed
    running   \* the managers started

vars == <<config, at, turn, late, idle, tally, running>>

-----------------------------------------------------------------------------
(* Validate.                                                               *)

\* A duration that no longer fits wraps around.
Wrap(n) == ((n + 2 ^ (Width - 1)) % (2 ^ Width)) - 2 ^ (Width - 1)

\* Fault: more connections may be warmed up than the pool may hold.
AcceptableAnyMin(c) ==
    /\ \/ c.Mode = "client" /\ c.Dialer
       \/ c.Mode = "server" /\ c.Listener
    /\ c.MinConnections >= 0
    /\ c.MaxIdleConnections > 0 /\ c.ConnectionTimeout > 0

Acceptable(c) ==
    /\ \/ c.Mode = "client" /\ c.Dialer
       \/ c.Mode = "server" /\ c.Listener
    /\ c.MinConnections >= 0
    /\ c.MaxConnections > 0 => c.MinConnections <= c.MaxConnections
    /\ c.MaxIdleConnections > 0 /\ c.ConnectionTimeout > 0

Least(m, n) == IF m <= n THEN m ELSE n
Clamp(n, low, high) == IF n < low THEN low ELSE Least(n, high)

\* Fault: the timeout is halved, and not set to half the interval.
HealthTimeoutHalved(c) ==
    IF c.HealthCheckInterval > 0 /\ c.HealthCheckTimeout > c.HealthCheckInterval
    THEN c.HealthCheckTimeout \div 2
    ELSE c.HealthCheckTimeout

HealthTimeoutOf(c) ==
    IF c.HealthCheckInterval > 0 /\ c.HealthCheckTimeout > c.HealthCheckInterval
    THEN c.HealthCheckInterval \div 2
    ELSE c.HealthCheckTimeout

LeakIntervalOf(c) ==
    IF c.LeakDetectionInterval <= 0 /\ c.ConnectionLeakTimeout > 0
    THEN Clamp(c.ConnectionLeakTimeout \div 2, Second, Minute)
    ELSE c.LeakDetectionInterval

\* The corrections to an acceptable configuration; a rejected one has at most
\* been given the default acceptor.
Validated(c) ==
    LET d == IF c.Mode = "server" /\ c.Listener /\ c.Acceptor = "nil"
             THEN [c EXCEPT !.Acceptor = "default"] ELSE c
    IN IF ~Acceptable(c) THEN d
       ELSE [d EXCEPT
                !.MaxIdleConnections = IF c.MaxConnections > 0 THEN Least(@, c.MaxConnections) ELSE @,
                !.HealthCheckTimeout = HealthTimeoutOf(c),
                !.MaxBufferClearPackets = IF @ <= 0 THEN DefaultPackets ELSE @,
                !.LeakDetectionInterval = LeakIntervalOf(c)]

-----------------------------------------------------------------------------
(* NewPool.                                                                *)

Validate ==
    /\ at = "validate"
    /\ config' = Validated(config)
    /\ at' = IF Acceptable(config) THEN "warm" ELSE "rejected"
    /\ UNCHANGED <<turn, late, idle, tally, running>>

\* Fault: the cap is put on the timeout of one connection.
WarmUpTimeoutCapped(c) ==
    Wrap(Least(c.ConnectionTimeout, MaxWarmUp) * c.MinConnections)

\* The product may have wrapped around before it is capped.
WarmUpTimeout(c) == Least(Wrap(c.ConnectionTimeout * c.MinConnections), MaxWarmUp)

\* A server has nothing to warm up.  A context whose timeout is not positive
\* has ended when it is made.
BeginWarmUp ==
    /\ at = "warm"
    /\ IF config.Mode = "server" \/ config.MinConnections = 0
       THEN at' = "start" /\ UNCHANGED <<turn, late>>
       ELSE at' = "loop" /\ turn' = 0 /\ late' = (WarmUpTimeout(config) <= 0)
    /\ UNCHANGED <<config, idle, tally, running>>

\* The connections registered: Put keeps those that fit into their channel.
Registered == idle["TCP"] + idle["UDP"]
AtLimit == config.MaxConnections > 0 /\ Registered >= config.MaxConnections

Turn(what) == turn' = turn + 1 /\ tally' = [tally EXCEPT ![what] = @ + 1]

\* createConnection succeeds; Put keeps the connection or closes it.  A dialer
\* that ignores its context may succeed even when it has ended.
Warm(ch) ==
    /\ at = "loop" /\ turn < config.MinConnections
    /\ ~AtLimit
    /\ IF idle[ch] < config.MaxIdleConnections
       THEN Turn("kept") /\ idle' = [idle EXCEPT ![ch] = @ + 1]
       ELSE Turn("closed") /\ UNCHANGED idle
    /\ UNCHANGED <<config, at, late, running>>

\* createConnection fails: the limit, the dial or the end of the context.
WarmFails ==
    /\ at = "loop" /\ turn < config.MinConnections
    /\ late \/ DialsFail \/ AtLimit
    /\ Turn(IF AtLimit THEN "refused" ELSE "failed")
    /\ UNCHANGED <<config, at, late, idle, running>>

TimeUp ==
    /\ at = "loop" /\ ~late /\ DialsFail
    /\ late' = TRUE
    /\ UNCHANGED <<config, at, turn, idle, tally, running>>

WarmUpEnds ==
    /\ at = "loop" /\ turn = config.MinConnections
    /\ at' = "start"
    /\ UNCHANGED <<config, turn, late, idle, tally, running>>

\* startBackgroundTasks, in this order; NewTicker panics on an interval that is
\* not positive.
StartHealth ==
    /\ at = "start"
    /\ IF ~config.EnableHealthCheck
       THEN at' = "cleanup" /\ UNCHANGED running
       ELSE IF config.HealthCheckInterval > 0
            THEN at' = "cleanup" /\ running' = running \cup {"health"}
            ELSE at' = "panic" /\ UNCHANGED running
    /\ UNCHANGED <<config, turn, late, idle, tally>>

StartCleanup ==
    /\ at = "cleanup"
    /\ at' = "leak" /\ running' = running \cup {"cleanup"}
    /\ UNCHANGED <<config, turn, late, idle, tally>>

StartLeak ==
    /\ at = "leak"
    /\ at' = "open"
    /\ running' = IF config.ConnectionLeakTimeout > 0 THEN running \cup {"leak"} ELSE running
    /\ UNCHANGED <<config, turn, late, idle, tally>>

-----------------------------------------------------------------------------
Init ==
    /\ config \in Configs
    /\ at = "validate" /\ turn = 0 /\ late = FALSE
    /\ idle = [ch \in {"TCP", "UDP"} |-> 0]
    /\ tally = [what \in {"kept", "closed", "refused", "failed"} |-> 0]
    /\ running = {}

Next ==
    \/ Validate \/ BeginWarmUp
    \/ (\E ch \in {"TCP", "UDP"} : Warm(ch)) \/ WarmFails \/ TimeUp \/ WarmUpEnds
    \/ StartHealth \/ StartCleanup \/ StartLeak

Spec == Init /\ [][Next]_vars

-----------------------------------------------------------------------------
(* Properties.                                                             *)

\* Validate changes nothing in a Config it has accepted: a second pool made from
\* the same Config does not change it under the feet of the first.
ValidateStable ==
    at \notin {"validate", "rejected"} => Acceptable(config) /\ Validated(config) = config

\* The warm-up is never refused by the limit, since Put closes what the idle
\* channels have no room for, and without failing dials or a product of times
\* that wraps around it leaves as many connections as there is room for.
WarmUpFits ==
    /\ tally["refused"] = 0
    /\ config.MaxConnections > 0 => Registered <= config.MaxConnections
    /\ at = "start" /\ ~late /\ tally["failed"] = 0 /\ config.Mode = "client" =>
        /\ Registered <= config.MinConnections
        /\ Registered >= Least(config.MinConnections, config.MaxIdleConnections)

\* The time for the warm-up is capped, and is there at all unless the product
\* leaves the range of a Duration.
WarmUpTimeBounded ==
    at \notin {"validate", "rejected"} /\ config.MinConnections > 0 =>
        /\ WarmUpTimeout(config) <= MaxWarmUp
        /\ config.ConnectionTimeout * config.MinConnections < 2 ^ (Width - 1)
            => WarmUpTimeout(config) > 0

=============================================================================
