---------------------------- MODULE StartupProofs ----------------------------
(* Validate settles a Config for good: proofs about PoolStartup.           *)
EXTENDS PoolStartup, FiniteSetTheorems, TLAPS

\* What Validate makes of the configuration it accepts is acceptable, and
\* needs no further correction: the clamps agree with the checks before them.
THEOREM ValidateIdempotent ==
    ASSUME NEW c \in ConfigType, Acceptable(c)
    PROVE  /\ Validated(c) \in ConfigType
           /\ Acceptable(Validated(c))
           /\ Validated(Validated(c)) = Validated(c)
<1> DEFINE d == Validated(c)
           a == IF c.Mode = "server" /\ c.Acceptor = "nil" THEN "default" ELSE c.Acceptor
           i == IF c.MaxConnections > 0 THEN Least(c.MaxIdleConnections, c.MaxConnections)
                ELSE c.MaxIdleConnections
           b == IF c.MaxBufferClearPackets <= 0 THEN DefaultPackets
                ELSE c.MaxBufferClearPackets
           t == HealthTimeoutOf(c)
           l == LeakIntervalOf(c)
<1>1. d = [c EXCEPT !.Acceptor = a, !.MaxIdleConnections = i, !.HealthCheckTimeout = t,
                    !.MaxBufferClearPackets = b, !.LeakDetectionInterval = l]
  BY DEF Validated, Acceptable, ConfigType
<1>2. i \in Int /\ i > 0 /\ (c.MaxConnections > 0 => i <= c.MaxConnections)
  BY DEF ConfigType, Acceptable, Least
<1>3. t \in Int /\ (c.HealthCheckInterval > 0 => t <= c.HealthCheckInterval)
  BY DEF ConfigType, HealthTimeoutOf
<1>4. b \in Int /\ b > 0
  BY StartupAssumption DEF ConfigType
<1>5. l \in Int /\ (c.ConnectionLeakTimeout > 0 => l > 0)
  BY StartupAssumption DEF ConfigType, LeakIntervalOf, Clamp, Least
<1>6. a \in {"nil", "default", "own"} /\ (c.Mode = "server" => a # "nil")
  BY DEF ConfigType
<1> HIDE DEF d, a, i, b, t, l
<1>7. d \in ConfigType
  BY <1>1, <1>2, <1>3, <1>4, <1>5, <1>6 DEF ConfigType
<1>8. /\ d.Mode = c.Mode /\ d.Dialer = c.Dialer /\ d.Listener = c.Listener
      /\ d.MaxConnections = c.MaxConnections /\ d.MinConnections = c.MinConnections
      /\ d.ConnectionTimeout = c.ConnectionTimeout
      /\ d.HealthCheckInterval = c.HealthCheckInterval
      /\ d.ConnectionLeakTimeout = c.ConnectionLeakTimeout
      /\ d.Acceptor = a /\ d.MaxIdleConnections = i /\ d.HealthCheckTimeout = t
      /\ d.MaxBufferClearPackets = b /\ d.LeakDetectionInterval = l
  BY <1>1 DEF ConfigType
<1>9. Acceptable(d)
  BY <1>2, <1>8 DEF Acceptable
<1>10. /\ HealthTimeoutOf(d) = d.HealthCheckTimeout
       /\ LeakIntervalOf(d) = d.LeakDetectionInterval
  BY <1>3, <1>5, <1>7, <1>8 DEF HealthTimeoutOf, LeakIntervalOf, ConfigType
<1>11. d.MaxConnections > 0 => Least(d.MaxIdleConnections, d.MaxConnections) = d.MaxIdleConnections
  BY <1>2, <1>8 DEF Least
<1>12. Validated(d) = d
  <2>1. ~(d.Mode = "server" /\ d.Listener /\ d.Acceptor = "nil") /\ ~(d.MaxBufferClearPackets <= 0)
    BY <1>4, <1>6, <1>8
  <2> DEFINE x == IF d.MaxConnections > 0 THEN Least(d.MaxIdleConnections, d.MaxConnections)
                  ELSE d.MaxIdleConnections
             y == IF d.MaxBufferClearPackets <= 0 THEN DefaultPackets
                  ELSE d.MaxBufferClearPackets
  <2>2. x = d.MaxIdleConnections /\ y = d.MaxBufferClearPackets
    BY <1>11, <2>1
  <2>3. Validated(d) = [d EXCEPT !.MaxIdleConnections = x,
                                 !.HealthCheckTimeout = HealthTimeoutOf(d),
                                 !.MaxBufferClearPackets = y,
                                 !.LeakDetectionInterval = LeakIntervalOf(d)]
    BY <1>9, <2>1 DEF Validated
  <2> HIDE DEF x, y
  <2>4. Validated(d) = [d EXCEPT !.MaxIdleConnections = d.MaxIdleConnections,
                                 !.HealthCheckTimeout = d.HealthCheckTimeout,
                                 !.MaxBufferClearPackets = d.MaxBufferClearPackets,
                                 !.LeakDetectionInterval = d.LeakDetectionInterval]
    BY <1>10, <2>2, <2>3
  <2> QED BY <1>7, <2>4 DEF ConfigType
<1> QED
  BY <1>7, <1>9, <1>12 DEF d

\* The corrections keep a Config a Config, accepted or not.
LEMMA ValidatedType ==
    ASSUME NEW c \in ConfigType PROVE Validated(c) \in ConfigType
<1>1. CASE Acceptable(c)
  BY <1>1, ValidateIdempotent
<1>2. CASE ~Acceptable(c)
  BY <1>2 DEF Validated, ConfigType
<1> QED BY <1>1, <1>2

\* NewPool changes the Config only in its first step, so that a Config in use
\* is never changed by making another pool from it.
THEOREM ConfigSettled == Spec => []ValidateStable
<1> DEFINE Inv == config \in ConfigType /\ ValidateStable
<1>1. Init => Inv
  BY StartupAssumption DEF Init, ValidateStable
<1>2. Inv /\ [Next]_vars => Inv'
  <2> SUFFICES ASSUME Inv, [Next]_vars PROVE Inv'
    OBVIOUS
  <2>1. CASE Validate
    BY <2>1, ValidateIdempotent, ValidatedType DEF Validate, ValidateStable
  <2>2. CASE ~Validate
    <3>1. config' = config /\ (at \in {"validate", "rejected"} => at' = at)
      BY <2>2 DEF Next, vars, BeginWarmUp, Warm, WarmFails, TimeUp,
                  WarmUpEnds, StartHealth, StartCleanup, StartLeak
    <3>2. at' \notin {"validate", "rejected"} => at \notin {"validate", "rejected"}
      BY <3>1
    <3> QED BY <3>1, <3>2 DEF ValidateStable
  <2> QED BY <2>1, <2>2
<1> QED
  BY <1>1, <1>2, PTL DEF Spec
-----------------------------------------------------------------------------
(* The warm-up.  Every turn is accounted for, and a connection is closed    *)
(* only for want of room in its channel.                                    *)

Outcomes == {"kept", "closed", "refused", "failed"}

Unwarmed == {"validate", "rejected", "warm"}

WarmType ==
    /\ config \in ConfigType /\ turn \in Nat
    /\ idle \in [{"TCP", "UDP"} -> Nat] /\ tally \in [Outcomes -> Nat]

WarmInv ==
    /\ WarmType /\ ValidateStable
    /\ tally["refused"] = 0
    /\ turn = tally["kept"] + tally["closed"] + tally["failed"]
    /\ tally["kept"] = idle["TCP"] + idle["UDP"]
    /\ tally["closed"] > 0 => \E ch \in {"TCP", "UDP"} : idle[ch] >= config.MaxIdleConnections
    /\ IF at \in Unwarmed THEN turn = 0 ELSE turn <= config.MinConnections
    /\ at = "start" /\ config.Mode = "client" => turn = config.MinConnections

\* The accounts of WarmInv are all that WarmUpFits needs.
LEMMA WarmInvFits == WarmInv => WarmUpFits
<1> SUFFICES ASSUME WarmInv PROVE WarmUpFits
  OBVIOUS
<1>1. /\ tally["kept"] \in Nat /\ tally["closed"] \in Nat /\ tally["failed"] \in Nat
      /\ idle["TCP"] \in Nat /\ idle["UDP"] \in Nat /\ turn \in Nat
      /\ config.MinConnections \in Int /\ config.MaxIdleConnections \in Int
      /\ config.MaxConnections \in Int
  BY DEF WarmInv, WarmType, Outcomes, ConfigType
<1>2. Registered = tally["kept"] /\ Registered <= turn /\ Registered \in Nat
  BY <1>1 DEF WarmInv, Registered
<1>3. config.MaxConnections > 0 => Registered <= config.MaxConnections
  <2>1. CASE at \in Unwarmed
    BY <1>1, <1>2, <2>1 DEF WarmInv
  <2>2. CASE at \notin Unwarmed
    <3>1. Acceptable(config) /\ turn <= config.MinConnections
      BY <2>2 DEF WarmInv, ValidateStable, Unwarmed
    <3> QED BY <1>1, <1>2, <3>1 DEF Acceptable
  <2> QED BY <2>1, <2>2
<1>4. ASSUME at = "start", tally["failed"] = 0, config.Mode = "client"
      PROVE  /\ Registered <= config.MinConnections
             /\ Registered >= Least(config.MinConnections, config.MaxIdleConnections)
  <2>1. turn = config.MinConnections /\ turn = Registered + tally["closed"]
    BY <1>1, <1>2, <1>4 DEF WarmInv
  <2>2. CASE tally["closed"] = 0
    BY <1>1, <1>2, <2>1, <2>2 DEF Least
  <2>3. CASE tally["closed"] > 0
    <3>1. Registered >= config.MaxIdleConnections
      BY <1>1, <2>3 DEF WarmInv, Registered
    <3> QED BY <1>1, <1>2, <2>1, <3>1 DEF Least
  <2> QED BY <1>1, <2>2, <2>3
<1> QED
  BY <1>3, <1>4 DEF WarmInv, WarmUpFits

\* A turn of the loop keeps the accounts: AtLimit is never reached, because the
\* turns left to MinConnections are turns left to MaxConnections.
LEMMA TurnKeepsAccounts ==
    ASSUME WarmInv,
           (\E ch \in {"TCP", "UDP"} : Warm(ch)) \/ WarmFails
    PROVE  WarmInv'
<1>1. /\ at = "loop" /\ at' = at /\ config' = config
      /\ turn < config.MinConnections /\ turn' = turn + 1
  BY DEF Warm, WarmFails, Turn
<1>2. /\ tally["kept"] \in Nat /\ tally["closed"] \in Nat /\ tally["failed"] \in Nat
      /\ idle["TCP"] \in Nat /\ idle["UDP"] \in Nat /\ turn \in Nat
      /\ config.MinConnections \in Int /\ config.MaxIdleConnections \in Int
      /\ config.MaxConnections \in Int
  BY DEF WarmInv, WarmType, Outcomes, ConfigType
<1>3. ValidateStable' /\ config' \in ConfigType /\ turn' \in Nat
  <2>1. ValidateStable'
    BY <1>1 DEF WarmInv, ValidateStable
  <2>2. config' \in ConfigType
    BY <1>1 DEF WarmInv, WarmType
  <2>3. turn' \in Nat
    BY <1>1, <1>2
  <2> QED BY <2>1, <2>2, <2>3
<1>4. turn' <= config.MinConnections /\ at' \notin Unwarmed /\ at' # "start"
  BY <1>1, <1>2 DEF Unwarmed
<1>5. ~AtLimit
  <2>1. Acceptable(config)
    BY <1>1 DEF WarmInv, ValidateStable
  <2> QED BY <1>1, <1>2, <2>1 DEF Acceptable, AtLimit, Registered, WarmInv
<1>6. CASE \E ch \in {"TCP", "UDP"} : Warm(ch)
  <2> PICK ch \in {"TCP", "UDP"} : Warm(ch)
    BY <1>6
  <2>1. CASE idle[ch] < config.MaxIdleConnections
    <3>1. /\ tally' = [tally EXCEPT !["kept"] = @ + 1]
          /\ idle' = [idle EXCEPT ![ch] = @ + 1]
      BY <2>1 DEF Warm, Turn
    <3>2. idle' \in [{"TCP", "UDP"} -> Nat] /\ tally' \in [Outcomes -> Nat]
      BY <3>1 DEF WarmInv, WarmType, Outcomes
    <3>3. /\ tally'["kept"] = tally["kept"] + 1 /\ tally'["closed"] = tally["closed"]
          /\ tally'["failed"] = tally["failed"] /\ tally'["refused"] = tally["refused"]
      BY <3>1 DEF WarmInv, WarmType, Outcomes
    <3>4. /\ idle'["TCP"] + idle'["UDP"] = idle["TCP"] + idle["UDP"] + 1
          /\ \A x \in {"TCP", "UDP"} : idle'[x] >= idle[x]
      BY <1>2, <3>1 DEF WarmInv, WarmType
    <3>5. tally'["closed"] > 0 => \E x \in {"TCP", "UDP"} : idle'[x] >= config'.MaxIdleConnections
      BY <1>1, <1>2, <3>2, <3>3, <3>4 DEF WarmInv
    <3> QED BY <1>1, <1>2, <1>3, <1>4, <3>2, <3>3, <3>4, <3>5 DEF WarmInv, WarmType
  <2>2. CASE ~(idle[ch] < config.MaxIdleConnections)
    <3>1. tally' = [tally EXCEPT !["closed"] = @ + 1] /\ idle' = idle
      BY <2>2 DEF Warm, Turn
    <3>2. tally' \in [Outcomes -> Nat]
      BY <3>1 DEF WarmInv, WarmType, Outcomes
    <3>3. /\ tally'["kept"] = tally["kept"] /\ tally'["closed"] = tally["closed"] + 1
          /\ tally'["failed"] = tally["failed"] /\ tally'["refused"] = tally["refused"]
      BY <3>1 DEF WarmInv, WarmType, Outcomes
    <3>4. idle[ch] >= config.MaxIdleConnections
      BY <1>2, <2>2
    <3> QED BY <1>1, <1>2, <1>3, <1>4, <3>1, <3>2, <3>3, <3>4 DEF WarmInv, WarmType
  <2> QED BY <2>1, <2>2
<1>7. CASE WarmFails
  <2>1. tally' = [tally EXCEPT !["failed"] = @ + 1] /\ idle' = idle
    BY <1>5, <1>7 DEF WarmFails, Turn
  <2>2. tally' \in [Outcomes -> Nat]
    BY <2>1 DEF WarmInv, WarmType, Outcomes
  <2>3. /\ tally'["kept"] = tally["kept"] /\ tally'["closed"] = tally["closed"]
        /\ tally'["failed"] = tally["failed"] + 1 /\ tally'["refused"] = tally["refused"]
    BY <2>1 DEF WarmInv, WarmType, Outcomes
  <2> QED BY <1>1, <1>2, <1>3, <1>4, <2>1, <2>2, <2>3 DEF WarmInv, WarmType
<1> QED
  BY <1>6, <1>7

\* The warm-up is never refused by the limit and, with time and without failing
\* dials, leaves what there is room for, whatever the configuration.
THEOREM WarmUpWithinPool == Spec => []WarmUpFits
<1>1. Init => WarmInv
  BY StartupAssumption DEF Init, WarmInv, WarmType, Outcomes, Unwarmed, ValidateStable
<1>2. WarmInv /\ [Next]_vars => WarmInv'
  <2> SUFFICES ASSUME WarmInv, [Next]_vars PROVE WarmInv'
    OBVIOUS
  <2>1. CASE Validate
    <3>1. config' \in ConfigType /\ ValidateStable'
      BY <2>1, ValidateIdempotent, ValidatedType DEF Validate, ValidateStable, WarmInv, WarmType
    <3>2. /\ turn = 0 /\ turn' = turn /\ idle' = idle /\ tally' = tally
          /\ at' \in {"warm", "rejected"}
      BY <2>1 DEF Validate, WarmInv, Unwarmed
    <3>3. tally["closed"] = 0
      BY <3>2 DEF WarmInv, WarmType, Outcomes
    <3> QED BY <3>1, <3>2, <3>3 DEF WarmInv, WarmType, Unwarmed
  <2>2. CASE BeginWarmUp
    <3>1. config' = config /\ idle' = idle /\ tally' = tally /\ turn' = 0 /\ turn = 0
      BY <2>2 DEF BeginWarmUp, WarmInv, Unwarmed
    <3>2. /\ at = "warm" /\ at' \in {"loop", "start"}
          /\ at' = "start" => config.Mode = "server" \/ config.MinConnections = 0
      BY <2>2 DEF BeginWarmUp
    <3>3. ValidateStable' /\ config.MinConnections >= 0
      BY <3>1, <3>2 DEF WarmInv, ValidateStable, Acceptable
    <3> QED BY <3>1, <3>2, <3>3 DEF WarmInv, WarmType, Unwarmed
  <2>3. CASE (\E ch \in {"TCP", "UDP"} : Warm(ch)) \/ WarmFails
    BY <2>3, TurnKeepsAccounts
  <2>4. CASE TimeUp \/ UNCHANGED vars
    BY <2>4 DEF TimeUp, vars, WarmInv, WarmType, ValidateStable
  <2>5. CASE WarmUpEnds
    BY <2>5 DEF WarmUpEnds, WarmInv, WarmType, ValidateStable, Unwarmed
  <2>6. CASE StartHealth \/ StartCleanup \/ StartLeak
    <3>1. /\ config' = config /\ turn' = turn /\ idle' = idle /\ tally' = tally
          /\ at \notin Unwarmed /\ at' \notin Unwarmed /\ at' # "start"
      BY <2>6 DEF StartHealth, StartCleanup, StartLeak, Unwarmed
    <3>2. ValidateStable'
      BY <3>1 DEF WarmInv, ValidateStable, Unwarmed
    <3> QED BY <3>1, <3>2 DEF WarmInv, WarmType
  <2> QED BY <2>1, <2>2, <2>3, <2>4, <2>5, <2>6 DEF Next
<1> QED
  BY <1>1, <1>2, WarmInvFits, PTL DEF Spec

-----------------------------------------------------------------------------
(* The time for the warm-up, in a Duration of any width.                    *)

\* Powers of two, counted: a set with one more element has twice the subsets.
LEMMA TwoPower ==
    ASSUME NEW n \in Nat
    PROVE  2 ^ n \in Nat \ {0} /\ 2 ^ (n + 1) = 2 * 2 ^ n
<1> DEFINE S == SUBSET (1..n)
           T == {B \cup {n + 1} : B \in S}
           f == [B \in S |-> B \cup {n + 1}]
<1>1. /\ IsFiniteSet(1..n) /\ Cardinality(1..n) = n
      /\ IsFiniteSet(1..(n + 1)) /\ Cardinality(1..(n + 1)) = n + 1
  BY FS_Interval
<1>2. /\ IsFiniteSet(S) /\ Cardinality(S) = 2 ^ n
      /\ Cardinality(SUBSET (1..(n + 1))) = 2 ^ (n + 1)
  BY <1>1, FS_SUBSET
<1>3. IsFiniteSet(T) /\ Cardinality(T) = Cardinality(S)
  <2>1. f \in [S -> T] /\ \A t \in T : \E B \in S : f[B] = t
    OBVIOUS
  <2>2. ASSUME NEW B \in S, NEW C \in S, f[B] = f[C] PROVE B = C
    <3>1. n + 1 \notin B /\ n + 1 \notin C
      OBVIOUS
    <3>2. B \cup {n + 1} = C \cup {n + 1}
      BY <2>2
    <3>3. B = (B \cup {n + 1}) \ {n + 1} /\ C = (C \cup {n + 1}) \ {n + 1}
      BY <3>1
    <3> QED BY <3>2, <3>3
  <2> HIDE DEF f, S, T
  <2>3. f \in Bijection(S, T)
    BY <2>1, <2>2 DEF Bijection, Injection, Surjection, IsInjective
  <2> QED BY <1>2, <2>3, FS_Bijection DEF ExistsBijection
<1>4. SUBSET (1..(n + 1)) = S \cup T /\ S \cap T = {}
  <2>1. ASSUME NEW B \in SUBSET (1..(n + 1)), B \notin S PROVE B \in T
    <3>1. n + 1 \in B /\ B \ {n + 1} \in S /\ B = (B \ {n + 1}) \cup {n + 1}
      <4>1. 1..(n + 1) = (1..n) \cup {n + 1}
        OBVIOUS
      <4> QED BY <2>1, <4>1
    <3> QED BY <3>1
  <2>2. ASSUME NEW B \in S
        PROVE  B \in SUBSET (1..(n + 1)) /\ B \cup {n + 1} \in (SUBSET (1..(n + 1))) \ S
    OBVIOUS
  <2>3. T \subseteq (SUBSET (1..(n + 1))) \ S
    BY <2>2
  <2>4. S \subseteq SUBSET (1..(n + 1))
    BY <2>2
  <2> HIDE DEF S, T
  <2> QED BY <2>1, <2>3, <2>4
<1>5. {} \in S
  OBVIOUS
<1> HIDE DEF S, T
<1>6. Cardinality(S) \in Nat /\ Cardinality(S) # 0
  BY <1>2, <1>5, FS_EmptySet, FS_CardinalityType
<1>7. Cardinality(S \cup T) = Cardinality(S) + Cardinality(T) - Cardinality(S \cap T)
  BY <1>2, <1>3, FS_Union
<1>8. Cardinality(S \cap T) = 0
  BY <1>4, FS_EmptySet
<1>9. /\ Cardinality(S) \in Nat \ {0}
      /\ Cardinality(S \cup T) = 2 * Cardinality(S)
  BY <1>3, <1>6, <1>7, <1>8
<1> QED BY <1>2, <1>4, <1>9, Zenon

\* What fits into half the range is not changed by the arithmetic.
LEMMA WrapFits ==
    ASSUME NEW n \in Int
    PROVE  /\ Wrap(n) \in Int
           /\ n \in Nat /\ n < 2 ^ (Width - 1) => Wrap(n) = n
<1> DEFINE h == 2 ^ (Width - 1)
<1>1. h \in Nat \ {0} /\ 2 ^ Width = 2 * h
  <2>1. Width - 1 \in Nat /\ (Width - 1) + 1 = Width
    BY StartupAssumption
  <2> QED BY <2>1, TwoPower
<1>2. Wrap(n) = ((n + h) % (2 * h)) - h
  BY <1>1 DEF Wrap
<1> HIDE DEF h
<1>3. (n + h) % (2 * h) \in Int /\ (n \in Nat /\ n < h => (n + h) % (2 * h) = n + h)
  BY <1>1
<1> QED BY <1>1, <1>2, <1>3 DEF h

\* Whatever the configuration and however wide a Duration, the time for the
\* warm-up is capped, and there is some unless the product of the timeout and
\* the number of connections leaves the range.
THEOREM WarmUpTimed == Spec => []WarmUpTimeBounded
<1> DEFINE Inv == config \in ConfigType /\ ValidateStable
<1>1. Inv => WarmUpTimeBounded
  <2> SUFFICES ASSUME Inv, at \notin {"validate", "rejected"}, config.MinConnections > 0
               PROVE  /\ WarmUpTimeout(config) <= MaxWarmUp
                      /\ config.ConnectionTimeout * config.MinConnections < 2 ^ (Width - 1)
                            => WarmUpTimeout(config) > 0
    BY DEF WarmUpTimeBounded
  <2> DEFINE n == config.ConnectionTimeout * config.MinConnections
  <2>1. n \in Nat \ {0}
    <3>1. /\ config.ConnectionTimeout \in Nat \ {0} /\ config.MinConnections \in Nat \ {0}
      BY DEF ValidateStable, Acceptable, ConfigType
    <3> QED BY <3>1
  <2> HIDE DEF n
  <2>2. Wrap(n) \in Int /\ (n < 2 ^ (Width - 1) => Wrap(n) = n)
    BY <2>1, WrapFits
  <2>3. WarmUpTimeout(config) = Least(Wrap(n), MaxWarmUp)
    BY DEF WarmUpTimeout, n
  <2> QED BY <2>1, <2>2, <2>3, StartupAssumption DEF Least, n
<1>2. Spec => [](config \in ConfigType)
  <2>1. Init => config \in ConfigType
    BY StartupAssumption DEF Init
  <2>2. config \in ConfigType /\ [Next]_vars => (config \in ConfigType)'
    BY ValidatedType DEF Next, vars, Validate, BeginWarmUp, Warm, WarmFails, TimeUp,
                         WarmUpEnds, StartHealth, StartCleanup, StartLeak
  <2> QED BY <2>1, <2>2, PTL DEF Spec
<1> QED BY <1>1, <1>2, ConfigSettled, PTL

=============================================================================
