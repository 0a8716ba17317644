----------------------------- MODULE StatsProofs -----------------------------
(* The counters of PoolStats against the state they count, for every number *)
(* of goroutines and connections.                                           *)
EXTENDS PoolStats, PoolSafetyProofs

-----------------------------------------------------------------------------
(* What goroutines owe together.                                           *)

\* A set that gains or loses one element, or neither.
LEMMA OneMoves ==
    ASSUME NEW P, IsFiniteSet(P), NEW p \in P, NEW S \in SUBSET P, NEW T \in SUBSET P,
           \A q \in P : q # p => (q \in S <=> q \in T)
    PROVE  /\ Cardinality(S) \in Nat /\ Cardinality(T) \in Nat
           /\ p \in S <=> p \in T => Cardinality(T) = Cardinality(S)
           /\ p \notin S /\ p \in T => Cardinality(T) = Cardinality(S) + 1
           /\ p \in S /\ p \notin T => Cardinality(T) = Cardinality(S) - 1
<1>1. IsFiniteSet(S) /\ IsFiniteSet(T) /\ Cardinality(S) \in Nat /\ Cardinality(T) \in Nat
  BY FS_Subset, FS_CardinalityType
<1>2. (p \in S <=> p \in T) => T = S
  OBVIOUS
<1>3. p \notin S /\ p \in T => T = S \cup {p}
  OBVIOUS
<1>4. p \in S /\ p \notin T => T = S \ {p}
  OBVIOUS
<1> QED BY <1>1, <1>2, <1>3, <1>4, FS_AddElement, FS_RemoveElement

\* One goroutine's debt changes, and with it the sum.
LEMMA OwingChange ==
    ASSUME owed \in [Procs -> [Counters -> -1..1]], NEW p \in Procs,
           NEW d \in [Counters -> -1..1], owed' = [owed EXCEPT ![p] = d],
           NEW k \in Counters
    PROVE  /\ Owing(k) \in Int
           /\ Owing(k)' = Owing(k) + (d[k] - owed[p][k])
<1>1. /\ \A q \in Procs : q # p => owed'[q] = owed[q]
      /\ owed'[p] = d /\ d[k] \in -1..1 /\ owed[p][k] \in -1..1
  OBVIOUS
<1>2. ASSUME NEW n \in {-1, 1}
      PROVE  /\ Cardinality(Owes(k, n)) \in Nat /\ Cardinality(Owes(k, n)') \in Nat
             /\ (owed[p][k] = n <=> d[k] = n) =>
                    Cardinality(Owes(k, n)') = Cardinality(Owes(k, n))
             /\ owed[p][k] # n /\ d[k] = n =>
                    Cardinality(Owes(k, n)') = Cardinality(Owes(k, n)) + 1
             /\ owed[p][k] = n /\ d[k] # n =>
                    Cardinality(Owes(k, n)') = Cardinality(Owes(k, n)) - 1
  <2> DEFINE S == Owes(k, n)
             T == {q \in Procs : owed'[q][k] = n}
  <2>1. S \in SUBSET Procs /\ T \in SUBSET Procs /\ \A q \in Procs : q # p => (q \in S <=> q \in T)
    BY <1>1 DEF Owes
  <2>2. Owes(k, n)' = T
    BY DEF Owes
  <2>3. (p \in S <=> owed[p][k] = n) /\ (p \in T <=> d[k] = n)
    BY <1>1 DEF Owes
  <2> HIDE DEF S, T
  <2>4. IsFiniteSet(Procs)
    BY PoolAssumption
  <2>5. /\ Cardinality(S) \in Nat /\ Cardinality(T) \in Nat
        /\ (p \in S <=> p \in T) => Cardinality(T) = Cardinality(S)
        /\ p \notin S /\ p \in T => Cardinality(T) = Cardinality(S) + 1
        /\ p \in S /\ p \notin T => Cardinality(T) = Cardinality(S) - 1
    BY <2>1, <2>4, OneMoves
  <2> QED BY <2>2, <2>3, <2>5 DEF S
<1> DEFINE a == Cardinality(Owes(k, 1))
           b == Cardinality(Owes(k, -1))
           aa == Cardinality(Owes(k, 1)')
           bb == Cardinality(Owes(k, -1)')
<1>3. a \in Nat /\ b \in Nat /\ aa \in Nat /\ bb \in Nat
  BY <1>2
<1>4. aa - a = (IF d[k] = 1 THEN 1 ELSE 0) - (IF owed[p][k] = 1 THEN 1 ELSE 0)
  BY <1>2, <1>3
<1>5. bb - b = (IF d[k] = -1 THEN 1 ELSE 0) - (IF owed[p][k] = -1 THEN 1 ELSE 0)
  BY <1>2, <1>3
<1>6. Owing(k) = a - b /\ Owing(k)' = aa - bb
  BY DEF Owing
<1> HIDE DEF a, b, aa, bb
<1>7. (aa - bb) - (a - b) = d[k] - owed[p][k]
  BY <1>1, <1>3, <1>4, <1>5
<1> QED BY <1>1, <1>3, <1>6, <1>7

-----------------------------------------------------------------------------
(* Acting and counting.                                                    *)

\* When its count is done, what a counter says.
Sum(k) == stats[k] + Owing(k)

\* A connection on its way to the caller has not been counted as active yet.
DebtInv ==
    /\ StatsTypeOK
    /\ \A p \in Procs : pc[p] = "take" => owed[p]["active"] = 0

\* What an act adds to each counter.
LEMMA DebtValue ==
    ASSUME NEW p \in Procs
    PROVE  /\ Debt(p) \in [Counters -> -1..1]
           /\ Debt(p)["created"] =
                IF pc[p] = "dial" /\ connections' # connections THEN 1 ELSE 0
           /\ Debt(p)["closed"] =
                IF pc[p] = "retire" /\ frame[p].conn \in connections THEN 1 ELSE 0
           /\ Debt(p)["active"] =
                IF pc[p] = "take" THEN 1 ELSE IF pc[p] = "mark" THEN -1 ELSE 0
           /\ Debt(p)["idle"] =
                IF pc[p] = "vet" /\ pc'[p] = "take" THEN -1
                ELSE IF pc[p] = "send" /\ pc'[p] = "notify" THEN 1 ELSE 0
           /\ pc[p] = "shut" => Debt(p) = Nothing
BY DEF Debt, Delta, Nothing, Counters

\* A goroutine never owes a counter two.
LEMMA DebtSmall ==
    ASSUME DebtInv, NEW p \in Procs, Paid(p)
    PROVE  Plus(owed[p], Debt(p)) \in [Counters -> -1..1]
<1>1. /\ owed[p] \in [Counters -> -1..1]
      /\ Debt(p) \in [Counters -> -1..1]
      /\ pc[p] = "take" => owed[p]["active"] = 0
  BY DebtValue DEF DebtInv, StatsTypeOK
<1>2. CASE owed[p] = Nothing
  BY <1>1, <1>2 DEF Plus, Nothing
<1>3. CASE pc[p] = "take"
  <2>1. /\ Debt(p)["active"] = 1 /\ Debt(p)["created"] = 0
        /\ Debt(p)["closed"] = 0 /\ Debt(p)["idle"] = 0
    BY <1>3, DebtValue
  <2>2. \A k \in Counters : owed[p][k] \in -1..1 /\ owed[p][k] + Debt(p)[k] \in -1..1
    BY <1>1, <1>3, <2>1 DEF Counters
  <2> QED BY <2>2 DEF Plus
<1>4. CASE pc[p] = "shut"
  <2>1. Debt(p) = Nothing
    BY <1>4, DebtValue
  <2> QED BY <1>1, <2>1 DEF Plus, Nothing
<1> QED BY <1>2, <1>3, <1>4 DEF Paid

\* A call that acts adds to the sums what it owes for it.
LEMMA SumOfCall ==
    ASSUME DebtInv, NEW p \in Procs, CountedCall(p), NEW k \in Counters
    PROVE  Sum(k) \in Int /\ Sum(k)' = Sum(k) + Debt(p)[k]
<1> DEFINE d == Plus(owed[p], Debt(p))
<1>1. /\ d \in [Counters -> -1..1] /\ owed \in [Procs -> [Counters -> -1..1]]
      /\ stats \in [Counters -> Int]
      /\ owed' = [owed EXCEPT ![p] = d] /\ stats' = stats
  BY DebtSmall DEF CountedCall, DebtInv, StatsTypeOK
<1>2. d[k] - owed[p][k] = Debt(p)[k]
  <2>1. owed[p][k] \in -1..1 /\ Debt(p)[k] \in -1..1
    BY <1>1, DebtValue
  <2> QED BY <2>1 DEF Plus
<1> HIDE DEF d
<1>3. Owing(k) \in Int /\ Owing(k)' = Owing(k) + (d[k] - owed[p][k])
  BY <1>1, OwingChange
<1>4. stats[k] \in Int /\ Debt(p)[k] \in -1..1
  BY <1>1, DebtValue
<1> QED BY <1>1, <1>2, <1>3, <1>4 DEF Sum

\* Counting changes no sum.
LEMMA SumOfPay ==
    ASSUME DebtInv, NEW p \in Procs, Pay(p), NEW k \in Counters
    PROVE  Sum(k) \in Int /\ Sum(k)' = Sum(k)
<1>1. /\ Nothing \in [Counters -> -1..1] /\ owed \in [Procs -> [Counters -> -1..1]]
      /\ stats \in [Counters -> Int]
      /\ owed' = [owed EXCEPT ![p] = Nothing]
      /\ stats'[k] = stats[k] + owed[p][k] /\ Nothing[k] = 0
  BY DEF Pay, DebtInv, StatsTypeOK, Nothing, Plus
<1>2. Owing(k) \in Int /\ Owing(k)' = Owing(k) + (Nothing[k] - owed[p][k])
  BY <1>1, OwingChange
<1>3. stats[k] \in Int /\ owed[p][k] \in Int
  BY <1>1
<1> QED BY <1>1, <1>2, <1>3 DEF Sum

\* Close counts as closed what it has taken off its list.
LEMMA SumOfClose ==
    ASSUME TypeInv, DebtInv, CountedClose, NEW k \in Counters
    PROVE  /\ Sum(k) \in Int /\ Cardinality(doomed \ doomed') \in Nat
           /\ Sum(k)' = Sum(k) + IF k = "closed" THEN Cardinality(doomed \ doomed') ELSE 0
<1> DEFINE n == Cardinality(doomed \ doomed')
<1>1. n \in Nat
  <2>1. doomed \ doomed' \in SUBSET Conns
    BY DEF TypeInv, TypeOK, CloseOK
  <2> QED BY <2>1, PoolAssumption, FS_Subset, FS_CardinalityType
<1>2. owed' = owed /\ stats' = Plus(stats, Delta("closed", n))
  BY DEF CountedClose
<1> HIDE DEF n
<1>3. stats[k] \in Int /\ stats'[k] = stats[k] + IF k = "closed" THEN n ELSE 0
  BY <1>1, <1>2 DEF DebtInv, StatsTypeOK, Plus, Delta, Nothing, Counters
<1>4. Owing(k) \in Int
  <2>1. \A m \in {-1, 1} : Owes(k, m) \in SUBSET Procs
    BY DEF Owes
  <2> QED BY <2>1, PoolAssumption, FS_Subset, FS_CardinalityType DEF Owing
<1>5. Owing(k)' = Owing(k)
  BY <1>2 DEF Owing, Owes
<1> QED BY <1>1, <1>3, <1>4, <1>5 DEF Sum, n

\* Nothing else touches the counters.
LEMMA SumKept ==
    ASSUME DebtInv, UNCHANGED statsVars, NEW k \in Counters
    PROVE  Sum(k) \in Int /\ Sum(k)' = Sum(k)
<1>1. \A m \in {-1, 1} : Owes(k, m) \in SUBSET Procs
  BY DEF Owes
<1>2. Owing(k) \in Int /\ stats[k] \in Int
  BY <1>1, PoolAssumption, FS_Subset, FS_CardinalityType DEF Owing, DebtInv, StatsTypeOK
<1> QED BY <1>2 DEF Sum, Owing, Owes, statsVars


-----------------------------------------------------------------------------
(* Every step is one of the pool, which counts, or a count.                *)

LEMMA StatsIsPool == [StatsNext]_<<vars, statsVars>> => [Next]_vars
BY DEF StatsNext, CountedCall, CountedUser, Pay, CountedClose, Next, Halted

\* The others stay where they are, or are stopped by a panic.
LEMMA OthersStay ==
    ASSUME TypeInv, NEW p \in Procs, CallStep(p) \/ UserStep(p)
    PROVE  \/ \A q \in Procs : pc'[q] = "dead"
           \/ \A q \in Procs : q # p => pc'[q] = pc[q]
<1>1. CASE PanicSend(p) \/ PanicJoin(p) \/ PanicLeave(p)
  BY <1>1 DEF PanicSend, PanicJoin, PanicLeave, Crash
<1>2. CASE ~PanicSend(p) /\ ~PanicJoin(p) /\ ~PanicLeave(p)
  <2>1. \E l : Goto(p, l) \/ pc' = pc
    <3> USE DEF Move, Leave, Resume
    <3>1. CASE GetStep(p)
      BY <3>1 DEF GetStep, LoopHead, PollIdle, PollClosed, PollDefault, VetInvalid,
         VetMismatch, VetAccept, Take, Count
    <3>2. CASE CreateStep(p)
      BY <3>2 DEF CreateStep, Acquire, AcquireTimeout, Admit, DialFails, Register,
         CreateFailed, Sort
    <3>3. CASE WaitStep(p)
      BY <1>2, <3>3 DEF WaitStep, Join, JoinGivesUp, Receive, GiveUp
    <3>4. CASE PutStep(p)
      BY <1>2, <3>4 DEF PutStep, PutCheck, PutIdle, PutSend, NotifyWaiter, NotifyNobody,
         NotifySpin, Retire, Shut, locals
    <3>5. CASE UserStep(p)
      BY <3>5 DEF UserStep, Begin, UserPut, UserClose
    <3> QED BY <3>1, <3>2, <3>3, <3>4, <3>5 DEF CallStep
  <2> QED BY <2>1 DEF Goto, TypeInv, TypeOK, CallsOK
<1> QED BY <1>1, <1>2

\* Where a goroutine comes from that ...
LEMMA ComesFrom ==
    ASSUME TypeInv, NEW p \in Procs, CallStep(p) \/ UserStep(p)
    PROVE  /\ pc'[p] = "take" => pc[p] \in {"vet", "dial", "await"}
           /\ pc'[p] = "vet" => \E ch \in Channels : PollIdle(p, ch)
           /\ pc'[p] = "held" => Take(p)
           /\ pc'[p] = "mark" => PutCheck(p)
           /\ pc'[p] = "put" => pc[p] = "held" \/ VetMismatch(p)
                                \/ \E c \in Conns, k \in DialKinds : Register(p, c, k)
<1>1. /\ pc \in [Procs -> Labels] /\ frame \in [Procs -> Frames]
      /\ frame[p].ret \in {"idle", "check", "await"}
  BY DEF TypeInv, TypeOK, CallsOK, Frames
<1>2. Leave(p) \/ Resume(p) => pc'[p] \in {"idle", "check", "await"}
  BY <1>1 DEF Leave, Resume, Move, Goto
<1>3. ASSUME NEW b \in BOOLEAN, CreateFailed(p, b) PROVE pc'[p] \in {"idle", "join", "check"}
  BY <1>1, <1>3 DEF CreateFailed, Leave, Move, Goto
<1>4. CASE GetStep(p)
  BY <1>1, <1>2, <1>4 DEF Goto, Move, GetStep, LoopHead, PollIdle, PollClosed, PollDefault,
     VetInvalid, VetMismatch, VetAccept, Take, Count
<1>5. CASE CreateStep(p)
  <2>1. CASE \E c \in Conns, k \in DialKinds : Register(p, c, k)
    BY <1>1, <2>1 DEF Goto, Move, Register, Sort
  <2>2. CASE ~(\E c \in Conns, k \in DialKinds : Register(p, c, k))
    BY <1>1, <1>3, <1>5, <2>2 DEF Goto, CreateStep, Acquire, AcquireTimeout, Admit, DialFails
  <2> QED BY <2>1, <2>2
<1>6. CASE WaitStep(p)
  BY <1>1, <1>2, <1>6 DEF Goto, Move, WaitStep, Join, JoinGivesUp, Receive, GiveUp,
     PanicJoin, PanicLeave, Crash
<1>7. CASE PutStep(p)
  BY <1>1, <1>2, <1>7 DEF Goto, Move, PutStep, PutCheck, PutIdle, PutSend, PanicSend, Crash,
     NotifyWaiter, NotifyNobody, NotifySpin, Retire, Shut, locals
<1>8. CASE UserStep(p)
  BY <1>1, <1>2, <1>8 DEF Goto, Move, UserStep, Begin, UserPut, UserClose
<1> QED BY <1>4, <1>5, <1>6, <1>7, <1>8 DEF CallStep

LEMMA DebtInit == StatsInit => DebtInv
BY DEF StatsInit, Init, DebtInv, StatsTypeOK, Nothing, Counters

LEMMA DebtStep == TypeInv /\ DebtInv /\ [StatsNext]_<<vars, statsVars>> => DebtInv'
<1> SUFFICES ASSUME TypeInv, DebtInv, [StatsNext]_<<vars, statsVars>> PROVE DebtInv'
  OBVIOUS
<1> USE DEF DebtInv, StatsTypeOK
<1>1. CASE UNCHANGED <<vars, statsVars>>
  BY <1>1 DEF vars, statsVars, locals
<1>2. ASSUME NEW p \in Procs, CountedCall(p)
      PROVE  DebtInv'
  <2> DEFINE d == Plus(owed[p], Debt(p))
  <2>1. /\ d \in [Counters -> -1..1] /\ owed' = [owed EXCEPT ![p] = d] /\ stats' = stats
        /\ CallStep(p) /\ Paid(p)
    BY <1>2, DebtSmall DEF CountedCall
  <2>2. pc'[p] = "take" => d["active"] = 0
    <3>1. pc'[p] = "take" => pc[p] \in {"vet", "dial", "await"}
      BY <2>1, ComesFrom
    <3>2. pc[p] \in {"vet", "dial", "await"} => owed[p] = Nothing /\ Debt(p)["active"] = 0
      BY <2>1, DebtValue DEF Paid
    <3> QED BY <3>1, <3>2 DEF Plus, Nothing, Counters
  <2> HIDE DEF d
  <2>3. \A q \in Procs : q # p => (pc'[q] = "take" => pc[q] = "take")
    BY <2>1, OthersStay
  <2> QED BY <2>1, <2>2, <2>3
<1>3. ASSUME NEW p \in Procs, CountedUser(p)
      PROVE  DebtInv'
  <2>1. UNCHANGED <<stats, owed>> /\ UserStep(p)
    BY <1>3 DEF CountedUser, statsVars
  <2>2. pc'[p] = "take" => pc[p] \in {"vet", "dial", "await"}
    BY <2>1, ComesFrom
  <2>3. pc[p] \in {"idle", "held"}
    BY <2>1 DEF UserStep, Begin, UserPut, UserClose
  <2>4. \A q \in Procs : pc'[q] = "take" => pc[q] = "take"
    BY <2>1, <2>2, <2>3, OthersStay
  <2> QED BY <2>1, <2>4
<1>4. ASSUME NEW p \in Procs, Pay(p)
      PROVE  DebtInv'
  <2>1. /\ owed' = [owed EXCEPT ![p] = Nothing] /\ stats' = Plus(stats, owed[p])
        /\ pc' = pc /\ Nothing \in [Counters -> -1..1] /\ Nothing["active"] = 0
    BY <1>4 DEF Pay, vars, locals, Nothing, Counters
  <2>2. stats' \in [Counters -> Int]
    BY <2>1 DEF Plus
  <2> QED BY <2>1, <2>2
<1>5. CASE CountedClose
  <2>1. Cardinality(doomed \ doomed') \in Nat /\ owed' = owed
    <3>1. "closed" \in Counters
      BY DEF Counters
    <3> QED BY <1>5, <3>1, SumOfClose DEF CountedClose
  <2>2. stats' \in [Counters -> Int]
    BY <1>5, <2>1 DEF CountedClose, Plus, Delta, Nothing
  <2>3. pc' = pc
    BY <1>5 DEF CountedClose, CloseBegin, CloseStep, CloseSwap, CloseConn, FoundEmpty,
       DrainWaiter, ShutQueue, DrainIdle, ShutIdle, locals
  <2> QED BY <2>1, <2>2, <2>3
<1>6. CASE (\E c \in Conns : Expire(c)) /\ UNCHANGED statsVars
  BY <1>6 DEF Expire, locals, statsVars
<1>7. CASE Halted /\ UNCHANGED statsVars
  BY <1>7 DEF Halted, vars, locals, statsVars
<1> QED BY <1>1, <1>2, <1>3, <1>4, <1>5, <1>6, <1>7 DEF StatsNext

\* Whatever a goroutine does before it counts, it never owes a counter more
\* than one: a call acts twice only to hand out what it took, or to close.
THEOREM DebtsSmall == StatsSpec => []StatsTypeOK
<1>1. DebtInv => StatsTypeOK
  BY DEF DebtInv
<1>2. StatsInit => TypeInv
  BY TypeInit DEF StatsInit
<1>3. TypeInv /\ [StatsNext]_<<vars, statsVars>> => TypeInv'
  BY TypeStep, StatsIsPool
<1> QED BY <1>1, <1>2, <1>3, DebtInit, DebtStep, PTL DEF StatsSpec


-----------------------------------------------------------------------------
(* CurrentConnections.                                                     *)

\* The map and the list of Close are apart, and hold dialed connections only:
\* a dial registers what neither has, and the end of one is the end of both.
RegistryInv ==
    /\ connections \cap doomed = {}
    /\ \A c \in connections \cup doomed : kind[c] # NoKind

LEMMA CallRegistry ==
    ASSUME NEW p \in Procs, CallStep(p) \/ UserStep(p)
    PROVE  \/ Retire(p) /\ pc[p] = "retire" /\ kind' = kind
           \/ \E c \in Conns, k \in DialKinds : Register(p, c, k)
           \/ UNCHANGED <<connections, kind>> /\ pc[p] # "retire"
BY DEF registry, connVars, CallStep, GetStep, LoopHead, PollIdle, PollClosed, PollDefault,
   VetInvalid, VetMismatch, VetAccept, Take, Count, CreateStep, Acquire, AcquireTimeout, Admit,
   DialFails, WaitStep, Join, JoinGivesUp, Receive, GiveUp, PanicJoin, PanicLeave, PutStep,
   PutCheck, PutIdle, PutSend, NotifyWaiter, NotifyNobody, NotifySpin, Retire, Shut, PanicSend,
   Crash, UserStep, Begin, UserPut, UserClose

LEMMA RegistryStep == TypeInv /\ CloserInv /\ RegistryInv /\ [Next]_vars => RegistryInv'
<1> SUFFICES ASSUME TypeInv, CloserInv, RegistryInv, [Next]_vars PROVE RegistryInv'
  OBVIOUS
<1> USE DEF RegistryInv
<1>1. CASE UNCHANGED vars
  BY <1>1 DEF vars, registry, connVars, closeVars
<1>2. ASSUME NEW p \in Procs, CallStep(p) \/ UserStep(p)
      PROVE  RegistryInv'
  <2>1. doomed' = doomed
    BY <1>2, CallEffect
  <2>2. CASE Retire(p) /\ kind' = kind
    BY <2>1, <2>2 DEF Retire
  <2>3. ASSUME NEW c \in Conns, NEW k \in DialKinds, Register(p, c, k)
        PROVE  RegistryInv'
    <3>1. /\ kind[c] = NoKind /\ kind' = [kind EXCEPT ![c] = k]
          /\ connections' = connections \cup {c} /\ k # NoKind
      BY <2>3, PoolAssumption DEF Register, Kinds, NoKind, Protocols
    <3>2. kind'[c] # NoKind /\ \A d \in Conns : d # c => kind'[d] = kind[d]
      BY <3>1 DEF TypeInv, TypeOK, ConnectionsOK
    <3> QED BY <2>1, <3>1, <3>2 DEF TypeInv, TypeOK, ConnectionsOK, CloseOK
  <2>4. CASE UNCHANGED <<connections, kind>>
    BY <2>1, <2>4
  <2> QED BY <1>2, <2>2, <2>3, <2>4, CallRegistry
<1>3. CASE CloseBegin \/ CloseStep
  <2>1. CASE CloseSwap
    BY <2>1 DEF CloseSwap, connVars
  <2>2. CASE ~CloseSwap
    <3>1. UNCHANGED <<connections, kind>> /\ doomed' \subseteq doomed
      BY <1>3, <2>2 DEF CloseBegin, CloseStep, CloseConn, FoundEmpty, DrainWaiter,
         ShutQueue, DrainIdle, ShutIdle, closeVars, registry, connVars
    <3> QED BY <3>1
  <2> QED BY <2>1, <2>2
<1>4. CASE \E c \in Conns : Expire(c)
  BY <1>4 DEF Expire, registry, closeVars
<1> QED BY <1>1, <1>2, <1>3, <1>4 DEF Next, Halted

\* What the counter counts.
Known == connections \cup doomed

LEMMA KnownChange ==
    ASSUME TypeInv, NEW c \in Conns
    PROVE  /\ Cardinality(Known) \in Nat
           /\ c \notin Known => Cardinality(Known \cup {c}) = Cardinality(Known) + 1
           /\ c \in Known => Cardinality(Known \ {c}) = Cardinality(Known) - 1
<1>1. Known \in SUBSET Conns /\ IsFiniteSet(Conns)
  BY PoolAssumption DEF TypeInv, TypeOK, ConnectionsOK, CloseOK, Known
<1>2. IsFiniteSet(Known)
  BY <1>1, FS_Subset
<1> QED BY <1>2, FS_CardinalityType, FS_AddElement, FS_RemoveElement

\* ConnectionsCounted, in terms of what has been counted or is owed.
LEMMA CountedMeans ==
    ConnectionsCounted <=>
        (panic = "none" => Cardinality(Known) = Sum("created") - Sum("closed"))
BY DEF ConnectionsCounted, Known, Sum

LEMMA CountedCallStep ==
    ASSUME TypeInv, CloserInv, DebtInv, RegistryInv, NEW p \in Procs, CountedCall(p),
           Cardinality(Known) = Sum("created") - Sum("closed")
    PROVE  Cardinality(Known)' = Sum("created")' - Sum("closed")'
<1>1. /\ Sum("created") \in Int /\ Sum("created")' = Sum("created") + Debt(p)["created"]
      /\ Sum("closed") \in Int /\ Sum("closed")' = Sum("closed") + Debt(p)["closed"]
  BY SumOfCall DEF Counters
<1>2. CallStep(p) /\ doomed' = doomed
  BY CallEffect DEF CountedCall
<1>3. CASE Retire(p) /\ pc[p] = "retire"
  <2> DEFINE c == frame[p].conn
  <2>1. c \in Conns /\ connections' = connections \ {c}
    BY <1>3 DEF Retire, TypeInv, LocalsInv, LocalsOK, Carrying, Returning
  <2>2. Debt(p)["created"] = 0 /\ Debt(p)["closed"] = IF c \in connections THEN 1 ELSE 0
    BY <1>3, DebtValue
  <2>3. CASE c \in connections
    <3>1. Known' = Known \ {c} /\ c \in Known
      BY <1>2, <2>1, <2>3 DEF Known, RegistryInv
    <3>2. Cardinality(Known') = Cardinality(Known) - 1 /\ Cardinality(Known) \in Nat
      BY <2>1, <3>1, KnownChange
    <3> QED BY <1>1, <2>2, <2>3, <3>2
  <2>4. CASE c \notin connections
    <3>1. Known' = Known
      BY <1>2, <2>1, <2>4 DEF Known
    <3> QED BY <1>1, <2>2, <2>4, <3>1
  <2> QED BY <2>3, <2>4
<1>4. ASSUME NEW c \in Conns, NEW k \in DialKinds, Register(p, c, k)
      PROVE  Cardinality(Known)' = Sum("created")' - Sum("closed")'
  <2>1. pc[p] = "dial" /\ kind[c] = NoKind /\ connections' = connections \cup {c}
    BY <1>4 DEF Register
  <2>2. c \notin Known /\ Known' = Known \cup {c} /\ connections' # connections
    BY <1>2, <2>1 DEF Known, RegistryInv
  <2>3. Debt(p)["created"] = 1 /\ Debt(p)["closed"] = 0
    BY <2>1, <2>2, DebtValue
  <2>4. Cardinality(Known') = Cardinality(Known) + 1 /\ Cardinality(Known) \in Nat
    BY <2>2, KnownChange
  <2> QED BY <1>1, <2>3, <2>4
<1>5. CASE connections' = connections /\ pc[p] # "retire"
  <2>1. Debt(p)["created"] = 0 /\ Debt(p)["closed"] = 0
    BY <1>5, DebtValue
  <2>2. Known' = Known
    BY <1>2, <1>5 DEF Known
  <2> QED BY <1>1, <2>1, <2>2
<1> QED BY <1>2, <1>3, <1>4, <1>5, CallRegistry

LEMMA CountedCloseStep ==
    ASSUME TypeInv, CloserInv, DebtInv, RegistryInv, CountedClose,
           Cardinality(Known) = Sum("created") - Sum("closed")
    PROVE  Cardinality(Known)' = Sum("created")' - Sum("closed")'
<1> DEFINE n == Cardinality(doomed \ doomed')
<1>1. /\ Sum("created") \in Int /\ Sum("created")' = Sum("created")
      /\ Sum("closed") \in Int /\ Sum("closed")' = Sum("closed") + n /\ n \in Nat
  <2>1. \A k \in Counters :
          /\ Sum(k) \in Int /\ n \in Nat
          /\ Sum(k)' = Sum(k) + IF k = "closed" THEN n ELSE 0
    BY SumOfClose
  <2>2. /\ Sum("created") \in Int /\ n \in Nat /\ Sum("closed") \in Int
        /\ Sum("created")' = Sum("created") + 0 /\ Sum("closed")' = Sum("closed") + n
    <3> HIDE DEF n
    <3> QED BY <2>1 DEF Counters
  <2> QED BY <2>2
<1>2. CASE CloseSwap
  <2>1. doomed = {} /\ doomed' = connections /\ connections' = {}
    BY <1>2 DEF CloseSwap, CloserInv
  <2>2. Known' = Known /\ doomed \ doomed' = {}
    BY <2>1 DEF Known
  <2>3. n = 0
    BY <2>2, FS_EmptySet
  <2> HIDE DEF n
  <2> QED BY <1>1, <2>2, <2>3
<1>3. ASSUME NEW c \in Conns, CloseConn(c)
      PROVE  Cardinality(Known)' = Sum("created")' - Sum("closed")'
  <2>1. c \in doomed /\ doomed' = doomed \ {c} /\ connections' = connections
    BY <1>3 DEF CloseConn, registry
  <2>2. Known' = Known \ {c} /\ c \in Known /\ doomed \ doomed' = {c}
    BY <2>1 DEF Known, RegistryInv
  <2>3. n = 1
    BY <2>2, FS_Singleton
  <2>4. Cardinality(Known') = Cardinality(Known) - 1 /\ Cardinality(Known) \in Nat
    BY <2>2, KnownChange
  <2> HIDE DEF n
  <2> QED BY <1>1, <2>3, <2>4
<1>4. CASE ~CloseSwap /\ ~(\E c \in Conns : CloseConn(c))
  <2>1. UNCHANGED <<connections, doomed>>
    BY <1>4 DEF CountedClose, CloseBegin, CloseStep, FoundEmpty, DrainWaiter,
       ShutQueue, DrainIdle, ShutIdle, closeVars, registry
  <2>2. Known' = Known /\ doomed \ doomed' = {}
    BY <2>1 DEF Known
  <2>3. n = 0
    BY <2>2, FS_EmptySet
  <2> HIDE DEF n
  <2> QED BY <1>1, <2>2, <2>3
<1> QED BY <1>2, <1>3, <1>4

LEMMA CountedStep ==
    ASSUME TypeInv, CloserInv, DebtInv, RegistryInv, ConnectionsCounted,
           [StatsNext]_<<vars, statsVars>>
    PROVE  ConnectionsCounted'
<1> DEFINE Exact == Cardinality(Known) = Sum("created") - Sum("closed")
<1>1. SUFFICES ASSUME panic' = "none" PROVE Exact'
  BY DEF ConnectionsCounted, Known, Sum
<1>2. panic = "none" => Exact
  BY CountedMeans
<1>3. ASSUME UNCHANGED <<connections, doomed, panic>>,
             \A k \in Counters : Sum(k)' = Sum(k)
      PROVE  Exact'
  <2>1. Known' = Known
    BY <1>3 DEF Known
  <2> QED BY <1>1, <1>2, <1>3, <2>1 DEF Counters
<1>4. CASE UNCHANGED <<vars, statsVars>>
  BY <1>3, <1>4, SumKept DEF vars, registry, closeVars
<1>5. ASSUME NEW p \in Procs, CountedCall(p)
      PROVE  Exact'
  <2>1. panic = "none"
    BY <1>5, Running DEF CountedCall
  <2> QED BY <1>2, <1>5, <2>1, CountedCallStep
<1>6. ASSUME NEW p \in Procs, CountedUser(p)
      PROVE  Exact'
  <2>1. UNCHANGED <<connections, doomed, panic, statsVars>>
    BY <1>6 DEF CountedUser, UserStep, Begin, UserPut, UserClose, registry, closeVars
  <2> QED BY <1>3, <2>1, SumKept
<1>7. ASSUME NEW p \in Procs, Pay(p)
      PROVE  Exact'
  <2>1. UNCHANGED <<connections, doomed, panic>>
    BY <1>7 DEF Pay, vars, registry, closeVars
  <2> QED BY <1>3, <1>7, <2>1, SumOfPay
<1>8. CASE CountedClose
  <2>1. panic = "none"
    BY <1>8, <1>1 DEF CountedClose, CloserInv, CloseBegin, CloseStep, CloseSwap, CloseConn,
       FoundEmpty, DrainWaiter, ShutQueue, DrainIdle, ShutIdle
  <2> QED BY <1>2, <1>8, <2>1, CountedCloseStep
<1>9. CASE (\E c \in Conns : Expire(c)) /\ UNCHANGED statsVars
  BY <1>3, <1>9, SumKept DEF Expire, registry, closeVars
<1>10. CASE Halted /\ UNCHANGED statsVars
  BY <1>3, <1>10, SumKept DEF Halted, vars, registry, closeVars
<1> QED BY <1>4, <1>5, <1>6, <1>7, <1>8, <1>9, <1>10 DEF StatsNext

\* Once every call has counted what it did, CurrentConnections is the number of
\* connections in the map and on the list of Close: each connection is counted
\* as created once, and as closed once whoever, of several, closes it.
THEOREM ConnectionsExact == StatsSpec => []ConnectionsCounted
<1>1. StatsInit => TypeInv /\ CloserInv
  BY TypeInit, CloserInit DEF StatsInit
<1>2. StatsInit => RegistryInv
  BY DEF StatsInit, Init, RegistryInv
<1>3. StatsInit => ConnectionsCounted
  <2>1. \A k, n : StatsInit /\ k \in Counters /\ n \in {1, -1} => Owes(k, n) = {}
    BY DEF StatsInit, Owes, Nothing
  <2>2. StatsInit => Owing("created") = 0 /\ Owing("closed") = 0
    BY <2>1, FS_EmptySet DEF Owing, Counters
  <2>3. StatsInit => stats["created"] = 0 /\ stats["closed"] = 0 /\ connections \cup doomed = {}
    BY DEF StatsInit, Init, Nothing, Counters
  <2> QED BY <2>2, <2>3, FS_EmptySet DEF ConnectionsCounted
<1>4. TypeInv /\ [StatsNext]_<<vars, statsVars>> => TypeInv'
  BY TypeStep, StatsIsPool
<1>5. TypeInv /\ CloserInv /\ [StatsNext]_<<vars, statsVars>> => CloserInv'
  BY CloserStep, StatsIsPool
<1>6. TypeInv /\ CloserInv /\ RegistryInv /\ [StatsNext]_<<vars, statsVars>> => RegistryInv'
  BY RegistryStep, StatsIsPool
<1>7. /\ TypeInv /\ CloserInv /\ DebtInv /\ RegistryInv /\ ConnectionsCounted
      /\ [StatsNext]_<<vars, statsVars>>
      => ConnectionsCounted'
  BY CountedStep
<1> QED BY <1>1, <1>2, <1>3, <1>4, <1>5, <1>6, <1>7, DebtInit, DebtStep, PTL DEF StatsSpec


-----------------------------------------------------------------------------
(* CurrentIdleConnections and CurrentActiveConnections.                    *)

Placed(L) == {p \in Procs : pc[p] \in L}

\* A step of p changes how many are in one of some places by at most itself.
LEMMA PlacedChange ==
    ASSUME TypeInv, NEW p \in Procs, CallStep(p) \/ UserStep(p), NEW L, "dead" \notin L
    PROVE  /\ Cardinality(Placed(L)) \in Nat /\ Cardinality(Placed(L)') \in Nat
           /\ Cardinality(Placed(L)') <= Cardinality(Placed(L)) + 1
           /\ pc[p] \in L \/ pc'[p] \notin L =>
                Cardinality(Placed(L)') <= Cardinality(Placed(L))
           /\ pc[p] \in L /\ pc'[p] \notin L =>
                Cardinality(Placed(L)') <= Cardinality(Placed(L)) - 1
<1> DEFINE S == Placed(L)
           T == {q \in Procs : pc'[q] \in L}
<1>1. /\ S \in SUBSET Procs /\ T \in SUBSET Procs /\ IsFiniteSet(Procs)
      /\ (p \in S <=> pc[p] \in L) /\ (p \in T <=> pc'[p] \in L) /\ Placed(L)' = T
  BY PoolAssumption DEF Placed
<1>2. CASE \A q \in Procs : pc'[q] = "dead"
  <2>1. T = {}
    BY <1>2
  <2>2. Cardinality(T) = 0 /\ Cardinality(S) \in Nat /\ IsFiniteSet(S)
    BY <1>1, <2>1, FS_EmptySet, FS_Subset, FS_CardinalityType
  <2>3. p \in S => Cardinality(S) # 0
    BY <2>2, FS_EmptySet
  <2> HIDE DEF S, T
  <2> QED BY <1>1, <2>2, <2>3 DEF S
<1>3. CASE \A q \in Procs : q # p => pc'[q] = pc[q]
  <2>1. \A q \in Procs : q # p => (q \in S <=> q \in T)
    BY <1>3 DEF Placed
  <2> HIDE DEF S, T
  <2>2. /\ Cardinality(S) \in Nat /\ Cardinality(T) \in Nat
        /\ (p \in S <=> p \in T) => Cardinality(T) = Cardinality(S)
        /\ p \notin S /\ p \in T => Cardinality(T) = Cardinality(S) + 1
        /\ p \in S /\ p \notin T => Cardinality(T) = Cardinality(S) - 1
    BY <1>1, <2>1, OneMoves
  <2> QED BY <1>1, <2>2 DEF S
<1> QED BY <1>2, <1>3, OthersStay

Stored == Len(idle["TCP"]) + Len(idle["UDP"])

\* A connection a Get is looking at is still counted as idle.
IdleInv == Sum("idle") >= Stored + Cardinality(Placed({"vet"}))

LEMMA StoredChange ==
    ASSUME TypeInv
    PROVE  /\ Stored \in Nat
           /\ \A ch \in Channels :
                idle[ch] # <<>> /\ idle' = [idle EXCEPT ![ch] = Tail(@)]
                    => Stored' = Stored - 1
           /\ \A ch \in Channels, c \in Conns :
                idle' = [idle EXCEPT ![ch] = Append(@, c)] => Stored' = Stored + 1
<1>1. /\ idle \in [Channels -> Seq(Conns)] /\ Channels = {"TCP", "UDP"}
      /\ \A ch \in Channels : idle[ch] \in Seq(Conns) /\ Len(idle[ch]) \in Nat
  BY LenProperties DEF TypeInv, TypeOK, QueuesOK, Channels
<1>2. Stored \in Nat
  BY <1>1 DEF Stored
<1>3. ASSUME NEW ch \in Channels, idle[ch] # <<>>, idle' = [idle EXCEPT ![ch] = Tail(@)]
      PROVE  Stored' = Stored - 1
  <2>1. Len(idle'[ch]) = Len(idle[ch]) - 1 /\ \A dh \in Channels : dh # ch => idle'[dh] = idle[dh]
    BY <1>1, <1>3, HeadTailProperties
  <2>2. CASE ch = "TCP"
    <3>1. Len(idle'["TCP"]) = Len(idle["TCP"]) - 1 /\ Len(idle'["UDP"]) = Len(idle["UDP"])
      BY <1>1, <2>1, <2>2
    <3> QED BY <1>1, <3>1 DEF Stored
  <2>3. CASE ch = "UDP"
    <3>1. Len(idle'["UDP"]) = Len(idle["UDP"]) - 1 /\ Len(idle'["TCP"]) = Len(idle["TCP"])
      BY <1>1, <2>1, <2>3
    <3> QED BY <1>1, <3>1 DEF Stored
  <2> QED BY <1>1, <2>2, <2>3
<1>4. ASSUME NEW ch \in Channels, NEW c \in Conns, idle' = [idle EXCEPT ![ch] = Append(@, c)]
      PROVE  Stored' = Stored + 1
  <2>1. Len(idle'[ch]) = Len(idle[ch]) + 1 /\ \A dh \in Channels : dh # ch => idle'[dh] = idle[dh]
    BY <1>1, <1>4, AppendProperties
  <2>2. CASE ch = "TCP"
    <3>1. Len(idle'["TCP"]) = Len(idle["TCP"]) + 1 /\ Len(idle'["UDP"]) = Len(idle["UDP"])
      BY <1>1, <2>1, <2>2
    <3> QED BY <1>1, <3>1 DEF Stored
  <2>3. CASE ch = "UDP"
    <3>1. Len(idle'["UDP"]) = Len(idle["UDP"]) + 1 /\ Len(idle'["TCP"]) = Len(idle["TCP"])
      BY <1>1, <2>1, <2>3
    <3> QED BY <1>1, <3>1 DEF Stored
  <2> QED BY <1>1, <2>2, <2>3
<1> QED BY <1>2, <1>3, <1>4

LEMMA IdleCallStep ==
    ASSUME TypeInv, DebtInv, IdleInv, NEW p \in Procs, CountedCall(p)
    PROVE  IdleInv'
<1> DEFINE n == Cardinality(Placed({"vet"}))
           nn == Cardinality(Placed({"vet"})')
<1>1. /\ Sum("idle") \in Int /\ Sum("idle")' = Sum("idle") + Debt(p)["idle"]
      /\ CallStep(p) /\ pc \in [Procs -> Labels]
  BY SumOfCall DEF Counters, CountedCall, TypeInv, TypeOK, CallsOK
<1>2. /\ n \in Nat /\ nn \in Nat /\ nn <= n + 1
      /\ pc[p] = "vet" \/ pc'[p] # "vet" => nn <= n
      /\ pc[p] = "vet" /\ pc'[p] # "vet" => nn <= n - 1
  BY <1>1, PlacedChange
<1>3. Stored \in Nat /\ Sum("idle") >= Stored + n
  BY StoredChange DEF IdleInv
<1>4. SUFFICES Sum("idle")' >= Stored' + nn
  BY DEF IdleInv
<1> HIDE DEF n, nn
<1>5. CASE \E ch \in Channels : PollIdle(p, ch)
  <2>1. PICK ch \in Channels : PollIdle(p, ch)
    BY <1>5
  <2>2. pc[p] = "poll" /\ idle[ch] # <<>> /\ idle' = [idle EXCEPT ![ch] = Tail(@)]
    BY <2>1 DEF PollIdle
  <2>3. Stored' = Stored - 1 /\ Debt(p)["idle"] = 0
    BY <2>2, StoredChange, DebtValue
  <2> QED BY <1>1, <1>2, <1>3, <2>3
<1>6. CASE PutSend(p)
  <2> DEFINE c == frame[p].conn
             ch == ChannelOf(c)
  <2>1. pc[p] = "send" /\ c \in Conns /\ ch \in Channels
    BY <1>6 DEF PutSend, TypeInv, LocalsInv, LocalsOK, Carrying, Returning, ChannelOf, Channels
  <2>2. CASE idle' = [idle EXCEPT ![ch] = Append(@, c)] /\ Goto(p, "notify")
    <3>1. pc'[p] = "notify"
      BY <1>1, <2>2 DEF Goto
    <3>2. Stored' = Stored + 1 /\ Debt(p)["idle"] = 1
      BY <2>1, <2>2, <3>1, StoredChange, DebtValue
    <3> QED BY <1>1, <1>2, <1>3, <3>1, <3>2
  <2>3. CASE Goto(p, "retire") /\ UNCHANGED idle
    <3>1. pc'[p] = "retire" /\ Stored' = Stored
      BY <1>1, <2>3 DEF Goto, Stored
    <3>2. Debt(p)["idle"] = 0
      BY <2>1, <3>1, DebtValue
    <3> QED BY <1>1, <1>2, <1>3, <3>1, <3>2
  <2> QED BY <1>6, <2>2, <2>3 DEF PutSend
<1>7. CASE ~PutSend(p) /\ ~(\E ch \in Channels : PollIdle(p, ch))
  <2>1. idle' = idle /\ (pc[p] = "send" => pc'[p] = "dead")
    BY <1>1, <1>7 DEF chanVars, CallStep, GetStep, LoopHead, PollClosed, PollDefault,
       VetInvalid, VetMismatch, VetAccept, Take, Count, CreateStep, Acquire, AcquireTimeout,
       Admit, DialFails, Register, WaitStep, Join, JoinGivesUp, Receive, GiveUp, PanicJoin,
       PanicLeave, PutStep, PutCheck, PutIdle, NotifyWaiter, NotifyNobody, NotifySpin,
       Retire, Shut, PanicSend, Crash
  <2>2. Stored' = Stored /\ pc'[p] # "vet"
    BY <1>1, <1>7, <2>1, ComesFrom DEF Stored
  <2>3. /\ pc[p] = "vet" => Debt(p)["idle"] \in {-1, 0}
        /\ pc[p] # "vet" => Debt(p)["idle"] = 0
    BY <2>1, DebtValue
  <2> QED BY <1>1, <1>2, <1>3, <2>2, <2>3
<1> QED BY <1>5, <1>6, <1>7

\* Steps that count nothing and take nothing into an idle channel or a Get.
LEMMA IdleKept ==
    ASSUME TypeInv, IdleInv, Sum("idle") \in Int, Sum("idle")' = Sum("idle"),
           Stored' \in Int, Stored' <= Stored,
           \A q \in Procs : pc'[q] = "vet" => pc[q] = "vet"
    PROVE  IdleInv'
<1> DEFINE S == Placed({"vet"})
           T == {q \in Procs : pc'[q] \in {"vet"}}
<1>1. S \in SUBSET Procs /\ T \in SUBSET S /\ Placed({"vet"})' = T
  BY DEF Placed
<1>2. IsFiniteSet(S)
  BY <1>1, PoolAssumption, FS_Subset
<1>3. Cardinality(T) \in Nat /\ Cardinality(S) \in Nat /\ Cardinality(T) <= Cardinality(S)
  BY <1>1, <1>2, FS_Subset, FS_CardinalityType
<1> HIDE DEF S, T
<1> QED BY <1>1, <1>3, StoredChange DEF IdleInv, S

LEMMA IdleStep ==
    ASSUME TypeInv, DebtInv, IdleInv, [StatsNext]_<<vars, statsVars>>
    PROVE  IdleInv'
<1>0. Stored \in Nat
  BY StoredChange
<1>1. CASE UNCHANGED <<vars, statsVars>> \/ (Halted /\ UNCHANGED statsVars)
          \/ ((\E c \in Conns : Expire(c)) /\ UNCHANGED statsVars)
  <2>1. UNCHANGED <<idle, pc, statsVars>>
    BY <1>1 DEF Halted, Expire, vars, chanVars, locals
  <2>2. Sum("idle") \in Int /\ Sum("idle")' = Sum("idle") /\ Stored' = Stored
    BY <2>1, SumKept DEF Counters, Stored
  <2> QED BY <1>0, <2>1, <2>2, IdleKept
<1>2. ASSUME NEW p \in Procs, CountedCall(p)
      PROVE  IdleInv'
  BY <1>2, IdleCallStep
<1>3. ASSUME NEW p \in Procs, CountedUser(p)
      PROVE  IdleInv'
  <2>1. UserStep(p) /\ UNCHANGED <<idle, statsVars>>
    BY <1>3 DEF CountedUser, UserStep, Begin, UserPut, UserClose, chanVars
  <2>2. \A q \in Procs : pc'[q] = "vet" => pc[q] = "vet"
    <3>1. pc'[p] # "vet"
      BY <2>1, ComesFrom DEF UserStep, Begin, UserPut, UserClose, PollIdle
    <3> QED BY <2>1, <3>1, OthersStay
  <2>3. Sum("idle") \in Int /\ Sum("idle")' = Sum("idle") /\ Stored' = Stored
    BY <2>1, SumKept DEF Counters, Stored
  <2> QED BY <1>0, <2>2, <2>3, IdleKept
<1>4. ASSUME NEW p \in Procs, Pay(p)
      PROVE  IdleInv'
  <2>1. UNCHANGED <<idle, pc>>
    BY <1>4 DEF Pay, vars, chanVars, locals
  <2>2. Sum("idle") \in Int /\ Sum("idle")' = Sum("idle") /\ Stored' = Stored
    BY <1>4, <2>1, SumOfPay DEF Counters, Stored
  <2> QED BY <1>0, <2>1, <2>2, IdleKept
<1>5. CASE CountedClose
  <2>1. Sum("idle") \in Int /\ Sum("idle")' = Sum("idle") + 0
    <3>1. "idle" \in Counters /\ "idle" # "closed"
      BY DEF Counters
    <3> QED BY <1>5, <3>1, SumOfClose
  <2>2. Stored' \in Int /\ Stored' <= Stored
    <3>1. CASE \E ch \in Channels : DrainIdle(ch)
      <4>1. PICK ch \in Channels :
                idle[ch] # <<>> /\ idle' = [idle EXCEPT ![ch] = Tail(@)]
        BY <3>1 DEF DrainIdle
      <4>2. Stored' = Stored - 1
        BY <4>1, StoredChange
      <4> QED BY <1>0, <4>2
    <3>2. CASE ~(\E ch \in Channels : DrainIdle(ch))
      <4>1. idle' = idle
        BY <1>5, <3>2 DEF CountedClose, CloseBegin, CloseStep, CloseSwap, CloseConn,
           FoundEmpty, DrainWaiter, ShutQueue, ShutIdle, chanVars
      <4>2. Stored' = Stored
        BY <4>1 DEF Stored
      <4> QED BY <1>0, <4>2
    <3> QED BY <3>1, <3>2
  <2>3. pc' = pc
    BY <1>5 DEF CountedClose, CloseBegin, CloseStep, CloseSwap, CloseConn, FoundEmpty,
       DrainWaiter, ShutQueue, DrainIdle, ShutIdle, locals
  <2> QED BY <2>1, <2>2, <2>3, IdleKept
<1> QED BY <1>1, <1>2, <1>3, <1>4, <1>5 DEF StatsNext

\* A sum of nothing.
LEMMA SumInit == StatsInit => \A k \in Counters : Sum(k) = 0
<1>1. \A k, n : StatsInit /\ k \in Counters /\ n \in {1, -1} => Owes(k, n) = {}
  BY DEF StatsInit, Owes, Nothing
<1> QED BY <1>1, FS_EmptySet DEF Owing, Sum, StatsInit, Nothing

\* CurrentIdleConnections, with what is still to be counted, never misses a
\* connection that lies in an idle channel, whatever becomes of the others.
THEOREM NoneIdleUncounted == StatsSpec => []IdleCounted
<1>1. StatsInit => TypeInv /\ IdleInv
  <2>1. StatsInit => Placed({"vet"}) = {} /\ Stored = 0
    BY EmptySeq DEF StatsInit, Init, Placed, Stored, Channels
  <2> QED BY <2>1, TypeInit, SumInit, FS_EmptySet DEF StatsInit, IdleInv, Counters
<1>2. TypeInv /\ DebtInv /\ IdleInv => IdleCounted
  <2>1. Placed({"vet"}) \in SUBSET Procs
    BY DEF Placed
  <2>2. Cardinality(Placed({"vet"})) \in Nat
    BY <2>1, PoolAssumption, FS_Subset, FS_CardinalityType
  <2>3. DebtInv => stats["idle"] \in Int /\ Owing("idle") \in Int
    <3>1. \A m \in {-1, 1} : Owes("idle", m) \in SUBSET Procs
      BY DEF Owes
    <3> QED BY <3>1, PoolAssumption, FS_Subset, FS_CardinalityType
            DEF Owing, DebtInv, StatsTypeOK, Counters
  <2>4. DebtInv => Sum("idle") \in Int
    BY <2>3 DEF Sum
  <2>5. TypeInv /\ DebtInv /\ IdleInv => Sum("idle") >= Stored
    BY <2>2, <2>4, StoredChange DEF IdleInv
  <2> QED BY <2>5 DEF IdleCounted, Sum, Stored
<1>3. TypeInv /\ [StatsNext]_<<vars, statsVars>> => TypeInv'
  BY TypeStep, StatsIsPool
<1>4. TypeInv /\ DebtInv /\ IdleInv /\ [StatsNext]_<<vars, statsVars>> => IdleInv'
  BY IdleStep
<1> QED BY <1>1, <1>2, <1>3, <1>4, DebtInit, DebtStep, PTL DEF StatsSpec

-----------------------------------------------------------------------------
(* A pool whose users take any connection.                                 *)

\* From Take to MarkIdle a connection is borrowed, and counted.
Lent == Placed({"held", "put", "mark"})
ActiveInv ==
    /\ \A p \in Procs : frame[p].req = "Any"
    /\ Sum("active") >= Cardinality(Lent)

\* A call with such a request counts no attempts and meets no mismatch, ...
LEMMA AnyPlain ==
    ASSUME TypeInv, NEW p \in Procs, frame[p].req = "Any"
    PROVE  /\ Again(frame[p]) = frame[p] /\ ~VetMismatch(p)
           /\ \A c \in Conns, k \in DialKinds :
                Sort(p, c, k) => Move(p, "take", [frame[p] EXCEPT !.conn = c])
           /\ \A b \in BOOLEAN : CreateFailed(p, b) => UNCHANGED frame \/ Leave(p)
<1>1. frame[p] \in Frames
  BY DEF TypeInv, TypeOK, CallsOK
<1>2. Again(frame[p]) = frame[p]
  BY DEF Again
<1>3. ~VetMismatch(p)
  BY <1>2 DEF VetMismatch, Matches, Protocols, IPVersions
<1>4. ASSUME NEW c \in Conns, NEW k \in DialKinds, Sort(p, c, k)
      PROVE  Move(p, "take", [frame[p] EXCEPT !.conn = c])
  <2> DEFINE f == [frame[p] EXCEPT !.conn = c]
  <2>1. f.req = "Any"
    BY <1>1 DEF Frames
  <2> QED BY <1>4, <2>1 DEF Sort
<1>5. ASSUME NEW b \in BOOLEAN, CreateFailed(p, b)
      PROVE  UNCHANGED frame \/ Leave(p)
  BY <1>5 DEF CreateFailed, Protocols
<1> QED BY <1>2, <1>3, <1>4, <1>5

\* ... and keeps it until it leaves.
LEMMA AnyCallStep ==
    ASSUME TypeInv, NEW p \in Procs, frame[p].req = "Any", CallStep(p)
    PROVE  \/ UNCHANGED frame
           \/ \E g : g.req = "Any" /\ frame' = [frame EXCEPT ![p] = g]
<1> DEFINE f == frame[p]
           Goal == \/ UNCHANGED frame
                   \/ \E g : g.req = "Any" /\ frame' = [frame EXCEPT ![p] = g]
<1> SUFFICES Goal
  OBVIOUS
<1>1. f \in Frames /\ f.req = "Any" /\ Again(f) = f
  BY AnyPlain DEF TypeInv, TypeOK, CallsOK
<1>2. ASSUME NEW l, NEW g, Move(p, l, g), g.req = "Any" PROVE Goal
  BY <1>2 DEF Move
<1>3. /\ \A c : [f EXCEPT !.conn = c].req = "Any"
      /\ \A r : [f EXCEPT !.ret = r].req = "Any"
      /\ \A c, r : [f EXCEPT !.conn = c, !.ret = r].req = "Any"
      /\ \A i : [f EXCEPT !.stage = i].req = "Any"
      /\ \A i : [f EXCEPT !.conn = None, !.stage = i].req = "Any"
      /\ \A c : [NoFrame EXCEPT !.req = "Any", !.conn = c].req = "Any"
      /\ NoFrame.req = "Any"
  BY <1>1 DEF Frames, NoFrame
<1>4. Leave(p) => Goal
  BY <1>3 DEF Leave
<1>5. Resume(p) => Goal
  BY <1>2, <1>3, <1>4 DEF Resume
<1> HIDE DEF Goal
<1>6. (frame' = frame) => Goal
  BY DEF Goal
<1>7. CASE GetStep(p)
  <2>1. CASE \E ch \in Channels : PollIdle(p, ch)
    BY <1>2, <1>3, <2>1 DEF PollIdle
  <2>2. CASE Take(p)
    BY <1>1, <1>2, <1>3, <2>2 DEF Take
  <2>3. CASE VetInvalid(p)
    BY <1>1, <1>2, <1>3, <2>3 DEF VetInvalid
  <2>4. CASE LoopHead(p) \/ PollClosed(p) \/ PollDefault(p) \/ VetAccept(p) \/ Count(p)
    BY <1>1, <1>4, <1>6, <2>4 DEF LoopHead, PollClosed, PollDefault, VetAccept, Count, Protocols
  <2> QED BY <1>7, <2>1, <2>2, <2>3, <2>4, AnyPlain DEF GetStep
<1>8. CASE CreateStep(p)
  <2>1. CASE \E c \in Conns, k \in DialKinds : Register(p, c, k)
    <3>1. \E c \in Conns : Move(p, "take", [f EXCEPT !.conn = c])
      BY <2>1, AnyPlain DEF Register
    <3> QED BY <1>2, <1>3, <3>1
  <2>2. CASE ~(\E c \in Conns, k \in DialKinds : Register(p, c, k))
    <3>1. frame' = frame \/ CreateFailed(p, TRUE) \/ CreateFailed(p, FALSE)
      BY <1>8, <2>2 DEF CreateStep, Acquire, AcquireTimeout, Admit, DialFails
    <3> QED BY <1>4, <1>6, <3>1, AnyPlain
  <2> QED BY <2>1, <2>2
<1>9. CASE WaitStep(p)
  <2>1. CASE Receive(p)
    BY <1>2, <1>3, <2>1 DEF Receive
  <2>2. CASE ~Receive(p)
    BY <1>4, <1>6, <1>9, <2>2 DEF WaitStep, Join, JoinGivesUp, GiveUp, PanicJoin,
       PanicLeave, Crash
  <2> QED BY <2>1, <2>2
<1>10. CASE PutStep(p)
  <2>1. CASE NotifyNobody(p)
    BY <1>2, <1>3, <1>5, <2>1 DEF NotifyNobody
  <2>2. CASE ~NotifyNobody(p)
    BY <1>5, <1>6, <1>10, <2>2 DEF PutStep, PutCheck, PutIdle, PutSend, PanicSend, Crash,
       NotifyWaiter, NotifySpin, Retire, Shut, locals
  <2> QED BY <2>1, <2>2
<1> QED BY <1>7, <1>8, <1>9, <1>10 DEF CallStep

LEMMA AnyStep ==
    ASSUME TypeInv, Requests \subseteq {"Any"}, \A p \in Procs : frame[p].req = "Any",
           [Next]_vars
    PROVE  \A p \in Procs : frame'[p].req = "Any"
<1>0. frame \in [Procs -> Frames]
  BY DEF TypeInv, TypeOK, CallsOK
<1>1. CASE UNCHANGED frame
  BY <1>1
<1>2. ASSUME NEW p \in Procs, NEW g, g.req = "Any", frame' = [frame EXCEPT ![p] = g]
      PROVE  \A q \in Procs : frame'[q].req = "Any"
  BY <1>0, <1>2
<1>3. ASSUME NEW p \in Procs, CallStep(p)
      PROVE  \A q \in Procs : frame'[q].req = "Any"
  BY <1>1, <1>2, <1>3, AnyCallStep
<1>4. ASSUME NEW p \in Procs, UserStep(p)
      PROVE  \A q \in Procs : frame'[q].req = "Any"
  <2>1. NoFrame.req = "Any" /\ [NoFrame EXCEPT !.req = "Any"].req = "Any"
    BY DEF NoFrame
  <2>2. \/ UNCHANGED frame
        \/ \E r \in Requests : frame' = [frame EXCEPT ![p] = [NoFrame EXCEPT !.req = r]]
        \/ frame' = [frame EXCEPT ![p] = NoFrame]
    BY <1>4 DEF UserStep, Begin, UserPut, UserClose, Move, Leave
  <2> QED BY <1>1, <1>2, <2>1, <2>2
<1>5. CASE CloseBegin \/ CloseStep \/ (\E c \in Conns : Expire(c)) \/ Halted \/ UNCHANGED vars
  BY <1>1, <1>5 DEF CloseBegin, CloseStep, CloseSwap, CloseConn, FoundEmpty, DrainWaiter,
     ShutQueue, DrainIdle, ShutIdle, Expire, Halted, vars, locals
<1> QED BY <1>3, <1>4, <1>5 DEF Next

\* Only Take borrows, only PutIdle counts down, and what it counts down is one
\* of the borrowed: no mismatch brings a Get to a Put.
LEMMA ActiveCallStep ==
    ASSUME TypeInv, DebtInv, ActiveInv, NEW p \in Procs, CountedCall(p)
    PROVE  Sum("active")' >= Cardinality(Lent)'
<1> DEFINE L == {"held", "put", "mark"}
           n == Cardinality(Placed(L))
           nn == Cardinality(Placed(L)')
<1>1. /\ Sum("active") \in Int /\ Sum("active")' = Sum("active") + Debt(p)["active"]
      /\ CallStep(p) /\ pc \in [Procs -> Labels]
  BY SumOfCall DEF Counters, CountedCall, TypeInv, TypeOK, CallsOK
<1>2. /\ n \in Nat /\ nn \in Nat /\ nn <= n + 1
      /\ pc[p] \in L \/ pc'[p] \notin L => nn <= n
      /\ pc[p] \in L /\ pc'[p] \notin L => nn <= n - 1
  BY <1>1, PlacedChange
<1>3. Sum("active") >= n /\ frame[p].req = "Any"
  BY DEF ActiveInv, Lent
<1>4. SUFFICES Sum("active")' >= nn
  BY DEF Lent
<1>5. Debt(p)["active"] = IF pc[p] = "take" THEN 1 ELSE IF pc[p] = "mark" THEN -1 ELSE 0
  BY DebtValue
<1>6. ~VetMismatch(p) /\ \A c \in Conns, k \in DialKinds : Register(p, c, k) => pc'[p] = "take"
  BY <1>1, <1>3, AnyPlain DEF Register, Move, Goto
<1>7. pc[p] = "mark" => pc'[p] = "send"
  BY <1>1 DEF CallStep, GetStep, LoopHead, PollIdle, PollClosed, PollDefault,
     VetInvalid, VetMismatch, VetAccept, Take, Count, CreateStep, Acquire, AcquireTimeout,
     Admit, DialFails, Register, WaitStep, Join, JoinGivesUp, Receive, GiveUp, PanicJoin,
     PanicLeave, PutStep, PutCheck, PutIdle, PutSend, NotifyWaiter, NotifyNobody, NotifySpin,
     Retire, Shut, PanicSend, Goto
<1>8. pc'[p] \in L => pc[p] = "take" \/ pc[p] \in L
  <2>1. PutCheck(p) => pc[p] = "put"
    BY DEF PutCheck
  <2>2. Take(p) => pc[p] = "take"
    BY DEF Take
  <2> QED BY <1>1, <1>6, <2>1, <2>2, ComesFrom
<1> HIDE DEF n, nn
<1> QED BY <1>1, <1>2, <1>3, <1>5, <1>7, <1>8

LEMMA ActiveStep ==
    ASSUME TypeInv, DebtInv, ActiveInv, [StatsNext]_<<vars, statsVars>>
    PROVE  Sum("active")' >= Cardinality(Lent)'
<1>1. Sum("active") >= Cardinality(Lent)
  BY DEF ActiveInv
<1>2. ASSUME UNCHANGED pc, Sum("active")' = Sum("active")
      PROVE  Sum("active")' >= Cardinality(Lent)'
  <2>1. Lent' = Lent
    BY <1>2 DEF Lent, Placed
  <2> QED BY <1>1, <1>2, <2>1
<1>3. ASSUME NEW p \in Procs, CountedUser(p)
      PROVE  Sum("active")' >= Cardinality(Lent)'
  <2>1. UserStep(p) /\ UNCHANGED statsVars
    BY <1>3 DEF CountedUser
  <2>2. Sum("active") \in Int /\ Sum("active")' = Sum("active")
    BY <2>1, SumKept DEF Counters
  <2>3. pc[p] \in {"held", "put", "mark"} \/ pc'[p] \notin {"held", "put", "mark"}
    BY <2>1 DEF UserStep, Begin, UserPut, UserClose, Leave, Move, Goto, TypeInv, TypeOK, CallsOK
  <2>4. /\ Cardinality(Lent)' <= Cardinality(Lent)
        /\ Cardinality(Lent) \in Nat /\ Cardinality(Lent)' \in Nat
    BY <2>1, <2>3, PlacedChange DEF Lent
  <2> QED BY <1>1, <2>2, <2>4
<1>4. CASE \E p \in Procs : Pay(p)
  BY <1>2, <1>4, SumOfPay DEF Pay, vars, locals, Counters
<1>5. CASE CountedClose
  <2>1. UNCHANGED pc
    BY <1>5 DEF CountedClose, CloseBegin, CloseStep, CloseSwap, CloseConn, FoundEmpty,
       DrainWaiter, ShutQueue, DrainIdle, ShutIdle, locals
  <2>2. Sum("active") \in Int /\ Sum("active")' = Sum("active") + 0
    <3>1. "active" \in Counters /\ "active" # "closed"
      BY DEF Counters
    <3> QED BY <1>5, <3>1, SumOfClose
  <2> QED BY <1>2, <2>1, <2>2
<1>6. CASE ((\E c \in Conns : Expire(c)) \/ Halted \/ UNCHANGED vars) /\ UNCHANGED statsVars
  BY <1>2, <1>6, SumKept DEF Expire, Halted, vars, locals, Counters
<1> QED BY <1>3, <1>4, <1>5, <1>6, ActiveCallStep DEF StatsNext

\* In a pool whose users take any connection CurrentActiveConnections, with what
\* is still to be counted, never misses a connection that is borrowed.  (In one
\* whose users do not, it does: a Get that puts back a connection of the wrong
\* sort has it counted down, and nobody had counted it up.)
THEOREM BorrowedNeverMissed ==
    ASSUME Requests \subseteq {"Any"}
    PROVE  StatsSpec => []BorrowedCounted
<1>1. StatsInit => TypeInv /\ ActiveInv
  <2>1. StatsInit => Lent = {} /\ \A p \in Procs : frame[p].req = "Any"
    BY DEF StatsInit, Init, Lent, Placed, NoFrame
  <2> QED BY <2>1, TypeInit, SumInit, FS_EmptySet DEF StatsInit, ActiveInv, Counters
<1>2. TypeInv /\ DebtInv /\ ActiveInv => BorrowedCounted
  <2> DEFINE H == {p \in Procs : pc[p] = "held"}
  <2>1. H \in SUBSET Lent /\ Lent \in SUBSET Procs
    BY DEF Lent, Placed
  <2>2. Cardinality(H) \in Nat /\ Cardinality(Lent) \in Nat /\ Cardinality(H) <= Cardinality(Lent)
    BY <2>1, PoolAssumption, FS_Subset, FS_CardinalityType
  <2>3. DebtInv => Sum("active") \in Int
    <3>1. \A m \in {-1, 1} : Owes("active", m) \in SUBSET Procs
      BY DEF Owes
    <3> QED BY <3>1, PoolAssumption, FS_Subset, FS_CardinalityType
            DEF Owing, Sum, DebtInv, StatsTypeOK, Counters
  <2>4. DebtInv /\ ActiveInv => Sum("active") >= Cardinality(H)
    <3> HIDE DEF H
    <3> QED BY <2>2, <2>3 DEF ActiveInv
  <2> QED BY <2>4 DEF BorrowedCounted, Sum
<1>3. TypeInv /\ [StatsNext]_<<vars, statsVars>> => TypeInv'
  BY TypeStep, StatsIsPool
<1>4. TypeInv /\ DebtInv /\ ActiveInv /\ [StatsNext]_<<vars, statsVars>> => ActiveInv'
  BY AnyStep, ActiveStep, StatsIsPool DEF ActiveInv
<1> QED BY <1>1, <1>2, <1>3, <1>4, DebtInit, DebtStep, PTL DEF StatsSpec

=============================================================================
