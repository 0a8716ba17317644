----------------------------- MODULE UpkeepProofs -----------------------------
(* The managers do not disturb what Get, Put and Close keep: with cleanup   *)
(* and health checks at work, connections are still not forgotten, not lent *)
(* twice, and no more numerous than the semaphore allows.                   *)
EXTENDS PoolUpkeep, LedgerProofs

-----------------------------------------------------------------------------
(* What a step of the managers is to the pool.                             *)

ManagerStep == SweepStep \/ ProbeStep \/ StopStep

\* A goroutine of Get, Put or Close takes its step as if there were no managers,
\* but for Close waiting for them.
LEMMA PoolPart ==
    ASSUME [UpkeepNext]_allVars
    PROVE  \/ [Next]_vars /\ UNCHANGED upkeepVars
           \/ ManagerStep
BY DEF UpkeepNext, ManagerStep, PoolStep, ManagedClose, Next, allVars

\* The managers write health flags; the cleanup takes one connection out of the
\* map, or closes the one it has taken out.  Everything else they only read.
LEMMA ManagerEffect ==
    ASSUME ManagerStep
    PROVE  /\ UNCHANGED <<createSemaphore, kind, expired, inUse>>
           /\ UNCHANGED <<chanVars, waitVars, closeVars, locals>>
           /\ unhealthy' \subseteq unhealthy \cup {target} \cup Conns
           /\ connections' \subseteq connections /\ live' \subseteq live
           /\ UNCHANGED <<connections, live>> \/ SweepRetire \/ SweepShut
<1> USE DEF vars, registry, connVars
<1>1. CASE \/ SweepTick \/ (\E c \in Conns : Look(c) \/ Cull(c)) \/ JudgeFit \/ Recheck
           \/ Select \/ Culled
  BY <1>1 DEF SweepTick, Look, Cull, JudgeFit, Recheck, Select, Culled
<1>2. CASE JudgeOverdue \/ SweepRetire \/ SweepShut
  BY <1>2 DEF JudgeOverdue, SweepRetire, SweepShut
<1>3. CASE ProbeStep \/ StopStep
  BY <1>3 DEF ProbeStep, ProbeRound, ProbeRead, ProbeReport, StopStep, StopHealth, StopCleanup
<1> QED BY <1>1, <1>2, <1>3 DEF ManagerStep, SweepStep

\* What the cleanup looks at is a connection from the map.
LEMMA TargetStep == TypeInv /\ UpkeepTypeOK /\ [UpkeepNext]_allVars => UpkeepTypeOK'
<1> SUFFICES ASSUME TypeInv, UpkeepTypeOK, [UpkeepNext]_allVars PROVE UpkeepTypeOK'
  OBVIOUS
<1> USE DEF UpkeepTypeOK, At
<1>1. connections \subseteq Conns
  BY DEF TypeInv, TypeOK, ConnectionsOK
<1>2. CASE UNCHANGED upkeepVars
  BY <1>2 DEF upkeepVars, sweepVars
<1>3. CASE SweepStep
  <2>1. CASE SweepTick
    BY <1>1, <2>1 DEF SweepTick
  <2>2. ASSUME NEW c \in Conns, Look(c) \/ Cull(c)
        PROVE  UpkeepTypeOK'
    BY <2>2 DEF Look, Cull
  <2>3. CASE JudgeOverdue \/ JudgeFit \/ Recheck
    BY <2>3 DEF JudgeOverdue, JudgeFit, Recheck
  <2>4. CASE SweepRetire \/ SweepShut
    BY <2>4 DEF SweepRetire, SweepShut
  <2>5. CASE Select
    <3>1. todo' \subseteq Conns
      BY <1>1, <2>5 DEF Select
    <3> QED BY <2>5, <3>1 DEF Select
  <2>6. CASE Culled
    BY <2>6 DEF Culled
  <2> QED BY <1>3, <2>1, <2>2, <2>3, <2>4, <2>5, <2>6 DEF SweepStep
<1>4. CASE ProbeStep
  BY <1>4 DEF ProbeStep, ProbeRound, ProbeRead, ProbeReport, sweepVars
<1>5. CASE StopStep
  BY <1>5 DEF StopStep, StopHealth, StopCleanup, sweepVars, Managers
<1> QED BY <1>2, <1>3, <1>4, <1>5, PoolPart DEF ManagerStep

-----------------------------------------------------------------------------
(* What the managers do not touch they keep.                               *)

LEMMA ManagedType == TypeInv /\ UpkeepTypeOK /\ [UpkeepNext]_allVars => TypeInv'
<1> SUFFICES ASSUME TypeInv, UpkeepTypeOK, ManagerStep PROVE TypeInv'
  BY PoolPart, TypeStep
<1>1. target \in Conns \/ unhealthy' \subseteq unhealthy \cup Conns
  <2>1. target \in Conns \/ UNCHANGED unhealthy \/ ProbeStep
    BY DEF ManagerStep, SweepStep, SweepTick, Look, Cull, JudgeOverdue, JudgeFit, Recheck,
       SweepRetire, SweepShut, Select, Culled, StopStep, StopHealth, StopCleanup, At,
       UpkeepTypeOK, vars, connVars
  <2>2. ProbeStep => unhealthy' \subseteq unhealthy \cup Conns
    BY DEF ProbeStep, ProbeRound, ProbeRead, ProbeReport, vars, connVars
  <2> QED BY <2>1, <2>2
<1>2. DataOK'
  BY <1>1, ManagerEffect
     DEF TypeInv, TypeOK, DataOK, ConnectionsOK, QueuesOK, CloseOK, chanVars, waitVars, closeVars
<1>3. CallInv'
  BY ManagerEffect, CallsUnchanged DEF locals
<1> QED BY <1>2, <1>3, Parts

LEMMA ManagedCloser == TypeInv /\ CloserInv /\ [UpkeepNext]_allVars => CloserInv'
<1> SUFFICES ASSUME TypeInv, CloserInv, ManagerStep PROVE CloserInv'
  BY PoolPart, CloserStep
<1> QED BY ManagerEffect DEF CloserInv, chanVars, waitVars, closeVars, locals

LEMMA ManagedCreation == TypeInv /\ CreationInv /\ [UpkeepNext]_allVars => CreationInv'
<1> SUFFICES ASSUME TypeInv, CreationInv, ManagerStep PROVE CreationInv'
  BY PoolPart, CreationNext
<1> QED BY ManagerEffect, Quiet DEF locals

LEMMA ManagedOwners ==
    TypeInv /\ CloserInv /\ NobodyWaits /\ Owned /\ [UpkeepNext]_allVars /\ MaxConnections = 0
        => NobodyWaits' /\ Owned'
<1> SUFFICES ASSUME TypeInv, CloserInv, NobodyWaits, Owned, ManagerStep, MaxConnections = 0
             PROVE  NobodyWaits' /\ Owned'
  BY PoolPart, NobodyNext, OwnNext
<1>1. UNCHANGED <<kind, idle, waitQueue, pc, frame>> /\ live' \subseteq live
  BY ManagerEffect DEF chanVars, waitVars, locals
<1> QED BY <1>1 DEF NobodyWaits, Owned, OwnersApart, OwnedNotIdle, IdleDistinct, Dialed

-----------------------------------------------------------------------------
(* Type correctness, and the promises of the pool that only shrinking the  *)
(* map and closing connections cannot break.                               *)

\* Who has taken a connection out of the map and not closed it yet.
Retired == IF sweep = "shut" THEN {target} ELSE {}

LEMMA UpkeepStart ==
    UpkeepInit => UpkeepTypeOK /\ TypeInv /\ CloserInv /\ CreationInv
BY TypeInit, CloserInit, CreationInit DEF UpkeepInit, UpkeepTypeOK, Managers

\* Whatever tickers, snapshots and probes do, the cleanup manager only ever
\* closes a connection it has chosen from the map.
THEOREM UpkeepTyped == UpkeepSpec => []UpkeepTypeOK
BY UpkeepStart, ManagedType, TargetStep, PTL DEF UpkeepSpec

\* The cleanup may close connections while others are being dialed: the map
\* passes MaxConnections by no more than it does without.
THEOREM ManagedLimitBounded == UpkeepSpec => []ConnectionBound
<1>1. TypeInv /\ CreationInv => ConnectionBound
  <2> SUFFICES ASSUME TypeInv, CreationInv, MaxConnections > 0
               PROVE  Cardinality(connections) <= MaxConnections + CreateLimit - 1
    BY DEF ConnectionBound
  <2> QED BY FiniteParts, PoolAssumption DEF CreationInv
<1> QED BY <1>1, UpkeepStart, ManagedType, TargetStep, ManagedCreation, PTL DEF UpkeepSpec

\* The managers close and mark connections under the hands of Get and Put, and
\* yet never make a connection available to a second goroutine.
THEOREM ManagedBorrowedOnce ==
    ASSUME MaxConnections = 0
    PROVE  UpkeepSpec => []SoleBorrower
<1>1. Owned => SoleBorrower
  BY DEF Owned, OwnersApart, SoleBorrower, Owning
<1>2. UpkeepInit => NobodyWaits /\ Owned
  BY NobodyInit, OwnInit DEF UpkeepInit, OwnInv
<1>3. TypeInv /\ CloserInv /\ NobodyWaits /\ Owned /\ [UpkeepNext]_allVars
        => NobodyWaits' /\ Owned'
  BY ManagedOwners
<1> QED BY <1>1, <1>2, <1>3, UpkeepStart, ManagedType, TargetStep, ManagedCloser,
           PTL DEF UpkeepSpec

-----------------------------------------------------------------------------
(* Nothing is forgotten, with the cleanup closing connections as well.     *)

LEMMA ForgottenMeans == UpkeepNoOrphan <=> NoneLost(Retired)
BY DEF UpkeepNoOrphan, NoneLost, Accounted, Closing, Retired

LEMMA ManagedOrphan ==
    TypeInv /\ CloserInv /\ UpkeepTypeOK /\ UpkeepNoOrphan /\ [UpkeepNext]_allVars
        => UpkeepNoOrphan'
<1> SUFFICES ASSUME TypeInv, CloserInv, UpkeepTypeOK, UpkeepNoOrphan, [UpkeepNext]_allVars
             PROVE  UpkeepNoOrphan'
  OBVIOUS
<1>1. CASE [Next]_vars /\ UNCHANGED upkeepVars
  <2>1. PICK S : S = Retired
    OBVIOUS
  <2>2. NoneLost(S)
    BY <2>1, ForgottenMeans
  <2>3. NoneLost(S)'
    BY <1>1, <2>2, OrphanStep
  <2>4. S = Retired'
    BY <1>1, <2>1 DEF Retired, upkeepVars, sweepVars
  <2> QED BY <2>3, <2>4 DEF UpkeepNoOrphan, NoneLost, Accounted, Closing, Retired
<1>2. CASE ManagerStep
  <2>1. UNCHANGED <<doomed, panic, pc, frame>> /\ live' \subseteq live
    BY <1>2, ManagerEffect DEF closeVars, locals
  <2>2. CASE SweepRetire
    <3>1. /\ connections' = connections \ {target}
          /\ sweep = "retire" /\ sweep' = "shut" /\ target' = target
      BY <2>2 DEF SweepRetire, At
    <3> QED BY <2>1, <3>1 DEF UpkeepNoOrphan
  <2>3. CASE SweepShut
    <3>1. live' = live \ {target} /\ connections' = connections /\ sweep = "shut"
      BY <2>3 DEF SweepShut, At, registry
    <3> QED BY <2>1, <3>1 DEF UpkeepNoOrphan
  <2>4. CASE ~SweepRetire /\ ~SweepShut
    <3>1. UNCHANGED <<connections, live>>
      BY <1>2, <2>4, ManagerEffect
    <3>2. sweep = "shut" => sweep' = "shut" /\ target' = target
      BY <1>2, <2>4 DEF ManagerStep, SweepStep, SweepTick, Look, Cull, JudgeOverdue,
         JudgeFit, Recheck, Select, Culled, ProbeStep, ProbeRound, ProbeRead, ProbeReport,
         StopStep, StopHealth, StopCleanup, At, sweepVars
    <3> QED BY <2>1, <3>1, <3>2 DEF UpkeepNoOrphan
  <2> QED BY <2>2, <2>3, <2>4
<1> QED BY <1>1, <1>2, PoolPart

\* An open connection is in the map, on the list of Close, or in the hands of
\* the goroutine or the manager that has taken it out and closes it next.
THEOREM ManagedOrphanFree == UpkeepSpec => []UpkeepNoOrphan
<1>1. UpkeepInit => UpkeepNoOrphan
  BY DEF UpkeepInit, Init, UpkeepNoOrphan
<1> QED BY <1>1, UpkeepStart, ManagedType, TargetStep, ManagedCloser, ManagedOrphan,
           PTL DEF UpkeepSpec

-----------------------------------------------------------------------------
(* Close drains the pool because it waits for the cleanup to end.          *)

\* A manager that has been stopped is at rest, and the map is only swapped out
\* when it is.
CleanupStopped == "cleanup" \in stopped => sweep = "rest"

LEMMA StoppedStep == CleanupStopped /\ [UpkeepNext]_allVars => CleanupStopped'
<1> SUFFICES ASSUME CleanupStopped, [UpkeepNext]_allVars PROVE CleanupStopped'
  OBVIOUS
<1>1. CASE UNCHANGED upkeepVars
  BY <1>1 DEF upkeepVars, sweepVars, CleanupStopped
<1>2. CASE SweepStep
  BY <1>2 DEF SweepStep, SweepTick, Look, Cull, JudgeOverdue, JudgeFit, Recheck,
     SweepRetire, SweepShut, Select, Culled, At, CleanupStopped
<1>3. CASE ProbeStep \/ StopStep
  BY <1>3 DEF ProbeStep, ProbeRound, ProbeRead, ProbeReport, StopStep, StopHealth,
     StopCleanup, sweepVars, CleanupStopped
<1> QED BY <1>1, <1>2, <1>3, PoolPart DEF ManagerStep

\* Close swaps the map out when nobody but its goroutines closes connections.
LEMMA SwapAtRest ==
    ASSUME CleanupStopped, UpkeepNoOrphan, [UpkeepNext]_allVars, CloseSwap,
           UNCHANGED upkeepVars
    PROVE  NoOrphan
<1>1. closer = "stopping" /\ closer' = "closing"
  BY DEF CloseSwap
<1>2. ManagedClose
  <2>1. ~CloseBegin /\ ~(\E c \in Conns : Expire(c)) /\ ~UNCHANGED closer
    BY <1>1 DEF CloseBegin, Expire, closeVars
  <2>2. ASSUME NEW p \in Procs, CallStep(p) \/ UserStep(p)
        PROVE  FALSE
    BY <1>1, <2>2, CallEffect DEF PanicSend, PanicJoin, PanicLeave, Crash
  <2>3. ~ManagerStep
    BY <1>1, ManagerEffect DEF closeVars
  <2> QED BY <2>1, <2>2, <2>3 DEF UpkeepNext, PoolStep, Halted, ManagerStep, allVars, vars,
             closeVars
<1>3. sweep = "rest"
  BY <1>1, <1>2 DEF ManagedClose, CleanupStopped, Managers
<1> QED BY <1>3 DEF UpkeepNoOrphan, NoOrphan

LEMMA ManagedHands ==
    /\ TypeInv /\ CloserInv /\ CleanupStopped /\ UpkeepNoOrphan /\ HandsInv
    /\ [UpkeepNext]_allVars
    => HandsInv'
<1> SUFFICES ASSUME TypeInv, CloserInv, CleanupStopped, UpkeepNoOrphan, HandsInv,
                    [UpkeepNext]_allVars
             PROVE  HandsInv'
  OBVIOUS
<1>1. CASE [Next]_vars /\ UNCHANGED upkeepVars
  BY <1>1, SwapAtRest, HandsStep
<1>2. CASE ManagerStep
  BY <1>2, ManagerEffect DEF HandsInv, closeVars, locals
<1> QED BY <1>1, <1>2, PoolPart

LEMMA ManagedDrain ==
    /\ TypeInv /\ CloserInv /\ CloserInv' /\ HandsInv /\ HandsInv' /\ ClosedPoolDrained
    /\ [UpkeepNext]_allVars
    => ClosedPoolDrained'
<1> SUFFICES ASSUME TypeInv, CloserInv, CloserInv', HandsInv, HandsInv', ClosedPoolDrained,
                    ManagerStep
             PROVE  ClosedPoolDrained'
  BY PoolPart, DrainedStep
<1> QED BY ManagerEffect DEF ClosedPoolDrained, Terminated, chanVars, locals

\* When Close has returned, not even a cleanup that was under way leaves a
\* connection open that no goroutine has in its hands.
THEOREM ManagedDrained == UpkeepSpec => []ClosedPoolDrained
<1>1. UpkeepInit => UpkeepNoOrphan /\ CleanupStopped /\ HandsInv /\ ClosedPoolDrained
  BY DEF UpkeepInit, Init, UpkeepNoOrphan, CleanupStopped, HandsInv, ClosedPoolDrained
<1> QED BY <1>1, UpkeepStart, ManagedType, TargetStep, ManagedCloser, ManagedOrphan,
           StoppedStep, ManagedHands, ManagedDrain, PTL DEF UpkeepSpec

=============================================================================
