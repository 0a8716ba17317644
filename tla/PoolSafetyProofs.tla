--------------------------- MODULE PoolSafetyProofs ---------------------------
(* Where an open connection can be while Get, Put and Close interleave, and *)
(* what a waitChan can hold: the safety invariants of PoolProperties, for   *)
(* every number of goroutines and connections.                              *)
EXTENDS PoolProofs

-----------------------------------------------------------------------------
(* How far Close has got, and what its progress says.                      *)

\* Until the map is swapped out nothing is on the list of Close and no channel
\* is closed; the idle channels come last; a panic stops everything.
CloserInv ==
    /\ closer \in {"open", "stopping"} => doomed = {} /\ queueClosed = {} /\ idleClosed = {}
    /\ closer \in {"stopping", "closing", "shutting"} => closed
    /\ queueClosed # {} => doomed = {}
    /\ idleClosed # {} => queueClosed = Queues
    /\ queueClosed # {} \/ mailClosed # {} => closed
    /\ panic # "none" => closer = "dead" /\ \A p \in Procs : pc[p] = "dead"
    /\ closer = "dead" => panic # "none"

\* What a goroutine's step leaves alone: the place and the locals of the others.
LEMMA OwnStep ==
    ASSUME TypeInv, NEW p \in Procs, CallStep(p) \/ UserStep(p), panic' = "none"
    PROVE  \A q \in Procs : q # p => pc'[q] = pc[q] /\ frame'[q] = frame[q]
<1>1. /\ pc' = pc \/ \E l : Goto(p, l)
      /\ frame' = frame \/ \E g : frame' = [frame EXCEPT ![p] = g]
  <2> USE DEF Move, Leave, Resume
  <2>1. CASE GetStep(p)
    BY <2>1 DEF GetStep, LoopHead, PollIdle, PollClosed, PollDefault, VetInvalid,
       VetMismatch, VetAccept, Take, Count
  <2>2. CASE CreateStep(p)
    BY <2>2 DEF CreateStep, Acquire, AcquireTimeout, Admit, DialFails, Register,
       CreateFailed, Sort
  <2>3. CASE WaitStep(p)
    BY <2>3 DEF WaitStep, Join, JoinGivesUp, Receive, GiveUp, PanicJoin, PanicLeave, Crash
  <2>4. CASE PutStep(p)
    BY <2>4 DEF PutStep, PutCheck, PutIdle, PutSend, NotifyWaiter, NotifyNobody,
       NotifySpin, Retire, Shut, PanicSend, Crash, locals
  <2>5. CASE UserStep(p)
    BY <2>5 DEF UserStep, Begin, UserPut, UserClose
  <2> QED BY <2>1, <2>2, <2>3, <2>4, <2>5 DEF CallStep
<1> QED BY <1>1 DEF Goto, TypeInv, TypeOK, CallsOK

\* A call or its caller never touches what Close keeps, unless it panics, and
\* only Retire and Register write to the map, only those below to live or kind.
LEMMA CallEffect ==
    ASSUME NEW p \in Procs, CallStep(p) \/ UserStep(p)
    PROVE  /\ UNCHANGED <<queueClosed, idleClosed, mailClosed, closed, doomed>>
           /\ \/ UNCHANGED <<closer, panic>>
              \/ PanicSend(p) \/ PanicJoin(p) \/ PanicLeave(p)
           /\ Retire(p) \/ connections \subseteq connections'
           /\ live' \subseteq live \/ \E c \in Conns, k \in DialKinds : Register(p, c, k)
           /\ kind' = kind \/ \E c \in Conns, k \in DialKinds : Register(p, c, k)
<1> USE DEF registry, connVars, chanVars, waitVars, closeVars, Crash
<1>1. CASE GetStep(p)
  BY <1>1 DEF GetStep, LoopHead, PollIdle, PollClosed, PollDefault, VetInvalid,
     VetMismatch, VetAccept, Take, Count
<1>2. CASE CreateStep(p)
  BY <1>2 DEF CreateStep, Acquire, AcquireTimeout, Admit, DialFails, Register
<1>3. CASE WaitStep(p)
  BY <1>3 DEF WaitStep, Join, JoinGivesUp, Receive, GiveUp, PanicJoin, PanicLeave
<1>4. CASE PutStep(p)
  BY <1>4 DEF PutStep, PutCheck, PutIdle, PutSend, NotifyWaiter, NotifyNobody,
     NotifySpin, Retire, Shut, PanicSend
<1>5. CASE UserStep(p)
  BY <1>5 DEF UserStep, Begin, UserPut, UserClose
<1> QED BY <1>1, <1>2, <1>3, <1>4, <1>5 DEF CallStep

\* Take forgets the counters of the call but neither its request nor its connection.
LEMMA TakeFrame ==
    ASSUME TypeInv, NEW p \in Procs, Take(p)
    PROVE  frame'[p].req = frame[p].req /\ frame'[p].conn = frame[p].conn
<1> DEFINE g == [NoFrame EXCEPT !.req = frame[p].req]
           h == [g EXCEPT !.conn = frame[p].conn]
<1>1. frame'[p] = h
  BY DEF Take, Move, TypeInv, TypeOK, CallsOK
<1>2. g \in Frames /\ g.req = frame[p].req
  BY NoFrameType DEF TypeInv, TypeOK, CallsOK, Frames
<1> HIDE DEF g
<1>3. h.req = frame[p].req /\ h.conn = frame[p].conn
  BY <1>2 DEF Frames
<1> QED BY <1>1, <1>3

LEMMA CloserInit == Init => CloserInv
BY DEF Init, CloserInv

\* Whoever takes a step is alive.
LEMMA Running ==
    ASSUME CloserInv, NEW p \in Procs, CallStep(p) \/ UserStep(p)
    PROVE  pc[p] # "dead" /\ panic = "none"
<1>1. pc[p] # "dead"
  BY DEF CallStep, GetStep, LoopHead, PollIdle, PollClosed, PollDefault, VetInvalid,
     VetMismatch, VetAccept, Take, Count, CreateStep, Acquire, AcquireTimeout, Admit,
     DialFails, Register, WaitStep, Join, JoinGivesUp, Receive, GiveUp, PanicJoin,
     PanicLeave, PutStep, PutCheck, PutIdle, PutSend, NotifyWaiter, NotifyNobody,
     NotifySpin, Retire, Shut, PanicSend, UserStep, Begin, UserPut, UserClose
<1> QED BY <1>1 DEF CloserInv

LEMMA CloserStep == TypeInv /\ CloserInv /\ [Next]_vars => CloserInv'
<1> SUFFICES ASSUME TypeInv, CloserInv, [Next]_vars PROVE CloserInv'
  OBVIOUS
<1>1. CASE UNCHANGED vars
  BY <1>1 DEF vars, chanVars, waitVars, closeVars, locals, CloserInv
<1>2. ASSUME NEW p \in Procs, CallStep(p) \/ UserStep(p)
      PROVE  CloserInv'
  <2>1. UNCHANGED <<queueClosed, idleClosed, mailClosed, closed, doomed>>
    BY <1>2, CallEffect
  <2>2. CASE PanicSend(p) \/ PanicJoin(p) \/ PanicLeave(p)
    <3>1. /\ panic' # "none" /\ closer' = "dead"
          /\ \A q \in Procs : pc'[q] = "dead"
      BY <2>2 DEF PanicSend, PanicJoin, PanicLeave, Crash
    <3> QED BY <2>1, <3>1 DEF CloserInv
  <2>3. CASE UNCHANGED <<closer, panic>>
    <3>1. pc[p] # "dead"
      BY <1>2, Running
    <3> QED BY <2>1, <2>3, <3>1 DEF CloserInv
  <2> QED BY <1>2, <2>2, <2>3, CallEffect
<1>3. CASE CloseBegin \/ CloseStep
  <2> USE DEF closeVars, waitVars, chanVars, locals, CloserInv, QueueTurn, ChannelTurn
  <2>1. CASE CloseBegin \/ CloseSwap \/ FoundEmpty \/ \E c \in Conns : CloseConn(c)
    BY <2>1 DEF CloseBegin, CloseSwap, FoundEmpty, CloseConn
  <2>2. CASE \E q \in Queues : DrainWaiter(q) \/ ShutQueue(q)
    <3>1. \A q \in Queues : QueueTurn(q) => queueClosed # Queues /\ doomed = {}
      OBVIOUS
    <3>2. /\ closer \in {"closing", "shutting"} /\ doomed = {} /\ idleClosed = {}
          /\ UNCHANGED <<closed, doomed, panic, idleClosed, pc>>
          /\ closer' \in {"closing", "shutting"}
      BY <2>2, <3>1 DEF DrainWaiter, ShutQueue
    <3> QED BY <3>2
  <2>3. CASE \E ch \in Channels : DrainIdle(ch) \/ ShutIdle(ch)
    <3>1. /\ closer \in {"closing", "shutting"} /\ queueClosed = Queues
          /\ UNCHANGED <<closed, doomed, panic, queueClosed, mailClosed, pc>>
          /\ closer' \in {"closing", "shutting"}
      BY <2>3 DEF DrainIdle, ShutIdle
    <3>2. Queues # {}
      BY DEF Queues
    <3> QED BY <3>1, <3>2
  <2> QED BY <1>3, <2>1, <2>2, <2>3 DEF CloseStep
<1>4. CASE \E c \in Conns : Expire(c)
  BY <1>4 DEF Expire, chanVars, waitVars, closeVars, locals, CloserInv
<1> QED BY <1>1, <1>2, <1>3, <1>4 DEF Next, Halted

-----------------------------------------------------------------------------
(* No open connection is forgotten.                                        *)

\* Goroutine p is about to close c, which it has taken out of the map.
Closing(p, c) == pc[p] = "shut" /\ frame[p].conn = c

\* Every open connection is accounted for, those of S apart.
Accounted(c) == c \in connections \cup doomed \/ \E p \in Procs : Closing(p, c)
NoneLost(S)  == panic = "none" => \A c \in live \ S : Accounted(c)

\* A step after which nothing more is open and nothing less is in the map.
LEMMA NothingLost ==
    ASSUME NEW S, NoneLost(S), panic = "none", live' \subseteq live,
           connections \cup doomed \subseteq connections' \cup doomed',
           \A p \in Procs, c \in live' : Closing(p, c) => Closing(p, c)'
    PROVE  NoneLost(S)'
BY DEF NoneLost, Accounted, Closing

LEMMA OrphanStep ==
    ASSUME TypeInv, CloserInv, NEW S, NoneLost(S), [Next]_vars
    PROVE  NoneLost(S)'
<1> SUFFICES ASSUME panic' = "none" PROVE NoneLost(S)'
  BY DEF NoneLost
<1>1. CASE UNCHANGED vars
  BY <1>1 DEF vars, registry, connVars, closeVars, locals, NoneLost, Accounted, Closing
<1>2. ASSUME NEW p \in Procs, CallStep(p) \/ UserStep(p)
      PROVE  NoneLost(S)'
  <2>1. /\ panic = "none" /\ doomed' = doomed
        /\ \A q \in Procs : q # p => pc'[q] = pc[q] /\ frame'[q] = frame[q]
    BY <1>2, CallEffect, OwnStep DEF PanicSend, PanicJoin, PanicLeave, Crash
  <2>2. CASE Retire(p)
    <3>1. /\ pc[p] = "retire" /\ live' = live /\ frame' = frame
          /\ connections' = connections \ {frame[p].conn}
          /\ pc'[p] = "shut"
      BY <2>2 DEF Retire, Goto, TypeInv, TypeOK, CallsOK
    <3> QED BY <2>1, <3>1 DEF NoneLost, Accounted, Closing
  <2>3. CASE Shut(p)
    <3>1. connections' = connections /\ live' = live \ {frame[p].conn}
      BY <2>3 DEF Shut, registry
    <3>2. \A q \in Procs, c \in live' : Closing(q, c) => Closing(q, c)'
      BY <2>1, <3>1 DEF Closing
    <3> QED BY <2>1, <3>1, <3>2, NothingLost
  <2>4. ASSUME NEW c \in Conns, NEW k \in DialKinds, Register(p, c, k)
        PROVE  NoneLost(S)'
    <3>1. /\ pc[p] = "dial" /\ live' = live \cup {c}
          /\ connections' = connections \cup {c}
      BY <2>4 DEF Register
    <3> QED BY <2>1, <3>1 DEF NoneLost, Accounted, Closing
  <2>5. CASE ~Retire(p) /\ ~Shut(p) /\ ~(\E c \in Conns, k \in DialKinds : Register(p, c, k))
    <3>1. connections \subseteq connections' /\ live' \subseteq live
      BY <1>2, <2>5, CallEffect
    <3>2. pc[p] # "shut"
      BY <1>2, <2>5
         DEF CallStep, GetStep, LoopHead, PollIdle, PollClosed, PollDefault, VetInvalid,
         VetMismatch, VetAccept, Take, Count, CreateStep, Acquire, AcquireTimeout, Admit,
         DialFails, WaitStep, Join, JoinGivesUp, Receive, GiveUp, PanicJoin,
         PanicLeave, PutStep, PutCheck, PutIdle, PutSend, NotifyWaiter, NotifyNobody,
         NotifySpin, PanicSend, UserStep, Begin, UserPut, UserClose
    <3>3. \A q \in Procs, c \in live' : Closing(q, c) => Closing(q, c)'
      BY <2>1, <3>2 DEF Closing
    <3> QED BY <2>1, <3>1, <3>3, NothingLost
  <2> QED BY <2>2, <2>3, <2>4, <2>5
<1>3. CASE CloseBegin \/ CloseStep
  <2>1. panic' = panic /\ UNCHANGED <<pc, frame>>
    BY <1>3 DEF CloseBegin, CloseStep, CloseSwap, CloseConn, FoundEmpty, DrainWaiter,
       ShutQueue, DrainIdle, ShutIdle, closeVars, locals
  <2>2. CASE CloseSwap
    <3>1. doomed = {} /\ doomed' = connections /\ live' = live
      BY <2>2 DEF CloseSwap, CloserInv, connVars
    <3> QED BY <2>1, <3>1, NothingLost DEF Closing
  <2>3. ASSUME NEW c \in Conns, CloseConn(c)
        PROVE  NoneLost(S)'
    <3>1. live' = live \ {c} /\ connections' = connections /\ doomed' = doomed \ {c}
      BY <2>3 DEF CloseConn, registry
    <3> QED BY <2>1, <3>1 DEF NoneLost, Accounted, Closing
  <2>4. CASE ~CloseSwap /\ ~(\E c \in Conns : CloseConn(c))
    <3>1. UNCHANGED <<live, connections, doomed>>
      BY <1>3, <2>4 DEF CloseBegin, CloseStep, FoundEmpty, DrainWaiter,
         ShutQueue, DrainIdle, ShutIdle, closeVars, registry, connVars
    <3> QED BY <2>1, <3>1, NothingLost DEF Closing
  <2> QED BY <2>2, <2>3, <2>4
<1>4. CASE \E c \in Conns : Expire(c)
  BY <1>4 DEF Expire, NoneLost, Accounted, Closing, registry, closeVars, locals
<1> QED BY <1>1, <1>2, <1>3, <1>4 DEF Next, Halted

LEMMA OrphanNext == TypeInv /\ CloserInv /\ NoOrphan /\ [Next]_vars => NoOrphan'
<1> SUFFICES ASSUME TypeInv, CloserInv, NoOrphan, [Next]_vars PROVE NoOrphan'
  OBVIOUS
<1>1. NoneLost({})
  BY DEF NoOrphan, NoneLost, Accounted, Closing
<1>2. NoneLost({})'
  BY <1>1, OrphanStep
<1> QED BY <1>2 DEF NoOrphan, NoneLost, Accounted, Closing

\* However Put, failing waiters, Close and dials interleave, an open connection
\* is in the map, on the list of Close, or in the hands of a goroutine that has
\* just taken it out of the map and closes it next.
THEOREM OrphanFree == Spec => []NoOrphan
<1>1. Init => NoOrphan
  BY DEF Init, NoOrphan
<1> QED BY <1>1, OrphanNext, TypeInit, TypeStep, CloserInit, CloserStep, PTL DEF Spec

-----------------------------------------------------------------------------
(* A closed pool leaves open only what a goroutine has in its hands.       *)

\* The labels at which a goroutine that has a connection keeps it, and moves on
\* to the closing of it, once the pool is closed.
Keeping == {"take", "held", "put", "retire", "shut"}

\* When the map has been swapped out, the connections that are open and not on
\* the list are on their way to being closed by a goroutine.
HandsInv ==
    closer \in {"closing", "shutting"} =>
        \A c \in live \ doomed : \E p \in Procs : pc[p] \in Keeping /\ frame[p].conn = c

LEMMA HandsStep ==
    TypeInv /\ CloserInv /\ (CloseSwap => NoOrphan) /\ HandsInv /\ [Next]_vars => HandsInv'
<1> SUFFICES ASSUME TypeInv, CloserInv, CloseSwap => NoOrphan, HandsInv, [Next]_vars,
                    closer' \in {"closing", "shutting"}
             PROVE  HandsInv'
  BY DEF HandsInv
<1>1. CASE UNCHANGED vars
  BY <1>1 DEF vars, connVars, closeVars, locals, HandsInv
<1>2. ASSUME NEW p \in Procs, CallStep(p) \/ UserStep(p)
      PROVE  HandsInv'
  <2>1. /\ closer' = closer /\ doomed' = doomed /\ closed /\ panic' = "none"
        /\ \A c \in live \ doomed : \E q \in Procs : pc[q] \in Keeping /\ frame[q].conn = c
    <3>1. closer' = closer /\ doomed' = doomed /\ panic' = panic
      BY <1>2, CallEffect DEF PanicSend, PanicJoin, PanicLeave, Crash
    <3> QED BY <3>1 DEF CloserInv, HandsInv
  <2>2. \A q \in Procs : q # p => pc'[q] = pc[q] /\ frame'[q] = frame[q]
    BY <1>2, <2>1, OwnStep
  <2>3. CASE Take(p) \/ UserPut(p) \/ PutCheck(p) \/ Retire(p)
    <3>1. live' = live
      BY <2>3 DEF Take, UserPut, PutCheck, Retire, connVars
    <3>2. pc'[p] \in Keeping
      BY <2>1, <2>3 DEF Take, UserPut, PutCheck, Retire, Move, Goto, Keeping,
         TypeInv, TypeOK, CallsOK
    <3>3. frame'[p].conn = frame[p].conn
      <4>1. CASE Take(p)
        BY <4>1, TakeFrame
      <4>2. CASE ~Take(p)
        BY <2>3, <4>2 DEF UserPut, PutCheck, Retire
      <4> QED BY <4>1, <4>2
    <3> QED BY <2>1, <2>2, <3>1, <3>2, <3>3 DEF HandsInv
  <2>4. CASE UserClose(p) \/ Shut(p)
    <3>1. live' = live \ {frame[p].conn}
      BY <2>4 DEF UserClose, Shut
    <3> QED BY <2>1, <2>2, <3>1 DEF HandsInv
  <2>5. ASSUME NEW c \in Conns, NEW k \in DialKinds, Register(p, c, k)
        PROVE  HandsInv'
    <3>1. pc[p] \notin Keeping /\ live' = live \cup {c}
      BY <2>5 DEF Register, Keeping
    <3>2. pc'[p] \in Keeping /\ frame'[p].conn = c
      BY <2>5 DEF Register, Sort, Move, Goto, Keeping, TypeInv, TypeOK, CallsOK, Frames,
         Misfit, Again
    <3> QED BY <2>1, <2>2, <3>1, <3>2 DEF HandsInv
  <2>6. CASE /\ ~Take(p) /\ ~UserPut(p) /\ ~PutCheck(p) /\ ~Retire(p) /\ ~UserClose(p) /\ ~Shut(p)
             /\ ~(\E c \in Conns, k \in DialKinds : Register(p, c, k))
    <3>1. live' \subseteq live
      BY <1>2, <2>6, CallEffect
    <3>2. pc[p] \notin Keeping
      BY <1>2, <2>6
         DEF CallStep, GetStep, LoopHead, PollIdle, PollClosed, PollDefault, VetInvalid,
         VetMismatch, VetAccept, Count, CreateStep, Acquire, AcquireTimeout, Admit,
         DialFails, WaitStep, Join, JoinGivesUp, Receive, GiveUp, PanicJoin,
         PanicLeave, PutStep, PutIdle, PutSend, NotifyWaiter, NotifyNobody,
         NotifySpin, PanicSend, UserStep, Begin, Keeping
    <3> QED BY <2>1, <2>2, <3>1, <3>2 DEF HandsInv
  <2> QED BY <2>3, <2>4, <2>5, <2>6
<1>3. CASE CloseBegin \/ CloseStep
  <2>1. CASE CloseSwap
    <3>1. /\ doomed = {} /\ doomed' = connections /\ panic = "none"
          /\ UNCHANGED <<live, pc, frame>>
      BY <2>1 DEF CloseSwap, CloserInv, connVars, locals
    <3>2. \A c \in live \ connections : \E p \in Procs : Closing(p, c)
      BY <2>1, <3>1 DEF NoOrphan, Closing
    <3> QED BY <3>1, <3>2 DEF HandsInv, Closing, Keeping
  <2>2. ASSUME NEW c \in Conns, CloseConn(c)
        PROVE  HandsInv'
    <3>1. /\ closer = "closing" /\ live' = live \ {c} /\ doomed' = doomed \ {c}
          /\ UNCHANGED <<pc, frame>>
      BY <2>2 DEF CloseConn, locals
    <3> QED BY <3>1 DEF HandsInv
  <2>3. CASE ~CloseSwap /\ ~(\E c \in Conns : CloseConn(c))
    <3>1. closer \in {"closing", "shutting"} /\ UNCHANGED <<live, doomed, pc, frame>>
      BY <1>3, <2>3 DEF CloseBegin, CloseStep, FoundEmpty, DrainWaiter,
         ShutQueue, DrainIdle, ShutIdle, closeVars, connVars, locals
    <3> QED BY <3>1 DEF HandsInv
  <2> QED BY <2>1, <2>2, <2>3
<1>4. CASE \E c \in Conns : Expire(c)
  BY <1>4 DEF Expire, HandsInv, closeVars, locals
<1> QED BY <1>1, <1>2, <1>3, <1>4 DEF Next, Halted

\* A panic after Close has returned leaves everything where it is.
LEMMA DrainedStep ==
    /\ TypeInv /\ CloserInv /\ CloserInv' /\ HandsInv /\ HandsInv' /\ ClosedPoolDrained
    /\ [Next]_vars
    => ClosedPoolDrained'
<1> SUFFICES ASSUME TypeInv, CloserInv, CloserInv', HandsInv, HandsInv', ClosedPoolDrained,
                    [Next]_vars, Terminated'
             PROVE  ClosedPoolDrained'
  BY DEF ClosedPoolDrained
<1>1. CASE closer' \in {"closing", "shutting"}
  <2>1. doomed' = {}
    BY DEF CloserInv, Terminated, Channels, Queues
  <2> QED BY <1>1, <2>1 DEF HandsInv, ClosedPoolDrained
<1>2. CASE closer' \notin {"closing", "shutting"}
  <2>1. closer' = "dead"
    <3>1. closer' \notin {"open", "stopping"}
      BY DEF CloserInv, Terminated, Channels
    <3>2. closer' \in {"open", "stopping", "closing", "shutting", "dead"}
      BY TypeStep DEF TypeInv, TypeOK, CloseOK
    <3> QED BY <1>2, <3>1, <3>2
  <2>2. UNCHANGED <<live, frame, idleClosed>>
    <3>1. CASE UNCHANGED vars
      BY <3>1 DEF vars, connVars, locals, chanVars
    <3>2. ASSUME NEW p \in Procs, CallStep(p) \/ UserStep(p)
          PROVE  UNCHANGED <<live, frame, idleClosed>>
      <4>1. pc[p] # "dead"
        BY <3>2
         DEF CallStep, GetStep, LoopHead, PollIdle, PollClosed, PollDefault, VetInvalid,
         VetMismatch, VetAccept, Take, Count, CreateStep, Acquire, AcquireTimeout, Admit,
         DialFails, Register, WaitStep, Join, JoinGivesUp, Receive, GiveUp, PanicJoin,
         PanicLeave, PutStep, PutCheck, PutIdle, PutSend, NotifyWaiter, NotifyNobody,
         NotifySpin, Retire, Shut, PanicSend, UserStep, Begin, UserPut, UserClose
      <4>2. closer # "dead"
        BY <4>1 DEF CloserInv
      <4>3. PanicSend(p) \/ PanicJoin(p) \/ PanicLeave(p)
        BY <2>1, <3>2, <4>2, CallEffect
      <4> QED BY <4>3 DEF PanicSend, PanicJoin, PanicLeave, Crash, connVars, chanVars
    <3>3. CASE CloseBegin \/ CloseStep
      BY <2>1, <3>3 DEF CloseBegin, CloseStep, CloseSwap, CloseConn, FoundEmpty, DrainWaiter,
         ShutQueue, DrainIdle, ShutIdle, closeVars
    <3>4. CASE \E c \in Conns : Expire(c)
      BY <3>4 DEF Expire, chanVars, locals
    <3> QED BY <3>1, <3>2, <3>3, <3>4 DEF Next, Halted
  <2> QED BY <2>2 DEF ClosedPoolDrained, Terminated
<1> QED BY <1>1, <1>2

\* When Close has returned, whatever is still open is in the hands of a
\* goroutine: nothing that a Put, a waiter or a dial overtaken by Close had
\* under way stays open in a channel.
THEOREM ClosedMeansDrained == Spec => []ClosedPoolDrained
<1>1. Init => NoOrphan /\ HandsInv /\ ClosedPoolDrained
  BY DEF Init, NoOrphan, HandsInv, ClosedPoolDrained
<1> QED BY <1>1, TypeInit, TypeStep, CloserInit, CloserStep, OrphanNext, HandsStep,
           DrainedStep, PTL DEF Spec

-----------------------------------------------------------------------------
(* A waitChan has one user at a time.                                      *)

\* A live entry of a queue, the first conjunct of OneNotification for one waiter,
\* and its second.
Entry(q, i, w) == q \in Queues /\ i \in DOMAIN waitQueue[q] /\ waitQueue[q][i] = w

QueuesDistinct ==
    \A q, r \in Queues : \A i \in DOMAIN waitQueue[q], j \in DOMAIN waitQueue[r] :
        waitQueue[q][i] = waitQueue[r][j] /\ waitQueue[q][i] # Dead => q = r /\ i = j

\* Besides, a waiter whose waitChan Close has closed never gets out of its wait.
WaiterOK(p) ==
    /\ Queued(p) => pc[p] \in {"await", "dead"} /\ mail[p] = None /\ p \notin mailClosed
    /\ mail[p] # None => pc[p] \in {"await", "dead"} /\ p \notin mailClosed
    /\ p \in mailClosed => pc[p] \in {"await", "dead"}

WaitInv == QueuesDistinct /\ \A p \in Procs : WaiterOK(p)

LEMMA WaitInvSays == WaitInv => OneNotification
BY DEF WaitInv, WaiterOK, QueuesDistinct, OneNotification

\* What is left of the sequences of s when the head of one of them was taken.
LEMMA AfterTail ==
    ASSUME NEW Q, NEW S, NEW s \in [Q -> Seq(S)], NEW q \in Q, s[q] # <<>>,
           NEW t, t = [s EXCEPT ![q] = Tail(@)]
    PROVE  /\ 1 \in DOMAIN s[q] /\ s[q][1] = Head(s[q])
           /\ \A r \in Q : \A i \in DOMAIN t[r] :
                LET j == IF r = q THEN i + 1 ELSE i
                IN  i \in Nat \ {0} /\ j \in DOMAIN s[r] /\ s[r][j] = t[r][i]
<1>1. /\ Tail(s[q]) \in Seq(S)
      /\ Len(Tail(s[q])) = Len(s[q]) - 1
      /\ \A i \in 1..Len(Tail(s[q])) : Tail(s[q])[i] = s[q][i + 1]
  BY HeadTailProperties
<1>2. /\ Len(s[q]) \in Nat \ {0}
      /\ DOMAIN s[q] = 1..Len(s[q])
      /\ Head(s[q]) = s[q][1]
  BY EmptySeq, LenProperties
<1>3. ASSUME NEW i \in DOMAIN t[q]
      PROVE  i \in Nat \ {0} /\ i + 1 \in DOMAIN s[q] /\ s[q][i + 1] = t[q][i]
  <2>1. t[q] = Tail(s[q])
    OBVIOUS
  <2>2. DOMAIN Tail(s[q]) = 1..(Len(s[q]) - 1)
    BY <1>1, LenProperties
  <2>3. i \in 1..(Len(s[q]) - 1)
    BY <1>3, <2>1, <2>2
  <2>4. i \in 1..Len(Tail(s[q])) /\ i + 1 \in 1..Len(s[q])
    BY <1>1, <1>2, <2>3
  <2>5. t[q][i] = s[q][i + 1]
    BY <1>1, <2>1, <2>4
  <2> QED BY <1>2, <2>3, <2>4, <2>5
<1>4. ASSUME NEW r \in Q, r # q, NEW i \in DOMAIN t[r]
      PROVE  i \in Nat \ {0} /\ i \in DOMAIN s[r] /\ s[r][i] = t[r][i]
  <2>1. t[r] = s[r]
    BY <1>4
  <2>2. DOMAIN s[r] = 1..Len(s[r]) /\ Len(s[r]) \in Nat
    BY LenProperties
  <2> QED BY <1>4, <2>1, <2>2
<1> QED BY <1>2, <1>3, <1>4

\* The wait queues after the head of one of them was taken.
LEMMA AfterPop ==
    ASSUME TypeInv, NEW q \in Queues, waitQueue[q] # <<>>,
           waitQueue' = [waitQueue EXCEPT ![q] = Tail(@)]
    PROVE  /\ Entry(q, 1, Head(waitQueue[q]))
           /\ \A r \in Queues : \A i \in DOMAIN waitQueue'[r] :
                /\ i \in Nat \ {0}
                /\ Entry(r, IF r = q THEN i + 1 ELSE i, waitQueue'[r][i])
<1>1. waitQueue \in [Queues -> Seq(Procs \cup {Dead})]
  BY DEF TypeInv, TypeOK, QueuesOK
<1> QED BY <1>1, AfterTail DEF Entry

\* So its head, when it is a waiter, is in no queue any more.
LEMMA PopDistinct ==
    ASSUME TypeInv, WaitInv, NEW q \in Queues, waitQueue[q] # <<>>,
           waitQueue' = [waitQueue EXCEPT ![q] = Tail(@)]
    PROVE  /\ QueuesDistinct'
           /\ \A p \in Procs : Queued(p)' => Queued(p) /\ p # Head(waitQueue[q])
           /\ Head(waitQueue[q]) # Dead =>
                Head(waitQueue[q]) \in Procs /\ Queued(Head(waitQueue[q]))
<1> DEFINE at(r, i) == IF r = q THEN i + 1 ELSE i
<1>1. /\ Entry(q, 1, Head(waitQueue[q]))
      /\ \A r \in Queues : \A i \in DOMAIN waitQueue'[r] :
            i \in Nat \ {0} /\ Entry(r, at(r, i), waitQueue'[r][i])
  BY AfterPop
<1>2. QueuesDistinct'
  <2> SUFFICES ASSUME NEW r \in Queues, NEW t \in Queues,
                      NEW i \in DOMAIN waitQueue'[r], NEW j \in DOMAIN waitQueue'[t],
                      waitQueue'[r][i] = waitQueue'[t][j], waitQueue'[r][i] # Dead
               PROVE  r = t /\ i = j
    BY DEF QueuesDistinct
  <2>1. /\ i \in Nat /\ j \in Nat
        /\ Entry(r, at(r, i), waitQueue'[r][i]) /\ Entry(t, at(t, j), waitQueue'[t][j])
    BY <1>1
  <2>2. r = t /\ at(r, i) = at(t, j)
    BY <2>1 DEF WaitInv, QueuesDistinct, Entry
  <2> QED BY <2>1, <2>2
<1>3. ASSUME NEW p \in Procs, Queued(p)'
      PROVE  Queued(p) /\ p # Head(waitQueue[q])
  <2>1. PICK r \in Queues : \E i \in DOMAIN waitQueue'[r] : waitQueue'[r][i] = p
    BY <1>3 DEF Queued
  <2>2. PICK i \in DOMAIN waitQueue'[r] : waitQueue'[r][i] = p
    BY <2>1
  <2>3. i \in Nat \ {0} /\ Entry(r, at(r, i), p)
    BY <1>1, <2>2
  <2>4. Queued(p)
    BY <2>3 DEF Entry, Queued
  <2>5. p # Dead
    BY PoolAssumption
  <2>6. ~(r = q /\ at(r, i) = 1)
    BY <2>3
  <2>7. ASSUME p = Head(waitQueue[q]) PROVE FALSE
    <3> HIDE DEF at
    <3>1. Entry(q, 1, p) /\ Entry(r, at(r, i), p)
      BY <1>1, <2>3, <2>7
    <3>2. r = q /\ at(r, i) = 1
      BY <2>5, <3>1 DEF WaitInv, QueuesDistinct, Entry
    <3> QED BY <2>6, <3>2
  <2> QED BY <2>4, <2>7
<1>4. Head(waitQueue[q]) # Dead =>
          Head(waitQueue[q]) \in Procs /\ Queued(Head(waitQueue[q]))
  <2>1. Head(waitQueue[q]) \in Procs \cup {Dead}
    BY HeadTailProperties DEF TypeInv, TypeOK, QueuesOK
  <2> QED BY <1>1, <2>1 DEF Entry, Queued
<1> QED BY <1>2, <1>3, <1>4 DEF Queued

\* A goroutine that waits for nobody moves, and nothing else does.
LEMMA WaitKept ==
    ASSUME TypeInv, WaitInv, NEW p \in Procs, pc[p] \notin {"await", "dead"},
           UNCHANGED <<waitQueue, mail, mailClosed>>,
           \A r \in Procs : r # p => pc'[r] = pc[r]
    PROVE  WaitInv'
<1>1. \A r \in Procs : Queued(r)' <=> Queued(r)
  BY DEF Queued
<1>2. ~Queued(p) /\ mail[p] = None /\ p \notin mailClosed
  BY DEF WaitInv, WaiterOK
<1>3. ASSUME NEW r \in Procs PROVE WaiterOK(r)'
  BY <1>1, <1>2 DEF WaitInv, WaiterOK
<1> QED BY <1>3 DEF WaitInv, QueuesDistinct

\* A goroutine queues its waitChan where it asks, with nothing in it.
LEMMA JoinWait ==
    ASSUME TypeInv, WaitInv, NEW p \in Procs, Join(p),
           \A r \in Procs : r # p => pc'[r] = pc[r]
    PROVE  WaitInv'
<1> DEFINE q == frame[p].req
           n == Len(waitQueue[q])
<1>1. q \in Queues /\ waitQueue \in [Queues -> Seq(Procs \cup {Dead})]
  BY DEF TypeInv, TypeOK, CallsOK, QueuesOK, Frames
<1>2. /\ pc[p] = "join" /\ pc'[p] = "await" /\ UNCHANGED <<mail, mailClosed>>
      /\ waitQueue' = [waitQueue EXCEPT ![q] = Append(waitQueue[q], p)]
  BY DEF Join, Goto, TypeInv, TypeOK, CallsOK
<1> HIDE DEF q
<1>3. ~Queued(p) /\ mail[p] = None /\ p \notin mailClosed /\ p # Dead
  BY <1>2, PoolAssumption DEF WaitInv, WaiterOK
<1>4. /\ n \in Nat /\ DOMAIN waitQueue[q] = 1..n
      /\ DOMAIN waitQueue'[q] = 1..(n + 1)
      /\ \A i \in 1..n : waitQueue'[q][i] = waitQueue[q][i]
      /\ waitQueue'[q][n + 1] = p
  BY <1>1, <1>2, LenProperties, AppendProperties
<1>5. \A r \in Queues : r # q => waitQueue'[r] = waitQueue[r]
  BY <1>1, <1>2
\* An entry is the new one, or was there before.
<1>6. ASSUME NEW r \in Queues, NEW i \in DOMAIN waitQueue'[r]
      PROVE  \/ r = q /\ i = n + 1 /\ waitQueue'[r][i] = p
             \/ Entry(r, i, waitQueue'[r][i]) /\ waitQueue'[r][i] # p
  <2>1. CASE r = q /\ i = n + 1
    BY <1>4, <2>1
  <2>2. CASE ~(r = q /\ i = n + 1)
    <3>1. Entry(r, i, waitQueue'[r][i])
      BY <1>1, <1>4, <1>5, <1>6, <2>2 DEF Entry
    <3> QED BY <1>3, <3>1 DEF Entry, Queued
  <2> QED BY <2>1, <2>2
<1>7. QueuesDistinct'
  BY <1>6 DEF QueuesDistinct, WaitInv, Entry
<1>8. ASSUME NEW r \in Procs PROVE WaiterOK(r)'
  <2>1. r # p => (Queued(r)' => Queued(r))
    BY <1>6 DEF Queued, Entry
  <2> QED BY <1>2, <1>3, <2>1 DEF WaitInv, WaiterOK
<1> QED BY <1>7, <1>8 DEF WaitInv

\* A waiter that leaves is in no queue any more, and its waitChan is empty.
LEMMA GiveUpWait ==
    ASSUME TypeInv, WaitInv, NEW p \in Procs, GiveUp(p),
           \A r \in Procs : r # p => pc'[r] = pc[r]
    PROVE  WaitInv'
<1>1. /\ waitQueue' = Bury(p) /\ mailClosed' = mailClosed /\ p \notin mailClosed
      /\ mail' = [mail EXCEPT ![p] = None]
  BY DEF GiveUp
<1>2. mail' \in [Procs -> Conns \cup {None}] /\ mail'[p] = None
      /\ \A r \in Procs : r # p => mail'[r] = mail[r]
  BY <1>1 DEF TypeInv, TypeOK, QueuesOK
<1>3. ASSUME NEW r \in Queues, NEW i \in DOMAIN waitQueue'[r], waitQueue'[r][i] # Dead
      PROVE  Entry(r, i, waitQueue'[r][i]) /\ waitQueue'[r][i] # p
  BY <1>1, <1>3 DEF Bury, Entry
<1>4. QueuesDistinct'
  <2> SUFFICES ASSUME NEW r \in Queues, NEW t \in Queues,
                      NEW i \in DOMAIN waitQueue'[r], NEW j \in DOMAIN waitQueue'[t],
                      waitQueue'[r][i] = waitQueue'[t][j], waitQueue'[r][i] # Dead
               PROVE  r = t /\ i = j
    BY DEF QueuesDistinct
  <2>1. Entry(r, i, waitQueue'[r][i]) /\ Entry(t, j, waitQueue'[t][j])
    BY <1>3
  <2> QED BY <2>1 DEF QueuesDistinct, WaitInv, Entry
<1>5. ASSUME NEW r \in Procs PROVE WaiterOK(r)'
  <2>1. Queued(r)' => Queued(r) /\ r # p
    BY <1>3, PoolAssumption DEF Queued, Entry
  <2> QED BY <1>1, <1>2, <2>1 DEF WaitInv, WaiterOK
<1> QED BY <1>4, <1>5 DEF WaitInv

LEMMA ReceiveWait ==
    ASSUME TypeInv, WaitInv, NEW p \in Procs, Receive(p),
           \A r \in Procs : r # p => pc'[r] = pc[r]
    PROVE  WaitInv'
<1>1. /\ waitQueue' = waitQueue /\ mailClosed' = mailClosed /\ mail[p] # None
      /\ mail' = [mail EXCEPT ![p] = None]
  BY DEF Receive
<1>2. /\ mail'[p] = None
      /\ \A r \in Procs : r # p => mail'[r] = mail[r]
  BY <1>1 DEF TypeInv, TypeOK, QueuesOK
<1>3. ~Queued(p) /\ p \notin mailClosed
  BY <1>1 DEF WaitInv, WaiterOK
<1>4. \A r \in Procs : Queued(r)' <=> Queued(r)
  BY <1>1 DEF Queued
<1>5. ASSUME NEW r \in Procs PROVE WaiterOK(r)'
  BY <1>1, <1>2, <1>3, <1>4 DEF WaitInv, WaiterOK
<1> QED BY <1>1, <1>5 DEF WaitInv, QueuesDistinct

\* The waiter at the head of a queue is sent a connection.
LEMMA NotifyWait ==
    ASSUME TypeInv, WaitInv, NEW p \in Procs, NotifyWaiter(p),
           \A r \in Procs : r # p => pc'[r] = pc[r]
    PROVE  WaitInv'
<1> DEFINE q == Targets(kind[frame[p].conn])[frame[p].stage]
           w == Head(waitQueue[q])
<1>1. q \in Queues
  <2>1. frame[p].conn \in Conns /\ frame[p].stage \in 1..3
        /\ frame[p].stage <= Len(Targets(kind[frame[p].conn]))
    BY DEF NotifyWaiter, TypeInv, TypeOK, CallsOK, Frames, LocalsInv, LocalsOK, StagesOK,
       Carrying, Returning
  <2> QED BY <2>1, TargetsType, ElementOfSeq
<1>2. /\ pc[p] = "notify" /\ waitQueue[q] # <<>> /\ mailClosed' = mailClosed
      /\ waitQueue' = [waitQueue EXCEPT ![q] = Tail(@)]
      /\ IF w = Dead THEN mail' = mail /\ pc' = pc ELSE mail' = [mail EXCEPT ![w] = frame[p].conn]
  BY DEF NotifyWaiter, locals
<1> HIDE DEF q, w
<1>3. /\ QueuesDistinct'
      /\ \A r \in Procs : Queued(r)' => Queued(r) /\ r # w
      /\ w # Dead => w \in Procs /\ Queued(w)
  BY <1>1, <1>2, PopDistinct DEF w
<1>4. \A r \in Procs : r # w => mail'[r] = mail[r]
  BY <1>2, PoolAssumption DEF TypeInv, TypeOK, QueuesOK
<1>5. ~Queued(p) /\ mail[p] = None /\ p \notin mailClosed
  BY <1>2 DEF WaitInv, WaiterOK
<1>6. ASSUME NEW r \in Procs PROVE WaiterOK(r)'
  <2>1. CASE r = p
    <3>1. ~Queued(p)' /\ mail'[p] = None /\ p \notin mailClosed'
      BY <1>2, <1>3, <1>4, <1>5, PoolAssumption
    <3> QED BY <2>1, <3>1 DEF WaiterOK
  <2>2. CASE r = w
    <3>1. Queued(r) /\ ~Queued(r)'
      BY <1>3, <2>2, PoolAssumption
    <3>2. pc[r] \in {"await", "dead"} /\ r \notin mailClosed /\ r # p
      BY <1>2, <3>1 DEF WaitInv, WaiterOK
    <3> QED BY <1>2, <3>1, <3>2 DEF WaiterOK
  <2>3. CASE r # p /\ r # w
    BY <1>2, <1>3, <1>4, <2>3 DEF WaitInv, WaiterOK
  <2> QED BY <2>1, <2>2, <2>3
<1> QED BY <1>3, <1>6 DEF WaitInv

\* Close closes the waitChan of the waiter it takes from a queue.
LEMMA DrainWait ==
    ASSUME TypeInv, CloserInv, WaitInv, NEW q \in Queues, DrainWaiter(q)
    PROVE  WaitInv'
<1> DEFINE w == Head(waitQueue[q])
<1>1. /\ waitQueue[q] # <<>> /\ UNCHANGED <<mail, pc>>
      /\ waitQueue' = [waitQueue EXCEPT ![q] = Tail(@)]
      /\ mailClosed' = IF w = Dead THEN mailClosed ELSE mailClosed \cup {w}
  BY DEF DrainWaiter, locals
<1> HIDE DEF w
<1>2. /\ QueuesDistinct'
      /\ \A r \in Procs : Queued(r)' => Queued(r) /\ r # w
      /\ w # Dead => w \in Procs /\ Queued(w)
  BY <1>1, PopDistinct DEF w
<1>3. ASSUME NEW r \in Procs PROVE WaiterOK(r)'
  <2>1. CASE r = w
    <3>1. Queued(r) /\ ~Queued(r)'
      BY <1>2, <2>1, PoolAssumption
    <3> QED BY <1>1, <3>1 DEF WaitInv, WaiterOK
  <2>2. CASE r # w
    <3>1. r \in mailClosed' => r \in mailClosed
      BY <1>1, <2>2
    <3> QED BY <1>1, <1>2, <3>1, <2>2 DEF WaitInv, WaiterOK
  <2> QED BY <2>1, <2>2
<1> QED BY <1>2, <1>3 DEF WaitInv

LEMMA WaitInit == Init => WaitInv
<1> SUFFICES ASSUME Init PROVE WaitInv
  OBVIOUS
<1>1. \A q \in Queues : DOMAIN waitQueue[q] = {}
  BY DEF Init
<1> QED BY <1>1 DEF Init, WaitInv, QueuesDistinct, WaiterOK, Queued

LEMMA WaitNext == TypeInv /\ CloserInv /\ WaitInv /\ [Next]_vars => WaitInv'
<1> SUFFICES ASSUME TypeInv, CloserInv, WaitInv, [Next]_vars PROVE WaitInv'
  OBVIOUS
<1>1. CASE UNCHANGED <<waitVars, pc>>
  BY <1>1 DEF waitVars, WaitInv, QueuesDistinct, WaiterOK, Queued
<1>2. ASSUME NEW p \in Procs, CallStep(p) \/ UserStep(p)
      PROVE  WaitInv'
  <2>1. CASE PanicSend(p) \/ PanicJoin(p) \/ PanicLeave(p)
    <3>1. UNCHANGED waitVars /\ pc' = [r \in Procs |-> "dead"]
      BY <2>1 DEF PanicSend, PanicJoin, PanicLeave, Crash
    <3> QED BY <3>1 DEF waitVars, WaitInv, QueuesDistinct, WaiterOK, Queued
  <2>2. CASE ~PanicSend(p) /\ ~PanicJoin(p) /\ ~PanicLeave(p)
    <3>1. \A r \in Procs : r # p => pc'[r] = pc[r]
      <4>1. CASE panic = "none"
        <5>1. panic' = "none"
          BY <1>2, <2>2, <4>1, CallEffect
        <5> QED BY <1>2, <5>1, OwnStep
      <4>2. CASE panic # "none"
        <5>1. closer' = closer /\ panic' = panic
          BY <1>2, <2>2, CallEffect
        <5>2. pc[p] = "dead" /\ \A r \in Procs : pc'[r] = "dead"
          BY <4>2, <5>1, CloserStep DEF CloserInv
        <5> QED BY <4>2, <5>2 DEF CloserInv
      <4> QED BY <4>1, <4>2
    <3>2. CASE Join(p) \/ GiveUp(p) \/ Receive(p) \/ NotifyWaiter(p)
      BY <3>1, <3>2, JoinWait, GiveUpWait, ReceiveWait, NotifyWait
    <3>3. CASE ~Join(p) /\ ~GiveUp(p) /\ ~Receive(p) /\ ~NotifyWaiter(p)
      <4>1. pc[p] \notin {"await", "dead"} /\ UNCHANGED <<waitQueue, mail, mailClosed>>
        BY <1>2, <2>2, <3>3
         DEF CallStep, GetStep, LoopHead, PollIdle, PollClosed, PollDefault, VetInvalid,
         VetMismatch, VetAccept, Take, Count, CreateStep, Acquire, AcquireTimeout, Admit,
         DialFails, Register, WaitStep, JoinGivesUp, PutStep, PutCheck, PutIdle, PutSend,
         NotifyNobody, NotifySpin, Retire, Shut, UserStep, Begin, UserPut, UserClose, waitVars
      <4> QED BY <3>1, <4>1, WaitKept
    <3> QED BY <3>2, <3>3
  <2> QED BY <2>1, <2>2
<1>3. CASE \E q \in Queues : DrainWaiter(q)
  BY <1>3, DrainWait
<1>4. CASE (CloseBegin \/ CloseStep) /\ ~(\E q \in Queues : DrainWaiter(q))
  <2>1. UNCHANGED <<waitQueue, mail, mailClosed, pc>>
    BY <1>4 DEF CloseBegin, CloseStep, CloseSwap, CloseConn, FoundEmpty,
       ShutQueue, DrainIdle, ShutIdle, waitVars, locals
  <2> QED BY <2>1 DEF WaitInv, QueuesDistinct, WaiterOK, Queued
<1>5. CASE \E c \in Conns : Expire(c)
  BY <1>1, <1>5 DEF Expire, locals
<1>6. CASE UNCHANGED vars
  BY <1>1, <1>6 DEF vars, locals
<1> QED BY <1>2, <1>3, <1>4, <1>5, <1>6 DEF Next, Halted

\* notifySpecificWaitQueue never finds a waitChan full and no waiter is queued
\* twice, whoever joins, leaves, is notified or is drained by Close meanwhile.
THEOREM NotifiedOnce == Spec => []OneNotification
BY WaitInvSays, TypeInit, TypeStep, CloserInit, CloserStep, WaitInit, WaitNext, PTL DEF Spec

-----------------------------------------------------------------------------
(* Nobody is handed a connection of the wrong kind.                        *)

\* What Matches asks of the kind k of a connection.
Suits(k, r) ==
    /\ r \in Protocols => k.proto = r
    /\ r \in IPVersions => k.ip = r

LEMMA MatchesMeans ==
    ASSUME NEW r, NEW c
    PROVE  Matches(r, c) <=> Suits(kind[c], r)
<1> USE DEF Suits
<1>1. CASE r \in Protocols
  <2>1. r \notin IPVersions
    BY <1>1 DEF Protocols, IPVersions
  <2> QED BY <1>1, <2>1 DEF Matches
<1>2. CASE r \in IPVersions
  <2>1. r \notin Protocols
    BY <1>2 DEF Protocols, IPVersions
  <2> QED BY <1>2, <2>1 DEF Matches
<1>3. CASE r \notin Protocols /\ r \notin IPVersions
  BY <1>3 DEF Matches
<1> QED BY <1>1, <1>2, <1>3

\* A connection that is not dialed yet suits only requests that take any.
LEMMA SuitsAll ==
    ASSUME NEW r, Suits(NoKind, r), NEW k
    PROVE  Suits(k, r)
BY DEF Suits, NoKind, Protocols, IPVersions

\* A returned connection suits every queue it is offered to.
LEMMA TargetsMatch ==
    ASSUME NEW k, NEW i \in 1..Len(Targets(k))
    PROVE  Suits(k, Targets(k)[i])
<1> DEFINE byProto == IF k.proto \in Protocols THEN <<k.proto>> ELSE <<>>
           byVersion == IF k.ip \in IPVersions THEN <<k.ip>> ELSE <<>>
           Suited == {r \in Queues : Suits(k, r)}
<1>1. ASSUME NEW x \in Suited PROVE <<x>> \in Seq(Suited)
  BY <1>1
<1>2. byProto \in Seq(Suited)
  <2>1. CASE k.proto \in Protocols
    <3>1. k.proto \in Suited
      BY <2>1 DEF Suits, Queues, Protocols, IPVersions
    <3> QED BY <2>1, <3>1, <1>1
  <2>2. CASE k.proto \notin Protocols
    BY <2>2, EmptySeq
  <2> QED BY <2>1, <2>2
<1>3. byVersion \in Seq(Suited)
  <2>1. CASE k.ip \in IPVersions
    <3>1. k.ip \in Suited
      BY <2>1 DEF Suits, Queues, Protocols, IPVersions
    <3> QED BY <2>1, <3>1, <1>1
  <2>2. CASE k.ip \notin IPVersions
    BY <2>2, EmptySeq
  <2> QED BY <2>1, <2>2
<1>4. <<"Any">> \in Seq(Suited)
  <2>1. "Any" \in Suited
    BY DEF Suits, Queues, Protocols, IPVersions
  <2> QED BY <2>1, <1>1
<1> HIDE DEF byProto, byVersion, Suited
<1>5. byProto \o byVersion \o <<"Any">> \in Seq(Suited)
  BY <1>2, <1>3, <1>4, ConcatProperties
<1>6. Targets(k) \in Seq(Suited)
  BY <1>5 DEF Targets, byProto, byVersion
<1>7. Targets(k)[i] \in Suited
  BY <1>6, ElementOfSeq
<1> QED BY <1>7 DEF Suited

\* A waiter stands in the queue of what it asks for.
QueuedWhereAsked ==
    \A q \in Queues : \A i \in DOMAIN waitQueue[q] :
        waitQueue[q][i] # Dead => frame[waitQueue[q][i]].req = q

Honoured ==
    \A p \in Procs :
        /\ pc[p] \in {"take", "held"} => Suits(kind[frame[p].conn], frame[p].req)
        /\ mail[p] # None => Suits(kind[mail[p]], frame[p].req)

SuitInv == QueuedWhereAsked /\ Honoured

LEMMA HonouredSays == Honoured => RequestHonoured
BY MatchesMeans DEF Honoured, RequestHonoured

\* A goroutine that waits for nobody moves.
LEMMA SuitKept ==
    ASSUME TypeInv, WaitInv, SuitInv, NEW p \in Procs, pc[p] \notin {"await", "dead"},
           UNCHANGED <<waitQueue, mail>>,
           \A r \in Procs : r # p => pc'[r] = pc[r] /\ frame'[r] = frame[r],
           \A c \in Conns : kind[c] = NoKind \/ kind'[c] = kind[c],
           pc'[p] \in {"take", "held"} => Suits(kind'[frame'[p].conn], frame'[p].req)
    PROVE  SuitInv'
<1>1. ~Queued(p) /\ mail[p] = None
  BY DEF WaitInv, WaiterOK
<1>2. QueuedWhereAsked'
  <2>1. ASSUME NEW q \in Queues, NEW i \in DOMAIN waitQueue[q], waitQueue[q][i] # Dead
        PROVE  frame'[waitQueue[q][i]].req = q
    <3>1. waitQueue[q][i] \in Procs /\ waitQueue[q][i] # p
      BY <1>1, <2>1, LenProperties, ElementOfSeq DEF Queued, TypeInv, TypeOK, QueuesOK
    <3> QED BY <2>1, <3>1 DEF SuitInv, QueuedWhereAsked
  <2> QED BY <2>1 DEF QueuedWhereAsked
<1>3. ASSUME NEW r \in Procs, r # p
      PROVE  /\ pc'[r] \in {"take", "held"} => Suits(kind'[frame'[r].conn], frame'[r].req)
             /\ mail'[r] # None => Suits(kind'[mail'[r]], frame'[r].req)
  <2>1. pc[r] \in {"take", "held"} => frame[r].conn \in Conns
    BY DEF TypeInv, LocalsInv, LocalsOK, Carrying
  <2>2. mail[r] # None => mail[r] \in Conns
    BY DEF TypeInv, TypeOK, QueuesOK
  <2>3. /\ pc[r] \in {"take", "held"} => Suits(kind[frame[r].conn], frame[r].req)
        /\ mail[r] # None => Suits(kind[mail[r]], frame[r].req)
    BY DEF SuitInv, Honoured
  <2> QED BY <1>3, <2>1, <2>2, <2>3, SuitsAll
<1> QED BY <1>1, <1>2, <1>3 DEF SuitInv, Honoured

\* What a call has once it is sent to "take": the connection its request asks for.
LEMMA SortSuits ==
    ASSUME TypeInv, NEW p \in Procs, NEW c \in Conns, NEW k \in DialKinds, Register(p, c, k),
           pc'[p] \in {"take", "held"}
    PROVE  Suits(kind'[frame'[p].conn], frame'[p].req)
<1> DEFINE f == [frame[p] EXCEPT !.conn = c]
<1>1. frame[p] \in Frames /\ f.req = frame[p].req /\ f.conn = c /\ f.req \in Queues
  BY DEF TypeInv, TypeOK, CallsOK, Frames
<1>2. kind'[c] = k /\ k.proto \in Protocols \cup {"Unknown"} /\ k.ip \in IPVersions \cup {"Unknown"}
  BY PoolAssumption DEF Register, Kinds, TypeInv, TypeOK, ConnectionsOK
<1>3. Sort(p, c, k)
  BY DEF Register
<1> HIDE DEF f
<1>4. CASE f.req = "Any" \/ f.req \in {k.proto, k.ip}
  <2>1. frame'[p] = f
    BY <1>3, <1>4 DEF Sort, Move, f, TypeInv, TypeOK, CallsOK
  <2> QED BY <1>1, <1>2, <1>4, <2>1 DEF Suits, Protocols, IPVersions
<1>5. CASE ~(f.req = "Any" \/ f.req \in {k.proto, k.ip})
  <2>1. pc'[p] = "put"
    BY <1>3, <1>5 DEF Sort, Move, Goto, f, TypeInv, TypeOK, CallsOK
  <2> QED BY <2>1
<1> QED BY <1>4, <1>5

LEMMA JoinSuits ==
    ASSUME TypeInv, WaitInv, SuitInv, NEW p \in Procs, Join(p)
    PROVE  SuitInv'
<1> DEFINE q == frame[p].req
           n == Len(waitQueue[q])
<1>1. q \in Queues /\ waitQueue \in [Queues -> Seq(Procs \cup {Dead})]
  BY DEF TypeInv, TypeOK, CallsOK, QueuesOK, Frames
<1>2. /\ pc[p] = "join" /\ UNCHANGED <<mail, frame, kind>>
      /\ \A r \in Procs : pc'[r] \in {"take", "held"} => pc'[r] = pc[r]
      /\ waitQueue' = [waitQueue EXCEPT ![q] = Append(waitQueue[q], p)]
  BY DEF Join, Goto, connVars, TypeInv, TypeOK, CallsOK
<1>3. frame[p].req = q
  OBVIOUS
<1> HIDE DEF q
<1>4. /\ n \in Nat /\ DOMAIN waitQueue[q] = 1..n
      /\ DOMAIN waitQueue'[q] = 1..(n + 1)
      /\ \A i \in 1..n : waitQueue'[q][i] = waitQueue[q][i]
      /\ waitQueue'[q][n + 1] = p
  BY <1>1, <1>2, LenProperties, AppendProperties
<1>5. \A r \in Queues : r # q => waitQueue'[r] = waitQueue[r]
  BY <1>1, <1>2
<1>6. QueuedWhereAsked'
  <2> SUFFICES ASSUME NEW r \in Queues, NEW i \in DOMAIN waitQueue'[r], waitQueue'[r][i] # Dead
               PROVE  frame'[waitQueue'[r][i]].req = r
    BY DEF QueuedWhereAsked
  <2>1. CASE r = q /\ i = n + 1
    BY <1>2, <1>3, <1>4, <2>1
  <2>2. CASE ~(r = q /\ i = n + 1)
    <3>1. i \in DOMAIN waitQueue[r] /\ waitQueue'[r][i] = waitQueue[r][i]
      BY <1>4, <1>5, <2>2
    <3> QED BY <1>2, <3>1 DEF SuitInv, QueuedWhereAsked
  <2> QED BY <2>1, <2>2
<1>7. Honoured'
  BY <1>2 DEF SuitInv, Honoured
<1> QED BY <1>6, <1>7 DEF SuitInv

\* The branch of Receive for a connection of the wrong kind would need a mail that
\* does not suit: there is none.
LEMMA ReceiveSuits ==
    ASSUME TypeInv, WaitInv, SuitInv, NEW p \in Procs, Receive(p),
           \A r \in Procs : r # p => pc'[r] = pc[r] /\ frame'[r] = frame[r]
    PROVE  SuitInv'
<1> DEFINE c == mail[p]
           t == [frame[p] EXCEPT !.conn = c]
<1>1. /\ c # None /\ mail' = [mail EXCEPT ![p] = None]
      /\ UNCHANGED <<waitQueue, kind>>
      /\ Move(p, "take", t) \/ Goto(p, "retire")
  BY DEF Receive, Move, connVars
<1>2. frame[p] \in Frames /\ t.req = frame[p].req /\ t.conn = c
  BY <1>1 DEF TypeInv, TypeOK, CallsOK, QueuesOK, Frames
<1>3. ~Queued(p) /\ Suits(kind[c], frame[p].req)
  BY <1>1 DEF WaitInv, WaiterOK, SuitInv, Honoured
<1>4. mail'[p] = None /\ \A r \in Procs : r # p => mail'[r] = mail[r]
  BY <1>1 DEF TypeInv, TypeOK, QueuesOK
<1> HIDE DEF t, c
<1>5. pc'[p] \in {"take", "held"} => frame'[p] = t
  BY <1>1 DEF Move, Goto, TypeInv, TypeOK, CallsOK
<1>6. QueuedWhereAsked'
  <2>1. ASSUME NEW q \in Queues, NEW i \in DOMAIN waitQueue[q], waitQueue[q][i] # Dead
        PROVE  frame'[waitQueue[q][i]].req = q
    <3>1. waitQueue[q][i] \in Procs /\ waitQueue[q][i] # p
      BY <1>3, <2>1, LenProperties, ElementOfSeq DEF Queued, TypeInv, TypeOK, QueuesOK
    <3> QED BY <2>1, <3>1 DEF SuitInv, QueuedWhereAsked
  <2> QED BY <1>1, <2>1 DEF QueuedWhereAsked
<1>7. Honoured'
  BY <1>1, <1>2, <1>3, <1>4, <1>5 DEF SuitInv, Honoured
<1> QED BY <1>6, <1>7 DEF SuitInv

LEMMA GiveUpSuits ==
    ASSUME TypeInv, SuitInv, NEW p \in Procs, GiveUp(p),
           \A r \in Procs : r # p => pc'[r] = pc[r] /\ frame'[r] = frame[r]
    PROVE  SuitInv'
<1>1. /\ mail' = [mail EXCEPT ![p] = None] /\ waitQueue' = Bury(p) /\ kind' = kind
      /\ pc'[p] = "idle"
  BY DEF GiveUp, Leave, Goto, connVars, TypeInv, TypeOK, CallsOK
<1>2. mail'[p] = None /\ \A r \in Procs : r # p => mail'[r] = mail[r]
  BY <1>1 DEF TypeInv, TypeOK, QueuesOK
<1>3. QueuedWhereAsked'
  <2> SUFFICES ASSUME NEW q \in Queues, NEW i \in DOMAIN waitQueue'[q], waitQueue'[q][i] # Dead
               PROVE  frame'[waitQueue'[q][i]].req = q
    BY DEF QueuedWhereAsked
  <2>1. i \in DOMAIN waitQueue[q] /\ waitQueue'[q][i] = waitQueue[q][i] /\ waitQueue[q][i] # p
    BY <1>1 DEF Bury
  <2>2. waitQueue[q][i] \in Procs
    BY <2>1, LenProperties, ElementOfSeq DEF TypeInv, TypeOK, QueuesOK
  <2> QED BY <2>1, <2>2 DEF SuitInv, QueuedWhereAsked
<1>4. Honoured'
  BY <1>1, <1>2 DEF SuitInv, Honoured
<1> QED BY <1>3, <1>4 DEF SuitInv

LEMMA NotifySuits ==
    ASSUME TypeInv, WaitInv, SuitInv, NEW p \in Procs, NotifyWaiter(p),
           \A r \in Procs : r # p => pc'[r] = pc[r] /\ frame'[r] = frame[r]
    PROVE  SuitInv'
<1> DEFINE c == frame[p].conn
           q == Targets(kind[c])[frame[p].stage]
           w == Head(waitQueue[q])
<1>1. q \in Queues /\ Suits(kind[c], q)
  <2>1. c \in Conns /\ frame[p].stage \in 1..3 /\ frame[p].stage <= Len(Targets(kind[c]))
    BY DEF NotifyWaiter, TypeInv, TypeOK, CallsOK, Frames, LocalsInv, LocalsOK, StagesOK,
       Carrying, Returning
  <2> QED BY <2>1, TargetsType, TargetsMatch, ElementOfSeq
<1>2. /\ pc[p] = "notify" /\ waitQueue[q] # <<>> /\ kind' = kind
      /\ waitQueue' = [waitQueue EXCEPT ![q] = Tail(@)]
      /\ IF w = Dead THEN mail' = mail /\ UNCHANGED <<pc, frame>>
         ELSE mail' = [mail EXCEPT ![w] = c] /\ Resume(p)
  BY DEF NotifyWaiter, locals, connVars
<1>3. ~Queued(p) /\ mail[p] = None
  BY <1>2 DEF WaitInv, WaiterOK
<1> HIDE DEF q, w, c
<1>4. /\ Entry(q, 1, w)
      /\ \A r \in Queues : \A i \in DOMAIN waitQueue'[r] :
            Entry(r, IF r = q THEN i + 1 ELSE i, waitQueue'[r][i])
  BY <1>1, <1>2, AfterPop DEF w
<1>5. w # Dead => w \in Procs /\ w # p
  BY <1>1, <1>2, <1>3, PopDistinct DEF w
<1>6. QueuedWhereAsked'
  <2> SUFFICES ASSUME NEW r \in Queues, NEW i \in DOMAIN waitQueue'[r], waitQueue'[r][i] # Dead
               PROVE  frame'[waitQueue'[r][i]].req = r
    BY DEF QueuedWhereAsked
  <2> DEFINE j == IF r = q THEN i + 1 ELSE i
             v == waitQueue'[r][i]
  <2>1. Entry(r, j, v)
    BY <1>4
  <2> HIDE DEF j
  <2>2. v \in Procs /\ v # p /\ frame[v].req = r
    BY <1>3, <2>1, LenProperties, ElementOfSeq
       DEF Entry, Queued, SuitInv, QueuedWhereAsked, TypeInv, TypeOK, QueuesOK
  <2> QED BY <2>2
<1>7. pc'[p] \notin {"take", "held"}
  <2>1. CASE w = Dead
    BY <1>2, <2>1
  <2>2. CASE w # Dead
    <3>1. frame[p].ret \in {"idle", "check", "await"}
      BY DEF TypeInv, TypeOK, CallsOK, Frames
    <3> QED BY <1>2, <2>2, <3>1 DEF Resume, Leave, Move, Goto, TypeInv, TypeOK, CallsOK
  <2> QED BY <2>1, <2>2
<1>8. ASSUME NEW r \in Procs, r # p
      PROVE  mail'[r] # None => Suits(kind[mail'[r]], frame[r].req)
  <2>1. CASE r = w
    <3>1. mail'[r] = c /\ r # Dead
      BY <1>2, <2>1, PoolAssumption DEF TypeInv, TypeOK, QueuesOK
    <3>2. frame[r].req = q
      BY <1>4, <2>1, <3>1 DEF Entry, SuitInv, QueuedWhereAsked
    <3> QED BY <1>1, <3>1, <3>2
  <2>2. CASE r # w
    <3>1. mail'[r] = mail[r]
      BY <1>2, <2>2 DEF TypeInv, TypeOK, QueuesOK
    <3> QED BY <3>1 DEF SuitInv, Honoured
  <2> QED BY <2>1, <2>2
<1>9. mail'[p] = None
  BY <1>2, <1>3, <1>5 DEF TypeInv, TypeOK, QueuesOK
<1>10. Honoured'
  BY <1>2, <1>7, <1>8, <1>9 DEF SuitInv, Honoured
<1> QED BY <1>6, <1>10 DEF SuitInv

LEMMA SuitInit == Init => SuitInv
<1> SUFFICES ASSUME Init PROVE SuitInv
  OBVIOUS
<1>1. \A q \in Queues : DOMAIN waitQueue[q] = {}
  BY DEF Init
<1> QED BY <1>1 DEF Init, SuitInv, QueuedWhereAsked, Honoured

\* A step of a call that goes nowhere near a loan.
LEMMA OtherSuits ==
    ASSUME TypeInv, NEW p \in Procs, CallStep(p) \/ UserStep(p),
           ~VetAccept(p), ~Take(p), ~Receive(p), ~NotifyWaiter(p),
           ~(\E c \in Conns, k \in DialKinds : Register(p, c, k)),
           pc'[p] \in {"take", "held"}
    PROVE  FALSE
<1>1. \/ pc[p] = "notify" /\ pc' = pc
      \/ \E l : Goto(p, l) /\ l \notin {"take", "held"}
      \/ \E what : Crash(what)
  <2> USE DEF Move, Leave
  <2>1. CASE GetStep(p)
    BY <2>1 DEF GetStep, LoopHead, PollIdle, PollClosed, PollDefault, VetInvalid,
       VetMismatch, Count
  <2>2. CASE CreateStep(p)
    BY <2>2 DEF CreateStep, Acquire, AcquireTimeout, Admit, DialFails, CreateFailed
  <2>3. CASE WaitStep(p)
    <3>1. Goto(p, "await") \/ Goto(p, "idle") \/ \E what : Crash(what)
      BY <2>3 DEF WaitStep, Join, JoinGivesUp, GiveUp, PanicJoin, PanicLeave
    <3> QED BY <3>1
  <2>4. CASE PutStep(p)
    <3>1. frame[p].ret \in {"idle", "check", "await"}
      BY DEF TypeInv, TypeOK, CallsOK, Frames
    <3>2. Resume(p) => Goto(p, "idle") \/ Goto(p, "check") \/ Goto(p, "await")
      BY <3>1 DEF Resume
    <3>3. \/ Goto(p, "retire") \/ Goto(p, "mark") \/ Goto(p, "send") \/ Goto(p, "notify")
          \/ Goto(p, "shut") \/ Resume(p) \/ (pc[p] = "notify" /\ pc' = pc)
          \/ \E what : Crash(what)
      BY <2>4 DEF PutStep, PutCheck, PutIdle, PutSend, NotifyNobody,
         NotifySpin, Retire, Shut, PanicSend, locals
    <3> QED BY <3>2, <3>3
  <2>5. CASE UserStep(p)
    BY <2>5 DEF UserStep, Begin, UserPut, UserClose
  <2> QED BY <2>1, <2>2, <2>3, <2>4, <2>5 DEF CallStep
<1> QED BY <1>1 DEF Goto, Crash, TypeInv, TypeOK, CallsOK

LEMMA SuitNext ==
    TypeInv /\ CloserInv /\ WaitInv /\ SuitInv /\ [Next]_vars => SuitInv'
<1> SUFFICES ASSUME TypeInv, CloserInv, WaitInv, SuitInv, [Next]_vars PROVE SuitInv'
  OBVIOUS
<1>1. CASE UNCHANGED <<waitQueue, mail, kind, pc, frame>>
  BY <1>1 DEF SuitInv, QueuedWhereAsked, Honoured
<1>2. ASSUME NEW p \in Procs, CallStep(p) \/ UserStep(p)
      PROVE  SuitInv'
  <2>1. CASE PanicSend(p) \/ PanicJoin(p) \/ PanicLeave(p)
    <3>1. UNCHANGED <<waitQueue, mail, kind, frame>> /\ pc' = [r \in Procs |-> "dead"]
      BY <2>1 DEF PanicSend, PanicJoin, PanicLeave, Crash, waitVars, connVars
    <3> QED BY <3>1 DEF SuitInv, QueuedWhereAsked, Honoured
  <2>2. CASE ~PanicSend(p) /\ ~PanicJoin(p) /\ ~PanicLeave(p)
    <3>1. \A r \in Procs : r # p => pc'[r] = pc[r] /\ frame'[r] = frame[r]
      <4>1. pc[p] # "dead"
        BY <1>2 DEF CallStep, GetStep, LoopHead, PollIdle, PollClosed, PollDefault, VetInvalid,
         VetMismatch, VetAccept, Take, Count, CreateStep, Acquire, AcquireTimeout, Admit,
         DialFails, Register, WaitStep, Join, JoinGivesUp, Receive, GiveUp, PanicJoin,
         PanicLeave, PutStep, PutCheck, PutIdle, PutSend, NotifyWaiter, NotifyNobody,
         NotifySpin, Retire, Shut, PanicSend, UserStep, Begin, UserPut, UserClose
      <4>2. panic = "none"
        BY <4>1 DEF CloserInv
      <4>3. panic' = "none"
        BY <1>2, <2>2, <4>2, CallEffect
      <4> QED BY <1>2, <4>3, OwnStep
    <3>2. CASE Join(p) \/ GiveUp(p) \/ Receive(p) \/ NotifyWaiter(p)
      BY <3>1, <3>2, JoinSuits, GiveUpSuits, ReceiveSuits, NotifySuits
    <3>3. CASE ~Join(p) /\ ~GiveUp(p) /\ ~Receive(p) /\ ~NotifyWaiter(p)
      <4>1. pc[p] \notin {"await", "dead"} /\ UNCHANGED <<waitQueue, mail>>
        BY <1>2, <2>2, <3>3
         DEF CallStep, GetStep, LoopHead, PollIdle, PollClosed, PollDefault, VetInvalid,
         VetMismatch, VetAccept, Take, Count, CreateStep, Acquire, AcquireTimeout, Admit,
         DialFails, Register, WaitStep, JoinGivesUp, PutStep, PutCheck, PutIdle, PutSend,
         NotifyNobody, NotifySpin, Retire, Shut, UserStep, Begin, UserPut, UserClose, waitVars
      <4>2. \A c \in Conns : kind[c] = NoKind \/ kind'[c] = kind[c]
        BY <1>2, CallEffect DEF Register, TypeInv, TypeOK, ConnectionsOK
      <4>3. ASSUME pc'[p] \in {"take", "held"}
            PROVE  Suits(kind'[frame'[p].conn], frame'[p].req)
        <5>1. CASE VetAccept(p)
          <6>1. Matches(frame[p].req, frame[p].conn) /\ kind' = kind /\ frame' = frame
            BY <5>1 DEF VetAccept, connVars
          <6> QED BY <6>1, MatchesMeans
        <5>2. CASE Take(p)
          <6>1. pc[p] = "take" /\ kind' = kind
            BY <5>2 DEF Take
          <6> QED BY <5>2, <6>1, TakeFrame DEF SuitInv, Honoured
        <5>3. CASE \E c \in Conns, k \in DialKinds : Register(p, c, k)
          BY <4>3, <5>3, SortSuits
        <5> QED BY <1>2, <3>3, <4>3, <5>1, <5>2, <5>3, OtherSuits
      <4> QED BY <3>1, <4>1, <4>2, <4>3, SuitKept
    <3> QED BY <3>2, <3>3
  <2> QED BY <2>1, <2>2
<1>3. ASSUME NEW q \in Queues, DrainWaiter(q)
      PROVE  SuitInv'
  <2>1. /\ waitQueue[q] # <<>> /\ UNCHANGED <<mail, kind, pc, frame>>
        /\ waitQueue' = [waitQueue EXCEPT ![q] = Tail(@)]
    BY <1>3 DEF DrainWaiter, connVars, locals
  <2>2. \A r \in Queues : \A i \in DOMAIN waitQueue'[r] :
            Entry(r, IF r = q THEN i + 1 ELSE i, waitQueue'[r][i])
    BY <2>1, AfterPop
  <2> QED BY <2>1, <2>2 DEF SuitInv, QueuedWhereAsked, Honoured, Entry
<1>4. CASE (CloseBegin \/ CloseStep) /\ ~(\E q \in Queues : DrainWaiter(q))
  <2>1. UNCHANGED <<waitQueue, mail, kind, pc, frame>>
    BY <1>4 DEF CloseBegin, CloseStep, CloseSwap, CloseConn, FoundEmpty,
       ShutQueue, DrainIdle, ShutIdle, waitVars, connVars, locals
  <2> QED BY <1>1, <2>1
<1>5. CASE \E c \in Conns : Expire(c)
  BY <1>1, <1>5 DEF Expire, waitVars, locals
<1>6. CASE UNCHANGED vars
  BY <1>1, <1>6 DEF vars, waitVars, connVars, locals
<1> QED BY <1>2, <1>3, <1>4, <1>5, <1>6 DEF Next, Halted

\* A connection on its way to a request suits it, whether it comes out of an idle
\* channel, from the dialer or through a waitChan.  In particular the branch of
\* the wait loops that closes a connection of the wrong kind never runs.
THEOREM RequestsHonoured == Spec => []RequestHonoured
<1>1. SuitInv => RequestHonoured
  BY HonouredSays DEF SuitInv
<1> QED BY <1>1, TypeInit, TypeStep, CloserInit, CloserStep, WaitInit, WaitNext,
           SuitInit, SuitNext, PTL DEF Spec

=============================================================================
