----------------------------- MODULE LedgerProofs -----------------------------
(* A pool without a limit on its connections, where nobody ever waits, keeps *)
(* the ledger: a connection has one borrower, is open when it is handed out, *)
(* and is not closed by anybody else before it is back.                      *)
EXTENDS PoolSafetyProofs

-----------------------------------------------------------------------------
(* Nobody waits, so a returned connection has one way to its next user.    *)

NobodyWaits ==
    /\ \A p \in Procs : pc[p] \notin {"join", "await"} /\ frame[p].ret # "await"
    /\ \A q \in Queues : waitQueue[q] = <<>>

\* The labels at which a goroutine has its connection to itself.  After the send
\* to the idle channel, while it looks for a waiter, it only remembers it.
Owning == {"vet", "take", "held", "put", "mark", "send", "retire", "shut"}

OwnersApart ==
    \A p, q \in Procs :
        pc[p] \in Owning /\ pc[q] \in Owning /\ frame[p].conn = frame[q].conn => p = q

OwnedNotIdle ==
    \A p \in Procs : pc[p] \in Owning =>
        \A ch \in Channels : \A i \in DOMAIN idle[ch] : idle[ch][i] # frame[p].conn

IdleDistinct ==
    \A ch, dh \in Channels : \A i \in DOMAIN idle[ch], j \in DOMAIN idle[dh] :
        idle[ch][i] = idle[dh][j] => ch = dh /\ i = j

\* Only dialed connections circulate.
Dialed ==
    /\ \A p \in Procs : pc[p] \in Owning => kind[frame[p].conn] # NoKind
    /\ \A ch \in Channels : \A i \in DOMAIN idle[ch] : kind[idle[ch][i]] # NoKind
    /\ \A c \in live : kind[c] # NoKind

\* While the pool is open, what is handed out is open.
LentOpen ==
    ~closed => \A p \in Procs : pc[p] \in {"take", "held"} => frame[p].conn \in live

Owned  == OwnersApart /\ OwnedNotIdle /\ IdleDistinct /\ Dialed
OwnInv == Owned /\ LentOpen

-----------------------------------------------------------------------------
(* Without a limit the wait queues stay empty.                             *)

LEMMA NobodyInit == Init => NobodyWaits
BY DEF Init, NobodyWaits, NoFrame

\* A step of p keeps the connection p has to itself, takes one from an idle
\* channel or the dialer, or ends up with none; where a nested Put or
\* closeConnection returns to is decided when it is called.
LEMMA FrameEffect ==
    ASSUME TypeInv, NEW p \in Procs, CallStep(p) \/ UserStep(p), panic' = "none", ~Receive(p)
    PROVE  /\ frame'[p].ret \in {frame[p].ret, "idle", "check"}
           /\ pc'[p] \in Owning =>
                \/ \E ch \in Channels : PollIdle(p, ch)
                \/ \E c \in Conns, k \in DialKinds : Register(p, c, k)
                \/ pc[p] \in Owning /\ frame'[p].conn = frame[p].conn
<1> DEFINE f == frame[p]
           Goal == /\ frame'[p].ret \in {f.ret, "idle", "check"}
                   /\ pc'[p] \in Owning =>
                        \/ \E ch \in Channels : PollIdle(p, ch)
                        \/ \E c \in Conns, k \in DialKinds : Register(p, c, k)
                        \/ pc[p] \in Owning /\ frame'[p].conn = f.conn
<1>1. /\ f \in Frames /\ LocalsOK(pc[p], f)
      /\ pc \in [Procs -> Labels] /\ frame \in [Procs -> Frames]
  BY DEF TypeInv, TypeOK, CallsOK, LocalsInv
<1> SUFFICES Goal
  OBVIOUS
<1>2. ASSUME NEW l, NEW g, Move(p, l, g)
      PROVE  pc'[p] = l /\ frame'[p] = g
  BY <1>1, <1>2 DEF Move, Goto
<1>3. ASSUME NEW l, NEW g, Move(p, l, g), g.ret \in {f.ret, "idle", "check"},
             l \notin Owning \/ (pc[p] \in Owning /\ g.conn = f.conn)
      PROVE  Goal
  BY <1>2, <1>3
<1>4. ASSUME NEW l, Goto(p, l), frame' = frame, l \notin Owning \/ pc[p] \in Owning
      PROVE  Goal
  BY <1>1, <1>4 DEF Goto
<1>5. Leave(p) => Goal
  <2>1. Leave(p) => Move(p, "idle", NoFrame)
    BY DEF Leave, Move
  <2>2. NoFrame.ret = "idle" /\ "idle" \notin Owning
    BY DEF NoFrame, Owning
  <2> HIDE DEF Goal
  <2> QED BY <1>3, <2>1, <2>2
<1>6. Resume(p) => Goal
  <2> DEFINE h == [f EXCEPT !.conn = None]
             g == [h EXCEPT !.stage = 1]
  <2>1. g.ret = f.ret
    BY <1>1 DEF Frames
  <2>2. g = [f EXCEPT !.conn = None, !.stage = 1]
    OBVIOUS
  <2> HIDE DEF h, g
  <2>3. f.ret \notin Owning
    BY <1>1 DEF Frames, Owning
  <2> QED BY <1>3, <1>5, <2>1, <2>2, <2>3 DEF Resume
<1>7. ASSUME NEW b \in BOOLEAN, CreateFailed(p, b), pc[p] \in Trying
      PROVE  Goal
  <2> DEFINE h == Again(f)
             g == [h EXCEPT !.failures = @ + 1]
  <2>1. h \in Frames /\ h.ret = f.ret
    BY <1>1, <1>7, AgainType DEF LocalsOK
  <2> HIDE DEF h
  <2>2. g.ret = f.ret
    BY <2>1 DEF Frames
  <2> HIDE DEF g
  <2>3. (Goto(p, "join") /\ frame' = frame) \/ Move(p, "check", g) \/ Leave(p)
    BY <1>7 DEF CreateFailed, g, h
  <2> QED BY <1>3, <1>4, <1>5, <2>2, <2>3 DEF Owning
<1> HIDE DEF Goal
<1>8. CASE GetStep(p)
  <2>1. CASE LoopHead(p) \/ PollDefault(p) \/ VetAccept(p) \/ Count(p)
    <3>1. \/ Leave(p)
          \/ /\ frame' = frame
             /\ Goto(p, "poll") \/ Goto(p, "count") \/ Goto(p, "join") \/ Goto(p, "acquire")
                  \/ (Goto(p, "take") /\ pc[p] = "vet")
      BY <2>1 DEF LoopHead, PollDefault, VetAccept, Count
    <3> QED BY <1>4, <1>5, <3>1 DEF Owning
  <2>2. CASE \E ch \in Channels : PollIdle(p, ch)
    <3>1. PICK ch \in Channels : PollIdle(p, ch)
      BY <2>2
    <3> DEFINE g == [f EXCEPT !.conn = Head(idle[ch])]
    <3>2. Move(p, "vet", g) /\ g.ret = f.ret
      BY <1>1, <3>1 DEF PollIdle, Frames
    <3> HIDE DEF g
    <3> QED BY <1>2, <2>2, <3>2 DEF Goal
  <2>3. CASE PollClosed(p)
    <3>1. pc[p] = "poll"
      BY <2>3 DEF PollClosed
    <3>2. Again(f).ret = f.ret
      BY <1>1, <3>1, AgainType DEF LocalsOK, Trying
    <3>3. Move(p, "check", Again(f)) \/ (Goto(p, "count") /\ frame' = frame)
      BY <2>3 DEF PollClosed
    <3> QED BY <1>3, <1>4, <3>2, <3>3 DEF Owning
  <2>4. CASE VetInvalid(p)
    <3> DEFINE h == Again(f)
               g == [h EXCEPT !.ret = "check"]
    <3>1. pc[p] = "vet" /\ Move(p, "retire", g)
      BY <2>4 DEF VetInvalid
    <3>2. h \in Frames /\ h.conn = f.conn
      BY <1>1, <3>1, AgainType DEF LocalsOK, Trying
    <3> HIDE DEF h
    <3>3. g.ret = "check" /\ g.conn = f.conn
      BY <3>2 DEF Frames
    <3> HIDE DEF g
    <3> QED BY <1>3, <3>1, <3>3 DEF Owning
  <2>5. CASE VetMismatch(p)
    <3> DEFINE h == Again(f)
               m == IF f.req \in IPVersions THEN Misfit(h) ELSE h
               g == [m EXCEPT !.ret = Back(m)]
    <3>1. pc[p] = "vet" /\ Move(p, "put", g)
      <4>1. h.req = f.req
        BY <1>1, <2>5, AgainType DEF LocalsOK, Trying, VetMismatch
      <4> QED BY <2>5, <4>1 DEF VetMismatch
    <3>2. h \in Frames /\ h.conn = f.conn /\ h.mismatches = f.mismatches
      BY <1>1, <3>1, AgainType DEF LocalsOK, Trying
    <3> HIDE DEF h
    <3>3. m \in Frames /\ m.conn = f.conn
      <4>1. f.mismatches < MaxMismatches
        BY <1>1, <3>1 DEF LocalsOK, Trying
      <4> QED BY <3>2, <4>1, MisfitType
    <3> HIDE DEF m
    <3>4. g.ret \in {"idle", "check"} /\ g.conn = f.conn
      BY <3>3 DEF Frames, Back
    <3> HIDE DEF g
    <3> QED BY <1>3, <3>1, <3>4 DEF Owning
  <2>6. CASE Take(p)
    <3>1. pc[p] = "take" /\ pc'[p] = "held"
      BY <1>1, <2>6 DEF Take, Move, Goto
    <3>2. frame'[p].ret = "idle"
      <4>1. TypeInv'
        BY <1>8, GetType
      <4> QED BY <3>1, <4>1 DEF TypeInv, LocalsInv, LocalsOK
    <3> QED BY <2>6, <3>1, <3>2, TakeFrame DEF Goal, Owning
  <2> QED BY <1>8, <2>1, <2>2, <2>3, <2>4, <2>5, <2>6 DEF GetStep
<1>9. CASE CreateStep(p)
  <2>1. CASE \E c \in Conns, k \in DialKinds : Register(p, c, k)
    <3>1. PICK c \in Conns, k \in DialKinds : Register(p, c, k)
      BY <2>1
    <3>2. pc[p] = "dial" /\ Sort(p, c, k)
      BY <3>1 DEF Register
    <3> DEFINE t == [f EXCEPT !.conn = c]
               h == Again(t)
               m == Misfit(h)
               g == [m EXCEPT !.ret = Back(m)]
    <3>3. /\ t \in Frames /\ t.ret = f.ret /\ t.attempts = f.attempts
          /\ t.mismatches = f.mismatches
      BY <1>1 DEF Frames
    <3>4. Move(p, "take", t) \/ Move(p, "put", g)
      BY <3>2 DEF Sort
    <3> HIDE DEF t
    <3>5. f.attempts < MaxAttempts /\ f.mismatches < MaxMismatches
      BY <1>1, <3>2 DEF LocalsOK, Trying
    <3>6. h \in Frames /\ h.mismatches = t.mismatches
      BY <3>3, <3>5, AgainType
    <3> HIDE DEF h
    <3>7. m \in Frames
      BY <3>3, <3>5, <3>6, MisfitType
    <3> HIDE DEF m
    <3>8. g.ret \in {"idle", "check"}
      BY <3>7 DEF Frames, Back
    <3> HIDE DEF g
    <3> QED BY <1>2, <2>1, <3>3, <3>4, <3>8 DEF Goal
  <2>2. CASE ~(\E c \in Conns, k \in DialKinds : Register(p, c, k))
    <3>1. /\ pc[p] \in Trying
          /\ \/ CreateFailed(p, TRUE) \/ CreateFailed(p, FALSE)
             \/ frame' = frame /\ (Goto(p, "admit") \/ Goto(p, "dial"))
      BY <1>9, <2>2 DEF CreateStep, Acquire, AcquireTimeout, Admit, DialFails, Trying
    <3> QED BY <1>4, <1>7, <3>1 DEF Owning
  <2> QED BY <2>1, <2>2
<1>10. CASE WaitStep(p)
  <2>1. (Goto(p, "await") /\ frame' = frame) \/ Leave(p)
    BY <1>10 DEF WaitStep, Join, JoinGivesUp, GiveUp, PanicJoin, PanicLeave, Crash
  <2> QED BY <1>4, <1>5, <2>1 DEF Owning
<1>11. CASE PutStep(p)
  <2>1. CASE NotifyNobody(p)
    <3> DEFINE g == [f EXCEPT !.stage = @ + 1]
    <3>1. Resume(p) \/ Move(p, "notify", g)
      BY <2>1 DEF NotifyNobody
    <3>2. g.ret = f.ret
      BY <1>1 DEF Frames
    <3> HIDE DEF g
    <3> QED BY <1>3, <1>6, <3>1, <3>2 DEF Owning
  <2>2. CASE NotifyWaiter(p) \/ NotifySpin(p)
    <3>1. pc[p] = "notify" /\ (Resume(p) \/ UNCHANGED <<pc, frame>>)
      BY <2>2 DEF NotifyWaiter, NotifySpin, locals
    <3> QED BY <1>6, <3>1 DEF Owning, Goal
  <2>3. CASE PutCheck(p) \/ PutIdle(p) \/ PutSend(p) \/ Retire(p)
    <3>1. /\ frame' = frame /\ pc[p] \in Owning
          /\ Goto(p, "retire") \/ Goto(p, "mark") \/ Goto(p, "send") \/ Goto(p, "notify")
                \/ Goto(p, "shut")
      BY <2>3 DEF PutCheck, PutIdle, PutSend, Retire, Owning
    <3> QED BY <1>4, <3>1
  <2>4. CASE Shut(p)
    BY <1>6, <2>4 DEF Shut
  <2>5. ~PanicSend(p)
    BY DEF PanicSend, Crash
  <2> QED BY <1>11, <2>1, <2>2, <2>3, <2>4, <2>5 DEF PutStep
<1>12. CASE UserStep(p)
  <2>1. CASE Begin(p)
    <3>1. PICK r \in Requests : Move(p, "check", [NoFrame EXCEPT !.req = r])
      BY <2>1 DEF Begin
    <3>2. [NoFrame EXCEPT !.req = r].ret = "idle"
      BY DEF NoFrame
    <3> QED BY <1>3, <3>1, <3>2 DEF Owning
  <2>2. CASE UserPut(p) \/ UserClose(p)
    <3>1. (pc[p] = "held" /\ Goto(p, "put") /\ frame' = frame) \/ Leave(p)
      BY <2>2 DEF UserPut, UserClose
    <3> QED BY <1>4, <1>5, <3>1 DEF Owning
  <2> QED BY <1>12, <2>1, <2>2 DEF UserStep
<1> QED BY <1>8, <1>9, <1>10, <1>11, <1>12 DEF CallStep


LEMMA NobodyNext ==
    ASSUME MaxConnections = 0, TypeInv, CloserInv, NobodyWaits, [Next]_vars
    PROVE  NobodyWaits'
<1>1. CASE UNCHANGED vars
  BY <1>1 DEF vars, waitVars, locals, NobodyWaits
<1>2. ASSUME NEW p \in Procs, CallStep(p) \/ UserStep(p)
      PROVE  NobodyWaits'
  <2>1. /\ pc \in [Procs -> Labels] /\ frame \in [Procs -> Frames]
        /\ pc[p] \notin {"join", "await"} /\ frame[p].ret \in {"idle", "check"}
    BY DEF TypeInv, TypeOK, CallsOK, NobodyWaits, Frames
  <2>2. /\ ~Receive(p) /\ ~Join(p) /\ ~JoinGivesUp(p) /\ ~GiveUp(p)
        /\ ~PanicJoin(p) /\ ~PanicLeave(p)
    BY <2>1 DEF Receive, Join, JoinGivesUp, GiveUp, PanicJoin, PanicLeave
  <2>3. \A q \in Queues : waitQueue'[q] = <<>>
    <3>1. CASE NotifyWaiter(p)
      <4>1. PICK q : waitQueue[q] # <<>> /\ waitQueue' = [waitQueue EXCEPT ![q] = Tail(@)]
        BY <3>1 DEF NotifyWaiter
      <4> QED BY <4>1 DEF NobodyWaits, TypeInv, TypeOK, QueuesOK
    <3>2. CASE ~NotifyWaiter(p)
      <4>1. waitQueue' = waitQueue
        BY <1>2, <2>2, <3>2 DEF waitVars,
           CallStep, GetStep, LoopHead, PollIdle, PollClosed, PollDefault, VetInvalid,
           VetMismatch, VetAccept, Take, Count, CreateStep, Acquire, AcquireTimeout, Admit,
           DialFails, Register, WaitStep, PutStep, PutCheck, PutIdle, PutSend, NotifyNobody,
           NotifySpin, Retire, Shut, PanicSend, Crash, UserStep, Begin, UserPut, UserClose
      <4> QED BY <4>1 DEF NobodyWaits
    <3> QED BY <3>1, <3>2
  <2>4. CASE PanicSend(p)
    BY <2>3, <2>4 DEF PanicSend, Crash, NobodyWaits
  <2>5. CASE ~PanicSend(p)
    <3>1. panic' = "none"
      BY <1>2, <2>2, <2>5, CallEffect, Running
    <3>2. frame'[p].ret # "await"
      BY <1>2, <2>1, <2>2, <3>1, FrameEffect
    <3>3. ~AtLimit
      BY DEF AtLimit
    <3>4. pc'[p] \notin {"join", "await"}
      <4>1. Leave(p) \/ Resume(p) => pc'[p] \notin {"join", "await"}
        BY <2>1 DEF Leave, Resume, Move, Goto
      <4>2. CreateFailed(p, FALSE) => pc'[p] \notin {"join", "await"}
        BY <2>1, <4>1 DEF CreateFailed, Move, Goto
      <4>3. CASE GetStep(p)
        BY <2>1, <3>3, <4>1, <4>3 DEF Goto, Move, GetStep, LoopHead, PollIdle, PollClosed,
           PollDefault, VetInvalid, VetMismatch, VetAccept, Take, Count
      <4>4. CASE CreateStep(p)
        BY <2>1, <3>3, <4>2, <4>4 DEF Goto, Move, CreateStep, Acquire, AcquireTimeout, Admit,
           DialFails, Register, Sort
      <4>5. CASE WaitStep(p)
        BY <2>2, <4>5 DEF WaitStep
      <4>6. CASE PutStep(p)
        BY <2>1, <2>5, <4>1, <4>6 DEF Goto, Move, PutStep, PutCheck, PutIdle, PutSend,
           NotifyWaiter, NotifyNobody, NotifySpin, Retire, Shut, locals
      <4>7. CASE UserStep(p)
        BY <2>1, <4>1, <4>7 DEF Goto, Move, UserStep, Begin, UserPut, UserClose
      <4> QED BY <1>2, <4>3, <4>4, <4>5, <4>6, <4>7 DEF CallStep
    <3>5. \A q \in Procs : q # p => pc'[q] = pc[q] /\ frame'[q] = frame[q]
      BY <1>2, <3>1, OwnStep
    <3> QED BY <2>3, <3>2, <3>4, <3>5 DEF NobodyWaits
  <2> QED BY <2>4, <2>5
<1>3. CASE CloseBegin \/ CloseStep
  <2>1. UNCHANGED <<pc, frame>>
    BY <1>3 DEF CloseBegin, CloseStep, CloseSwap, CloseConn, FoundEmpty, DrainWaiter,
       ShutQueue, DrainIdle, ShutIdle, locals
  <2>2. waitQueue' = waitQueue
    BY <1>3 DEF CloseBegin, CloseStep, CloseSwap, CloseConn, FoundEmpty, DrainWaiter,
       ShutQueue, DrainIdle, ShutIdle, waitVars, NobodyWaits
  <2> QED BY <2>1, <2>2 DEF NobodyWaits
<1>4. CASE \E c \in Conns : Expire(c)
  BY <1>4 DEF Expire, NobodyWaits, waitVars, locals
<1> QED BY <1>1, <1>2, <1>3, <1>4 DEF Next, Halted

-----------------------------------------------------------------------------
(* A connection has one owner, or lies in one idle channel, once.          *)

\* The idle channels after the head of one of them was taken.
LEMMA AfterTake ==
    ASSUME TypeInv, Owned, NEW ch \in Channels, idle[ch] # <<>>,
           idle' = [idle EXCEPT ![ch] = Tail(@)]
    PROVE  /\ IdleDistinct'
           /\ \A dh \in Channels : \A i \in DOMAIN idle'[dh] :
                /\ idle'[dh][i] # Head(idle[ch])
                /\ \E j \in DOMAIN idle[dh] : idle[dh][j] = idle'[dh][i]
           /\ \E i \in DOMAIN idle[ch] : idle[ch][i] = Head(idle[ch])
<1> DEFINE at(dh, i) == IF dh = ch THEN i + 1 ELSE i
<1>1. idle \in [Channels -> Seq(Conns)]
  BY DEF TypeInv, TypeOK, QueuesOK
<1>2. /\ 1 \in DOMAIN idle[ch] /\ idle[ch][1] = Head(idle[ch])
      /\ \A dh \in Channels : \A i \in DOMAIN idle'[dh] :
            /\ i \in Nat \ {0} /\ at(dh, i) \in DOMAIN idle[dh]
            /\ idle[dh][at(dh, i)] = idle'[dh][i]
  BY <1>1, AfterTail
<1>3. ASSUME NEW dh \in Channels, NEW i \in DOMAIN idle'[dh]
      PROVE  idle'[dh][i] # Head(idle[ch])
  <2>1. ~(dh = ch /\ at(dh, i) = 1)
    BY <1>2
  <2> HIDE DEF at
  <2> QED BY <1>2, <2>1 DEF Owned, IdleDistinct
<1>4. IdleDistinct'
  <2> SUFFICES ASSUME NEW dh \in Channels, NEW eh \in Channels,
                      NEW i \in DOMAIN idle'[dh], NEW j \in DOMAIN idle'[eh],
                      idle'[dh][i] = idle'[eh][j]
               PROVE  dh = eh /\ i = j
    BY DEF IdleDistinct
  <2>1. dh = eh /\ at(dh, i) = at(eh, j)
    <3> HIDE DEF at
    <3> QED BY <1>2 DEF Owned, IdleDistinct
  <2> QED BY <1>2, <2>1
<1> HIDE DEF at
<1> QED BY <1>2, <1>3, <1>4



\* A goroutine keeps, or lets go of, what it has to itself, and puts it nowhere.
LEMMA OwnKept ==
    ASSUME Owned, NEW p \in Procs, UNCHANGED <<idle, kind>>, live' \subseteq live,
           \A q \in Procs : q # p => pc'[q] = pc[q] /\ frame'[q] = frame[q],
           pc'[p] \in Owning => pc[p] \in Owning /\ frame'[p].conn = frame[p].conn
    PROVE  Owned'
<1>1. \A q \in Procs :
        pc'[q] \in Owning => pc[q] \in Owning /\ frame'[q].conn = frame[q].conn
  OBVIOUS
<1>2. OwnersApart' /\ OwnedNotIdle' /\ IdleDistinct'
  BY <1>1 DEF Owned, OwnersApart, OwnedNotIdle, IdleDistinct
<1>3. Dialed'
  BY <1>1 DEF Owned, Dialed
<1> QED BY <1>2, <1>3 DEF Owned

LEMMA PollOwn ==
    ASSUME TypeInv, Owned, NEW p \in Procs, NEW ch \in Channels, PollIdle(p, ch),
           \A q \in Procs : q # p => pc'[q] = pc[q] /\ frame'[q] = frame[q]
    PROVE  Owned'
<1> DEFINE c == Head(idle[ch])
<1>1. /\ pc'[p] = "vet" /\ frame'[p].conn = c
      /\ idle[ch] # <<>> /\ idle' = [idle EXCEPT ![ch] = Tail(@)]
      /\ UNCHANGED <<kind, live>>
  BY DEF PollIdle, Move, Goto, TypeInv, TypeOK, CallsOK, Frames, connVars, closeVars
<1>2. /\ IdleDistinct'
      /\ \A dh \in Channels : \A i \in DOMAIN idle'[dh] :
            idle'[dh][i] # c /\ \E j \in DOMAIN idle[dh] : idle[dh][j] = idle'[dh][i]
      /\ \E i \in DOMAIN idle[ch] : idle[ch][i] = c
  BY <1>1, AfterTake
<1> HIDE DEF c
<1>3. \A q \in Procs : q # p /\ pc[q] \in Owning => frame[q].conn # c
  BY <1>2 DEF Owned, OwnedNotIdle
<1>4. OwnersApart'
  BY <1>1, <1>3 DEF Owned, OwnersApart
<1>5. OwnedNotIdle'
  BY <1>1, <1>2 DEF Owned, OwnedNotIdle
<1>6. Dialed'
  BY <1>1, <1>2 DEF Owned, Dialed
<1> QED BY <1>2, <1>4, <1>5, <1>6 DEF Owned

LEMMA RegisterOwn ==
    ASSUME TypeInv, Owned, NEW p \in Procs, NEW c \in Conns, NEW k \in DialKinds,
           Register(p, c, k),
           \A q \in Procs : q # p => pc'[q] = pc[q] /\ frame'[q] = frame[q]
    PROVE  Owned'
<1>1. /\ pc'[p] \in Owning /\ frame'[p].conn = c
  <2>1. pc'[p] \in {"take", "put"}
    BY DEF Register, Sort, Move, Goto, TypeInv, TypeOK, CallsOK
  <2>2. frame'[p].conn = c
    BY DEF Register, Sort, Move, TypeInv, TypeOK, CallsOK, Frames, Misfit, Again
  <2> QED BY <2>1, <2>2 DEF Owning
<1>2. /\ kind[c] = NoKind /\ kind' = [kind EXCEPT ![c] = k]
      /\ live' = live \cup {c} /\ UNCHANGED <<idle, closed>>
  BY DEF Register, chanVars, closeVars
<1>3. k # NoKind
  BY PoolAssumption DEF Kinds, NoKind, Protocols
<1>4. \A d \in Conns : kind[d] # NoKind => d # c /\ kind'[d] # NoKind
  BY <1>2, <1>3 DEF TypeInv, TypeOK, ConnectionsOK
<1>5. kind'[c] # NoKind
  BY <1>2, <1>3 DEF TypeInv, TypeOK, ConnectionsOK
<1>6. ASSUME NEW q \in Procs, pc[q] \in Owning
      PROVE  frame[q].conn \in Conns /\ kind[frame[q].conn] # NoKind
  BY <1>6 DEF Owned, Dialed, Owning, TypeInv, LocalsInv, LocalsOK, Carrying, Returning
<1>7. ASSUME NEW ch \in Channels, NEW i \in DOMAIN idle[ch]
      PROVE  idle[ch][i] \in Conns /\ kind[idle[ch][i]] # NoKind
  <2>1. idle[ch] \in Seq(Conns)
    BY DEF TypeInv, TypeOK, QueuesOK
  <2>2. idle[ch][i] \in Conns
    BY <2>1, ElementOfSeq, LenProperties
  <2> QED BY <2>2 DEF Owned, Dialed
<1>8. OwnersApart'
  BY <1>1, <1>4, <1>6 DEF Owned, OwnersApart
<1>9. OwnedNotIdle'
  BY <1>1, <1>2, <1>4, <1>7 DEF Owned, OwnedNotIdle
<1>10. Dialed'
  <2>1. \A q \in Procs : pc'[q] \in Owning => kind'[frame'[q].conn] # NoKind
    BY <1>1, <1>4, <1>5, <1>6
  <2>2. \A ch \in Channels : \A i \in DOMAIN idle'[ch] : kind'[idle'[ch][i]] # NoKind
    BY <1>2, <1>4, <1>7
  <2>3. \A d \in live' : kind'[d] # NoKind
    BY <1>2, <1>4, <1>5 DEF Owned, Dialed, TypeInv, TypeOK, ConnectionsOK
  <2> QED BY <2>1, <2>2, <2>3 DEF Dialed
<1>11. IdleDistinct'
  BY <1>2 DEF Owned, IdleDistinct
<1> QED BY <1>8, <1>9, <1>10, <1>11 DEF Owned

\* Where a returned connection goes nothing else knows it.
LEMMA SendOwn ==
    ASSUME TypeInv, Owned, NEW p \in Procs, PutSend(p),
           \A q \in Procs : q # p => pc'[q] = pc[q] /\ frame'[q] = frame[q]
    PROVE  Owned'
<1> DEFINE c == frame[p].conn
           ch == ChannelOf(c)
<1>1. /\ pc[p] = "send" /\ pc[p] \in Owning /\ c \in Conns /\ ch \in Channels
      /\ frame' = frame /\ UNCHANGED <<kind, live>>
  BY DEF PutSend, Owning, TypeInv, LocalsInv, LocalsOK, Carrying, Returning,
     ChannelOf, Channels, connVars, closeVars
<1>2. CASE Goto(p, "retire") /\ UNCHANGED idle
  <2>1. pc'[p] = "retire"
    BY <1>2 DEF Goto, TypeInv, TypeOK, CallsOK
  <2> QED BY <1>1, <1>2, <2>1, OwnKept
<1>3. CASE idle' = [idle EXCEPT ![ch] = Append(@, c)] /\ Goto(p, "notify")
  <2>1. /\ pc'[p] = "notify" /\ pc'[p] \notin Owning
    BY <1>3 DEF Goto, TypeInv, TypeOK, CallsOK, Owning
  <2>2. /\ idle[ch] \in Seq(Conns) /\ idle'[ch] = Append(idle[ch], c)
        /\ \A dh \in Channels : dh # ch => idle'[dh] = idle[dh]
    BY <1>1, <1>3 DEF TypeInv, TypeOK, QueuesOK
  <2> HIDE DEF ch, c
  <2>3. /\ DOMAIN idle[ch] = 1..Len(idle[ch]) /\ Len(idle[ch]) \in Nat
        /\ DOMAIN idle'[ch] = 1..(Len(idle[ch]) + 1)
        /\ \A i \in DOMAIN idle[ch] : idle'[ch][i] = idle[ch][i]
        /\ idle'[ch][Len(idle[ch]) + 1] = c
    BY <1>1, <2>2, AppendProperties, LenProperties
  <2>4. ASSUME NEW dh \in Channels, NEW i \in DOMAIN idle'[dh]
        PROVE  \/ i \in DOMAIN idle[dh] /\ idle'[dh][i] = idle[dh][i]
               \/ dh = ch /\ i = Len(idle[ch]) + 1 /\ idle'[dh][i] = c
    BY <2>2, <2>3, <2>4
  <2>5. \A dh \in Channels : \A i \in DOMAIN idle[dh] : idle[dh][i] # c
    BY <1>1 DEF Owned, OwnedNotIdle, c
  <2>6. \A q \in Procs : pc'[q] \in Owning =>
            pc[q] \in Owning /\ frame'[q].conn = frame[q].conn /\ frame[q].conn # c
    BY <1>1, <2>1 DEF Owned, OwnersApart, c
  <2>7. OwnersApart'
    BY <1>1, <2>1, <2>6 DEF Owned, OwnersApart, Owning
  <2>8. OwnedNotIdle'
    BY <2>4, <2>6 DEF Owned, OwnedNotIdle
  <2>9. IdleDistinct'
    BY <2>4, <2>5 DEF Owned, IdleDistinct
  <2>10. Dialed'
    BY <1>1, <2>4, <2>6 DEF Owned, Dialed, c
  <2> QED BY <2>7, <2>8, <2>9, <2>10 DEF Owned
<1> QED BY <1>2, <1>3 DEF PutSend

\* What its owner closes nobody else has.
LEMMA CloseOwn ==
    ASSUME TypeInv, Owned, NEW p \in Procs, Shut(p) \/ UserClose(p),
           \A q \in Procs : q # p => pc'[q] = pc[q] /\ frame'[q] = frame[q]
    PROVE  Owned'
<1>1. /\ pc[p] \in Owning /\ live' = live \ {frame[p].conn}
      /\ UNCHANGED <<idle, kind, closed>>
  BY DEF Shut, UserClose, Owning, chanVars, closeVars
<1>2. pc'[p] \notin Owning
  BY DEF Shut, UserClose, Resume, Leave, Move, Goto, Owning, TypeInv, TypeOK, CallsOK, Frames
<1> QED BY <1>1, <1>2, OwnKept

LEMMA OwnInit == Init => OwnInv
BY DEF Init, OwnInv, Owned, OwnersApart, OwnedNotIdle, IdleDistinct, Dialed, LentOpen, Owning



LEMMA OwnNext ==
    ASSUME MaxConnections = 0, TypeInv, CloserInv, NobodyWaits, Owned, [Next]_vars
    PROVE  Owned'
<1>1. CASE UNCHANGED vars
  BY <1>1 DEF vars, connVars, chanVars, closeVars, locals, Owned, OwnersApart, OwnedNotIdle,
     IdleDistinct, Dialed
<1>2. ASSUME NEW p \in Procs, CallStep(p) \/ UserStep(p)
      PROVE  Owned'
  <2>1. ~Receive(p) /\ ~PanicJoin(p) /\ ~PanicLeave(p)
    BY DEF NobodyWaits, Receive, PanicJoin, PanicLeave
  <2>2. CASE PanicSend(p)
    <3>1. /\ \A q \in Procs : pc'[q] \notin Owning
          /\ UNCHANGED <<idle, kind, live>>
      BY <2>2 DEF PanicSend, Crash, Owning, connVars, chanVars
    <3> QED BY <3>1 DEF Owned, OwnersApart, OwnedNotIdle, IdleDistinct, Dialed
  <2>3. CASE ~PanicSend(p)
    <3>1. panic' = "none" /\ closed' = closed
      BY <1>2, <2>1, <2>3, CallEffect, Running
    <3>2. \A q \in Procs : q # p => pc'[q] = pc[q] /\ frame'[q] = frame[q]
      BY <1>2, <3>1, OwnStep
    <3>3. CASE \E ch \in Channels : PollIdle(p, ch)
      BY <3>2, <3>3, PollOwn
    <3>4. CASE \E c \in Conns, k \in DialKinds : Register(p, c, k)
      BY <3>2, <3>4, RegisterOwn
    <3>5. CASE PutSend(p)
      BY <3>2, <3>5, SendOwn
    <3>6. CASE Shut(p) \/ UserClose(p)
      BY <3>2, <3>6, CloseOwn
    <3>7. CASE /\ ~(\E ch \in Channels : PollIdle(p, ch)) /\ ~PutSend(p)
               /\ ~(\E c \in Conns, k \in DialKinds : Register(p, c, k))
               /\ ~Shut(p) /\ ~UserClose(p)
      <4>1. UNCHANGED <<idle, kind, live>>
        BY <1>2, <2>1, <2>3, <3>7 DEF registry, connVars, chanVars, CallStep, GetStep,
           LoopHead, PollClosed, PollDefault, VetInvalid, VetMismatch, VetAccept, Take,
           Count, CreateStep, Acquire, AcquireTimeout, Admit, DialFails, WaitStep, Join,
           JoinGivesUp, GiveUp, PutStep, PutCheck, PutIdle, NotifyWaiter,
           NotifyNobody, NotifySpin, Retire, UserStep, Begin, UserPut
      <4>2. pc'[p] \in Owning => pc[p] \in Owning /\ frame'[p].conn = frame[p].conn
        BY <1>2, <2>1, <3>1, <3>7, FrameEffect
      <4> QED BY <3>2, <4>1, <4>2, OwnKept
    <3> QED BY <3>3, <3>4, <3>5, <3>6, <3>7
  <2> QED BY <2>2, <2>3
<1>3. CASE CloseBegin \/ CloseStep
  <2>1. UNCHANGED <<pc, frame, kind>>
    BY <1>3 DEF CloseBegin, CloseStep, CloseSwap, CloseConn, FoundEmpty, DrainWaiter,
       ShutQueue, DrainIdle, ShutIdle, connVars, locals
  <2>2. live' \subseteq live
    BY <1>3 DEF CloseBegin, CloseStep, CloseSwap, CloseConn, FoundEmpty, DrainWaiter,
       ShutQueue, DrainIdle, ShutIdle, connVars
  <2>3. /\ IdleDistinct'
        /\ \A dh \in Channels : \A i \in DOMAIN idle'[dh] :
              \E j \in DOMAIN idle[dh] : idle[dh][j] = idle'[dh][i]
    <3>1. CASE \E ch \in Channels : DrainIdle(ch)
      <4>1. PICK ch \in Channels :
                idle[ch] # <<>> /\ idle' = [idle EXCEPT ![ch] = Tail(@)]
        BY <3>1 DEF DrainIdle
      <4>2. /\ IdleDistinct'
            /\ \A dh \in Channels : \A i \in DOMAIN idle'[dh] :
                 /\ idle'[dh][i] # Head(idle[ch])
                 /\ \E j \in DOMAIN idle[dh] : idle[dh][j] = idle'[dh][i]
        BY <4>1, AfterTake
      <4> QED BY <4>2
    <3>2. CASE ~(\E ch \in Channels : DrainIdle(ch))
      <4>1. idle' = idle
        BY <1>3, <3>2 DEF CloseBegin, CloseStep, CloseSwap, CloseConn, FoundEmpty,
           DrainWaiter, ShutQueue, ShutIdle, chanVars
      <4> QED BY <4>1 DEF Owned, IdleDistinct
    <3> QED BY <3>1, <3>2
  <2> QED BY <2>1, <2>2, <2>3 DEF Owned, OwnersApart, OwnedNotIdle, Dialed
<1>4. CASE \E c \in Conns : Expire(c)
  <2>1. UNCHANGED <<pc, frame, kind, live, idle>>
    BY <1>4 DEF Expire, chanVars, locals
  <2> QED BY <2>1 DEF Owned, OwnersApart, OwnedNotIdle, IdleDistinct, Dialed
<1> QED BY <1>1, <1>2, <1>3, <1>4 DEF Next, Halted

\* Only a connection that is open goes on to be handed out.
LEMMA Lending ==
    ASSUME TypeInv, NobodyWaits, NEW p \in Procs, CallStep(p) \/ UserStep(p),
           panic' = "none", pc'[p] \in {"take", "held"},
           ~(\E c \in Conns, k \in DialKinds : Register(p, c, k))
    PROVE  /\ frame'[p].conn = frame[p].conn
           /\ (pc[p] = "vet" /\ frame[p].conn \in live) \/ (Take(p) /\ pc[p] = "take")
<1>1. /\ pc \in [Procs -> Labels] /\ frame \in [Procs -> Frames]
      /\ pc[p] \notin {"join", "await"} /\ frame[p].ret \in {"idle", "check"}
  BY DEF TypeInv, TypeOK, CallsOK, NobodyWaits, Frames
<1>2. ~Leave(p) /\ ~Resume(p)
  BY <1>1 DEF Leave, Resume, Move, Goto
<1>3. \A b \in BOOLEAN : ~CreateFailed(p, b)
  <2>1. ASSUME NEW b \in BOOLEAN, CreateFailed(p, b) PROVE FALSE
    BY <1>1, <1>2, <2>1 DEF CreateFailed, Move, Goto
  <2> QED BY <2>1
<1>4. ~CreateStep(p) /\ ~WaitStep(p) /\ ~UserStep(p)
  <2>1. ~CreateStep(p)
    BY <1>1, <1>3 DEF Goto, CreateStep, Acquire, AcquireTimeout, Admit, DialFails
  <2>2. ~WaitStep(p)
    BY <1>1 DEF WaitStep, Join, JoinGivesUp, Receive, GiveUp, PanicJoin, PanicLeave
  <2>3. ~UserStep(p)
    BY <1>1, <1>2 DEF Move, Goto, UserStep, Begin, UserPut, UserClose
  <2> QED BY <2>1, <2>2, <2>3
<1>5. ~PutStep(p)
  BY <1>1, <1>2 DEF Goto, Move, PutStep, PutCheck, PutIdle, PutSend, NotifyWaiter,
     NotifyNobody, NotifySpin, Retire, Shut, PanicSend, Crash, locals
<1>6. VetAccept(p) \/ Take(p)
  BY <1>1, <1>2, <1>4, <1>5 DEF CallStep, Goto, Move, GetStep, LoopHead, PollIdle, PollClosed,
     PollDefault, VetInvalid, VetMismatch, Count
<1>7. CASE VetAccept(p)
  BY <1>7 DEF VetAccept, Valid
<1>8. CASE Take(p)
  BY <1>8, TakeFrame DEF Take
<1> QED BY <1>6, <1>7, <1>8

LEMMA LentNext ==
    ASSUME TypeInv, CloserInv, NobodyWaits, OwnInv, [Next]_vars
    PROVE  LentOpen'
<1>1. ASSUME UNCHANGED <<pc, frame, live>>, closed' = closed \/ closed'
      PROVE  LentOpen'
  BY <1>1 DEF OwnInv, LentOpen
<1>2. ASSUME NEW p \in Procs, CallStep(p) \/ UserStep(p)
      PROVE  LentOpen'
  <2>1. ~PanicJoin(p) /\ ~PanicLeave(p)
    BY DEF NobodyWaits, PanicJoin, PanicLeave
  <2>2. CASE PanicSend(p)
    <3>1. \A q \in Procs : pc'[q] = "dead"
      BY <2>2 DEF PanicSend, Crash
    <3> QED BY <3>1 DEF LentOpen
  <2>3. CASE ~PanicSend(p)
    <3>1. panic' = "none" /\ closed' = closed
      BY <1>2, <2>1, <2>3, CallEffect, Running
    <3>2. \A q \in Procs : q # p => pc'[q] = pc[q] /\ frame'[q] = frame[q]
      BY <1>2, <3>1, OwnStep
    <3>3. CASE \E c \in Conns, k \in DialKinds : Register(p, c, k)
      <4>1. PICK c \in Conns, k \in DialKinds : Register(p, c, k)
        BY <3>3
      <4>2. live' = live \cup {c} /\ frame'[p].conn = c
        BY <4>1 DEF Register, Sort, Move, TypeInv, TypeOK, CallsOK, Frames, Misfit, Again
      <4> QED BY <3>1, <3>2, <4>2 DEF OwnInv, LentOpen
    <3>4. CASE Shut(p) \/ UserClose(p)
      <4>1. pc[p] \in Owning /\ live' = live \ {frame[p].conn}
        BY <3>4 DEF Shut, UserClose, Owning
      <4>2. pc'[p] \notin {"take", "held"}
        BY <3>4 DEF Shut, UserClose, Resume, Leave, Move, Goto, TypeInv, TypeOK, CallsOK, Frames
      <4> QED BY <3>1, <3>2, <4>1, <4>2 DEF OwnInv, Owned, LentOpen, OwnersApart, Owning
    <3>5. CASE /\ ~(\E c \in Conns, k \in DialKinds : Register(p, c, k))
               /\ ~Shut(p) /\ ~UserClose(p)
      <4>1. live' = live
        BY <1>2, <2>1, <2>3, <3>5 DEF connVars, CallStep, GetStep, LoopHead, PollIdle,
           PollClosed, PollDefault, VetInvalid, VetMismatch, VetAccept, Take, Count,
           CreateStep, Acquire, AcquireTimeout, Admit, DialFails, WaitStep, Join,
           JoinGivesUp, Receive, GiveUp, PutStep, PutCheck, PutIdle, PutSend, NotifyWaiter,
           NotifyNobody, NotifySpin, Retire, UserStep, Begin, UserPut
      <4>2. pc'[p] \in {"take", "held"} =>
              /\ frame'[p].conn = frame[p].conn
              /\ frame[p].conn \in live \/ pc[p] = "take"
        BY <1>2, <3>1, <3>5, Lending
      <4> QED BY <3>1, <3>2, <4>1, <4>2 DEF OwnInv, LentOpen
    <3> QED BY <3>3, <3>4, <3>5
  <2> QED BY <2>2, <2>3
<1>3. CASE CloseBegin \/ CloseStep
  <2>1. CASE \E c \in Conns : CloseConn(c)
    <3>1. closed'
      BY <2>1 DEF CloseConn, CloserInv
    <3> QED BY <3>1 DEF LentOpen
  <2>2. CASE ~(\E c \in Conns : CloseConn(c))
    <3>1. UNCHANGED <<pc, frame, live>> /\ (closed' = closed \/ closed')
      BY <1>3, <2>2 DEF CloseBegin, CloseStep, CloseSwap, FoundEmpty, DrainWaiter,
         ShutQueue, DrainIdle, ShutIdle, connVars, closeVars, locals
    <3> QED BY <1>1, <3>1
  <2> QED BY <2>1, <2>2
<1>4. CASE (\E c \in Conns : Expire(c)) \/ Halted \/ UNCHANGED vars
  BY <1>1, <1>4 DEF Expire, Halted, vars, connVars, closeVars, locals
<1> QED BY <1>2, <1>3, <1>4 DEF Next

\* In a pool without a limit two goroutines never hold the same connection,
\* whatever Get, Put, Connection.Close and Pool.Close do at the same time: what
\* notifyWaitQueue would share, a waiter and the idle channel, needs a waiter.
THEOREM BorrowedOnce ==
    ASSUME MaxConnections = 0
    PROVE  Spec => []SoleBorrower
<1>1. Owned => SoleBorrower
  BY DEF Owned, OwnersApart, SoleBorrower, Owning
<1>2. TypeInv /\ CloserInv /\ NobodyWaits /\ [Next]_vars => NobodyWaits'
  BY NobodyNext
<1>3. TypeInv /\ CloserInv /\ NobodyWaits /\ Owned /\ [Next]_vars => Owned'
  BY OwnNext
<1>4. Init => Owned
  BY OwnInit DEF OwnInv
<1> QED BY <1>1, <1>2, <1>3, <1>4, TypeInit, TypeStep, CloserInit, CloserStep, NobodyInit,
           PTL DEF Spec

-----------------------------------------------------------------------------
(* Every step of the pool is a step of the ledger, or none.                *)

\* What the ledger does not see.
LEMMA Unseen ==
    ASSUME UNCHANGED <<kind, live, closed, panic>>,
           \A q \in Procs : /\ pc'[q] = "held" <=> pc[q] = "held"
                            /\ pc[q] = "held" => frame'[q].conn = frame[q].conn
    PROVE  UNCHANGED Ledger!ledger
<1>1. ConnState' = ConnState
  BY DEF ConnState
<1>2. Borrowers' = Borrowers
  BY DEF Borrowers
<1> QED BY <1>1, <1>2 DEF Ledger!ledger

\* What the ledger sees of the end of a borrower's turn.
LEMMA HandedBack ==
    ASSUME TypeInv, OwnInv, NEW p \in Procs, pc[p] = "held", pc'[p] # "held",
           \A q \in Procs : q # p => pc'[q] = pc[q] /\ frame'[q] = frame[q]
    PROVE  /\ frame[p].conn \in Conns /\ p \in Borrowers[frame[p].conn]
           /\ Borrowers' = [Borrowers EXCEPT ![frame[p].conn] = {}]
<1> DEFINE c == frame[p].conn
<1>1. c \in Conns
  BY DEF TypeInv, LocalsInv, LocalsOK, Carrying
<1>2. \A q \in Procs : pc[q] = "held" /\ frame[q].conn = c => q = p
  BY DEF OwnInv, Owned, OwnersApart, Owning
<1>3. p \in Borrowers[c]
  BY <1>1 DEF Borrowers
<1> HIDE DEF c
<1>4. ASSUME NEW d \in Conns
      PROVE  {q \in Procs : pc'[q] = "held" /\ frame'[q].conn = d}
                = IF d = c THEN {} ELSE {q \in Procs : pc[q] = "held" /\ frame[q].conn = d}
  BY <1>2 DEF c
<1>5. Borrowers' = [Borrowers EXCEPT ![c] = {}]
  BY <1>4 DEF Borrowers
<1> QED BY <1>1, <1>3, <1>5 DEF c

\* What has an owner that is not its borrower has no borrower.
LEMMA NotLent ==
    ASSUME OwnInv, NEW p \in Procs, pc[p] \in Owning \ {"held"}, frame[p].conn \in Conns
    PROVE  Borrowers[frame[p].conn] = {}
BY DEF OwnInv, Owned, OwnersApart, Owning, Borrowers

LEMMA Closed ==
    ASSUME NEW c \in Conns, c \in live, kind[c] # NoKind,
           kind' = kind, live' = live \ {c}
    PROVE  ConnState[c] = "open" /\ ConnState' = [ConnState EXCEPT ![c] = "closed"]
BY DEF ConnState

LEMMA LedgerCall ==
    ASSUME TypeInv, CloserInv, NobodyWaits, OwnInv,
           NEW p \in Procs, CallStep(p) \/ UserStep(p)
    PROVE  [Ledger!Next]_(Ledger!ledger)
<1>1. /\ panic = "none" /\ ~Receive(p) /\ ~PanicJoin(p) /\ ~PanicLeave(p)
      /\ pc \in [Procs -> Labels] /\ frame \in [Procs -> Frames]
  BY Running DEF NobodyWaits, Receive, PanicJoin, PanicLeave, TypeInv, TypeOK, CallsOK
<1>2. CASE PanicSend(p)
  <2>1. closed
    BY <1>2 DEF PanicSend, CloserInv, Queues
  <2>2. /\ closed' = closed /\ panic' # "none" /\ UNCHANGED <<kind, live>>
        /\ \A q \in Procs : pc'[q] # "held"
    BY <1>2 DEF PanicSend, Crash, connVars
  <2>3. Borrowers' = [c \in Conns |-> {}]
    BY <2>2 DEF Borrowers
  <2>4. ConnState' = ConnState
    BY <2>2 DEF ConnState
  <2>5. Ledger!End
    BY <2>1, <2>2, <2>3, <2>4 DEF Ledger!End
  <2> QED BY <1>1, <2>5 DEF Ledger!Next
<1>3. CASE ~PanicSend(p)
  <2>1. UNCHANGED <<closed, panic>>
    BY <1>1, <1>3, CallEffect
  <2>2. \A q \in Procs : q # p => pc'[q] = pc[q] /\ frame'[q] = frame[q]
    BY <1>1, <2>1, OwnStep
  <2> DEFINE c == frame[p].conn
  <2>3. pc[p] \in Owning => c \in Conns /\ kind[c] # NoKind
    BY DEF TypeInv, LocalsInv, LocalsOK, Carrying, Returning, Owning, OwnInv, Owned, Dialed
  <2>4. ASSUME NEW d \in Conns, NEW k \in DialKinds, Register(p, d, k)
        PROVE  Ledger!Next
    <3>1. /\ kind[d] = NoKind /\ kind' = [kind EXCEPT ![d] = k] /\ live' = live \cup {d}
          /\ pc[p] = "dial" /\ pc'[p] # "held"
      BY <1>1, <2>4 DEF Register, Sort, Move, Goto
    <3>2. k # NoKind
      BY PoolAssumption DEF Kinds, NoKind, Protocols
    <3>3. ConnState[d] = "unmade" /\ ConnState' = [ConnState EXCEPT ![d] = "open"]
      BY <3>1, <3>2 DEF ConnState, TypeInv, TypeOK, ConnectionsOK
    <3>4. Borrowers' = Borrowers
      BY <2>2, <3>1 DEF Borrowers
    <3>5. Ledger!Make(d)
      BY <2>1, <3>3, <3>4 DEF Ledger!Make
    <3> QED BY <1>1, <3>5 DEF Ledger!Next
  <2>5. CASE Take(p)
    <3>1. /\ pc[p] = "take" /\ pc'[p] = "held" /\ frame'[p].conn = c
          /\ UNCHANGED <<kind, live>>
      BY <1>1, <2>5, TakeFrame DEF Take, Move, Goto
    <3>2. c \in Conns /\ kind[c] # NoKind /\ Borrowers[c] = {}
      BY <2>3, <3>1, NotLent DEF Owning
    <3> HIDE DEF c
    <3>3. \A q \in Procs : pc[q] = "held" => frame[q].conn # c
      BY <3>2 DEF Borrowers
    <3>4. ASSUME NEW d \in Conns
          PROVE  {q \in Procs : pc'[q] = "held" /\ frame'[q].conn = d}
                = IF d = c THEN {p} ELSE {q \in Procs : pc[q] = "held" /\ frame[q].conn = d}
      BY <2>2, <3>1, <3>3
    <3>5. Borrowers' = [Borrowers EXCEPT ![c] = {p}]
      BY <3>2, <3>4 DEF Borrowers
    <3>6. ConnState' = ConnState
      BY <3>1 DEF ConnState
    <3>7. ConnState[c] = "open" \/ (closed /\ ConnState[c] = "closed")
      BY <3>1, <3>2 DEF ConnState, OwnInv, LentOpen, c
    <3>8. Ledger!Lend(c, p)
      BY <2>1, <3>2, <3>5, <3>6, <3>7 DEF Ledger!Lend
    <3> QED BY <1>1, <3>2, <3>8 DEF Ledger!Next
  <2>6. CASE UserPut(p)
    <3>1. pc[p] = "held" /\ pc'[p] # "held" /\ UNCHANGED <<kind, live>>
      BY <1>1, <2>6 DEF UserPut, Goto, connVars
    <3>2. c \in Conns /\ p \in Borrowers[c] /\ Borrowers' = [Borrowers EXCEPT ![c] = {}]
      BY <2>2, <3>1, HandedBack
    <3>3. ConnState' = ConnState
      BY <3>1 DEF ConnState
    <3>4. Ledger!Return(c, p)
      BY <2>1, <3>2, <3>3 DEF Ledger!Return
    <3> QED BY <1>1, <3>2, <3>4 DEF Ledger!Next
  <2>7. CASE UserClose(p)
    <3>1. pc[p] = "held" /\ pc'[p] # "held" /\ kind' = kind /\ live' = live \ {c}
      BY <1>1, <2>7 DEF UserClose, Leave, Goto
    <3>2. c \in Conns /\ p \in Borrowers[c] /\ Borrowers' = [Borrowers EXCEPT ![c] = {}]
      BY <2>2, <3>1, HandedBack
    <3>3. ConnState' = [ConnState EXCEPT ![c] = "closed"]
      BY <2>3, <3>1 DEF ConnState, Owning
    <3>4. Ledger!Drop(c, p)
      BY <2>1, <3>2, <3>3 DEF Ledger!Drop
    <3> QED BY <1>1, <3>2, <3>4 DEF Ledger!Next
  <2>8. CASE Shut(p)
    <3>1. pc[p] = "shut" /\ pc'[p] # "held" /\ kind' = kind /\ live' = live \ {c}
      BY <1>1, <2>8 DEF Shut, Resume, Leave, Move, Goto, Frames
    <3>2. c \in Conns /\ kind[c] # NoKind /\ Borrowers[c] = {}
      BY <2>3, <3>1, NotLent DEF Owning
    <3>3. Borrowers' = Borrowers
      BY <2>2, <3>1 DEF Borrowers
    <3>4. CASE c \in live
      <4>1. ConnState[c] = "open" /\ ConnState' = [ConnState EXCEPT ![c] = "closed"]
        BY <3>1, <3>2, <3>4, Closed
      <4>2. Ledger!Discard(c)
        BY <2>1, <3>2, <3>3, <4>1 DEF Ledger!Discard
      <4> QED BY <1>1, <3>2, <4>2 DEF Ledger!Next
    <3>5. CASE c \notin live
      BY <2>1, <2>2, <3>1, <3>5, Unseen
    <3> QED BY <3>4, <3>5
  <2>9. CASE /\ ~Take(p) /\ ~UserPut(p) /\ ~UserClose(p) /\ ~Shut(p)
             /\ ~(\E d \in Conns, k \in DialKinds : Register(p, d, k))
    <3>1. UNCHANGED <<kind, live>> /\ pc[p] # "held"
      BY <1>1, <1>3, <2>9 DEF registry, connVars, UserStep, CallStep, GetStep,
         LoopHead, PollIdle, PollClosed, PollDefault, VetInvalid, VetMismatch, VetAccept,
         Count, CreateStep, Acquire, AcquireTimeout, Admit, DialFails, WaitStep, Join,
         JoinGivesUp, GiveUp, PutStep, PutCheck, PutIdle, PutSend, NotifyWaiter,
         NotifyNobody, NotifySpin, Retire, Begin
    <3>2. pc'[p] # "held"
      <4>1. pc'[p] = "held" => pc[p] = "vet" /\ frame[p].conn \in live
        BY <1>1, <2>1, <2>9, Lending
      <4>2. pc[p] = "vet" => pc'[p] # "held"
        BY <1>1, <2>9 DEF UserStep, CallStep, GetStep,
           LoopHead, PollIdle, PollClosed, PollDefault, VetInvalid, VetMismatch, VetAccept,
           Count, CreateStep, Acquire, AcquireTimeout, Admit, DialFails, WaitStep, Join,
           JoinGivesUp, GiveUp, PutStep, PutCheck, PutIdle, PutSend, PanicSend, NotifyWaiter,
           NotifyNobody, NotifySpin, Retire, Begin, Goto, Move
      <4> QED BY <4>1, <4>2
    <3> QED BY <2>1, <2>2, <3>1, <3>2, Unseen
  <2> QED BY <2>4, <2>5, <2>6, <2>7, <2>8, <2>9
<1> QED BY <1>2, <1>3

LEMMA LedgerClose ==
    ASSUME TypeInv, CloserInv, OwnInv, CloseBegin \/ CloseStep
    PROVE  [Ledger!Next]_(Ledger!ledger)
<1>1. UNCHANGED <<pc, frame, kind, panic>> /\ panic = "none"
  BY DEF CloseBegin, CloseStep, CloseSwap, CloseConn, FoundEmpty, DrainWaiter,
     ShutQueue, DrainIdle, ShutIdle, connVars, closeVars, locals, CloserInv
<1>2. Borrowers' = Borrowers
  BY <1>1 DEF Borrowers
<1>3. CASE CloseBegin
  <2>1. ConnState' = ConnState /\ closed'
    BY <1>3 DEF CloseBegin, connVars, ConnState
  <2>2. Ledger!Shutdown
    BY <1>1, <1>2, <2>1, <1>3 DEF Ledger!Shutdown, CloseBegin
  <2> QED BY <1>1, <2>2 DEF Ledger!Next
<1>4. ASSUME NEW c \in Conns, CloseConn(c)
      PROVE  [Ledger!Next]_(Ledger!ledger)
  <2>1. closed /\ closed' = closed /\ live' = live \ {c}
    BY <1>4 DEF CloseConn, CloserInv
  <2>2. CASE c \in live
    <3>1. ConnState[c] = "open" /\ ConnState' = [ConnState EXCEPT ![c] = "closed"]
      BY <1>1, <2>1, <2>2, Closed DEF OwnInv, Owned, Dialed
    <3>2. Ledger!Discard(c)
      BY <1>1, <1>2, <2>1, <3>1 DEF Ledger!Discard
    <3> QED BY <1>1, <3>2 DEF Ledger!Next
  <2>3. CASE c \notin live
    BY <1>1, <2>1, <2>3, Unseen
  <2> QED BY <2>2, <2>3
<1>5. CASE ~CloseBegin /\ ~(\E c \in Conns : CloseConn(c))
  <2>1. UNCHANGED <<live, closed>>
    BY <1>5 DEF CloseStep, CloseSwap, FoundEmpty, DrainWaiter,
       ShutQueue, DrainIdle, ShutIdle, connVars, closeVars
  <2> QED BY <1>1, <2>1, Unseen
<1> QED BY <1>3, <1>4, <1>5

LEMMA LedgerStep ==
    ASSUME TypeInv, CloserInv, NobodyWaits, OwnInv, [Next]_vars
    PROVE  [Ledger!Next]_(Ledger!ledger)
<1>1. CASE UNCHANGED vars
  BY <1>1, Unseen DEF vars, connVars, closeVars, locals
<1>2. CASE \E p \in Procs : CallStep(p) \/ UserStep(p)
  BY <1>2, LedgerCall
<1>3. CASE CloseBegin \/ CloseStep
  BY <1>3, LedgerClose
<1>4. CASE \E c \in Conns : Expire(c)
  <2>1. UNCHANGED <<pc, frame, kind, live, closed, panic>>
    BY <1>4 DEF Expire, closeVars, locals
  <2> QED BY <2>1, Unseen
<1> QED BY <1>1, <1>2, <1>3, <1>4 DEF Next, Halted

LEMMA LedgerInit == Init => Ledger!Init
BY DEF Init, Ledger!Init, ConnState, Borrowers

\* Where nobody ever waits, Get, Put and Close implement the ledger: every step
\* of theirs makes, lends, takes back or discards one connection as the ledger
\* allows it, or does nothing a borrower could notice.
THEOREM LedgerKept ==
    ASSUME MaxConnections = 0
    PROVE  Spec => LedgerSpec
<1>1. TypeInv /\ CloserInv /\ NobodyWaits /\ [Next]_vars => NobodyWaits'
  BY NobodyNext
<1>2. TypeInv /\ CloserInv /\ NobodyWaits /\ OwnInv /\ [Next]_vars => OwnInv'
  BY OwnNext, LentNext DEF OwnInv
<1>3. TypeInv /\ CloserInv /\ NobodyWaits /\ OwnInv /\ [Next]_vars
        => [Ledger!Next]_(Ledger!ledger)
  BY LedgerStep
<1> QED BY <1>1, <1>2, <1>3, LedgerInit, TypeInit, TypeStep, CloserInit, CloserStep,
           NobodyInit, OwnInit, PTL DEF Spec, LedgerSpec, Ledger!Spec


=============================================================================
