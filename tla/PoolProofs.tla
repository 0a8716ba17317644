----------------------------- MODULE PoolProofs -----------------------------
(* Proofs about Pool for every value of its constants: the type invariant  *)
(* and the bound on the number of connections.                             *)
EXTENDS PoolProperties, FiniteSetTheorems, SequenceTheorems, TLAPS

-----------------------------------------------------------------------------
(* What the locals of a call are worth at each control point.              *)

Trying    == {"poll", "vet", "count", "acquire", "admit", "dial"}
Returning == {"put", "mark", "send", "notify", "retire", "shut"}
Carrying  == {"vet", "take", "held"} \cup Returning

\* The locals f of a call at label l.  An attempt is counted once and only by a
\* call that has one left; likewise a mismatch.  A call that carries a
\* connection knows which, and starts every notification at the first queue.
\* What a borrower holds it holds outside any call.
LocalsOK(l, f) ==
    /\ l \in Trying => f.attempts < MaxAttempts
    /\ l \in Trying \cup {"check"} \/ (l \in Returning /\ f.ret = "check")
        => f.mismatches < MaxMismatches
    /\ l \in Carrying => f.conn \in Conns
    /\ l \notin {"notify", "dead"} => f.stage = 1
    /\ l = "held" => f.ret = "idle"

\* A notification never looks beyond the last queue of its connection.
StagesOK ==
    \A p \in Procs :
        pc[p] = "notify" => frame[p].stage <= Len(Targets(kind[frame[p].conn]))

LocalsInv == \A p \in Procs : LocalsOK(pc[p], frame[p])

TypeInv == TypeOK /\ LocalsInv /\ StagesOK
CallInv == CallsOK /\ LocalsInv /\ StagesOK
DataOK  == ConnectionsOK /\ QueuesOK /\ CloseOK

-----------------------------------------------------------------------------
(* Lemmas about the steps goroutines are made of.                          *)

\* A connection is offered to one, two or three queues; each one is a queue.
LEMMA TargetsType ==
    ASSUME NEW k
    PROVE  Targets(k) \in Seq(Queues) /\ Len(Targets(k)) \in 1..3
<1> DEFINE byProto == IF k.proto \in Protocols THEN <<k.proto>> ELSE <<>>
           byVersion == IF k.ip \in IPVersions THEN <<k.ip>> ELSE <<>>
<1>1. ASSUME NEW x \in Queues
      PROVE  <<x>> \in Seq(Queues) /\ Len(<<x>>) = 1
  <2>1. <<x>> \in Seq(Queues)
    BY <1>1
  <2>2. Len(<<x>>) = 1
    OBVIOUS
  <2> QED BY <2>1, <2>2
<1>2. <<>> \in Seq(Queues) /\ Len(<<>>) = 0
  BY EmptySeq
<1>3. byProto \in Seq(Queues) /\ Len(byProto) \in 0..1
  <2>1. CASE k.proto \in Protocols
    <3>1. k.proto \in Queues
      BY <2>1 DEF Queues
    <3> QED BY <2>1, <3>1, <1>1
  <2>2. CASE k.proto \notin Protocols
    BY <2>2, <1>2
  <2> QED BY <2>1, <2>2
<1>4. byVersion \in Seq(Queues) /\ Len(byVersion) \in 0..1
  <2>1. CASE k.ip \in IPVersions
    <3>1. k.ip \in Queues
      BY <2>1 DEF Queues
    <3> QED BY <2>1, <3>1, <1>1
  <2>2. CASE k.ip \notin IPVersions
    BY <2>2, <1>2
  <2> QED BY <2>1, <2>2
<1> DEFINE t == <<"Any">>
           s == byProto \o byVersion
<1>5. t \in Seq(Queues) /\ Len(t) = 1
  BY <1>1 DEF Queues
<1> HIDE DEF byProto, byVersion, s, t
<1>6. s \in Seq(Queues) /\ Len(s) \in 0..2
  BY <1>3, <1>4, ConcatProperties DEF s
<1>7. s \o t \in Seq(Queues) /\ Len(s \o t) \in 1..3
  BY <1>5, <1>6, ConcatProperties
<1> QED BY <1>7 DEF Targets, byProto, byVersion, s, t

\* Moving goroutine p to label l with locals g, whatever p carries.
LEMMA MoveType ==
    ASSUME TypeInv, NEW p \in Procs, NEW l \in Labels, NEW g \in Frames,
           l \notin {"notify", "dead"}, LocalsOK(l, g), Move(p, l, g),
           \A c \in Conns : kind[c] = NoKind \/ kind'[c] = kind[c]
    PROVE  CallInv'
<1>1. CallsOK'
  BY DEF Move, Goto, TypeInv, TypeOK, CallsOK
<1>2. \A q \in Procs : /\ q # p => pc'[q] = pc[q] /\ frame'[q] = frame[q]
                       /\ pc'[p] = l /\ frame'[p] = g
  BY DEF Move, Goto, TypeInv, TypeOK, CallsOK
<1>3. LocalsInv'
  BY <1>2 DEF TypeInv, LocalsInv, LocalsOK
<1>4. ASSUME NEW q \in Procs, pc'[q] = "notify"
      PROVE  frame'[q].stage <= Len(Targets(kind'[frame'[q].conn]))
  <2>1. q # p /\ pc[q] = "notify" /\ frame'[q] = frame[q]
    BY <1>2, <1>4
  <2>2. frame[q].conn \in Conns /\ frame[q].stage \in Nat
    <3>1. frame[q].conn \in Conns
      BY <2>1 DEF TypeInv, LocalsInv, LocalsOK, Carrying, Returning
    <3>2. frame[q].stage \in Nat
      BY DEF TypeInv, TypeOK, CallsOK, Frames
    <3> QED BY <3>1, <3>2
  <2>3. frame[q].stage <= Len(Targets(kind[frame[q].conn]))
    BY <2>1 DEF TypeInv, StagesOK
  <2>4. kind[frame[q].conn] = NoKind => Len(Targets(kind[frame[q].conn])) = 1
    <3> Targets(NoKind) = <<"Any">>
      BY DEF Targets, NoKind, Protocols, IPVersions
    <3> QED OBVIOUS
  <2> QED BY <2>1, <2>2, <2>3, <2>4, TargetsType
<1> QED BY <1>1, <1>3, <1>4 DEF CallInv, StagesOK

\* The same for the label at which a connection is offered to the waiters.
LEMMA NotifyType ==
    ASSUME TypeInv, NEW p \in Procs, NEW g \in Frames, LocalsOK("notify", g),
           \/ Move(p, "notify", g)
           \/ Goto(p, "notify") /\ frame' = frame /\ g = frame[p],
           g.stage <= Len(Targets(kind[g.conn])), kind' = kind
    PROVE  CallInv'
<1>1. CallsOK'
  BY DEF Move, Goto, TypeInv, TypeOK, CallsOK, Labels
<1>2. \A q \in Procs : /\ q # p => pc'[q] = pc[q] /\ frame'[q] = frame[q]
                       /\ pc'[p] = "notify" /\ frame'[p] = g
  BY DEF Move, Goto, TypeInv, TypeOK, CallsOK
<1>3. LocalsInv'
  BY <1>2 DEF TypeInv, LocalsInv, LocalsOK
<1>4. StagesOK'
  BY <1>2 DEF TypeInv, StagesOK
<1> QED BY <1>1, <1>3, <1>4 DEF CallInv

LEMMA CallsUnchanged ==
    ASSUME TypeInv, UNCHANGED <<pc, frame, kind>>
    PROVE  CallInv'
BY DEF TypeInv, TypeOK, CallInv, CallsOK, LocalsInv, LocalsOK, StagesOK

LEMMA NoFrameType == NoFrame \in Frames
BY PoolAssumption DEF NoFrame, Frames, Queues

\* Counting an attempt, and a mismatch, changes nothing else.
LEMMA AgainType ==
    ASSUME NEW f \in Frames, f.attempts < MaxAttempts
    PROVE  /\ Again(f) \in Frames
           /\ Again(f).req = f.req /\ Again(f).conn = f.conn /\ Again(f).ret = f.ret
           /\ Again(f).stage = f.stage /\ Again(f).mismatches = f.mismatches
<1>1. CASE f.req = "Any"
  BY <1>1 DEF Again
<1>2. CASE f.req # "Any"
  <2>1. Again(f) = [f EXCEPT !.attempts = @ + 1]
    BY <1>2 DEF Again
  <2> QED BY <2>1, PoolAssumption DEF Frames
<1> QED BY <1>1, <1>2

LEMMA MisfitType ==
    ASSUME NEW f \in Frames, f.mismatches < MaxMismatches
    PROVE  /\ Misfit(f) \in Frames
           /\ Misfit(f).req = f.req /\ Misfit(f).conn = f.conn
           /\ Misfit(f).stage = f.stage /\ Misfit(f).attempts = f.attempts
BY PoolAssumption DEF Frames, Misfit

\* Where a call goes after the Put of a connection it did not want.
LEMMA BackType ==
    ASSUME NEW f \in Frames, f.conn \in Conns, f.stage = 1
    PROVE  /\ [f EXCEPT !.ret = Back(f)] \in Frames
           /\ LocalsOK("put", [f EXCEPT !.ret = Back(f)])
<1> DEFINE g == [f EXCEPT !.ret = Back(f)]
<1>1. Back(f) \in {"idle", "check"} /\ (Back(f) = "check" => f.mismatches < MaxMismatches)
  BY PoolAssumption DEF Back, Frames
<1>2. /\ g \in Frames /\ g.conn = f.conn /\ g.stage = 1
      /\ g.ret = Back(f) /\ g.mismatches = f.mismatches
  BY <1>1 DEF Frames
<1> HIDE DEF g
<1>3. LocalsOK("put", g)
  BY <1>1, <1>2 DEF LocalsOK, Trying, Returning, Carrying
<1> QED BY <1>2, <1>3 DEF g

LEMMA GotoType ==
    ASSUME TypeInv, NEW p \in Procs, NEW l \in Labels, l \notin {"notify", "dead"},
           LocalsOK(l, frame[p]), Goto(p, l), frame' = frame,
           \A c \in Conns : kind[c] = NoKind \/ kind'[c] = kind[c]
    PROVE  CallInv'
<1>1. frame[p] \in Frames /\ frame = [frame EXCEPT ![p] = frame[p]]
  BY DEF TypeInv, TypeOK, CallsOK
<1>2. Move(p, l, frame[p])
  BY <1>1 DEF Move
<1> QED BY <1>1, <1>2, MoveType

LEMMA LeaveType ==
    ASSUME TypeInv, NEW p \in Procs, Leave(p), kind' = kind
    PROVE  CallInv'
<1>1. Move(p, "idle", NoFrame)
  BY DEF Leave, Move
<1>2. LocalsOK("idle", NoFrame)
  BY DEF LocalsOK, NoFrame, Trying, Returning, Carrying
<1> QED BY <1>1, <1>2, NoFrameType, MoveType DEF Labels

\* A nested Put or closeConnection leaves its caller as it should find itself.
LEMMA ResumeType ==
    ASSUME TypeInv, NEW p \in Procs, pc[p] \in Returning, Resume(p), kind' = kind
    PROVE  CallInv'
<1> DEFINE g == [frame[p] EXCEPT !.conn = None, !.stage = 1]
<1>1. frame[p] \in Frames /\ LocalsOK(pc[p], frame[p])
  BY DEF TypeInv, TypeOK, CallsOK, LocalsInv
<1>2. CASE frame[p].ret = "idle"
  BY <1>2, LeaveType DEF Resume
<1>3. CASE frame[p].ret # "idle"
  <2>1. frame[p].ret \in {"check", "await"}
    BY <1>1, <1>3 DEF Frames
  <2>2. g \in Frames /\ g.stage = 1 /\ g.mismatches = frame[p].mismatches
    <3> DEFINE h == [frame[p] EXCEPT !.conn = None]
    <3>1. h \in Frames /\ h.mismatches = frame[p].mismatches
      BY <1>1 DEF Frames
    <3>2. g = [h EXCEPT !.stage = 1]
      OBVIOUS
    <3> HIDE DEF h, g
    <3> QED BY <3>1, <3>2 DEF Frames
  <2>3. LocalsOK(frame[p].ret, g)
    BY <1>1, <2>1, <2>2 DEF LocalsOK, Trying, Returning, Carrying
  <2>4. Move(p, frame[p].ret, g)
    BY <1>3 DEF Resume
  <2> HIDE DEF g
  <2> QED BY <2>1, <2>2, <2>3, <2>4, MoveType DEF Labels
<1> QED BY <1>2, <1>3

\* A failed creation goes on with one attempt and one failure more.
LEMMA CreateFailedType ==
    ASSUME TypeInv, NEW p \in Procs, pc[p] \in {"acquire", "admit", "dial"},
           NEW b \in BOOLEAN, CreateFailed(p, b), kind' = kind
    PROVE  CallInv'
<1> DEFINE f == [Again(frame[p]) EXCEPT !.failures = @ + 1]
<1>1. frame[p] \in Frames /\ LocalsOK(pc[p], frame[p])
  BY DEF TypeInv, TypeOK, CallsOK, LocalsInv
<1>2. CASE frame[p].req = "Any" /\ b
  <2>1. Goto(p, "join") /\ frame' = frame
    BY <1>2 DEF CreateFailed, Protocols
  <2>2. LocalsOK("join", frame[p])
    BY <1>1 DEF LocalsOK, Trying, Returning, Carrying
  <2> QED BY <2>1, <2>2, GotoType DEF Labels
<1>3. CASE /\ ~(frame[p].req = "Any" /\ b)
           /\ frame[p].req \in Protocols /\ f.failures < MaxCreateFails
  <2>1. Move(p, "check", f) \/ Leave(p)
    BY <1>3 DEF CreateFailed
  <2>2. f \in Frames /\ f.stage = frame[p].stage /\ f.mismatches = frame[p].mismatches
    <3> DEFINE h == Again(frame[p])
    <3>1. f = [h EXCEPT !.failures = @ + 1]
      OBVIOUS
    <3>2. /\ h \in Frames
          /\ h.stage = frame[p].stage /\ h.mismatches = frame[p].mismatches
      BY <1>1, AgainType DEF LocalsOK, Trying
    <3> HIDE DEF h
    <3>3. h.failures + 1 < MaxCreateFails
      BY <1>3, <3>1, <3>2 DEF Frames
    <3> QED BY <3>1, <3>2, <3>3, PoolAssumption DEF Frames
  <2>3. LocalsOK("check", f)
    BY <1>1, <2>2 DEF LocalsOK, Trying, Returning, Carrying
  <2> HIDE DEF f
  <2> QED BY <2>1, <2>2, <2>3, MoveType, LeaveType DEF Labels
<1>4. CASE /\ ~(frame[p].req = "Any" /\ b)
           /\ ~(frame[p].req \in Protocols /\ f.failures < MaxCreateFails)
  <2>1. Leave(p)
    BY <1>4 DEF CreateFailed
  <2> QED BY <2>1, LeaveType
<1> QED BY <1>2, <1>3, <1>4

\* Steps that leave everything but the calls alone.
LEMMA DataUnchanged ==
    ASSUME DataOK, UNCHANGED <<registry, connVars, chanVars, waitVars, closeVars>>
    PROVE  DataOK'
BY DEF DataOK, ConnectionsOK, QueuesOK, CloseOK,
       registry, connVars, chanVars, waitVars, closeVars

LEMMA Parts == /\ TypeInv <=> DataOK /\ CallInv
               /\ TypeInv' <=> DataOK' /\ CallInv'
BY DEF TypeInv, TypeOK, DataOK, CallInv

-----------------------------------------------------------------------------
(* The steps of Get.                                                       *)

LEMMA GetType ==
    ASSUME TypeInv, NEW p \in Procs, GetStep(p)
    PROVE  TypeInv'
<1> DEFINE f == frame[p]
<1>1. /\ DataOK
      /\ f \in Frames /\ LocalsOK(pc[p], f)
      /\ f.attempts \in 0..MaxAttempts /\ f.mismatches \in 0..MaxMismatches
  BY Parts DEF CallInv, CallsOK, LocalsInv, Frames
<1> USE DEF Labels
<1>2. CASE LoopHead(p)
  <2>1. CASE closed \/ f.attempts = MaxAttempts
    <3>1. Leave(p)
      BY <1>2, <2>1 DEF LoopHead
    <3> QED BY <1>1, <1>2, <3>1, LeaveType, DataUnchanged, Parts DEF LoopHead, connVars
  <2>2. CASE ~(closed \/ f.attempts = MaxAttempts)
    <3>1. pc[p] = "check" /\ Goto(p, "poll") /\ frame' = frame
      BY <1>2, <2>2 DEF LoopHead
    <3>2. LocalsOK("poll", f)
      BY <1>1, <2>2, <3>1, PoolAssumption DEF LocalsOK, Trying, Returning, Carrying
    <3> QED BY <1>1, <1>2, <3>1, <3>2, GotoType, DataUnchanged, Parts
            DEF LoopHead, connVars
  <2> QED BY <2>1, <2>2
<1>3. ASSUME NEW ch \in Channels, PollIdle(p, ch)
      PROVE  TypeInv'
  <2> DEFINE g == [f EXCEPT !.conn = Head(idle[ch])]
  <2>1. Head(idle[ch]) \in Conns /\ Tail(idle[ch]) \in Seq(Conns)
    BY <1>1, <1>3 DEF PollIdle, DataOK, QueuesOK
  <2>2. DataOK'
    BY <1>1, <1>3, <2>1 DEF PollIdle, DataOK, ConnectionsOK, QueuesOK, CloseOK,
       registry, connVars, waitVars, closeVars
  <2>3. /\ g \in Frames /\ g.conn = Head(idle[ch]) /\ g.attempts = f.attempts
        /\ g.mismatches = f.mismatches /\ g.stage = f.stage
    BY <1>1, <2>1 DEF Frames
  <2>4. pc[p] = "poll" /\ Move(p, "vet", g) /\ kind' = kind
    BY <1>3 DEF PollIdle, connVars
  <2>5. LocalsOK("vet", g)
    BY <1>1, <2>1, <2>3, <2>4 DEF LocalsOK, Trying, Returning, Carrying
  <2> HIDE DEF g
  <2> QED BY <2>2, <2>3, <2>4, <2>5, MoveType, Parts
<1>4. CASE PollClosed(p)
  <2>1. CASE f.req \in Protocols
    <3>1. pc[p] = "poll" /\ Move(p, "check", Again(f))
      BY <1>4, <2>1 DEF PollClosed
    <3>2. Again(f) \in Frames /\ LocalsOK("check", Again(f))
      BY <1>1, <3>1, AgainType DEF LocalsOK, Trying, Returning, Carrying
    <3> QED BY <1>1, <1>4, <3>1, <3>2, MoveType, DataUnchanged, Parts
            DEF PollClosed, connVars
  <2>2. CASE f.req \notin Protocols
    <3>1. pc[p] = "poll" /\ Goto(p, "count") /\ frame' = frame
      BY <1>4, <2>2 DEF PollClosed
    <3>2. LocalsOK("count", f)
      BY <1>1, <3>1 DEF LocalsOK, Trying, Returning, Carrying
    <3> QED BY <1>1, <1>4, <3>1, <3>2, GotoType, DataUnchanged, Parts
            DEF PollClosed, connVars
  <2> QED BY <2>1, <2>2
<1>5. CASE PollDefault(p)
  <2>1. pc[p] = "poll" /\ Goto(p, "count") /\ frame' = frame
    BY <1>5 DEF PollDefault
  <2>2. LocalsOK("count", f)
    BY <1>1, <2>1 DEF LocalsOK, Trying, Returning, Carrying
  <2> QED BY <1>1, <1>5, <2>1, <2>2, GotoType, DataUnchanged, Parts
          DEF PollDefault, connVars
<1>6. CASE VetInvalid(p)
  <2> DEFINE h == Again(f)
             g == [h EXCEPT !.ret = "check"]
  <2>1. pc[p] = "vet" /\ Move(p, "retire", g)
    BY <1>6 DEF VetInvalid
  <2>2. h \in Frames /\ h.conn = f.conn /\ h.stage = f.stage /\ h.mismatches = f.mismatches
    BY <1>1, <2>1, AgainType DEF LocalsOK, Trying
  <2> HIDE DEF h
  <2>3. g \in Frames /\ LocalsOK("retire", g)
    <3>1. /\ g \in Frames /\ g.conn = f.conn /\ g.stage = f.stage
          /\ g.mismatches = f.mismatches
      BY <2>2 DEF Frames
    <3> HIDE DEF g
    <3> QED BY <1>1, <2>1, <3>1 DEF LocalsOK, Trying, Returning, Carrying
  <2> HIDE DEF g
  <2> QED BY <1>1, <1>6, <2>1, <2>3, MoveType, DataUnchanged, Parts
          DEF VetInvalid, connVars
<1>7. CASE VetMismatch(p)
  <2> DEFINE h == Again(f)
             k == IF h.req \in IPVersions THEN Misfit(h) ELSE h
             g == [k EXCEPT !.ret = Back(k)]
  <2>1. pc[p] = "vet" /\ Move(p, "put", g)
    BY <1>7 DEF VetMismatch
  <2>2. h \in Frames /\ h.conn = f.conn /\ h.stage = f.stage /\ h.mismatches = f.mismatches
    BY <1>1, <2>1, AgainType DEF LocalsOK, Trying
  <2>3. k \in Frames /\ k.conn = f.conn /\ k.stage = f.stage
    <3> HIDE DEF h
    <3>1. h.mismatches < MaxMismatches
      BY <1>1, <2>1, <2>2 DEF LocalsOK, Trying
    <3> QED BY <2>2, <3>1, MisfitType
  <2> HIDE DEF k
  <2>4. k.conn \in Conns /\ k.stage = 1
    BY <1>1, <2>1, <2>3 DEF LocalsOK, Carrying
  <2>5. g \in Frames /\ LocalsOK("put", g)
    BY <2>3, <2>4, BackType
  <2> QED BY <1>1, <1>7, <2>1, <2>5, MoveType, DataUnchanged, Parts
          DEF VetMismatch, connVars
<1>8. CASE VetAccept(p)
  <2>1. pc[p] = "vet" /\ Goto(p, "take") /\ frame' = frame
    BY <1>8 DEF VetAccept
  <2>2. LocalsOK("take", f)
    BY <1>1, <2>1 DEF LocalsOK, Trying, Returning, Carrying
  <2> QED BY <1>1, <1>8, <2>1, <2>2, GotoType, DataUnchanged, Parts
          DEF VetAccept, connVars
<1>9. CASE Take(p)
  <2> DEFINE h == [NoFrame EXCEPT !.req = f.req]
             g == [h EXCEPT !.conn = f.conn]
  <2>1. pc[p] = "take" /\ f.conn \in Conns
    BY <1>1, <1>9 DEF Take, LocalsOK, Carrying
  <2>2. DataOK'
    BY <1>1, <1>9, <2>1 DEF Take, DataOK, ConnectionsOK, QueuesOK, CloseOK,
       registry, chanVars, waitVars, closeVars
  <2>3. g \in Frames /\ LocalsOK("held", g)
    <3>1. h \in Frames /\ h.stage = 1 /\ h.ret = "idle"
      BY <1>1, NoFrameType DEF Frames, NoFrame
    <3> HIDE DEF h
    <3>2. g \in Frames /\ g.stage = 1 /\ g.ret = "idle" /\ g.conn \in Conns
      BY <2>1, <3>1 DEF Frames
    <3> HIDE DEF g
    <3> QED BY <3>2 DEF LocalsOK, Trying, Returning, Carrying
  <2>4. Move(p, "held", g) /\ kind' = kind
    BY <1>9 DEF Take
  <2> HIDE DEF g
  <2> QED BY <2>2, <2>3, <2>4, MoveType, Parts
<1>10. CASE Count(p)
  <2>1. PICK l \in {"join", "acquire"} : Goto(p, l)
    BY <1>10 DEF Count
  <2>2. pc[p] = "count" /\ frame' = frame
    BY <1>10 DEF Count
  <2>3. LocalsOK(l, f)
    BY <1>1, <2>2 DEF LocalsOK, Trying, Returning, Carrying
  <2> QED BY <1>1, <1>10, <2>1, <2>2, <2>3, GotoType, DataUnchanged, Parts
          DEF Count, connVars
<1> QED BY <1>2, <1>3, <1>4, <1>5, <1>6, <1>7, <1>8, <1>9, <1>10 DEF GetStep

-----------------------------------------------------------------------------
(* The steps of createConnection.                                          *)

LEMMA CreateType ==
    ASSUME TypeInv, NEW p \in Procs, CreateStep(p)
    PROVE  TypeInv'
<1> DEFINE f == frame[p]
<1>1. DataOK /\ f \in Frames /\ LocalsOK(pc[p], f)
  BY Parts DEF CallInv, CallsOK, LocalsInv
<1> USE DEF Labels
<1>2. CASE Acquire(p)
  <2>1. DataOK'
    BY <1>1, <1>2 DEF Acquire, DataOK, ConnectionsOK, QueuesOK, CloseOK,
       connVars, chanVars, waitVars, closeVars
  <2>2. pc[p] = "acquire" /\ kind' = kind
    BY <1>2 DEF Acquire, connVars
  <2>3. CASE closed
    <3>1. CreateFailed(p, FALSE)
      BY <1>2, <2>3 DEF Acquire
    <3> QED BY <2>1, <2>2, <3>1, CreateFailedType, Parts
  <2>4. CASE ~closed
    <3>1. Goto(p, "admit") /\ frame' = frame
      BY <1>2, <2>4 DEF Acquire
    <3>2. LocalsOK("admit", f)
      BY <1>1, <2>2 DEF LocalsOK, Trying, Returning, Carrying
    <3> QED BY <2>1, <2>2, <3>1, <3>2, GotoType, Parts DEF Creating
  <2> QED BY <2>3, <2>4
<1>3. CASE AcquireTimeout(p)
  BY <1>1, <1>3, CreateFailedType, DataUnchanged, Parts DEF AcquireTimeout, connVars
<1>4. CASE Admit(p)
  <2>1. DataOK'
    BY <1>1, <1>4 DEF Admit, DataOK, ConnectionsOK, QueuesOK, CloseOK,
       connVars, chanVars, waitVars, closeVars
  <2>2. pc[p] = "admit" /\ kind' = kind
    BY <1>4 DEF Admit, connVars
  <2>3. CASE AtLimit
    <3>1. CreateFailed(p, TRUE)
      BY <1>4, <2>3 DEF Admit
    <3> QED BY <2>1, <2>2, <3>1, CreateFailedType, Parts
  <2>4. CASE ~AtLimit
    <3>1. Goto(p, "dial") /\ frame' = frame
      BY <1>4, <2>4 DEF Admit
    <3>2. LocalsOK("dial", f)
      BY <1>1, <2>2 DEF LocalsOK, Trying, Returning, Carrying
    <3> QED BY <2>1, <2>2, <3>1, <3>2, GotoType, Parts DEF Creating
  <2> QED BY <2>3, <2>4
<1>5. CASE DialFails(p)
  <2>1. DataOK'
    BY <1>1, <1>5 DEF DialFails, DataOK, ConnectionsOK, QueuesOK, CloseOK,
       connVars, chanVars, waitVars, closeVars
  <2> QED BY <1>5, <2>1, CreateFailedType, Parts DEF DialFails, connVars
<1>6. ASSUME NEW c \in Conns, NEW k \in DialKinds, Register(p, c, k)
      PROVE  TypeInv'
  <2>1. DataOK'
    BY <1>1, <1>6, PoolAssumption DEF Register, DataOK, ConnectionsOK, QueuesOK,
       CloseOK, chanVars, waitVars, closeVars
  <2>2. pc[p] = "dial" /\ \A d \in Conns : kind[d] = NoKind \/ kind'[d] = kind[d]
    BY <1>1, <1>6 DEF Register, DataOK, ConnectionsOK
  <2> DEFINE t == [f EXCEPT !.conn = c]
             h == Again(t)
             m == Misfit(h)
             g == [m EXCEPT !.ret = Back(m)]
  <2>3. /\ t \in Frames /\ t.conn = c /\ t.stage = 1
        /\ t.attempts < MaxAttempts /\ t.mismatches < MaxMismatches
    BY <1>1, <2>2 DEF Frames, LocalsOK, Trying
  <2>4. CASE Move(p, "take", t)
    <3> HIDE DEF t
    <3>1. LocalsOK("take", t)
      BY <2>3 DEF LocalsOK, Trying, Returning, Carrying
    <3> QED BY <2>1, <2>2, <2>3, <2>4, <3>1, MoveType, Parts
  <2>5. CASE Move(p, "put", g)
    <3> HIDE DEF t
    <3>1. h \in Frames /\ h.conn = c /\ h.stage = 1 /\ h.mismatches < MaxMismatches
      BY <2>3, AgainType
    <3> HIDE DEF h
    <3>2. m \in Frames /\ m.conn = c /\ m.stage = 1
      BY <3>1, MisfitType
    <3> HIDE DEF m
    <3>3. g \in Frames /\ LocalsOK("put", g)
      BY <3>2, BackType
    <3> HIDE DEF g
    <3> QED BY <2>1, <2>2, <2>5, <3>3, MoveType, Parts
  <2>6. Sort(p, c, k)
    BY <1>6 DEF Register
  <2> QED BY <2>4, <2>5, <2>6 DEF Sort
<1> QED BY <1>2, <1>3, <1>4, <1>5, <1>6 DEF CreateStep

-----------------------------------------------------------------------------
(* The steps of Put and closeConnection.                                   *)

LEMMA PutType ==
    ASSUME TypeInv, NEW p \in Procs, PutStep(p), ~PanicSend(p)
    PROVE  TypeInv'
<1> DEFINE f == frame[p]
<1>1. DataOK /\ f \in Frames /\ LocalsOK(pc[p], f)
  BY Parts DEF CallInv, CallsOK, LocalsInv
<1> USE DEF Labels
<1>2. CASE PutCheck(p)
  <2>1. pc[p] = "put" /\ kind' = kind /\ frame' = frame
    BY <1>2 DEF PutCheck, connVars
  <2>2. PICK l \in {"retire", "mark"} : Goto(p, l)
    BY <1>2 DEF PutCheck
  <2>3. DataOK'
    BY <1>1, <1>2 DEF PutCheck, DataOK, ConnectionsOK, QueuesOK, CloseOK,
       registry, connVars, chanVars, waitVars, closeVars
  <2>4. LocalsOK(l, f)
    BY <1>1, <2>1 DEF LocalsOK, Trying, Returning, Carrying
  <2> QED BY <2>1, <2>2, <2>3, <2>4, GotoType, Parts
<1>3. CASE PutIdle(p)
  <2>1. pc[p] = "mark" /\ kind' = kind /\ frame' = frame /\ Goto(p, "send")
    BY <1>3 DEF PutIdle
  <2>2. DataOK'
    BY <1>1, <1>3 DEF PutIdle, DataOK, ConnectionsOK, QueuesOK, CloseOK,
       registry, chanVars, waitVars, closeVars
  <2>3. LocalsOK("send", f)
    BY <1>1, <2>1 DEF LocalsOK, Trying, Returning, Carrying
  <2> QED BY <2>1, <2>2, <2>3, GotoType, Parts
<1>4. CASE PutSend(p)
  <2>1. pc[p] = "send" /\ kind' = kind /\ frame' = frame
    BY <1>4 DEF PutSend, connVars
  <2>2. f.conn \in Conns /\ f.stage = 1
    BY <1>1, <2>1 DEF LocalsOK, Carrying, Returning
  <2>3. DataOK'
    <3> DEFINE ch == ChannelOf(f.conn)
    <3>1. Append(idle[ch], f.conn) \in Seq(Conns)
      BY <1>1, <2>2 DEF DataOK, QueuesOK, ChannelOf, Channels
    <3>2. idle' = idle \/ idle' = [idle EXCEPT ![ch] = Append(idle[ch], f.conn)]
      BY <1>4 DEF PutSend
    <3> HIDE DEF ch
    <3>3. idle' \in [Channels -> Seq(Conns)]
      BY <1>1, <3>1, <3>2 DEF DataOK, QueuesOK
    <3> QED BY <1>1, <1>4, <3>3 DEF PutSend, DataOK, ConnectionsOK, QueuesOK, CloseOK,
            registry, connVars, waitVars, closeVars
  <2>4. CASE Goto(p, "retire")
    <3>1. LocalsOK("retire", f)
      BY <1>1, <2>1 DEF LocalsOK, Trying, Returning, Carrying
    <3> QED BY <2>1, <2>3, <2>4, <3>1, GotoType, Parts
  <2>5. CASE Goto(p, "notify")
    <3>1. LocalsOK("notify", f)
      BY <1>1, <2>1 DEF LocalsOK, Trying, Returning, Carrying
    <3>2. f.stage <= Len(Targets(kind[f.conn]))
      <4> DEFINE n == Len(Targets(kind[f.conn]))
      <4>1. n \in 1..3
        BY TargetsType
      <4> HIDE DEF n
      <4>2. f.stage <= n
        BY <2>2, <4>1
      <4> QED BY <4>2 DEF n
    <3> QED BY <1>1, <2>1, <2>3, <2>5, <3>1, <3>2, NotifyType, Parts
  <2> QED BY <1>4, <2>4, <2>5 DEF PutSend
<1>5. CASE NotifyWaiter(p)
  <2> DEFINE q == Targets(kind[f.conn])[f.stage]
             w == Head(waitQueue[q])
  <2>1. pc[p] = "notify" /\ kind' = kind
    BY <1>5 DEF NotifyWaiter, connVars
  <2>2. f.conn \in Conns /\ q \in Queues
    <3>1. f.conn \in Conns
      BY <1>1, <2>1 DEF LocalsOK, Carrying, Returning
    <3>2. f.stage \in 1..Len(Targets(kind[f.conn]))
      BY <1>1, <2>1, TargetsType DEF TypeInv, StagesOK, Frames
    <3> QED BY <3>1, <3>2, TargetsType, ElementOfSeq
  <2>3. DataOK'
    <3> HIDE DEF q
    <3>1. Tail(waitQueue[q]) \in Seq(Procs \cup {Dead})
      BY <1>1, <1>5, <2>2 DEF NotifyWaiter, DataOK, QueuesOK, q
    <3>2. waitQueue' = [waitQueue EXCEPT ![q] = Tail(@)]
      BY <1>5 DEF NotifyWaiter, q
    <3>3. mail' = mail \/ mail' = [mail EXCEPT ![w] = f.conn]
      BY <1>5 DEF NotifyWaiter, q
    <3> HIDE DEF w
    <3>4. QueuesOK'
      BY <1>1, <1>5, <2>2, <3>1, <3>2, <3>3 DEF NotifyWaiter, DataOK, QueuesOK, chanVars
    <3> QED BY <1>1, <1>5, <3>4 DEF NotifyWaiter, DataOK, ConnectionsOK, CloseOK,
            registry, connVars, closeVars
  <2>4. CASE w = Dead
    <3>1. pc' = pc /\ frame' = frame
      BY <1>5, <2>4 DEF NotifyWaiter, locals
    <3> QED BY <2>1, <2>3, <3>1, CallsUnchanged, Parts
  <2>5. CASE w # Dead
    <3>1. Resume(p)
      BY <1>5, <2>5 DEF NotifyWaiter
    <3> QED BY <2>1, <2>3, <3>1, ResumeType, Parts DEF Returning
  <2> QED BY <2>4, <2>5
<1>6. CASE NotifyNobody(p)
  <2>1. pc[p] = "notify" /\ kind' = kind /\ DataOK'
    BY <1>1, <1>6, DataUnchanged DEF NotifyNobody, connVars
  <2>2. CASE f.stage = Len(Targets(kind[f.conn]))
    <3>1. Resume(p)
      BY <1>6, <2>2 DEF NotifyNobody
    <3> QED BY <2>1, <3>1, ResumeType, Parts DEF Returning
  <2>3. CASE f.stage # Len(Targets(kind[f.conn]))
    <3> DEFINE g == [f EXCEPT !.stage = @ + 1]
    <3>1. Move(p, "notify", g)
      BY <1>6, <2>3 DEF NotifyNobody
    <3>2. f.stage + 1 <= Len(Targets(kind[f.conn])) /\ Len(Targets(kind[f.conn])) <= 3
      <4> DEFINE n == Len(Targets(kind[f.conn]))
      <4>1. n \in 1..3
        BY TargetsType
      <4>2. f.stage <= n /\ f.stage # n
        BY <2>1, <2>3 DEF TypeInv, StagesOK
      <4>3. f.stage \in 1..3
        BY <1>1 DEF Frames
      <4> HIDE DEF n, f
      <4>4. f.stage + 1 <= n /\ n <= 3
        BY <4>1, <4>2, <4>3
      <4> QED BY <4>4 DEF n
    <3>3. /\ g \in Frames /\ g.stage = f.stage + 1 /\ g.conn = f.conn
          /\ g.ret = f.ret /\ g.mismatches = f.mismatches
      BY <1>1, <3>2, TargetsType DEF Frames
    <3> HIDE DEF g
    <3>4. LocalsOK("notify", g)
      BY <1>1, <2>1, <3>3 DEF LocalsOK, Trying, Returning, Carrying
    <3> QED BY <2>1, <3>1, <3>2, <3>3, <3>4, NotifyType, Parts
  <2> QED BY <2>2, <2>3
<1>7. CASE NotifySpin(p)
  BY <1>1, <1>7, DataUnchanged, CallsUnchanged, Parts DEF NotifySpin, locals, connVars
<1>8. CASE Retire(p)
  <2>1. pc[p] = "retire" /\ kind' = kind /\ Goto(p, "shut") /\ frame' = frame
    BY <1>8 DEF Retire
  <2>2. LocalsOK("shut", f)
    BY <1>1, <2>1 DEF LocalsOK, Trying, Returning, Carrying
  <2>3. f.conn \in Conns
    BY <1>1, <2>1 DEF LocalsOK, Carrying, Returning
  <2>4. DataOK'
    BY <1>1, <1>8, <2>3 DEF Retire, DataOK, ConnectionsOK, QueuesOK, CloseOK,
       chanVars, waitVars, closeVars
  <2> QED BY <2>1, <2>2, <2>4, GotoType, Parts
<1>9. CASE Shut(p)
  <2>1. DataOK'
    BY <1>1, <1>9 DEF Shut, DataOK, ConnectionsOK, QueuesOK, CloseOK,
       registry, chanVars, waitVars, closeVars
  <2> QED BY <1>9, <2>1, ResumeType, Parts DEF Shut, Returning
<1> QED BY <1>2, <1>3, <1>4, <1>5, <1>6, <1>7, <1>8, <1>9 DEF PutStep

-----------------------------------------------------------------------------
(* The steps of a waiter, of Close and of the callers.                     *)

\* Marking the entries of a waiter as dead keeps the queues sequences.
LEMMA BuryType ==
    ASSUME QueuesOK, NEW p \in Procs
    PROVE  Bury(p) \in [Queues -> Seq(Procs \cup {Dead})]
<1>1. ASSUME NEW q \in Queues
      PROVE  [i \in DOMAIN waitQueue[q] |->
                IF waitQueue[q][i] = p THEN Dead ELSE waitQueue[q][i]]
                    \in Seq(Procs \cup {Dead})
  <2> DEFINE s == waitQueue[q]
  <2>1. s \in Seq(Procs \cup {Dead})
    BY <1>1 DEF QueuesOK
  <2>2. DOMAIN s = 1..Len(s) /\ Len(s) \in Nat
    BY <2>1, LenProperties
  <2>3. \A i \in 1..Len(s) : s[i] \in Procs \cup {Dead}
    BY <2>1, ElementOfSeq
  <2> HIDE DEF s
  <2>4. \A i \in 1..Len(s) :
            (IF s[i] = p THEN Dead ELSE s[i]) \in Procs \cup {Dead}
    BY <2>3
  <2>5. [i \in 1..Len(s) |-> IF s[i] = p THEN Dead ELSE s[i]] \in Seq(Procs \cup {Dead})
    BY <2>2, <2>4, IsASeq
  <2> QED BY <2>2, <2>5 DEF s
<1> QED BY <1>1 DEF Bury

LEMMA CrashType ==
    ASSUME TypeInv, NEW what, Crash(what),
           what \in {"send on closed idle channel", "send on closed wait queue",
                     "close of closed waitChan"}
    PROVE  TypeInv'
<1>1. DataOK'
  BY Parts DEF Crash, DataOK, ConnectionsOK, QueuesOK, CloseOK,
     registry, connVars, chanVars, waitVars
<1>2. pc' = [p \in Procs |-> "dead"] /\ frame' = frame
  BY DEF Crash
<1>3. CallsOK' /\ StagesOK'
  BY <1>2 DEF TypeInv, TypeOK, CallsOK, Labels, StagesOK
<1>4. LocalsInv'
  BY <1>2 DEF LocalsInv, LocalsOK, Trying, Returning, Carrying
<1> QED BY <1>1, <1>3, <1>4, Parts DEF CallInv

LEMMA WaitType ==
    ASSUME TypeInv, NEW p \in Procs, WaitStep(p)
    PROVE  TypeInv'
<1> DEFINE f == frame[p]
<1>1. DataOK /\ f \in Frames /\ LocalsOK(pc[p], f)
  BY Parts DEF CallInv, CallsOK, LocalsInv
<1> USE DEF Labels
<1>2. CASE Join(p)
  <2>1. pc[p] = "join" /\ kind' = kind /\ Goto(p, "await") /\ frame' = frame
    BY <1>2 DEF Join, connVars
  <2>2. LocalsOK("await", f)
    BY <1>1, <2>1 DEF LocalsOK, Trying, Returning, Carrying
  <2>3. waitQueue' \in [Queues -> Seq(Procs \cup {Dead})]
    <3> DEFINE q == f.req
    <3>1. Append(waitQueue[q], p) \in Seq(Procs \cup {Dead})
      BY <1>1 DEF DataOK, QueuesOK, Frames
    <3>2. waitQueue' = [waitQueue EXCEPT ![q] = Append(waitQueue[q], p)]
      BY <1>2 DEF Join
    <3> QED BY <1>1, <3>1, <3>2 DEF DataOK, QueuesOK
  <2>4. DataOK'
    BY <1>1, <1>2, <2>3 DEF Join, DataOK, ConnectionsOK, QueuesOK, CloseOK,
       registry, connVars, chanVars, closeVars
  <2> QED BY <2>1, <2>2, <2>4, GotoType, Parts
<1>3. CASE JoinGivesUp(p)
  BY <1>1, <1>3, LeaveType, DataUnchanged, Parts DEF JoinGivesUp, connVars
<1>4. CASE Receive(p)
  <2> DEFINE c == mail[p]
             t == [f EXCEPT !.conn = c]
             g == [t EXCEPT !.ret = "await"]
  <2>1. pc[p] = "await" /\ kind' = kind /\ c \in Conns
    BY <1>1, <1>4 DEF Receive, connVars, DataOK, QueuesOK
  <2>2. DataOK'
    BY <1>1, <1>4 DEF Receive, DataOK, ConnectionsOK, QueuesOK, CloseOK,
       registry, connVars, chanVars, closeVars
  <2>3. t \in Frames /\ t.conn = c /\ t.stage = 1
    BY <1>1, <2>1 DEF Frames, LocalsOK
  <2>4. CASE Move(p, "take", t)
    <3> HIDE DEF t
    <3>1. LocalsOK("take", t)
      BY <2>1, <2>3 DEF LocalsOK, Trying, Returning, Carrying
    <3> QED BY <2>1, <2>2, <2>3, <2>4, <3>1, MoveType, Parts
  <2>5. CASE Move(p, "retire", g)
    <3> HIDE DEF t
    <3>1. g \in Frames /\ g.conn = c /\ g.stage = 1 /\ g.ret = "await"
      BY <2>3 DEF Frames
    <3> HIDE DEF g
    <3>2. LocalsOK("retire", g)
      BY <2>1, <3>1 DEF LocalsOK, Trying, Returning, Carrying
    <3> QED BY <2>1, <2>2, <2>5, <3>1, <3>2, MoveType, Parts
  <2>6. g = [f EXCEPT !.conn = c, !.ret = "await"]
    OBVIOUS
  <2> HIDE DEF t, g
  <2> QED BY <1>4, <2>4, <2>5, <2>6 DEF Receive, t
<1>5. CASE GiveUp(p)
  <2>1. Bury(p) \in [Queues -> Seq(Procs \cup {Dead})]
    BY <1>1, BuryType DEF DataOK
  <2>2. DataOK'
    BY <1>1, <1>5, <2>1 DEF GiveUp, DataOK, ConnectionsOK, QueuesOK, CloseOK,
       registry, connVars, chanVars, closeVars
  <2> QED BY <1>5, <2>2, LeaveType, Parts DEF GiveUp, connVars
<1>6. CASE PanicJoin(p) \/ PanicLeave(p)
  BY <1>6, CrashType DEF PanicJoin, PanicLeave
<1> QED BY <1>2, <1>3, <1>4, <1>5, <1>6 DEF WaitStep

LEMMA CloseType ==
    ASSUME TypeInv, CloseBegin \/ CloseStep \/ \E c \in Conns : Expire(c)
    PROVE  TypeInv'
<1>1. DataOK
  BY Parts
<1>2. pc' = pc /\ frame' = frame /\ kind' = kind
  BY DEF CloseBegin, CloseStep, CloseSwap, CloseConn, FoundEmpty, DrainWaiter,
     ShutQueue, DrainIdle, ShutIdle, Expire, locals, connVars
<1>3. DataOK'
  <2> USE DEF registry, connVars, chanVars, waitVars, closeVars
  <2>1. CASE CloseBegin \/ CloseSwap \/ FoundEmpty
    BY <1>1, <2>1 DEF CloseBegin, CloseSwap, FoundEmpty, DataOK, ConnectionsOK, QueuesOK, CloseOK
  <2>2. CASE \E c \in Conns : CloseConn(c) \/ Expire(c)
    BY <1>1, <2>2 DEF CloseConn, Expire, DataOK, ConnectionsOK, QueuesOK, CloseOK
  <2>3. ASSUME NEW q \in Queues, DrainWaiter(q)
        PROVE  DataOK'
    <3> DEFINE w == Head(waitQueue[q])
    <3>1. w \in Procs \cup {Dead} /\ Tail(waitQueue[q]) \in Seq(Procs \cup {Dead})
      BY <1>1, <2>3 DEF DrainWaiter, DataOK, QueuesOK
    <3>2. /\ waitQueue' = [waitQueue EXCEPT ![q] = Tail(waitQueue[q])]
          /\ mailClosed' = IF w = Dead THEN mailClosed ELSE mailClosed \cup {w}
          /\ UNCHANGED <<queueClosed, mail, registry, connVars, chanVars, closeVars>>
      BY <2>3 DEF DrainWaiter
    <3> HIDE DEF w
    <3> QED BY <1>1, <3>1, <3>2 DEF DataOK, ConnectionsOK, QueuesOK, CloseOK
  <2>4. ASSUME NEW ch \in Channels, DrainIdle(ch)
        PROVE  DataOK'
    <3>1. Tail(idle[ch]) \in Seq(Conns)
      BY <1>1, <2>4 DEF DrainIdle, DataOK, QueuesOK
    <3> QED BY <1>1, <2>4, <3>1 DEF DrainIdle, DataOK, ConnectionsOK, QueuesOK, CloseOK
  <2>5. CASE (\E q \in Queues : ShutQueue(q)) \/ (\E ch \in Channels : ShutIdle(ch))
    BY <1>1, <2>5 DEF ShutQueue, ShutIdle, DataOK, ConnectionsOK, QueuesOK, CloseOK
  <2> QED BY <2>1, <2>2, <2>3, <2>4, <2>5 DEF CloseStep
<1> QED BY <1>2, <1>3, CallsUnchanged, Parts

LEMMA UserType ==
    ASSUME TypeInv, NEW p \in Procs, UserStep(p)
    PROVE  TypeInv'
<1> DEFINE f == frame[p]
<1>1. DataOK /\ f \in Frames /\ LocalsOK(pc[p], f)
  BY Parts DEF CallInv, CallsOK, LocalsInv
<1> USE DEF Labels
<1>2. CASE Begin(p)
  <2>1. PICK r \in Requests : Move(p, "check", [NoFrame EXCEPT !.req = r])
    BY <1>2 DEF Begin
  <2> DEFINE g == [NoFrame EXCEPT !.req = r]
  <2>2. g \in Frames /\ g.stage = 1 /\ g.mismatches = 0
    BY NoFrameType, PoolAssumption DEF Frames, NoFrame
  <2> HIDE DEF g
  <2>3. LocalsOK("check", g)
    BY <2>2, PoolAssumption DEF LocalsOK, Trying, Returning, Carrying
  <2>4. Move(p, "check", g)
    BY <2>1 DEF g
  <2> QED BY <1>1, <1>2, <2>2, <2>3, <2>4, MoveType, DataUnchanged, Parts
          DEF Begin, connVars
<1>3. CASE UserPut(p)
  <2>1. pc[p] = "held" /\ Goto(p, "put") /\ frame' = frame
    BY <1>3 DEF UserPut
  <2>2. LocalsOK("put", f)
    BY <1>1, <2>1 DEF LocalsOK, Trying, Returning, Carrying
  <2> QED BY <1>1, <1>3, <2>1, <2>2, GotoType, DataUnchanged, Parts
          DEF UserPut, connVars
<1>4. CASE UserClose(p)
  <2>1. DataOK'
    BY <1>1, <1>4 DEF UserClose, DataOK, ConnectionsOK, QueuesOK, CloseOK,
       registry, chanVars, waitVars, closeVars
  <2> QED BY <1>4, <2>1, LeaveType, Parts DEF UserClose
<1> QED BY <1>2, <1>3, <1>4 DEF UserStep

-----------------------------------------------------------------------------
(* Type correctness.                                                       *)

LEMMA TypeInit == Init => TypeInv
<1> SUFFICES ASSUME Init PROVE TypeInv
  OBVIOUS
<1>1. ConnectionsOK /\ CloseOK
  BY DEF Init, ConnectionsOK, CloseOK, NoKind
<1>2. QueuesOK
  BY EmptySeq DEF Init, QueuesOK
<1>3. CallsOK
  BY NoFrameType DEF Init, CallsOK, Labels
<1>4. LocalsInv /\ StagesOK
  BY DEF Init, LocalsInv, LocalsOK, StagesOK, NoFrame, Trying, Returning, Carrying
<1> QED BY <1>1, <1>2, <1>3, <1>4 DEF TypeInv, TypeOK

LEMMA TypeStep == TypeInv /\ [Next]_vars => TypeInv'
<1> SUFFICES ASSUME TypeInv, [Next]_vars PROVE TypeInv'
  OBVIOUS
<1>1. CASE UNCHANGED vars
  <2>1. UNCHANGED <<registry, connVars, chanVars, waitVars, closeVars>>
    BY <1>1 DEF vars
  <2>2. UNCHANGED <<pc, frame, kind>>
    BY <1>1 DEF vars, locals, connVars
  <2> QED BY <2>1, <2>2, DataUnchanged, CallsUnchanged, Parts
<1>2. ASSUME NEW p \in Procs, CallStep(p) \/ UserStep(p)
      PROVE  TypeInv'
  <2>1. CASE PanicSend(p)
    BY <2>1, CrashType DEF PanicSend
  <2>2. CASE ~PanicSend(p)
    BY <1>2, <2>2, GetType, CreateType, WaitType, PutType, UserType DEF CallStep
  <2> QED BY <2>1, <2>2
<1>3. CASE CloseBegin \/ CloseStep \/ \E c \in Conns : Expire(c)
  BY <1>3, CloseType
<1> QED BY <1>1, <1>2, <1>3 DEF Next, Halted

\* In every behaviour of the pool every variable keeps its shape; in particular
\* the retry loops of GetWithProtocol and GetWithIPVersion respect their bounds
\* on attempts, mismatches and failed creations.
THEOREM TypeCorrect == Spec => []TypeOK
<1>1. TypeInv => TypeOK
  BY DEF TypeInv
<1> QED BY <1>1, TypeInit, TypeStep, PTL DEF Spec

-----------------------------------------------------------------------------
(* Steps that bring no goroutine closer to a registration.                 *)

LEMMA FiniteParts ==
    ASSUME TypeInv
    PROVE  /\ IsFiniteSet(connections) /\ IsFiniteSet(createSemaphore)
           /\ IsFiniteSet(Dialing)
           /\ Cardinality(connections) \in Nat /\ Cardinality(createSemaphore) \in Nat
           /\ Cardinality(Dialing) \in Nat
<1>1. connections \subseteq Conns /\ createSemaphore \subseteq Procs /\ Dialing \subseteq Procs
  BY DEF TypeInv, TypeOK, ConnectionsOK, Dialing
<1>2. /\ IsFiniteSet(connections) /\ IsFiniteSet(createSemaphore)
      /\ IsFiniteSet(Dialing)
  BY <1>1, FS_Subset, PoolAssumption
<1> QED BY <1>2, FS_CardinalityType

\* Nobody starts to create, and the map only shrinks.
LEMMA Quiet ==
    ASSUME TypeInv, CreationInv, connections' \subseteq connections,
           createSemaphore' = createSemaphore,
           \A q \in Procs : pc'[q] \in Creating => pc'[q] = pc[q]
    PROVE  CreationInv'
<1>1. \A q \in Procs : pc'[q] \in Creating => q \in createSemaphore'
  BY DEF CreationInv
<1>2. Dialing' \subseteq Dialing
  BY DEF Dialing, Creating
<1>3. /\ Cardinality(Dialing') <= Cardinality(Dialing) /\ Cardinality(Dialing') \in Nat
      /\ Cardinality(connections') <= Cardinality(connections)
      /\ Cardinality(connections') \in Nat
  <2>1. IsFiniteSet(Dialing') /\ IsFiniteSet(connections')
    BY <1>2, FiniteParts, FS_Subset
  <2> QED BY <1>2, <2>1, FiniteParts, FS_Subset, FS_CardinalityType
<1> QED BY <1>1, <1>3, FiniteParts, PoolAssumption DEF CreationInv

\* A goroutine gives its token back and stops creating.
LEMMA Released ==
    ASSUME TypeInv, CreationInv, NEW p \in Procs, connections' = connections,
           createSemaphore' = createSemaphore \ {p}, pc'[p] \notin Creating,
           \A q \in Procs : q # p => pc'[q] = pc[q]
    PROVE  CreationInv'
<1>1. \A q \in Procs : pc'[q] \in Creating => q \in createSemaphore'
  BY DEF CreationInv
<1>2. Dialing' \subseteq Dialing
  BY DEF Dialing, Creating
<1>3. Cardinality(Dialing') <= Cardinality(Dialing) /\ Cardinality(Dialing') \in Nat
  BY <1>2, FiniteParts, FS_Subset, FS_CardinalityType
<1>4. Cardinality(createSemaphore') <= Cardinality(createSemaphore)
  BY FiniteParts, FS_Subset
<1>5. Cardinality(createSemaphore') \in Nat
  BY FiniteParts, FS_Subset, FS_CardinalityType
<1> QED BY <1>1, <1>3, <1>4, <1>5, FiniteParts, PoolAssumption DEF CreationInv

\* Where an erring creation and a returning Put go on.
LEMMA CreateFailedLabel ==
    ASSUME TypeInv, NEW p \in Procs, NEW b \in BOOLEAN, CreateFailed(p, b)
    PROVE  pc'[p] \notin Creating /\ \A q \in Procs : q # p => pc'[q] = pc[q]
<1>1. Goto(p, "join") \/ Goto(p, "check") \/ Goto(p, "idle")
  BY DEF CreateFailed, Leave, Move, Protocols
<1> QED BY <1>1 DEF Goto, TypeInv, TypeOK, CallsOK, Creating

LEMMA ResumeLabel ==
    ASSUME TypeInv, NEW p \in Procs, Resume(p)
    PROVE  Goto(p, "idle") \/ Goto(p, "check") \/ Goto(p, "await")
<1>1. frame[p].ret \in {"idle", "check", "await"}
  BY DEF TypeInv, TypeOK, CallsOK, Frames
<1> QED BY <1>1 DEF Resume, Leave, Move

LEMMA OtherStep ==
    ASSUME TypeInv, CreationInv, NEW p \in Procs,
           GetStep(p) \/ WaitStep(p) \/ PutStep(p) \/ UserStep(p)
    PROVE  CreationInv'
<1>1. createSemaphore' = createSemaphore /\ connections' \subseteq connections
  BY DEF GetStep, LoopHead, PollIdle, PollClosed, PollDefault, VetInvalid, VetMismatch,
     VetAccept, Take, Count, WaitStep, Join, JoinGivesUp, Receive, GiveUp, PanicJoin,
     PanicLeave, PutStep, PutCheck, PutIdle, PutSend, NotifyWaiter, NotifyNobody, NotifySpin,
     Retire, Shut, PanicSend, UserStep, Begin, UserPut, UserClose, Crash, registry
<1>2. CASE \E what : Crash(what)
  <2>1. \A q \in Procs : pc'[q] \notin Creating
    BY <1>2 DEF Crash, Creating
  <2> QED BY <1>1, <2>1, Quiet
<1>3. CASE pc' = pc
  BY <1>1, <1>3, Quiet
<1>4. ASSUME NEW l, l \notin Creating, Goto(p, l)
      PROVE  CreationInv'
  <2>1. \A q \in Procs : pc'[q] \in Creating => pc'[q] = pc[q]
    BY <1>4 DEF Goto, TypeInv, TypeOK, CallsOK
  <2> QED BY <1>1, <2>1, Quiet
<1>5. CASE GetStep(p)
  <2>1. \/ Goto(p, "idle") \/ Goto(p, "poll") \/ Goto(p, "vet") \/ Goto(p, "check")
        \/ Goto(p, "count") \/ Goto(p, "retire") \/ Goto(p, "put") \/ Goto(p, "take")
        \/ Goto(p, "held") \/ Goto(p, "join") \/ Goto(p, "acquire")
    BY <1>5 DEF GetStep, LoopHead, PollIdle, PollClosed, PollDefault, VetInvalid,
       VetMismatch, VetAccept, Take, Count, Leave, Move
  <2> QED BY <1>4, <2>1 DEF Creating
<1>6. CASE WaitStep(p)
  <2>1. \/ Goto(p, "await") \/ Goto(p, "idle") \/ Goto(p, "take") \/ Goto(p, "retire")
        \/ \E what : Crash(what)
    BY <1>6 DEF WaitStep, Join, JoinGivesUp, Receive, GiveUp, PanicJoin, PanicLeave,
       Leave, Move
  <2> QED BY <1>2, <1>4, <2>1 DEF Creating
<1>7. CASE PutStep(p)
  <2>1. \/ Goto(p, "retire") \/ Goto(p, "mark") \/ Goto(p, "send")
        \/ Goto(p, "notify") \/ Goto(p, "shut")
        \/ Resume(p) \/ pc' = pc \/ \E what : Crash(what)
    BY <1>7 DEF PutStep, PutCheck, PutIdle, PutSend, NotifyWaiter, NotifyNobody, NotifySpin,
       Retire, Shut, PanicSend, Move, locals
  <2> QED BY <1>2, <1>3, <1>4, <2>1, ResumeLabel DEF Creating
<1>8. CASE UserStep(p)
  <2>1. Goto(p, "check") \/ Goto(p, "put") \/ Goto(p, "idle")
    BY <1>8 DEF UserStep, Begin, UserPut, UserClose, Leave, Move
  <2> QED BY <1>4, <2>1 DEF Creating
<1> QED BY <1>5, <1>6, <1>7, <1>8

-----------------------------------------------------------------------------
(* The steps of createConnection.                                          *)

LEMMA CreationStep ==
    ASSUME TypeInv, CreationInv, NEW p \in Procs, CreateStep(p)
    PROVE  CreationInv'
<1>1. CASE Acquire(p)
  <2>1. pc[p] = "acquire" /\ connections' = connections
    BY <1>1 DEF Acquire
  <2>2. CASE closed
    <3>1. createSemaphore' = createSemaphore /\ CreateFailed(p, FALSE)
      BY <1>1, <2>2 DEF Acquire
    <3>2. \A q \in Procs : pc'[q] \in Creating => pc'[q] = pc[q]
      BY <3>1, CreateFailedLabel
    <3> QED BY <2>1, <3>1, <3>2, Quiet
  <2>3. CASE ~closed
    <3>1. /\ createSemaphore' = createSemaphore \cup {p} /\ Goto(p, "admit")
          /\ Cardinality(createSemaphore) < CreateLimit
      BY <1>1, <2>3 DEF Acquire
    <3>2. /\ pc'[p] = "admit"
          /\ \A q \in Procs : q # p => pc'[q] = pc[q]
      BY <3>1 DEF Goto, TypeInv, TypeOK, CallsOK
    <3>3. Cardinality(createSemaphore') <= CreateLimit
      <4>1. \/ Cardinality(createSemaphore') = Cardinality(createSemaphore) + 1
            \/ Cardinality(createSemaphore') = Cardinality(createSemaphore)
        BY <3>1, FiniteParts, FS_AddElement
      <4> QED BY <3>1, <4>1, FiniteParts, PoolAssumption
    <3>4. Dialing' = Dialing
      BY <2>1, <3>2 DEF Dialing
    <3>5. \A q \in Procs : pc'[q] \in Creating => q \in createSemaphore'
      BY <3>1, <3>2 DEF CreationInv
    <3> QED BY <2>1, <3>3, <3>4, <3>5 DEF CreationInv
  <2> QED BY <2>2, <2>3
<1>2. CASE AcquireTimeout(p)
  <2>1. /\ createSemaphore' = createSemaphore /\ connections' = connections
        /\ CreateFailed(p, FALSE)
    BY <1>2 DEF AcquireTimeout, registry
  <2>2. \A q \in Procs : pc'[q] \in Creating => pc'[q] = pc[q]
    BY <2>1, CreateFailedLabel
  <2> QED BY <2>1, <2>2, Quiet
<1>3. CASE Admit(p)
  <2>1. pc[p] = "admit" /\ connections' = connections
    BY <1>3 DEF Admit
  <2>2. CASE AtLimit
    <3>1. createSemaphore' = createSemaphore \ {p} /\ CreateFailed(p, TRUE)
      BY <1>3, <2>2 DEF Admit
    <3> QED BY <2>1, <3>1, CreateFailedLabel, Released
  <2>3. CASE ~AtLimit
    <3>1. createSemaphore' = createSemaphore /\ Goto(p, "dial")
      BY <1>3, <2>3 DEF Admit
    <3>2. /\ pc'[p] = "dial"
          /\ \A q \in Procs : q # p => pc'[q] = pc[q]
      BY <3>1 DEF Goto, TypeInv, TypeOK, CallsOK
    <3>3. \A q \in Procs : pc'[q] \in Creating => q \in createSemaphore'
      BY <2>1, <3>1, <3>2 DEF CreationInv, Creating
    \* Below the limit there is room for one dial per token.
    <3>4. Dialing' \subseteq createSemaphore
      BY <3>1, <3>3 DEF Dialing, Creating
    <3>5. /\ Cardinality(Dialing') \in Nat
          /\ Cardinality(Dialing') <= Cardinality(createSemaphore)
      BY <3>4, FiniteParts, FS_Subset, FS_CardinalityType
    <3>6. MaxConnections > 0 => Cardinality(connections) < MaxConnections
      BY <2>3, FiniteParts, PoolAssumption DEF AtLimit
    <3>7. MaxConnections > 0 =>
            Cardinality(connections') + Cardinality(Dialing')
                <= MaxConnections + CreateLimit - 1
      BY <2>1, <3>5, <3>6, FiniteParts, PoolAssumption DEF CreationInv
    <3> QED BY <3>1, <3>3, <3>7 DEF CreationInv
  <2> QED BY <2>2, <2>3
<1>4. CASE DialFails(p)
  <2>1. /\ connections' = connections /\ createSemaphore' = createSemaphore \ {p}
        /\ CreateFailed(p, FALSE)
    BY <1>4 DEF DialFails
  <2> QED BY <2>1, CreateFailedLabel, Released
<1>5. ASSUME NEW c \in Conns, NEW k \in DialKinds, Register(p, c, k)
      PROVE  CreationInv'
  <2>1. /\ pc[p] = "dial" /\ connections' = connections \cup {c}
        /\ createSemaphore' = createSemaphore \ {p}
        /\ Goto(p, "take") \/ Goto(p, "put")
    BY <1>5 DEF Register, Sort, Move
  <2>2. pc'[p] \notin Creating /\ \A q \in Procs : q # p => pc'[q] = pc[q]
    BY <2>1 DEF Goto, TypeInv, TypeOK, CallsOK, Creating
  <2>3. \A q \in Procs : pc'[q] \in Creating => q \in createSemaphore'
    BY <2>1, <2>2 DEF CreationInv
  <2>4. p \in Dialing /\ Dialing' = Dialing \ {p}
    BY <2>1, <2>2 DEF Dialing, Creating
  \* What the registration adds to the map it takes from the dials.
  <2>5. /\ Cardinality(Dialing') = Cardinality(Dialing) - 1
        /\ Cardinality(connections') <= Cardinality(connections) + 1
        /\ Cardinality(connections') \in Nat
    <3>1. Cardinality(Dialing') = Cardinality(Dialing) - 1
      BY <2>4, FiniteParts, FS_RemoveElement
    <3>2. IsFiniteSet(connections')
      BY <2>1, FiniteParts, FS_AddElement
    <3>3. \/ Cardinality(connections') = Cardinality(connections) + 1
          \/ Cardinality(connections') = Cardinality(connections)
      BY <2>1, FiniteParts, FS_AddElement
    <3> QED BY <3>1, <3>2, <3>3, FiniteParts, FS_CardinalityType
  <2>6. /\ Cardinality(createSemaphore') <= Cardinality(createSemaphore)
        /\ Cardinality(createSemaphore') \in Nat
    BY <2>1, FiniteParts, FS_Subset, FS_CardinalityType
  <2> QED BY <2>3, <2>5, <2>6, FiniteParts, PoolAssumption DEF CreationInv
<1> QED BY <1>1, <1>2, <1>3, <1>4, <1>5 DEF CreateStep

-----------------------------------------------------------------------------
(* The bound.                                                              *)

LEMMA CreationInit == Init => CreationInv
<1> SUFFICES ASSUME Init PROVE CreationInv
  OBVIOUS
<1>1. Dialing = {} /\ \A p \in Procs : pc[p] \notin Creating
  BY DEF Init, Dialing, Creating
<1> QED BY <1>1, FS_EmptySet, PoolAssumption DEF Init, CreationInv

LEMMA CreationNext == TypeInv /\ CreationInv /\ [Next]_vars => CreationInv'
<1> SUFFICES ASSUME TypeInv, CreationInv, [Next]_vars PROVE CreationInv'
  OBVIOUS
<1>1. CASE UNCHANGED vars
  BY <1>1, Quiet DEF vars, registry, locals
<1>2. ASSUME NEW p \in Procs, CallStep(p) \/ UserStep(p)
      PROVE  CreationInv'
  BY <1>2, OtherStep, CreationStep DEF CallStep
<1>3. CASE CloseBegin \/ CloseStep \/ \E c \in Conns : Expire(c)
  <2>1. /\ pc' = pc /\ createSemaphore' = createSemaphore
        /\ connections' \subseteq connections
    BY <1>3 DEF CloseBegin, CloseStep, CloseSwap, CloseConn, FoundEmpty, DrainWaiter,
       ShutQueue, DrainIdle, ShutIdle, Expire, locals, registry
  <2> QED BY <2>1, Quiet
<1> QED BY <1>1, <1>2, <1>3 DEF Next, Halted

\* At any time the registered connections and the dials under way together
\* number at most MaxConnections plus the tokens of createSemaphore less one.
THEOREM CreationBounded == Spec => []CreationInv
BY TypeInit, TypeStep, CreationInit, CreationNext, PTL DEF Spec

\* The pool outgrows MaxConnections by at most CreateLimit - 1 (four) connections,
\* however many goroutines call Get, Put and Close, and in whatever order.
THEOREM LimitBounded == Spec => []ConnectionBound
<1>1. TypeInv /\ CreationInv => ConnectionBound
  <2> SUFFICES ASSUME TypeInv, CreationInv, MaxConnections > 0
               PROVE  Cardinality(connections) <= MaxConnections + CreateLimit - 1
    BY DEF ConnectionBound
  <2> QED BY FiniteParts, PoolAssumption DEF CreationInv
<1> QED BY <1>1, TypeInit, TypeStep, CreationInit, CreationNext, PTL DEF Spec

=============================================================================
