-------------------------------- MODULE Pool --------------------------------
(***************************************************************************)
(* The connection pool of pool.go: Get (in its three forms), Put, Close,   *)
(* createConnection, closeConnection and the wait queues, at the grain of  *)
(* the lock, channel and select operations other goroutines can observe.   *)
(*                                                                         *)
(* A goroutine p runs one call at a time; pc[p] says which operation comes *)
(* next and frame[p] holds the locals of the call.  A run of operations on *)
(* state no other goroutine reads is one action.  Statistics, the UDP      *)
(* buffer and the background managers are not part of this module.         *)
(***************************************************************************)
EXTENDS Naturals, Sequences, FiniteSets

CONSTANTS
    Procs,              \* goroutines that call the pool
    Conns,              \* identities of connections; bounds the dials of a behaviour
    None,               \* "no connection", the nil of the code
    Dead,               \* a waitChan its waiter has closed, still in a queue
    Requests,           \* the forms of Get the goroutines use, a subset of Queues
    DialKinds,          \* what the dialer or the listener may return
    MaxConnections,     \* config; 0 is "unlimited"
    MaxIdleConnections, \* config; the capacity of each idle channel
    CreateLimit,        \* capacity of createSemaphore (5 in the code)
    QueueCap,           \* capacity of each wait queue (100 in the code)
    MaxAttempts,        \* loop bound of GetWithProtocol/GetWithIPVersion (10)
    MaxMismatches,      \* mismatches tolerated (3)
    MaxCreateFails,     \* failed creations GetWithProtocol tolerates (3)
    EnableHealthCheck,  \* config
    Deadline,           \* do the callers' contexts expire?
    Expiring,           \* may a connection outlive MaxLifetime?
    UserCloses,         \* may a borrower call Connection.Close itself?
    ShutsDown           \* may somebody call Pool.Close?

Protocols  == {"TCP", "UDP"}
IPVersions == {"IPv4", "IPv6"}
Channels   == {"TCP", "UDP"}
Queues     == {"Any"} \cup Protocols \cup IPVersions
Kinds      == [proto : Protocols \cup {"Unknown"}, ip : IPVersions \cup {"Unknown"}]
NoKind     == [proto |-> "none", ip |-> "none"]

ASSUME PoolAssumption ==
    /\ IsFiniteSet(Procs) /\ IsFiniteSet(Conns)
    /\ None \notin Conns /\ Dead \notin Procs
    /\ Requests \subseteq Queues /\ DialKinds \subseteq Kinds
    /\ MaxConnections \in Nat
    /\ MaxIdleConnections \in Nat \ {0} /\ CreateLimit \in Nat \ {0}
    /\ QueueCap \in Nat \ {0} /\ MaxAttempts \in Nat \ {0}
    /\ MaxMismatches \in Nat \ {0} /\ MaxCreateFails \in Nat \ {0}
    /\ {EnableHealthCheck, Deadline, Expiring, UserCloses, ShutsDown} \subseteq BOOLEAN

VARIABLES
    connections,     \* the map of registered connections
    createSemaphore, \* goroutines holding a token of the semaphore
    kind,            \* protocol and IP version, fixed when dialed
    live,            \* connections whose Conn is not nil
    expired,         \* connections older than MaxLifetime
    unhealthy,       \* connections with IsHealthy = false
    inUse,           \* connections with InUse = true
    idle,            \* the two idle channels
    idleClosed,      \* the idle channels Close has closed
    waitQueue,       \* the five wait queues
    queueClosed,     \* the wait queues Close has closed
    mail,            \* the content of a waiter's waitChan
    mailClosed,      \* waiters whose waitChan Close has closed
    closed,          \* Pool.closed, and closeChan
    closer,          \* progress of the body of Close
    doomed,          \* connections Close took from the map and has yet to close
    pc, frame,       \* the goroutines
    panic            \* the panic that ended the program, or "none"

registry  == <<connections, createSemaphore>>
connVars  == <<kind, live, expired, unhealthy, inUse>>
chanVars  == <<idle, idleClosed>>
waitVars  == <<waitQueue, queueClosed, mail, mailClosed>>
closeVars == <<closed, closer, doomed, panic>>
locals    == <<pc, frame>>
vars == <<registry, connVars, chanVars, waitVars, closeVars, locals>>

-----------------------------------------------------------------------------
(* Locals of a call and the control points of a goroutine.                 *)

Frames ==
    [req : Queues, conn : Conns \cup {None}, ret : {"idle", "check", "await"},
     stage : 1..3, attempts : 0..MaxAttempts,
     mismatches : 0..MaxMismatches, failures : 0..MaxCreateFails]

NoFrame ==
    [req |-> "Any", conn |-> None, ret |-> "idle", stage |-> 1,
     attempts |-> 0, mismatches |-> 0, failures |-> 0]

Creating == {"admit", "dial"}

Labels ==
    {"idle", "check", "poll", "vet", "take", "held", "count", "acquire", "join",
     "await", "put", "mark", "send", "notify", "retire", "shut", "dead"} \cup Creating

Goto(p, label) == pc' = [pc EXCEPT ![p] = label]
Leave(p) == Goto(p, "idle") /\ frame' = [frame EXCEPT ![p] = NoFrame]

\* Go on to label with f as the locals of p.
Move(p, label, f) == Goto(p, label) /\ frame' = [frame EXCEPT ![p] = f]

\* A nested Put or closeConnection returns to the call that made it.
Resume(p) ==
    IF frame[p].ret = "idle" THEN Leave(p)
    ELSE Move(p, frame[p].ret, [frame[p] EXCEPT !.conn = None, !.stage = 1])

-----------------------------------------------------------------------------
(* Pure parts: validity, matching, routing.                                *)

Valid(c) ==
    /\ c \in live
    /\ c \notin expired
    /\ EnableHealthCheck => c \notin unhealthy

Matches(r, c) ==
    CASE r \in Protocols  -> kind[c].proto = r
      [] r \in IPVersions -> kind[c].ip = r
      [] OTHER            -> TRUE

\* Channels a request polls, and the one a connection is returned to: every
\* protocol but TCP, the unknown one included, goes to the UDP channel.
Pollable(r) == IF r \in Protocols THEN {r} ELSE Channels
ChannelOf(c) == IF kind[c].proto = "TCP" THEN "TCP" ELSE "UDP"

\* Fault: the limit counts as reached when it has been passed.
AtLimitOffByOne == MaxConnections > 0 /\ Cardinality(connections) > MaxConnections

AtLimit == MaxConnections > 0 /\ Cardinality(connections) >= MaxConnections

\* The wait queues offered a returned connection of kind k, in order.
Targets(k) ==
    (IF k.proto \in Protocols THEN <<k.proto>> ELSE <<>>)
    \o (IF k.ip \in IPVersions THEN <<k.ip>> ELSE <<>>)
    \o <<"Any">>

\* Fault: the retry loops forget to count.
AgainUncounted(f) == f

\* "continue": the bounded loops count an attempt, GetWithTimeout's does not.
Again(f) == IF f.req = "Any" THEN f ELSE [f EXCEPT !.attempts = @ + 1]
Misfit(f) == [f EXCEPT !.mismatches = @ + 1]
Back(f) == IF f.mismatches >= MaxMismatches THEN "idle" ELSE "check"

-----------------------------------------------------------------------------
(* Get, GetWithProtocol and GetWithIPVersion.                              *)

\* The isClosed check on entry, which fails without any other effect.
Begin(p) ==
    /\ pc[p] = "idle"
    /\ ~closed
    /\ \E r \in Requests : Move(p, "check", [NoFrame EXCEPT !.req = r])
    /\ UNCHANGED <<registry, connVars, chanVars, waitVars, closeVars>>

\* Fault: the loop tests for the bound after it was passed.
LoopHeadOffByOne(p) ==
    /\ pc[p] = "check"
    /\ IF closed \/ frame[p].attempts > MaxAttempts
       THEN Leave(p)
       ELSE Goto(p, "poll") /\ UNCHANGED frame
    /\ UNCHANGED <<registry, connVars, chanVars, waitVars, closeVars>>

LoopHead(p) ==
    /\ pc[p] = "check"
    /\ IF closed \/ frame[p].attempts = MaxAttempts
       THEN Leave(p)
       ELSE Goto(p, "poll") /\ UNCHANGED frame
    /\ UNCHANGED <<registry, connVars, chanVars, waitVars, closeVars>>

\* The select over the idle channels: a ready channel, if there is one, ...
PollIdle(p, ch) ==
    /\ pc[p] = "poll"
    /\ ch \in Pollable(frame[p].req) /\ idle[ch] # <<>>
    /\ idle' = [idle EXCEPT ![ch] = Tail(@)]
    /\ Move(p, "vet", [frame[p] EXCEPT !.conn = Head(idle[ch])])
    /\ UNCHANGED <<registry, connVars, idleClosed, waitVars, closeVars>>

\* ... be it a closed one, which yields nil; ...
PollClosed(p) ==
    /\ pc[p] = "poll"
    /\ \E ch \in Pollable(frame[p].req) : ch \in idleClosed /\ idle[ch] = <<>>
    /\ IF frame[p].req \in Protocols
       THEN Move(p, "check", Again(frame[p]))
       ELSE Goto(p, "count") /\ UNCHANGED frame
    /\ UNCHANGED <<registry, connVars, chanVars, waitVars, closeVars>>

\* ... otherwise the default case.
PollDefault(p) ==
    /\ pc[p] = "poll"
    /\ \A ch \in Pollable(frame[p].req) : ch \notin idleClosed /\ idle[ch] = <<>>
    /\ Goto(p, "count")
    /\ UNCHANGED <<frame, registry, connVars, chanVars, waitVars, closeVars>>

\* GetWithIPVersion looks at the version before the validity, GetWithProtocol
\* at the validity before the protocol.
VetInvalid(p) ==
    LET f == frame[p] IN
    /\ pc[p] = "vet"
    /\ ~Valid(f.conn)
    /\ f.req \in IPVersions => Matches(f.req, f.conn)
    /\ Move(p, "retire", [Again(f) EXCEPT !.ret = "check"])
    /\ UNCHANGED <<registry, connVars, chanVars, waitVars, closeVars>>

\* A mismatch puts the connection back; only GetWithIPVersion counts it.
VetMismatch(p) ==
    LET f == Again(frame[p])
        g == IF f.req \in IPVersions THEN Misfit(f) ELSE f
    IN
    /\ pc[p] = "vet"
    /\ ~Matches(f.req, f.conn)
    /\ f.req \in Protocols => Valid(f.conn)
    /\ Move(p, "put", [g EXCEPT !.ret = Back(g)])
    /\ UNCHANGED <<registry, connVars, chanVars, waitVars, closeVars>>

\* Fault: any valid idle connection will do.
VetAcceptAny(p) ==
    /\ pc[p] = "vet"
    /\ Valid(frame[p].conn)
    /\ Goto(p, "take")
    /\ UNCHANGED <<frame, registry, connVars, chanVars, waitVars, closeVars>>

VetAccept(p) ==
    /\ pc[p] = "vet"
    /\ Valid(frame[p].conn) /\ Matches(frame[p].req, frame[p].conn)
    /\ Goto(p, "take")
    /\ UNCHANGED <<frame, registry, connVars, chanVars, waitVars, closeVars>>

\* MarkInUse; the call returns the connection.
Take(p) ==
    /\ pc[p] = "take"
    /\ inUse' = inUse \cup {frame[p].conn}
    /\ Move(p, "held", [NoFrame EXCEPT !.req = frame[p].req, !.conn = frame[p].conn])
    /\ UNCHANGED <<kind, live, expired, unhealthy>>
    /\ UNCHANGED <<registry, chanVars, waitVars, closeVars>>

Count(p) ==
    /\ pc[p] = "count"
    /\ Goto(p, IF AtLimit THEN "join" ELSE "acquire")
    /\ UNCHANGED <<frame, registry, connVars, chanVars, waitVars, closeVars>>

-----------------------------------------------------------------------------
(* createConnection.                                                       *)

\* What the three forms of Get do with an error: GetWithTimeout waits if the
\* limit was reached; GetWithProtocol tries again until it has failed too
\* often, or its context ends during the pause; everything else returns.
CreateFailed(p, limitReached) ==
    LET f == [Again(frame[p]) EXCEPT !.failures = @ + 1] IN
    CASE frame[p].req = "Any" /\ limitReached ->
            Goto(p, "join") /\ UNCHANGED frame
      [] frame[p].req \in Protocols /\ f.failures < MaxCreateFails ->
            Move(p, "check", f) \/ (Deadline /\ Leave(p))
      [] OTHER -> Leave(p)

\* A token of the semaphore, then the isClosed check.
Acquire(p) ==
    /\ pc[p] = "acquire"
    /\ Cardinality(createSemaphore) < CreateLimit
    /\ IF closed
       THEN CreateFailed(p, FALSE) /\ UNCHANGED createSemaphore
       ELSE /\ createSemaphore' = createSemaphore \cup {p}
            /\ Goto(p, "admit") /\ UNCHANGED frame
    /\ UNCHANGED <<connections, connVars, chanVars, waitVars, closeVars>>

AcquireTimeout(p) ==
    /\ pc[p] = "acquire"
    /\ Deadline
    /\ CreateFailed(p, FALSE)
    /\ UNCHANGED <<registry, connVars, chanVars, waitVars, closeVars>>

\* Fault: the token is given back before the connection is dialed.
AdmitEarly(p) ==
    /\ pc[p] = "admit"
    /\ createSemaphore' = createSemaphore \ {p}
    /\ IF AtLimit THEN CreateFailed(p, TRUE) ELSE Goto(p, "dial") /\ UNCHANGED frame
    /\ UNCHANGED <<connections, connVars, chanVars, waitVars, closeVars>>

\* The second look at the limit, before and not while the connection is made.
Admit(p) ==
    /\ pc[p] = "admit"
    /\ IF AtLimit
       THEN CreateFailed(p, TRUE) /\ createSemaphore' = createSemaphore \ {p}
       ELSE Goto(p, "dial") /\ UNCHANGED <<frame, createSemaphore>>
    /\ UNCHANGED <<connections, connVars, chanVars, waitVars, closeVars>>

\* The dialer, the acceptor or OnCreated fails, or the context ends.
DialFails(p) ==
    /\ pc[p] = "dial"
    /\ CreateFailed(p, FALSE)
    /\ createSemaphore' = createSemaphore \ {p}
    /\ UNCHANGED <<connections, connVars, chanVars, waitVars, closeVars>>

\* Where a call goes with the connection it has just created.
Sort(p, c, k) ==
    LET f == [frame[p] EXCEPT !.conn = c]
        g == Misfit(Again(f))
    IN  IF f.req = "Any" \/ f.req \in {k.proto, k.ip}
        THEN Move(p, "take", f)
        ELSE Move(p, "put", [g EXCEPT !.ret = Back(g)])

\* Fault: a new connection is offered to everybody before its creator has it.
RegisterAndOffer(p, c, k) ==
    /\ pc[p] = "dial"
    /\ kind[c] = NoKind
    /\ kind' = [kind EXCEPT ![c] = k]
    /\ live' = live \cup {c}
    /\ connections' = connections \cup {c}
    /\ createSemaphore' = createSemaphore \ {p}
    /\ idle' = [idle EXCEPT !["TCP"] =
                  IF Len(@) < MaxIdleConnections THEN Append(@, c) ELSE @]
    /\ Sort(p, c, k)
    /\ UNCHANGED <<expired, unhealthy, inUse, idleClosed, waitVars, closeVars>>

\* The dial succeeds and the connection is registered, whatever has happened
\* to the pool in the meantime.
Register(p, c, k) ==
    /\ pc[p] = "dial"
    /\ kind[c] = NoKind
    /\ kind' = [kind EXCEPT ![c] = k]
    /\ live' = live \cup {c}
    /\ connections' = connections \cup {c}
    /\ createSemaphore' = createSemaphore \ {p}
    /\ Sort(p, c, k)
    /\ UNCHANGED <<expired, unhealthy, inUse, chanVars, waitVars, closeVars>>

-----------------------------------------------------------------------------
(* Put, notifyWaitQueue and closeConnection.                               *)

UserPut(p) ==
    /\ pc[p] = "held"
    /\ Goto(p, "put")
    /\ UNCHANGED <<frame, registry, connVars, chanVars, waitVars, closeVars>>

\* A borrower that closes the connection instead of returning it.
UserClose(p) ==
    /\ UserCloses
    /\ pc[p] = "held"
    /\ live' = live \ {frame[p].conn}
    /\ Leave(p)
    /\ UNCHANGED <<registry, kind, expired, unhealthy, inUse, chanVars, waitVars, closeVars>>

\* Fault: Put does not ask whether the pool is closed.
PutCheckOpen(p) ==
    /\ pc[p] = "put"
    /\ Goto(p, IF Valid(frame[p].conn) THEN "mark" ELSE "retire")
    /\ UNCHANGED <<frame, registry, connVars, chanVars, waitVars, closeVars>>

\* isClosed and isConnectionValid; the hooks run before ...
PutCheck(p) ==
    /\ pc[p] = "put"
    /\ Goto(p, IF closed \/ ~Valid(frame[p].conn) THEN "retire" ELSE "mark")
    /\ UNCHANGED <<frame, registry, connVars, chanVars, waitVars, closeVars>>

\* ... MarkIdle.
PutIdle(p) ==
    /\ pc[p] = "mark"
    /\ inUse' = inUse \ {frame[p].conn}
    /\ Goto(p, "send")
    /\ UNCHANGED <<frame, registry, kind, live, expired, unhealthy, chanVars, waitVars, closeVars>>

\* Fault: after the send, Put falls through to the branch of the full channel.
PutSendFallsThrough(p) ==
    LET c == frame[p].conn  ch == ChannelOf(c) IN
    /\ pc[p] = "send"
    /\ ch \notin idleClosed
    /\ idle' = [idle EXCEPT ![ch] = IF Len(@) < MaxIdleConnections THEN Append(@, c) ELSE @]
    /\ Goto(p, "retire")
    /\ UNCHANGED <<frame, idleClosed, registry, connVars, waitVars, closeVars>>

\* The select that sends to the idle channel, or closes when it is full.
PutSend(p) ==
    LET c == frame[p].conn  ch == ChannelOf(c) IN
    /\ pc[p] = "send"
    /\ ch \notin idleClosed
    /\ IF Len(idle[ch]) < MaxIdleConnections
       THEN idle' = [idle EXCEPT ![ch] = Append(@, c)] /\ Goto(p, "notify")
       ELSE Goto(p, "retire") /\ UNCHANGED idle
    /\ UNCHANGED <<frame, idleClosed, registry, connVars, waitVars, closeVars>>

\* One turn of the loop of notifySpecificWaitQueue: a waiter that has left is
\* skipped (its channel is closed and the send recovered), a live one is sent
\* the connection, which stays in the idle channel as well; ...
NotifyWaiter(p) ==
    LET c == frame[p].conn
        q == Targets(kind[c])[frame[p].stage]
        w == Head(waitQueue[q])
    IN
    /\ pc[p] = "notify"
    /\ waitQueue[q] # <<>>
    /\ waitQueue' = [waitQueue EXCEPT ![q] = Tail(@)]
    /\ IF w = Dead
       THEN UNCHANGED <<mail, locals>>
       ELSE mail' = [mail EXCEPT ![w] = c] /\ Resume(p)
    /\ UNCHANGED <<queueClosed, mailClosed, registry, connVars, chanVars, closeVars>>

\* Fault: the first queue that is empty ends the search.
NotifyFirstOnly(p) ==
    /\ pc[p] = "notify"
    /\ LET q == Targets(kind[frame[p].conn])[1] IN waitQueue[q] = <<>> /\ q \notin queueClosed
    /\ Resume(p)
    /\ UNCHANGED <<registry, connVars, chanVars, waitVars, closeVars>>

\* ... an empty queue leads to the next one.
NotifyNobody(p) ==
    LET f == frame[p]
        q == Targets(kind[f.conn])[f.stage]
    IN
    /\ pc[p] = "notify"
    /\ waitQueue[q] = <<>> /\ q \notin queueClosed
    /\ IF f.stage = Len(Targets(kind[f.conn]))
       THEN Resume(p)
       ELSE Move(p, "notify", [f EXCEPT !.stage = @ + 1])
    /\ UNCHANGED <<registry, connVars, chanVars, waitVars, closeVars>>

\* A closed queue yields nil waiters for ever: the send to nil is not ready,
\* its default reports failure, and the loop turns without end.
NotifySpin(p) ==
    LET q == Targets(kind[frame[p].conn])[frame[p].stage] IN
    /\ pc[p] = "notify"
    /\ waitQueue[q] = <<>> /\ q \in queueClosed
    /\ UNCHANGED <<registry, connVars, chanVars, waitVars, closeVars, locals>>

\* closeConnection: marked unhealthy and taken out of the map, ...
Retire(p) ==
    /\ pc[p] = "retire"
    /\ unhealthy' = unhealthy \cup {frame[p].conn}
    /\ connections' = connections \ {frame[p].conn}
    /\ Goto(p, "shut")
    /\ UNCHANGED <<frame, createSemaphore, kind, live, expired, inUse>>
    /\ UNCHANGED <<chanVars, waitVars, closeVars>>

\* ... then closed, once, under the lock of the connection.
Shut(p) ==
    /\ pc[p] = "shut"
    /\ live' = live \ {frame[p].conn}
    /\ Resume(p)
    /\ UNCHANGED <<registry, kind, expired, unhealthy, inUse, chanVars, waitVars, closeVars>>

-----------------------------------------------------------------------------
(* waitForConnection and its two variants.                                 *)

\* A waiter that closes its waitChan leaves a dead entry where it was queued.
Bury(p) ==
    [q \in Queues |->
        [i \in DOMAIN waitQueue[q] |->
            IF waitQueue[q][i] = p THEN Dead ELSE waitQueue[q][i]]]

Join(p) ==
    LET q == frame[p].req IN
    /\ pc[p] = "join"
    /\ q \notin queueClosed
    /\ Len(waitQueue[q]) < QueueCap
    /\ waitQueue' = [waitQueue EXCEPT ![q] = Append(@, p)]
    /\ Goto(p, "await")
    /\ UNCHANGED <<frame, queueClosed, mail, mailClosed>>
    /\ UNCHANGED <<registry, connVars, chanVars, closeVars>>

\* ctx.Done or closeChan before there was room in the queue.
JoinGivesUp(p) ==
    /\ pc[p] = "join"
    /\ Deadline \/ closed
    /\ Leave(p)
    /\ UNCHANGED <<registry, connVars, chanVars, waitVars, closeVars>>

\* A connection arrives.  If it does not suit it is closed, and the waiter
\* waits on, without a place in the queue.
Receive(p) ==
    LET c == mail[p] IN
    /\ pc[p] = "await"
    /\ c # None
    /\ mail' = [mail EXCEPT ![p] = None]
    /\ IF Valid(c) /\ Matches(frame[p].req, c)
       THEN Move(p, "take", [frame[p] EXCEPT !.conn = c])
       ELSE Move(p, "retire", [frame[p] EXCEPT !.conn = c, !.ret = "await"])
    /\ UNCHANGED <<waitQueue, queueClosed, mailClosed>>
    /\ UNCHANGED <<registry, connVars, chanVars, closeVars>>

\* Fault: the waiter leaves its waitChan open.
GiveUpOpen(p) ==
    /\ pc[p] = "await"
    /\ Deadline \/ closed
    /\ p \notin mailClosed
    /\ mail' = [mail EXCEPT ![p] = None]
    /\ Leave(p)
    /\ UNCHANGED <<waitQueue, queueClosed, mailClosed, registry, connVars, chanVars, closeVars>>

\* Fault: a waiter that hears closeChan goes round its loop again.
GiveUpLate(p) ==
    /\ pc[p] = "await"
    /\ Deadline \/ closed
    /\ p \notin mailClosed
    /\ IF closed
       THEN UNCHANGED <<mail, waitQueue, locals>>
       ELSE /\ mail' = [mail EXCEPT ![p] = None]
            /\ waitQueue' = Bury(p)
            /\ Leave(p)
    /\ UNCHANGED <<queueClosed, mailClosed, registry, connVars, chanVars, closeVars>>

\* ctx.Done or closeChan: what is in waitChan is thrown away.
GiveUp(p) ==
    /\ pc[p] = "await"
    /\ Deadline \/ closed
    /\ p \notin mailClosed
    /\ mail' = [mail EXCEPT ![p] = None]
    /\ waitQueue' = Bury(p)
    /\ Leave(p)
    /\ UNCHANGED <<queueClosed, mailClosed, registry, connVars, chanVars, closeVars>>

-----------------------------------------------------------------------------
(* Close, whose body closeOnce runs at most once.                          *)

CloseBegin ==
    /\ ShutsDown
    /\ closer = "open"
    /\ closed' = TRUE
    /\ closer' = "stopping"
    /\ UNCHANGED <<doomed, panic, registry, connVars, chanVars, waitVars, locals>>

\* Fault: Close leaves borrowed connections to the Put that returns them.
CloseSwapIdle ==
    /\ closer = "stopping"
    /\ closer' = "closing"
    /\ doomed' = connections \ inUse
    /\ connections' = {}
    /\ UNCHANGED <<closed, panic, createSemaphore, connVars, chanVars, waitVars, locals>>

\* With the managers stopped, the map is emptied.
CloseSwap ==
    /\ closer = "stopping"
    /\ closer' = "closing"
    /\ doomed' = connections
    /\ connections' = {}
    /\ UNCHANGED <<closed, panic, createSemaphore, connVars, chanVars, waitVars, locals>>

\* Fault: Close polls a borrowed connection until it has been returned.
CloseConnIdle(c) ==
    /\ closer = "closing"
    /\ c \in doomed
    /\ IF c \in inUse
       THEN UNCHANGED <<doomed, live>>
       ELSE doomed' = doomed \ {c} /\ live' = live \ {c}
    /\ UNCHANGED <<kind, expired, unhealthy, inUse>>
    /\ UNCHANGED <<closed, closer, panic, registry, chanVars, waitVars, locals>>

CloseConn(c) ==
    /\ closer = "closing"
    /\ c \in doomed
    /\ doomed' = doomed \ {c}
    /\ live' = live \ {c}
    /\ UNCHANGED <<kind, expired, unhealthy, inUse>>
    /\ UNCHANGED <<closed, closer, panic, registry, chanVars, waitVars, locals>>

\* The queues in this order, then the idle channels, are emptied and, once
\* found empty, closed.  What arrives between the two steps stays inside.
QueueOrder == <<"Any", "IPv4", "IPv6", "TCP", "UDP">>
QueueTurn(q) ==
    /\ doomed = {}
    /\ \E i \in 1..5 :
        /\ q = QueueOrder[i] /\ q \notin queueClosed
        /\ \A j \in 1..(i - 1) : QueueOrder[j] \in queueClosed
ChannelTurn(ch) ==
    /\ queueClosed = Queues
    /\ ch \notin idleClosed
    /\ ch = "UDP" => "TCP" \in idleClosed

\* The waitChan of a waiter is closed; a second close is recovered.
DrainWaiter(q) ==
    LET w == Head(waitQueue[q]) IN
    /\ closer = "closing" /\ QueueTurn(q)
    /\ waitQueue[q] # <<>>
    /\ waitQueue' = [waitQueue EXCEPT ![q] = Tail(@)]
    /\ mailClosed' = IF w = Dead THEN mailClosed ELSE mailClosed \cup {w}
    /\ UNCHANGED <<queueClosed, mail, registry, connVars, chanVars, closeVars, locals>>

\* A connection taken from an idle channel is dropped.
DrainIdle(ch) ==
    /\ closer = "closing" /\ ChannelTurn(ch)
    /\ idle[ch] # <<>>
    /\ idle' = [idle EXCEPT ![ch] = Tail(@)]
    /\ UNCHANGED <<idleClosed, registry, connVars, waitVars, closeVars, locals>>

FoundEmpty ==
    /\ closer = "closing"
    /\ \/ \E q \in Queues : QueueTurn(q) /\ waitQueue[q] = <<>>
       \/ \E ch \in Channels : ChannelTurn(ch) /\ idle[ch] = <<>>
    /\ closer' = "shutting"
    /\ UNCHANGED <<closed, doomed, panic, registry, connVars, chanVars, waitVars, locals>>

ShutQueue(q) ==
    /\ closer = "shutting" /\ QueueTurn(q)
    /\ queueClosed' = queueClosed \cup {q}
    /\ closer' = "closing"
    /\ UNCHANGED <<closed, doomed, panic, waitQueue, mail, mailClosed>>
    /\ UNCHANGED <<registry, connVars, chanVars, locals>>

ShutIdle(ch) ==
    /\ closer = "shutting" /\ ChannelTurn(ch)
    /\ idleClosed' = idleClosed \cup {ch}
    /\ closer' = "closing"
    /\ UNCHANGED <<closed, doomed, panic, idle, registry, connVars, waitVars, locals>>

Terminated == idleClosed = Channels

-----------------------------------------------------------------------------
(* Time, and the panics the code can run into.                             *)

Expire(c) ==
    /\ Expiring
    /\ panic = "none"
    /\ c \in live \ expired
    /\ expired' = expired \cup {c}
    /\ UNCHANGED <<kind, live, unhealthy, inUse>>
    /\ UNCHANGED <<registry, chanVars, waitVars, closeVars, locals>>

\* A panic nobody recovers ends the program: no goroutine takes another step.
Crash(what) ==
    /\ panic' = what
    /\ pc' = [p \in Procs |-> "dead"] /\ closer' = "dead"
    /\ UNCHANGED <<closed, doomed, frame, registry, connVars, chanVars, waitVars>>

\* Put sends to an idle channel Close has closed.
PanicSend(p) ==
    /\ pc[p] = "send"
    /\ ChannelOf(frame[p].conn) \in idleClosed
    /\ Crash("send on closed idle channel")

\* A waiter joins a queue Close has closed: select may pick the send.
PanicJoin(p) ==
    /\ pc[p] = "join"
    /\ frame[p].req \in queueClosed
    /\ Crash("send on closed wait queue")

\* A waiter leaves after Close has closed its waitChan: the second close.
PanicLeave(p) ==
    /\ pc[p] = "await"
    /\ p \in mailClosed
    /\ Deadline \/ closed
    /\ Crash("close of closed waitChan")

-----------------------------------------------------------------------------
Init ==
    /\ connections = {} /\ createSemaphore = {}
    /\ kind = [c \in Conns |-> NoKind]
    /\ live = {} /\ expired = {} /\ unhealthy = {} /\ inUse = {}
    /\ idle = [ch \in Channels |-> <<>>] /\ idleClosed = {}
    /\ waitQueue = [q \in Queues |-> <<>>] /\ queueClosed = {}
    /\ mail = [p \in Procs |-> None] /\ mailClosed = {}
    /\ closed = FALSE /\ closer = "open" /\ doomed = {}
    /\ pc = [p \in Procs |-> "idle"] /\ frame = [p \in Procs |-> NoFrame]
    /\ panic = "none"

\* The steps of a call, those its caller decides on apart.
GetStep(p) ==
    \/ LoopHead(p) \/ \E ch \in Channels : PollIdle(p, ch)
    \/ PollClosed(p) \/ PollDefault(p)
    \/ VetInvalid(p) \/ VetMismatch(p) \/ VetAccept(p) \/ Take(p) \/ Count(p)
CreateStep(p) ==
    \/ Acquire(p) \/ AcquireTimeout(p) \/ Admit(p) \/ DialFails(p)
    \/ \E c \in Conns, k \in DialKinds : Register(p, c, k)
WaitStep(p) ==
    \/ Join(p) \/ JoinGivesUp(p) \/ Receive(p) \/ GiveUp(p)
    \/ PanicJoin(p) \/ PanicLeave(p)
PutStep(p) ==
    \/ PutCheck(p) \/ PutIdle(p) \/ PutSend(p) \/ PanicSend(p)
    \/ NotifyWaiter(p) \/ NotifyNobody(p) \/ NotifySpin(p)
    \/ Retire(p) \/ Shut(p)
CallStep(p) == GetStep(p) \/ CreateStep(p) \/ WaitStep(p) \/ PutStep(p)
UserStep(p) == Begin(p) \/ UserPut(p) \/ UserClose(p)
CloseStep ==
    \/ CloseSwap \/ (\E c \in Conns : CloseConn(c)) \/ FoundEmpty
    \/ \E q \in Queues : DrainWaiter(q) \/ ShutQueue(q)
    \/ \E ch \in Channels : DrainIdle(ch) \/ ShutIdle(ch)

\* A panic ends the program; a closed pool nobody uses has nothing left to do.
Halted ==
    /\ panic # "none" \/ (Terminated /\ \A p \in Procs : pc[p] = "idle")
    /\ UNCHANGED vars

Next ==
    \/ \E p \in Procs : CallStep(p) \/ UserStep(p)
    \/ CloseBegin \/ CloseStep
    \/ \E c \in Conns : Expire(c)
    \/ Halted

Spec == Init /\ [][Next]_vars

-----------------------------------------------------------------------------
(* Type invariant.                                                         *)

ConnectionsOK ==
    /\ connections \in SUBSET Conns /\ createSemaphore \in SUBSET Procs
    /\ kind \in [Conns -> Kinds \cup {NoKind}]
    /\ {live, expired, unhealthy, inUse} \subseteq SUBSET Conns
QueuesOK ==
    /\ idle \in [Channels -> Seq(Conns)] /\ idleClosed \in SUBSET Channels
    /\ waitQueue \in [Queues -> Seq(Procs \cup {Dead})]
    /\ queueClosed \in SUBSET Queues
    /\ mail \in [Procs -> Conns \cup {None}] /\ mailClosed \in SUBSET Procs
CloseOK ==
    /\ closed \in BOOLEAN /\ doomed \in SUBSET Conns
    /\ closer \in {"open", "stopping", "closing", "shutting", "dead"}
    /\ panic \in {"none", "send on closed idle channel",
                  "send on closed wait queue", "close of closed waitChan"}
CallsOK == pc \in [Procs -> Labels] /\ frame \in [Procs -> Frames]

\* Every variable keeps the shape the declarations in pool.go give it, and no
\* loop counter of a Get passes the bound the loop tests it against.
TypeOK == ConnectionsOK /\ QueuesOK /\ CloseOK /\ CallsOK

=============================================================================
