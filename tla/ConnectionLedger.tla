--------------------------- MODULE ConnectionLedger ---------------------------
(***************************************************************************)
(* What a borrower may rely on, however Get, Put and Close go about it: a  *)
(* connection is in one hand at a time, is open when it is handed out, and *)
(* is closed by nobody else before it is back, until the pool is shut.     *)
(***************************************************************************)
EXTENDS Naturals

CONSTANTS Conns, Clients

VARIABLES
    state,    \* "unmade", "open" or "closed"
    holders,  \* the clients that have borrowed a connection
    shut,     \* has Close been called?
    ended     \* has a panic ended the program?

ledger == <<state, holders, shut, ended>>

Init ==
    /\ state = [c \in Conns |-> "unmade"]
    /\ holders = [c \in Conns |-> {}]
    /\ shut = FALSE /\ ended = FALSE

Make(c) ==
    /\ state[c] = "unmade"
    /\ state' = [state EXCEPT ![c] = "open"]
    /\ UNCHANGED <<holders, shut, ended>>

\* Only a Get overtaken by Close may hand out a connection that is closed.
Lend(c, p) ==
    /\ holders[c] = {}
    /\ state[c] = "open" \/ (shut /\ state[c] = "closed")
    /\ holders' = [holders EXCEPT ![c] = {p}]
    /\ UNCHANGED <<state, shut, ended>>

Return(c, p) ==
    /\ p \in holders[c]
    /\ holders' = [holders EXCEPT ![c] = {}]
    /\ UNCHANGED <<state, shut, ended>>

\* The borrower closes the connection and keeps it from the pool.
Drop(c, p) ==
    /\ p \in holders[c]
    /\ holders' = [holders EXCEPT ![c] = {}]
    /\ state' = [state EXCEPT ![c] = "closed"]
    /\ UNCHANGED <<shut, ended>>

\* The pool closes a connection; a borrowed one only when it is shut.
Discard(c) ==
    /\ state[c] = "open"
    /\ holders[c] = {} \/ shut
    /\ state' = [state EXCEPT ![c] = "closed"]
    /\ UNCHANGED <<holders, shut, ended>>

Shutdown ==
    /\ shut' = TRUE
    /\ UNCHANGED <<state, holders, ended>>

\* Nothing but a race with Close makes the pool panic.
End ==
    /\ shut
    /\ ended' = TRUE
    /\ holders' = [c \in Conns |-> {}]
    /\ UNCHANGED <<state, shut>>

Next ==
    /\ ~ended
    /\ \/ \E c \in Conns : Make(c) \/ Discard(c)
       \/ \E c \in Conns, p \in Clients : Lend(c, p) \/ Return(c, p) \/ Drop(c, p)
       \/ Shutdown \/ End

Spec == Init /\ [][Next]_ledger

=============================================================================
