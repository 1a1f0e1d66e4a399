---------------------------- MODULE SequencePool ----------------------------
(***************************************************************************)
(* What a pool of channels promises to the requests that use it: one user  *)
(* of a channel at a time, and a number of that channel's sequence for     *)
(* each, which the ledger uses up once.  The promise ends, and with it all *)
(* that is said here, when a user outlives its lease (broken).             *)
(***************************************************************************)
EXTENDS Integers

CONSTANTS Channels, Requests

VARIABLES
    users,   \* who uses a channel
    number,  \* the last number of its sequence that was used up
    served,  \* the requests that have had theirs
    broken   \* a lease has ended before the work done under it

promise == <<users, number, served, broken>>

Init ==
    /\ users = [c \in Channels |-> {}]
    /\ number = [c \in Channels |-> 0]
    /\ served = {}
    /\ broken = FALSE

\* A request takes a channel that nobody uses.
Take(r, c) ==
    /\ ~broken
    /\ users[c] = {}
    /\ \A d \in Channels : r \notin users[d]
    /\ users' = [users EXCEPT ![c] = {r}]
    /\ UNCHANGED <<number, served, broken>>

\* It leaves it, served or not.
Leave(r, c) ==
    /\ ~broken
    /\ users[c] = {r}
    /\ users' = [users EXCEPT ![c] = {}]
    /\ UNCHANGED <<number, served, broken>>

\* Its transaction is applied; one whose request has gone leaves with that.
Serve(r, c) ==
    /\ ~broken
    /\ users[c] = {r} /\ r \notin served
    /\ number' = [number EXCEPT ![c] = @ + 1]
    /\ served' = served \cup {r}
    /\ users' \in {users, [users EXCEPT ![c] = {}]}
    /\ UNCHANGED broken

Break == broken'

Next ==
    \/ \E r \in Requests, c \in Channels : Take(r, c) \/ Leave(r, c) \/ Serve(r, c)
    \/ Break

Spec == Init /\ [][Next]_promise
=============================================================================
