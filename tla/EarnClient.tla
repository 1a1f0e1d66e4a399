----------------------------- MODULE EarnClient -----------------------------
(***************************************************************************)
(* The savings of one user as the app moves them: earnDeposit and          *)
(* earnWithdraw, each a transaction that is built on the account's next    *)
(* sequence number, sent, polled, and once tried again when the polling    *)
(* did not see it succeed; and the ledger of principal (earn_positions)    *)
(* that the app reads and writes back when a transaction has succeeded.    *)
(*                                                                         *)
(* A screen can be left while its call goes on, so calls interleave; every *)
(* await is a step boundary.  The vault is taken for an account that earns *)
(* interest and rounds nothing; its shares are EarnVault's matter.  The    *)
(* closing of an account and the chart are left out.                       *)
(***************************************************************************)
EXTENDS Integers, FiniteSets

CONSTANTS
    Deposits,     \* calls of earnDeposit(amount)
    Withdrawals,  \* calls of earnWithdraw(amount)
    Exits,        \* calls of earnWithdraw()
    amount,       \* what each of the first two is for
    Funds,        \* USDC in the wallet at first
    MaxInterest,  \* bound: interest the vault ever pays
    MaxOpen,      \* bound: calls under way at once
    MaxCalls      \* bound: calls ever made

Calls == Deposits \cup Withdrawals \cup Exits
Parts == Deposits \cup Withdrawals

ASSUME KindsAssumption ==
    /\ Deposits \cap Withdrawals = {} /\ Deposits \cap Exits = {}
    /\ Withdrawals \cap Exits = {}
ASSUME AmountsAssumption ==
    /\ amount \in [Parts -> Nat \ {0}]
    /\ Funds \in Nat /\ MaxInterest \in Nat 
    /\ MaxOpen \in Nat /\ MaxCalls \in Nat

VARIABLES
    wallet,     \* USDC of the account
    position,   \* value of its vault shares
    interest,   \* history: interest paid so far
    seqNum,     \* sequence number of the account
    principal,  \* earn_positions.net_deposited, 0 for no row
    pc,         \* where a call is
    empties,    \* a withdrawal that goes through withdraw_all
    try,        \* the attempt a call is at
    seq,        \* the sequence number of each attempt's transaction
    tx,         \* what became of it
    read,       \* the principal a call has read
    slipped,    \* history: some call's first transaction landed after its last
                \* poll and before the second attempt loaded the account
    orderly     \* history: calls came one after another, and none ended unsure
                \* of its transaction, unrecorded, or with its read failed

ledger == <<wallet, position, interest, seqNum>>
attempts == <<empties, try, seq, tx>>
history == <<slipped, orderly>>
vars == <<ledger, principal, pc, attempts, read, history>>

Tries == {1, 2}
PCs == {"idle", "load", "built", "polling", "record", "writing", "done"}
Txs == {"none", "inflight", "landed", "failed"}

Init ==
    /\ wallet = Funds /\ position = 0 /\ interest = 0 /\ seqNum = 0
    /\ principal = 0
    /\ pc = [c \in Calls |-> "idle"]
    /\ empties = [c \in Calls |-> c \in Exits]
    /\ try = [c \in Calls |-> 1]
    /\ seq = [c \in Calls |-> [t \in Tries |-> 0]]
    /\ tx = [c \in Calls |-> [t \in Tries |-> "none"]]
    /\ read = [c \in Calls |-> 0]
    /\ slipped = FALSE /\ orderly = TRUE

Ended(c) == pc[c] \in {"idle", "done"}

Goto(c, from, to) == pc[c] = from /\ pc' = [pc EXCEPT ![c] = to]

\* Whether the vault would do what the call asks of it, now.
Executes(c) ==
    IF c \in Deposits THEN amount[c] <= wallet
    ELSE position > 0 /\ (~empties[c] => amount[c] <= position)

\* Where a call goes on once the money has moved: resetDeposits reads nothing.
Recording(c) == IF c \in Exits THEN "writing" ELSE "record"

\* No transaction of the call has moved money, or still may.
Traceless(c) == \A t \in Tries : tx[c][t] \notin {"inflight", "landed"}

----------------------------------------------------------------------------
(* The app: earnDeposit, earnWithdraw *)

\* Both read the position first when they withdraw: nothing there is a success,
\* and all of it, or more, is withdrawn by withdraw_all.
Ask(c) ==
    /\ Goto(c, "idle", IF c \notin Deposits /\ position = 0 THEN Recording(c) ELSE "load")
    /\ empties' = [empties EXCEPT ![c] =
                     c \in Exits \/ (c \in Withdrawals /\ amount[c] >= position)]
    /\ Cardinality({d \in Calls : ~Ended(d)}) < MaxOpen
    /\ Cardinality({d \in Calls : pc[d] # "idle"}) < MaxCalls
    /\ orderly' = (orderly /\ \A d \in Calls : Ended(d))
    /\ UNCHANGED <<ledger, principal, try, seq, tx, read, slipped>>

LoadNumber(c, n) ==
    /\ Goto(c, "load", "built")
    /\ Executes(c)
    /\ seq' = [seq EXCEPT ![c] = [@ EXCEPT ![try[c]] = n]]
    /\ UNCHANGED <<ledger, principal, empties, try, tx, read, history>>

\* The second attempt on the number after the first one's.
LoadNext(c) == LoadNumber(c, IF try[c] = 1 THEN seqNum + 1 ELSE seq[c][1] + 1)

\* invokeEarnOnce, up to the simulation: the account is loaded at each attempt.
Load(c) == LoadNumber(c, seqNum + 1)

\* fee-bump passes the transaction on, to a network that may drop it at once.
Send(c) ==
    /\ Goto(c, "built", "polling")
    /\ tx' = [tx EXCEPT ![c] = [@ EXCEPT ![try[c]] = "inflight"]]
    /\ UNCHANGED <<ledger, principal, empties, try, seq, read, history>>

PollSuccess(c) ==
    /\ Goto(c, "polling", Recording(c))
    /\ tx[c][try[c]] = "landed"
    /\ UNCHANGED <<ledger, principal, attempts, read, history>>

\* FAILED, or still NOT_FOUND at the last poll: once more, or an error.
PollFailure(c) ==
    /\ Goto(c, "polling", IF try[c] = 1 THEN "load" ELSE "done")
    /\ tx[c][try[c]] # "landed"
    /\ try' = [try EXCEPT ![c] = 2]
    /\ orderly' = (orderly /\ (try[c] = 1 \/ Traceless(c)))
    /\ UNCHANGED <<ledger, principal, empties, seq, tx, read, slipped>>

\* An error anywhere else, a simulation that fails among them, or the app dies.
Throw(c) ==
    /\ ~Ended(c)
    /\ pc' = [pc EXCEPT ![c] = "done"]
    /\ orderly' = (orderly /\ Traceless(c))
    /\ UNCHANGED <<ledger, principal, attempts, read, slipped>>

----------------------------------------------------------------------------
(* The ledger of principal: recordDeposit, recordWithdrawal, resetDeposits *)

ReadPrincipal(c) ==
    /\ Goto(c, "record", "writing")
    /\ read' = [read EXCEPT ![c] = principal]
    /\ UNCHANGED <<ledger, principal, attempts, history>>

\* A read that fails is null, and null is taken for 0.
ReadFails(c) ==
    /\ Goto(c, "record", "writing")
    /\ read' = [read EXCEPT ![c] = 0]
    /\ orderly' = FALSE
    /\ UNCHANGED <<ledger, principal, attempts, slipped>>

Less(n, m) == IF n > m THEN n - m ELSE 0

\* What the call makes of the principal it has read.
Recorded(c, n) ==
    CASE c \in Deposits    -> n + amount[c]
      [] c \in Withdrawals -> Less(n, amount[c])
      [] OTHER             -> 0

WriteRecord(c, n) ==
    /\ Goto(c, "writing", "done")
    /\ principal' = n
    /\ UNCHANGED <<ledger, attempts, read, history>>

\* A deposit that replaces the row.
WriteOver(c) == WriteRecord(c, Recorded(c, IF c \in Deposits THEN 0 ELSE read[c]))

SetNetDeposited(c) == WriteRecord(c, Recorded(c, read[c]))

----------------------------------------------------------------------------
(* The account and the vault *)

\* The transaction has its turn: its number is the next one, and is used up.
Turn(c, t, fate) ==
    /\ tx[c][t] = "inflight" /\ seq[c][t] = seqNum + 1
    /\ seqNum' = seqNum + 1
    /\ tx' = [tx EXCEPT ![c] = [@ EXCEPT ![t] = fate]]
    /\ UNCHANGED <<principal, pc, empties, try, seq, read, interest>>

\* What the vault takes from the wallet; a withdrawal is negative.
Moved(c) ==
    CASE c \in Deposits                  -> amount[c]
      [] c \notin Deposits /\ empties[c] -> -position
      [] OTHER                           -> -amount[c]

Lands(c, t) ==
    /\ Executes(c)
    /\ Turn(c, t, "landed")
    /\ position' = position + Moved(c)
    /\ wallet' = wallet - Moved(c)
    /\ slipped' = (slipped \/ (t = 1 /\ try[c] = 2 /\ pc[c] = "load"))
    /\ orderly' = (orderly /\ t = try[c] /\ pc[c] = "polling")

\* The vault panics, or the footprint of the simulation no longer fits.
Traps(c, t) ==
    /\ Turn(c, t, "failed")
    /\ UNCHANGED <<wallet, position, history>>

\* It was never accepted, its number is taken or its 120 seconds are over.
Expires(c, t) ==
    /\ tx[c][t] = "inflight"
    /\ tx' = [tx EXCEPT ![c] = [@ EXCEPT ![t] = "failed"]]
    /\ UNCHANGED <<ledger, principal, pc, empties, try, seq, read, history>>

Interest ==
    /\ position > 0 /\ interest < MaxInterest
    /\ position' = position + 1 /\ interest' = interest + 1
    /\ UNCHANGED <<wallet, seqNum, principal, pc, attempts, read, history>>

Next ==
    \/ \E c \in Calls :
          \/ Ask(c) \/ Load(c) \/ Send(c) \/ PollSuccess(c) \/ PollFailure(c) \/ Throw(c)
          \/ ReadPrincipal(c) \/ ReadFails(c) \/ SetNetDeposited(c)
          \/ \E t \in Tries : Lands(c, t) \/ Traps(c, t) \/ Expires(c, t)
    \/ Interest

Spec == Init /\ [][Next]_vars

----------------------------------------------------------------------------
(* Properties *)

TypeOK ==
    /\ wallet \in Nat /\ position \in Nat /\ interest \in 0 .. MaxInterest
    /\ seqNum \in Nat /\ principal \in Nat
    /\ pc \in [Calls -> PCs] /\ empties \in [Calls -> BOOLEAN] /\ try \in [Calls -> Tries]
    /\ seq \in [Calls -> [Tries -> Nat]] /\ tx \in [Calls -> [Tries -> Txs]]
    /\ read \in [Calls -> Nat]
    /\ slipped \in BOOLEAN /\ orderly \in BOOLEAN

\* A call moves money once, although it is tried again while its first
\* transaction may still land: the account's sequence number lets one of the two
\* through, unless the first lands just before the second is built.
OnceUnlessSlipped ==
    slipped \/ \A c \in Calls : ~(tx[c][1] = "landed" /\ tx[c][2] = "landed")

\* What the Earn screen shows as earned, the position less the principal, is
\* interest that was paid, and no deposit is counted as earned, through partial
\* withdrawals, withdrawn interest and new deposits.
EarnedIsInterest ==
    orderly /\ (\A c \in Calls : Ended(c)) =>
       position - principal \in 0 .. interest
=============================================================================
