------------------------------- MODULE CashIn -------------------------------
(***************************************************************************)
(* Cash-in: create-intent opens an intent and retires the open ones of the *)
(* same address; the deposit worker, or an operator, calls deliver-cash-in *)
(* for it, which pays the USDC and marks the row.                          *)
(*                                                                         *)
(* Both functions are stateless invocations that run side by side over the *)
(* table cash_in_intents: every await is a step boundary, and everything   *)
(* an invocation knows of a row is what it read before.  An intent stands  *)
(* for the create-intent request that inserts it.  The channel a delivery  *)
(* claims is left to ChannelPool: here a claim that fails is one more way  *)
(* to throw.                                                               *)
(***************************************************************************)
EXTENDS Integers

CONSTANTS
    Intents,     \* create-intent requests, and the rows they insert
    Addresses,   \* users
    owner,       \* the address each intent is for
    Deliveries,  \* deliver-cash-in requests
    NoIntent     \* a delivery that has not read an intent yet

ASSUME OwnerAssumption == owner \in [Intents -> Addresses]
ASSUME NoIntentAssumption == NoIntent \notin Intents

VARIABLES
    status,  \* cash_in_intents.status, "none" before the insert
    cpc,     \* where a create-intent request is
    pc,      \* where a delivery is
    target,  \* the intent a delivery is for
    tx,      \* what became of a delivery's payment
    paid,    \* the payments an intent has had, on the ledger
    tidy,    \* history: creations did not overlap and none was half done
    sure     \* history: deliveries of an intent did not overlap and all were marked

createVars == <<cpc, tidy>>
deliverVars == <<pc, target, tx, paid, sure>>
vars == <<status, createVars, deliverVars>>

Statuses == {"none", "pending", "matched", "delivered", "expired"}
Txs == {"none", "inflight", "landed", "failed"}

Init ==
    /\ status = [i \in Intents |-> "none"]
    /\ cpc = [i \in Intents |-> "start"]
    /\ pc = [d \in Deliveries |-> "start"]
    /\ target = [d \in Deliveries |-> NoIntent]
    /\ tx = [d \in Deliveries |-> "none"]
    /\ paid = [i \in Intents |-> 0]
    /\ tidy = TRUE /\ sure = TRUE

----------------------------------------------------------------------------
(* create-intent *)

Rivals(i) == {j \in Intents \ {i} : owner[j] = owner[i]}

Supersede(i, retired, label) ==
    /\ cpc[i] = "start"
    /\ status' = [j \in Intents |->
                    IF j \in Rivals(i) /\ status[j] \in retired THEN label ELSE status[j]]
    /\ cpc' = [cpc EXCEPT ![i] = "superseded"]
    /\ tidy' = (tidy /\ \A j \in Rivals(i) : cpc[j] # "superseded")
    /\ UNCHANGED deliverVars

\* The PATCH with the wrong status filter.
SupersedeMatched(i) == Supersede(i, {"matched"}, "expired")

\* supersedeOpenIntents: one UPDATE ... WHERE address AND status = 'pending'.
SupersedeOpenIntents(i) == Supersede(i, {"pending"}, "expired")

\* Its errors are swallowed.
SupersedeLost(i) ==
    /\ cpc[i] = "start"
    /\ cpc' = [cpc EXCEPT ![i] = "superseded"]
    /\ tidy' = FALSE
    /\ UNCHANGED <<status, deliverVars>>

Insert(i) ==
    /\ cpc[i] = "superseded"
    /\ status' = [status EXCEPT ![i] = "pending"]
    /\ cpc' = [cpc EXCEPT ![i] = "done"]
    /\ UNCHANGED <<tidy, deliverVars>>

\* A refused insert, or a request that dies.
CreateFailed(i) ==
    /\ cpc[i] # "done"
    /\ cpc' = [cpc EXCEPT ![i] = "done"]
    /\ UNCHANGED <<status, tidy, deliverVars>>

\* Deposit detection finds the pesos of an open intent.
Match(i) ==
    /\ status[i] = "pending"
    /\ status' = [status EXCEPT ![i] = "matched"]
    /\ UNCHANGED <<createVars, deliverVars>>

----------------------------------------------------------------------------
(* deliver-cash-in *)

\* The delivery still moves money, or moved money that no row records.
Unsettled(d) ==
    \/ pc[d] \in {"checked", "awaiting", "marking"}
    \/ tx[d] = "inflight"
    \/ tx[d] = "landed" /\ status[target[d]] # "delivered"

CheckUnless(d, i, refused) ==
    /\ pc[d] = "start"
    /\ target' = [target EXCEPT ![d] = i]
    /\ pc' = [pc EXCEPT ![d] = IF status[i] \in refused THEN "done" ELSE "checked"]
    /\ sure' = (sure /\ \A e \in Deliveries : target[e] = i => ~Unsettled(e))
    /\ UNCHANGED <<status, createVars, tx, paid>>

\* The check that asks only whether the row exists.
CheckExists(d, i) == CheckUnless(d, i, {"none"})

\* "If tied to an intent, refuse to double-deliver": a missing row (404) and a
\* delivered one (409) end the request, every other status goes on.
Check(d, i) == CheckUnless(d, i, {"none", "delivered"})

\* The account has a trustline, a channel is free, the payment goes out.
Pay(d) ==
    /\ pc[d] = "checked"
    /\ tx' = [tx EXCEPT ![d] = "inflight"]
    /\ pc' = [pc EXCEPT ![d] = "awaiting"]
    /\ UNCHANGED <<status, createVars, target, paid, sure>>

\* The row marked as soon as the payment is sent.
AnswerEarly(d) ==
    /\ pc[d] = "awaiting"
    /\ pc' = [pc EXCEPT ![d] = "marking"]
    /\ UNCHANGED <<status, createVars, target, tx, paid, sure>>

Answer(d) ==
    /\ pc[d] = "awaiting" /\ tx[d] = "landed"
    /\ pc' = [pc EXCEPT ![d] = "marking"]
    /\ UNCHANGED <<status, createVars, target, tx, paid, sure>>

\* No trustline, no channel, a refused payment, one not answered in time (it
\* may still be in flight), or a request that dies.
Throw(d) ==
    /\ pc[d] \in {"checked", "awaiting"}
    /\ pc' = [pc EXCEPT ![d] = "done"]
    /\ UNCHANGED <<status, createVars, target, tx, paid, sure>>

\* "Best-effort; funds already moved."
Mark(d) ==
    /\ pc[d] = "marking"
    /\ status' = [status EXCEPT ![target[d]] = "delivered"]
    /\ pc' = [pc EXCEPT ![d] = "done"]
    /\ UNCHANGED <<createVars, target, tx, paid, sure>>

MarkLost(d) ==
    /\ pc[d] = "marking"
    /\ pc' = [pc EXCEPT ![d] = "done"]
    /\ UNCHANGED <<status, createVars, target, tx, paid, sure>>

\* The ledger takes the payment, or refuses it.
Land(d) ==
    /\ tx[d] = "inflight"
    /\ tx' = [tx EXCEPT ![d] = "landed"]
    /\ paid' = [paid EXCEPT ![target[d]] = @ + 1]
    /\ UNCHANGED <<status, createVars, pc, target, sure>>

Refuse(d) ==
    /\ tx[d] = "inflight"
    /\ tx' = [tx EXCEPT ![d] = "failed"]
    /\ UNCHANGED <<status, createVars, pc, target, paid, sure>>

Create(i) ==
    \/ SupersedeOpenIntents(i) \/ SupersedeLost(i) \/ Insert(i) \/ CreateFailed(i)

Deliver(d) ==
    \/ \E i \in Intents : Check(d, i)
    \/ Pay(d) \/ Answer(d) \/ Throw(d) \/ Mark(d) \/ MarkLost(d)
    \/ Land(d) \/ Refuse(d)

Next ==
    \/ \E i \in Intents : Create(i) \/ Match(i)
    \/ \E d \in Deliveries : Deliver(d)

Spec == Init /\ [][Next]_vars

----------------------------------------------------------------------------
(* Properties *)

TypeOK ==
    /\ status \in [Intents -> Statuses]
    /\ cpc \in [Intents -> {"start", "superseded", "done"}]
    /\ pc \in [Deliveries -> {"start", "checked", "awaiting", "marking", "done"}]
    /\ target \in [Deliveries -> Intents \cup {NoIntent}]
    /\ tx \in [Deliveries -> Txs]
    /\ paid \in [Intents -> Nat]
    /\ tidy \in BOOLEAN /\ sure \in BOOLEAN

\* The status column is no mutex: it keeps an intent from being paid twice as
\* long as each delivery of it starts after the others have ended, been answered
\* and been recorded.
PaidOnceWhileSure == sure => \A i \in Intents : paid[i] <= 1

\* A row says delivered only once its money is on the ledger.
DeliveredIsPaid ==
    \A i \in Intents : status[i] = "delivered" => paid[i] >= 1

\* Superseding one intent at a time leaves an address one open intent.
OneOpenWhileTidy ==
    tidy => \A i, j \in Intents :
               i # j /\ owner[i] = owner[j] /\ status[i] = "pending"
                  => status[j] # "pending"

\* An intent whose pesos have arrived is never retired by a newer one, and a
\* delivery is never undone.
FundedIntentsStand ==
    [][\A i \in Intents :
          /\ status[i] = "matched" => status'[i] \in {"matched", "delivered"}
          /\ status[i] = "delivered" => status'[i] = "delivered"]_vars
=============================================================================
