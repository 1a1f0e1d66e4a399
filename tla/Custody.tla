------------------------------- MODULE Custody -------------------------------
(***************************************************************************)
(* The two-of-three custody of one activated account: the device keys that *)
(* may sign for it, and the four Edge Functions that act on it.  fee-bump  *)
(* adds Remitt's co-signature to a send of the user and queues the payout  *)
(* of a cash-out; recover-account swaps the device key and close-account   *)
(* sweeps and merges the account, both on the signatures of Remitt and of  *)
(* compliance alone; set-freeze edits the freeze list.                     *)
(*                                                                         *)
(* The account holds two service signers throughout, so a transaction has  *)
(* the weight it needs when Remitt signs with a live device key or with    *)
(* compliance.  An invocation reads, submits and is answered in separate   *)
(* steps; between them anything may happen, and a transaction that was not *)
(* answered in time may still be applied.  Identity (e-mail session,       *)
(* passcode) and the channel of recover and close are other modules'.      *)
(***************************************************************************)
EXTENDS Integers

CONSTANTS
    Sends,       \* fee-bump requests for a payment of the user
    CashOuts,    \* those of them that pay the treasury
    amount,      \* what each send pays, in stroops
    Recoveries,  \* recover-account requests; each brings a new device key
    Closings,    \* close-account requests
    Master,      \* the device key the account was activated with
    Funds,       \* USDC of the account at first, in stroops
    MaxFunds     \* bound: USDC the account ever holds

Requests == Sends \cup Recoveries \cup Closings

ASSUME KindsAssumption ==
    /\ Sends \cap Recoveries = {} /\ Sends \cap Closings = {}
    /\ Recoveries \cap Closings = {} /\ Master \notin Recoveries
    /\ CashOuts \subseteq Sends
ASSUME AmountsAssumption ==
    /\ amount \in [Sends -> Nat \ {0}]
    /\ MaxFunds \in Nat /\ Funds \in 0 .. MaxFunds

VARIABLES
    open,     \* the account exists
    devices,  \* its signers but the service signers: keys held by devices
    usdc,     \* its USDC
    frozen,   \* it has a row in frozen_accounts
    payouts,  \* offramp_payouts: the cash-outs that have a row
    pc,       \* where a request is
    tx,       \* what became of its transaction
    key,      \* the device key that signed a send
    prior,    \* the device keys a recovery has read
    held,     \* the balance a closing has read
    apart,    \* history: no two recoveries have overlapped
    revoked   \* history: keys a recovery has revoked

account == <<open, devices, usdc>>
seen == <<key, prior, held>>
history == <<apart, revoked>>
vars == <<account, frozen, payouts, pc, tx, seen, history>>

\* Keys are named by the recovery that brings them.
Keys == {Master} \cup Recoveries
PCs == {"idle", "ready", "awaiting", "settled", "done"}
Txs == {"none", "inflight", "landed", "failed"}

Init ==
    /\ open = TRUE /\ devices = {Master} /\ usdc = Funds
    /\ frozen = FALSE /\ payouts = {}
    /\ pc = [r \in Requests |-> "idle"]
    /\ tx = [r \in Requests |-> "none"]
    /\ key = [s \in Sends |-> Master]
    /\ prior = [r \in Recoveries |-> {}]
    /\ held = [c \in Closings |-> 0]
    /\ apart = TRUE /\ revoked = {}

----------------------------------------------------------------------------
(* What the three kinds of request share *)

Goto(r, from, to) == pc[r] = from /\ pc' = [pc EXCEPT ![r] = to]

\* Channel claimed, Remitt's signature fetched, envelope posted.
Submit(r) ==
    /\ Goto(r, "ready", "awaiting")
    /\ tx' = [tx EXCEPT ![r] = "inflight"]
    /\ UNCHANGED <<account, frozen, payouts, seen, history>>

Answer(r) ==
    /\ Goto(r, "awaiting", IF r \in Sends THEN "settled" ELSE "done")
    /\ tx[r] = "landed"
    /\ UNCHANGED <<account, frozen, payouts, tx, seen, history>>

\* A refusal, an error on the way, an answer that does not come, or a request
\* that dies: nothing is undone, and a transaction in flight stays there.
Throw(r) ==
    /\ pc[r] \notin {"idle", "done"}
    /\ pc' = [pc EXCEPT ![r] = "done"]
    /\ UNCHANGED <<account, frozen, payouts, tx, seen, history>>

Refuse(r) ==
    /\ tx[r] = "inflight"
    /\ tx' = [tx EXCEPT ![r] = "failed"]
    /\ UNCHANGED <<account, frozen, payouts, pc, seen, history>>

Lands(r) == tx[r] = "inflight" /\ open /\ tx' = [tx EXCEPT ![r] = "landed"]

----------------------------------------------------------------------------
(* fee-bump *)

CheckUnless(s, refused) ==
    /\ Goto(s, "idle", IF refused THEN "done" ELSE "ready")
    /\ \E k \in {Master} \cup {r \in Recoveries : pc[r] # "idle"} :
          key' = [key EXCEPT ![s] = k]
    /\ UNCHANGED <<account, frozen, payouts, tx, prior, held, history>>

\* A freeze list that cannot be read, taken for an empty one.
AssertNotFrozenFailOpen(s) == CheckUnless(s, FALSE)

\* assertNotFrozen, for a send that some device has signed: any device that has
\* ever had a key, its key live or not.
AssertNotFrozen(s) == CheckUnless(s, frozen)

SendLands(s) ==
    /\ Lands(s)
    /\ key[s] \in devices /\ amount[s] <= usdc
    /\ usdc' = usdc - amount[s]
    /\ UNCHANGED <<open, devices, frozen, payouts, pc, seen, history>>

\* The row written when the transaction is sent.
EmitEarly(s) ==
    /\ Goto(s, "awaiting", "done")
    /\ payouts' = IF s \in CashOuts THEN payouts \cup {s} ELSE payouts
    /\ UNCHANGED <<account, frozen, tx, seen, history>>

\* emitClassicSideEffects: best-effort, after the answer.
EmitClassicSideEffects(s) ==
    /\ Goto(s, "settled", "done")
    /\ payouts' = IF s \in CashOuts THEN payouts \cup {s} ELSE payouts
    /\ UNCHANGED <<account, frozen, tx, seen, history>>

----------------------------------------------------------------------------
(* recover-account *)

\* A recovery that may still change the signers.
Pending(r) == pc[r] = "ready" \/ tx[r] = "inflight"

LoadSigners(r) ==
    /\ Goto(r, "idle", IF open THEN "ready" ELSE "done")
    /\ prior' = [prior EXCEPT ![r] = devices]
    /\ apart' = (apart /\ \A q \in Recoveries : ~Pending(q))
    /\ UNCHANGED <<account, frozen, payouts, tx, key, held, revoked>>

\* Only the master key, as before chains of recoveries were thought of.
RevokedMaster(r) == {Master}

\* masterWeight: 0, and weight 0 for every other device key it has read.
Revoked(r) == {Master} \cup prior[r]

\* A client that offers the key it already had.
NewKeyReused(r) == Master

\* createWallet: a key pair of its own for every attempt to recover.
NewKey(r) == r

RecoveryLands(r) ==
    /\ Lands(r)
    /\ devices' = (devices \ Revoked(r)) \cup {NewKey(r)}
    /\ revoked' = revoked \cup Revoked(r)
    /\ UNCHANGED <<open, usdc, frozen, payouts, pc, seen, apart>>

----------------------------------------------------------------------------
(* close-account *)

LoadAccount(c) ==
    /\ Goto(c, "idle", IF open THEN "ready" ELSE "done")
    /\ held' = [held EXCEPT ![c] = usdc]
    /\ UNCHANGED <<account, frozen, payouts, tx, key, prior, history>>

\* A payment of the balance, if it is more than 0.0000001.
Swept(c) == IF held[c] > 1 THEN held[c] ELSE 0

\* The trustline goes only if nothing is left on it, and with it the account.
\* All of it is one transaction.
CloseLands(c) ==
    /\ Lands(c)
    /\ usdc = Swept(c)
    /\ open' = FALSE /\ devices' = {} /\ usdc' = 0
    /\ UNCHANGED <<frozen, payouts, pc, seen, history>>

----------------------------------------------------------------------------
(* set-freeze, and money from elsewhere *)

SetFreeze(action) ==
    /\ frozen' = (action = "freeze")
    /\ UNCHANGED <<account, payouts, pc, tx, seen, history>>

Receive ==
    /\ open /\ usdc < MaxFunds
    /\ usdc' = usdc + 1
    /\ UNCHANGED <<open, devices, frozen, payouts, pc, tx, seen, history>>

Next ==
    \/ \E r \in Requests : Submit(r) \/ Answer(r) \/ Throw(r) \/ Refuse(r)
    \/ \E s \in Sends : AssertNotFrozen(s) \/ SendLands(s) \/ EmitClassicSideEffects(s)
    \/ \E r \in Recoveries : LoadSigners(r) \/ RecoveryLands(r)
    \/ \E c \in Closings : LoadAccount(c) \/ CloseLands(c)
    \/ \E action \in {"freeze", "unfreeze"} : SetFreeze(action)
    \/ Receive

Spec == Init /\ [][Next]_vars

----------------------------------------------------------------------------
(* Properties *)

TypeOK ==
    /\ open \in BOOLEAN /\ devices \subseteq Keys /\ usdc \in 0 .. MaxFunds
    /\ frozen \in BOOLEAN /\ payouts \subseteq CashOuts
    /\ pc \in [Requests -> PCs] /\ tx \in [Requests -> Txs]
    /\ key \in [Sends -> Keys]
    /\ prior \in [Recoveries -> SUBSET Keys]
    /\ held \in [Closings -> 0 .. MaxFunds]
    /\ apart \in BOOLEAN /\ revoked \subseteq Keys

\* A chain of recoveries leaves one device key alive, the newest, as long as no
\* recovery reads the signers while another may still change them.
OneKeyWhileApart == apart => \A k, l \in devices : k = l

\* A key that a recovery has revoked never signs again, whatever other
\* recoveries, however much they overlap, do to the account afterwards.
RevokedStaysDead == devices \cap revoked = {}

\* No send is between the freeze check and its end.
Drained == \A s \in Sends : pc[s] # "ready" /\ tx[s] # "inflight"

\* A freeze holds once the sends that had passed the check are through: until
\* it is lifted no device key, recovered ones included, moves any money.
\* Closing the account does.
FreezeHolds ==
    [][frozen /\ Drained =>
          /\ Drained'
          /\ usdc' >= usdc \/ ~open']_vars

\* Whatever is queued for payout has reached the treasury: a refused or frozen
\* cash-out, or one that is still in flight, is never disbursed.
PayoutsAreSettled == \A s \in payouts : tx[s] = "landed"
=============================================================================
