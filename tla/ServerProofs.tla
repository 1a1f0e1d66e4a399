---------------------------- MODULE ServerProofs ----------------------------
(***************************************************************************)
(* What holds of the two parts of the server that guard an account: its    *)
(* custody, for any number of sends, recoveries and closings; and the      *)
(* lockout of its recovery passcode, for any number of sessions, passcodes *)
(* and tries.                                                              *)
(***************************************************************************)
EXTENDS Custody, RecoveryPin, TLAPS

----------------------------------------------------------------------------
(* Custody *)


\* Where a request is tells what became of its transaction.
Stages ==
    \A q \in Requests :
       /\ pc[q] \in {"idle", "ready"} => tx[q] = "none"
       /\ pc[q] = "settled" => tx[q] = "landed"

\* The key of a recovery is nowhere before the recovery lands.
Unborn ==
    \A r \in Recoveries :
       tx[r] # "landed" =>
          /\ r \notin devices /\ r \notin revoked
          /\ \A q \in Recoveries : r \notin prior[q]

\* While recoveries did not overlap, at most one may still change the signers,
\* and it revokes every key there is.
OneByOne ==
    apart =>
       /\ \A q, r \in Recoveries : q # r /\ Pending(q) => ~Pending(r)
       /\ \A r \in Recoveries : Pending(r) => devices \subseteq Revoked(r)

KeysInv == Unborn /\ OneByOne /\ OneKeyWhileApart /\ RevokedStaysDead

IInv == TypeOK /\ Stages /\ KeysInv /\ PayoutsAreSettled

----------------------------------------------------------------------------

\* The invariant holds initially.
LEMMA InitInv == Init => IInv
<1> SUFFICES ASSUME Init
             PROVE  IInv
  OBVIOUS
<1>1. TypeOK
  <2>1. usdc \in 0 .. MaxFunds /\ held \in [Closings -> 0 .. MaxFunds]
    BY AmountsAssumption DEF Init
  <2>2. pc \in [Requests -> PCs] /\ tx \in [Requests -> Txs]
    BY DEF Init, PCs, Txs
  <2>3. key \in [Sends -> Keys] /\ prior \in [Recoveries -> SUBSET Keys]
    BY DEF Init, Keys
  <2> QED
    BY <2>1, <2>2, <2>3 DEF Init, TypeOK, Keys
<1>2. \A r \in Requests : pc[r] = "idle" /\ tx[r] = "none"
  BY DEF Init
<1>3. Stages /\ PayoutsAreSettled
  BY <1>2 DEF Init, Stages, PayoutsAreSettled
<1>4. Unborn
  BY KindsAssumption DEF Init, Unborn
<1>5. OneByOne
  BY <1>2 DEF OneByOne, Pending, Requests
<1>6. OneKeyWhileApart /\ RevokedStaysDead
  BY DEF Init, OneKeyWhileApart, RevokedStaysDead
<1> QED
  BY <1>1, <1>3, <1>4, <1>5, <1>6 DEF IInv, KeysInv

\* A step that leaves the signers alone, starts no recovery and moves none on
\* but away from its transaction keeps everything about keys.
LEMMA KeysKept ==
    ASSUME KeysInv,
           UNCHANGED <<prior, apart, revoked>>, devices' \subseteq devices,
           \A r \in Recoveries :
              /\ Pending(r)' => Pending(r)
              /\ tx[r] = "landed" => tx'[r] = "landed"
    PROVE  KeysInv'
  BY DEF KeysInv, Unborn, OneByOne, OneKeyWhileApart, RevokedStaysDead, Revoked

\* The steps every kind of request has.
LEMMA RequestInv ==
    ASSUME IInv, NEW q \in Requests, Submit(q) \/ Answer(q) \/ Throw(q) \/ Refuse(q)
    PROVE  IInv'
<1> USE DEF Submit, Answer, Throw, Refuse, Goto, account, seen, history
<1>1. TypeOK' /\ Stages'
  BY DEF IInv, TypeOK, Stages, PCs, Txs
<1>2. \A r \in Requests : tx[r] = "landed" => tx'[r] = "landed"
  BY DEF IInv, TypeOK, Stages
<1>3. \A r \in Recoveries : Pending(r)' => Pending(r)
  BY DEF IInv, TypeOK, Stages, Pending, Requests
<1>4. KeysInv'
  BY <1>2, <1>3, KeysKept DEF IInv, Requests
<1>5. PayoutsAreSettled'
  BY <1>2, KindsAssumption DEF IInv, TypeOK, PayoutsAreSettled, Requests
<1> QED
  BY <1>1, <1>4, <1>5 DEF IInv

\* Sends.
LEMMA SendInv ==
    ASSUME IInv, NEW s \in Sends,
           AssertNotFrozen(s) \/ SendLands(s) \/ EmitClassicSideEffects(s)
    PROVE  IInv'
<1> USE DEF AssertNotFrozen, CheckUnless, SendLands, EmitClassicSideEffects, Lands,
        Goto, account, seen, history
<1>1. s \in Requests /\ s \notin Recoveries
  BY KindsAssumption DEF Requests
<1>2. TypeOK' /\ Stages'
  <2>1. amount[s] \in Nat \ {0}
    BY AmountsAssumption
  <2> QED
    BY <1>1, <2>1, AmountsAssumption, KindsAssumption
       DEF IInv, TypeOK, Stages, PCs, Txs, Keys, Requests
<1>3. \A r \in Requests : tx[r] = "landed" => tx'[r] = "landed"
  BY <1>1 DEF IInv, TypeOK
<1>4. \A r \in Recoveries : Pending(r)' => Pending(r)
  BY <1>1 DEF IInv, TypeOK, Pending, Requests
<1>5. KeysInv'
  BY <1>3, <1>4, KeysKept DEF IInv, Requests
<1>6. PayoutsAreSettled'
  BY <1>1, <1>3, KindsAssumption DEF IInv, TypeOK, Stages, PayoutsAreSettled, Requests
<1> QED
  BY <1>2, <1>5, <1>6 DEF IInv

\* A recovery reads the keys it will revoke.
LEMMA LoadSignersInv ==
    ASSUME IInv, NEW r \in Recoveries, LoadSigners(r)
    PROVE  IInv'
<1> USE DEF LoadSigners, Goto, account
<1>1. r \in Requests
  BY DEF Requests
<1>2. TypeOK' /\ Stages'
  BY <1>1 DEF IInv, TypeOK, Stages, PCs
<1>3. Unborn' /\ OneKeyWhileApart' /\ RevokedStaysDead'
  BY DEF IInv, TypeOK, KeysInv, Unborn, OneKeyWhileApart, RevokedStaysDead
<1>4. OneByOne'
  <2> SUFFICES ASSUME apart'
               PROVE  OneByOne'
    BY DEF OneByOne
  <2>1. apart /\ \A q \in Recoveries : ~Pending(q)
    OBVIOUS
  <2>2. \A q \in Recoveries : Pending(q)' => q = r
    BY <1>1, <2>1 DEF IInv, TypeOK, Pending, Requests
  <2>3. devices' \subseteq Revoked(r)'
    BY DEF IInv, TypeOK, Revoked
  <2> QED
    BY <2>2, <2>3 DEF OneByOne
<1>5. PayoutsAreSettled'
  BY DEF IInv, PayoutsAreSettled
<1> QED
  BY <1>2, <1>3, <1>4, <1>5 DEF IInv, KeysInv

\* It revokes them, and its own key is new.
LEMMA RecoveryLandsInv ==
    ASSUME IInv, NEW r \in Recoveries, RecoveryLands(r)
    PROVE  IInv'
<1> USE DEF RecoveryLands, Lands, NewKey, seen
<1>1. r \in Requests /\ tx[r] = "inflight" /\ tx' = [tx EXCEPT ![r] = "landed"]
  BY DEF Requests
<1>2. TypeOK' /\ Stages'
  BY <1>1 DEF IInv, TypeOK, Stages, Txs, Keys, Revoked
<1>3. r \notin devices /\ r \notin revoked /\ r \notin Revoked(r)
  BY <1>1, KindsAssumption DEF IInv, KeysInv, Unborn, Revoked
<1>4. Unborn'
  <2>1. \A q \in Recoveries : tx'[q] # "landed" => q # r /\ tx[q] # "landed"
    BY <1>1 DEF IInv, TypeOK, Requests
  <2> QED
    BY <2>1, KindsAssumption DEF IInv, KeysInv, Unborn, Revoked
<1>5. RevokedStaysDead'
  BY <1>3 DEF IInv, KeysInv, RevokedStaysDead
<1>6. OneKeyWhileApart' /\ OneByOne'
  <2> SUFFICES ASSUME apart
               PROVE  OneKeyWhileApart' /\ OneByOne'
    BY DEF OneKeyWhileApart, OneByOne
  <2>1. Pending(r)
    BY <1>1 DEF Pending
  <2>2. devices' = {r}
    BY <2>1 DEF IInv, KeysInv, OneByOne
  <2>3. \A q \in Recoveries : ~Pending(q)'
    BY <1>1, <2>1 DEF IInv, TypeOK, Stages, KeysInv, OneByOne, Pending, Requests
  <2> QED
    BY <2>2, <2>3 DEF OneKeyWhileApart, OneByOne
<1>7. PayoutsAreSettled'
  BY <1>1 DEF IInv, TypeOK, PayoutsAreSettled, Requests
<1> QED
  BY <1>2, <1>4, <1>5, <1>6, <1>7 DEF IInv, KeysInv

\* Closings, the freeze list and money from elsewhere.
LEMMA OtherInv ==
    ASSUME IInv,
           \/ \E c \in Closings : LoadAccount(c) \/ CloseLands(c)
           \/ \E action \in {"freeze", "unfreeze"} : SetFreeze(action)
           \/ Receive
    PROVE  IInv'
<1> USE DEF LoadAccount, CloseLands, Lands, SetFreeze, Receive, Goto, account, seen, history
<1>1. \A r \in Requests : tx[r] = "landed" => tx'[r] = "landed"
  BY DEF IInv, TypeOK
<1>2. \A r \in Recoveries : pc'[r] = pc[r] /\ tx'[r] = tx[r]
  BY KindsAssumption DEF IInv, TypeOK, Requests
<1>3. TypeOK' /\ Stages'
  <2>1. CASE \E c \in Closings : LoadAccount(c)
    BY <2>1 DEF IInv, TypeOK, Stages, PCs, Requests
  <2>2. CASE \E c \in Closings : CloseLands(c)
    <3>1. PICK c \in Closings : CloseLands(c)
      BY <2>2
    <3>2. c \in Requests /\ pc' = pc /\ tx' = [tx EXCEPT ![c] = "landed"] /\ tx[c] = "inflight"
      BY <3>1 DEF Requests
    <3>3. Stages' /\ tx' \in [Requests -> Txs]
      BY <3>2 DEF IInv, TypeOK, Stages, Txs
    <3>4. open' = FALSE /\ devices' = {} /\ usdc' \in 0 .. MaxFunds
      BY <3>1, AmountsAssumption
    <3> QED
      BY <3>1, <3>3, <3>4 DEF IInv, TypeOK
  <2>3. CASE \E action \in {"freeze", "unfreeze"} : SetFreeze(action)
    BY <2>3 DEF IInv, TypeOK, Stages
  <2>4. CASE Receive
    BY <2>4, AmountsAssumption DEF IInv, TypeOK, Stages
  <2> QED
    BY <2>1, <2>2, <2>3, <2>4
<1>4. KeysInv'
  <2>1. UNCHANGED <<prior, apart, revoked>> /\ devices' \subseteq devices
    OBVIOUS
  <2> QED
    BY <1>2, <2>1, KeysKept DEF IInv, Pending
<1>5. PayoutsAreSettled'
  BY <1>1, KindsAssumption DEF IInv, TypeOK, PayoutsAreSettled, Requests
<1> QED
  BY <1>3, <1>4, <1>5 DEF IInv

\* Every step keeps the invariant.
LEMMA NextInv == IInv /\ [Next]_vars => IInv'
<1> SUFFICES ASSUME IInv, [Next]_vars
             PROVE  IInv'
  OBVIOUS
<1>1. CASE Next
  BY <1>1, RequestInv, SendInv, LoadSignersInv, RecoveryLandsInv, OtherInv DEF Next
<1>2. CASE UNCHANGED vars
  BY <1>2 DEF vars, account, seen, history, IInv, TypeOK, Stages, KeysInv, Unborn,
       OneByOne, OneKeyWhileApart, RevokedStaysDead, PayoutsAreSettled, Pending, Revoked
<1> QED
  BY <1>1, <1>2

\* The invariant the theorems below read their property off.
THEOREM Inductive == Spec => []IInv
  BY InitInv, NextInv, PTL DEF Spec

----------------------------------------------------------------------------

\* The account, its requests and the payout queue keep their types.
THEOREM TypeCorrect == Spec => []TypeOK
<1>1. IInv => TypeOK
  BY DEF IInv
<1> QED
  BY <1>1, Inductive, PTL

\* recover-account, any number of times but one at a time, leaves one key.
THEOREM OneKey == Spec => []OneKeyWhileApart
<1>1. IInv => OneKeyWhileApart
  BY DEF IInv, KeysInv
<1> QED
  BY <1>1, Inductive, PTL

\* recover-account never revives a key, overlapping or not.
THEOREM KeysDie == Spec => []RevokedStaysDead
<1>1. IInv => RevokedStaysDead
  BY DEF IInv, KeysInv
<1> QED
  BY <1>1, Inductive, PTL

\* fee-bump queues a payout only for a cash-out that is on the ledger.
THEOREM PayoutsSettle == Spec => []PayoutsAreSettled
<1>1. IInv => PayoutsAreSettled
  BY DEF IInv
<1> QED
  BY <1>1, Inductive, PTL

\* Once the sends that had passed the check are through, nothing but closing
\* moves the money of a frozen account.
THEOREM Frozen == Spec => FreezeHolds
<1>1. TypeOK /\ [Next]_vars =>
         [frozen /\ Drained => Drained' /\ (usdc' >= usdc \/ ~open')]_vars
  <2> SUFFICES ASSUME TypeOK, Next, frozen, Drained
               PROVE  Drained' /\ (usdc' >= usdc \/ ~open')
    OBVIOUS
  <2>1. usdc \in Int /\ pc \in [Requests -> PCs] /\ tx \in [Requests -> Txs]
    BY AmountsAssumption DEF TypeOK
  <2>2. \A s \in Sends : s \in Requests
    BY DEF Requests
  <2> USE DEF Drained, account, seen, history
  <2>3. ASSUME NEW q \in Requests, Submit(q) \/ Answer(q) \/ Throw(q) \/ Refuse(q)
        PROVE  Drained' /\ usdc' >= usdc
    <3>1. usdc' = usdc
      BY <2>3 DEF Submit, Answer, Throw, Refuse
    <3>2. CASE Submit(q)
      BY <2>1, <2>2, <3>2 DEF Submit, Goto
    <3>3. CASE Answer(q) \/ Throw(q)
      <4>1. tx' = tx /\ \E to \in {"settled", "done"} : pc' = [pc EXCEPT ![q] = to]
        BY <3>3 DEF Answer, Throw, Goto
      <4> QED
        BY <2>1, <2>2, <3>1, <4>1
    <3>4. CASE Refuse(q)
      BY <2>1, <2>2, <3>4 DEF Refuse
    <3> QED
      BY <2>1, <2>3, <3>1, <3>2, <3>3, <3>4
  <2>4. ASSUME NEW s \in Sends,
               AssertNotFrozen(s) \/ SendLands(s) \/ EmitClassicSideEffects(s)
        PROVE  Drained' /\ usdc' >= usdc
    <3>1. ~SendLands(s)
      BY DEF SendLands, Lands
    <3>2. usdc' = usdc /\ tx' = tx
      BY <2>4, <3>1 DEF AssertNotFrozen, CheckUnless, EmitClassicSideEffects
    <3>3. pc' = [pc EXCEPT ![s] = "done"]
      BY <2>4, <3>1 DEF AssertNotFrozen, CheckUnless, EmitClassicSideEffects, Goto
    <3> QED
      BY <2>1, <2>2, <3>2, <3>3
  <2>5. ASSUME NEW r \in Recoveries, LoadSigners(r) \/ RecoveryLands(r)
        PROVE  Drained' /\ usdc' >= usdc
    <3>1. r \notin Sends /\ usdc' = usdc
      BY <2>5, KindsAssumption DEF LoadSigners, RecoveryLands
    <3>2. \A s \in Sends : pc'[s] = pc[s] /\ tx'[s] = tx[s]
      BY <2>1, <2>2, <2>5, <3>1 DEF LoadSigners, RecoveryLands, Lands, Goto
    <3> QED
      BY <2>1, <3>1, <3>2
  <2>6. ASSUME NEW c \in Closings, LoadAccount(c) \/ CloseLands(c)
        PROVE  Drained' /\ (usdc' >= usdc \/ ~open')
    <3>1. c \notin Sends
      BY KindsAssumption
    <3>2. \A s \in Sends : pc'[s] = pc[s] /\ tx'[s] = tx[s]
      BY <2>1, <2>2, <2>6, <3>1 DEF LoadAccount, CloseLands, Lands, Goto
    <3>3. usdc' = usdc \/ ~open'
      BY <2>6 DEF LoadAccount, CloseLands
    <3> QED
      BY <2>1, <3>2, <3>3
  <2>7. ASSUME (\E action \in {"freeze", "unfreeze"} : SetFreeze(action)) \/ Receive
        PROVE  Drained' /\ usdc' >= usdc
    <3>1. pc' = pc /\ tx' = tx /\ (usdc' = usdc \/ usdc' = usdc + 1)
      BY <2>7 DEF SetFreeze, Receive
    <3> QED
      BY <2>1, <3>1
  <2> QED
    BY <2>3, <2>4, <2>5, <2>6, <2>7 DEF Next
<1> QED
  BY <1>1, TypeCorrect, PTL DEF Spec, FreezeHolds

----------------------------------------------------------------------------
(* The recovery passcode *)


\* Between calls the row agrees with the history: failed is the number of wrong
\* tries of verify_recovery_pin, and a full count has locked the address from
\* the last of them on.
Counted ==
    /\ failed = misses["verify"]
    /\ failed >= MaxTries => lock >= LockTime - age["verify"]

\* A call that runs alone has read the row as it is, unlocked if it is guarded.
Fresh ==
    \A c \in Callers :
       doing[c] # "idle" =>
          /\ \A d \in Callers \ {c} : doing[d] = "idle"
          /\ read[c].pin = pin /\ read[c].failed = failed
          /\ doing[c] \in Guarded => ~Locked

PinInv == PinTypeOK /\ (alone => Counted /\ Fresh)

----------------------------------------------------------------------------

\* The invariant holds initially.
LEMMA PinInitInv == PinInit => PinInv
  BY PinsAssumption, LimitsAssumption
     DEF PinInit, PinInv, PinTypeOK, Counted, Fresh, NoMisses, LongAgo, Guarded

\* Starting a call.
LEMMA SelectInv ==
    ASSUME PinInv, NEW c \in Callers, NEW f \in Guarded \cup {"set"}, NEW p \in Pins,
           Select(c, f, p), f \in Guarded => ~Locked
    PROVE  PinInv'
<1>1. PinTypeOK'
  BY LimitsAssumption DEF PinInv, PinTypeOK, Select, row, tally, Guarded
<1>2. ASSUME alone'
      PROVE  Counted' /\ Fresh'
  <2>1. alone /\ \A d \in Callers : doing[d] = "idle"
    BY <1>2 DEF Select
  <2>2. Counted'
    BY <2>1 DEF PinInv, Counted, Select, row, tally
  <2>3. Fresh'
    BY <2>1 DEF PinInv, PinTypeOK, Fresh, Select, row, Locked, Guarded
  <2> QED
    BY <2>2, <2>3
<1> QED
  BY <1>1, <1>2 DEF PinInv

\* Ending one.
LEMMA WriteInv ==
    ASSUME PinInv, NEW c \in Callers,
           Accept(c) \/ VerifyWrong(c) \/ RecoverWrong(c) \/ SetWrite(c)
    PROVE  PinInv'
<1> USE LimitsAssumption DEF Accept, VerifyWrong, CountMiss, RecoverWrong, SetWrite,
        Finish, CleanRow, Missed, row, NoMisses, LongAgo, Guarded
<1>1. PinTypeOK'
  BY DEF PinInv, PinTypeOK
<1>2. ASSUME alone'
      PROVE  Counted' /\ Fresh'
  <2>1. alone /\ doing[c] # "idle" /\ Counted /\ Fresh
    BY <1>2 DEF PinInv
  <2>2. \A d \in Callers : doing'[d] = "idle"
    <3>1. doing' = [doing EXCEPT ![c] = "idle"] /\ doing \in [Callers -> Guarded \cup {"set", "idle"}]
      BY DEF PinInv, PinTypeOK
    <3>2. \A d \in Callers \ {c} : doing[d] = "idle"
      BY <2>1 DEF Fresh
    <3> QED
      BY ONLY <3>1, <3>2
  <2>3. Fresh'
    BY <2>2 DEF Fresh
  <2>4. read[c].failed = failed
    BY <2>1 DEF Fresh
  <2>5. failed \in Nat /\ misses \in [Guarded -> Nat] /\ age \in [Guarded -> 0 .. LockTime]
    BY DEF PinInv, PinTypeOK
  <2>6. CASE VerifyWrong(c)
    BY <2>1, <2>3, <2>4, <2>5, <2>6 DEF Counted
  <2>7. CASE RecoverWrong(c)
    BY <2>1, <2>3, <2>5, <2>7 DEF Counted
  <2>8. CASE Accept(c) \/ SetWrite(c)
    <3>1. failed' = 0 /\ misses'["verify"] = 0
      BY <2>8
    <3> QED
      BY <2>3, <3>1 DEF Counted
  <2> QED
    BY <2>6, <2>7, <2>8
<1> QED
  BY <1>1, <1>2 DEF PinInv

\* The clock.
LEMMA TickInv ==
    ASSUME PinInv, Tick
    PROVE  PinInv'
<1> USE LimitsAssumption DEF Tick, Locked, Guarded
<1>1. PinTypeOK'
  BY DEF PinInv, PinTypeOK
<1>2. ASSUME alone'
      PROVE  Counted' /\ Fresh'
  BY <1>2 DEF PinInv, PinTypeOK, Counted, Fresh
<1> QED
  BY <1>1, <1>2 DEF PinInv

\* Every step keeps it.
LEMMA PinInductive == PinInv /\ [PinNext]_pinVars => PinInv'
<1> SUFFICES ASSUME PinInv, [PinNext]_pinVars PROVE PinInv'
  OBVIOUS
<1>1. CASE UNCHANGED pinVars
  BY <1>1 DEF pinVars, row, tally, PinInv, PinTypeOK, Counted, Fresh, Locked
<1>2. CASE Tick
  BY <1>2, TickInv
<1>3. ASSUME NEW c \in Callers, Call(c)
      PROVE  PinInv'
  <2>1. ASSUME NEW p \in Pins, NEW f \in Guarded, Guard(c, f, p)
        PROVE  PinInv'
    BY <2>1, SelectInv DEF Guard
  <2>2. ASSUME NEW old \in Pins, NEW new \in Pins, SetSelect(c, old, new)
        PROVE  PinInv'
    BY <2>2, SelectInv DEF SetSelect, Guarded
  <2> QED
    BY <1>3, <2>1, <2>2, WriteInv DEF Call, Guarded
<1> QED
  BY <1>1, <1>2, <1>3 DEF PinNext

\* So it holds in every reachable state.
LEMMA PinAlways == PinSpec => []PinInv
  BY PinInitInv, PinInductive, PTL DEF PinSpec

\* Every variable keeps its type; in particular a lock is never longer than
\* fifteen minutes.
THEOREM PinTypeCorrect == PinSpec => []PinTypeOK
<1>1. PinInv => PinTypeOK
  BY DEF PinInv
<1> QED
  BY <1>1, PinAlways, PTL

\* Calls that do not overlap cannot get past the lockout of verify_recovery_pin.
THEOREM LockoutWorks == PinSpec => []LockoutWhileAlone
<1>1. PinInv => LockoutWhileAlone
  BY LimitsAssumption DEF PinInv, PinTypeOK, Counted, LockoutWhileAlone, Locked, Guarded
<1> QED
  BY <1>1, PinAlways, PTL

\* Nor can they lift a lock: only time, or a change of passcode, does.
THEOREM LockIsKept == PinSpec => LockHolds
<1> DEFINE Kept == alone /\ Locked =>
                      \/ Locked'
                      \/ lock = 1 /\ Tick
                      \/ \E c \in Callers : doing[c] = "set" /\ doing'[c] = "idle"
<1>1. PinInv /\ [PinNext]_pinVars => [Kept]_pinVars
  <2> SUFFICES ASSUME PinInv, PinNext, alone, Locked, ~Locked'
               PROVE  \/ lock = 1 /\ Tick
                      \/ \E c \in Callers : doing[c] = "set" /\ doing'[c] = "idle"
    OBVIOUS
  <2>1. CASE Tick
    BY <2>1 DEF PinInv, PinTypeOK, Tick, Locked
  <2>2. ASSUME NEW c \in Callers, Call(c)
        PROVE  \E d \in Callers : doing[d] = "set" /\ doing'[d] = "idle"
    <3>1. Accept(c) \/ VerifyWrong(c) \/ RecoverWrong(c) \/ SetWrite(c)
      BY <2>2 DEF Call, Guard, SetSelect, Select, row, Locked
    <3>2. ~(doing[c] \in Guarded)
      BY DEF PinInv, Fresh, Guarded
    <3> QED
      BY <3>1, <3>2 DEF PinInv, PinTypeOK, Accept, VerifyWrong, CountMiss, RecoverWrong,
           SetWrite, Finish, Guarded
  <2> QED
    BY <2>1, <2>2 DEF PinNext
<1> QED
  BY <1>1, PinAlways, PTL DEF PinSpec, LockHolds
=============================================================================
