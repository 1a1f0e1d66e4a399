---------------------------- MODULE CashInProofs ----------------------------
(***************************************************************************)
(* What holds of cash-in for any number of users, intents and deliveries.  *)
(***************************************************************************)
EXTENDS CashIn, TLAPS

\* Where a delivery is tells what became of its payment.
Phases ==
    \A d \in Deliveries :
       /\ pc[d] \in {"start", "checked"} => tx[d] = "none"
       /\ pc[d] = "marking" => tx[d] = "landed"
       /\ pc[d] # "start" => target[d] \in Intents
       /\ tx[d] # "none" => target[d] \in Intents

\* A request inserts its row once, and a delivery past its check has found it.
Rows ==
    /\ \A i \in Intents : cpc[i] # "done" => status[i] = "none"
    /\ \A d \in Deliveries :
          pc[d] \in {"checked", "awaiting", "marking"} => status[target[d]] # "none"

\* Every payment of an intent is some delivery's, and is counted.
Ledger ==
    /\ \A d \in Deliveries : tx[d] = "landed" => paid[target[d]] >= 1
    /\ \A i \in Intents :
          paid[i] >= 1 => \E d \in Deliveries : tx[d] = "landed" /\ target[d] = i

\* The delivery may still pay.
MayPay(d) == pc[d] = "checked" \/ tx[d] = "inflight"

\* While nothing overlapped, an intent has one unsettled delivery at most, and
\* has had no payment when that one may still pay.
OneByOne ==
    sure =>
       /\ \A d, e \in Deliveries :
             d # e /\ target[d] = target[e] /\ Unsettled(d) => ~Unsettled(e)
       /\ \A d \in Deliveries : MayPay(d) => paid[target[d]] = 0

PayInv ==
    /\ TypeOK /\ Rows /\ Phases /\ Ledger
    /\ OneByOne /\ PaidOnceWhileSure /\ DeliveredIsPaid

----------------------------------------------------------------------------

\* The invariant holds initially.
LEMMA InitInv == Init => PayInv
  BY OwnerAssumption, NoIntentAssumption
     DEF Init, PayInv, TypeOK, Rows, Phases, Ledger, OneByOne, MayPay, Unsettled,
         PaidOnceWhileSure, DeliveredIsPaid, Statuses, Txs

\* Creating and matching an intent neither pays nor marks one.
LEMMA CreateInv ==
    ASSUME PayInv, NEW i \in Intents, Create(i) \/ Match(i)
    PROVE  PayInv'
<1>1. UNCHANGED deliverVars
  BY DEF Create, Match, SupersedeOpenIntents, Supersede, SupersedeLost, Insert,
         CreateFailed
<1>2. TypeOK'
  <2> USE <1>1 DEF PayInv, TypeOK, Statuses, createVars, deliverVars
  <2>1. CASE SupersedeOpenIntents(i)
    BY <2>1 DEF SupersedeOpenIntents, Supersede
  <2>2. CASE SupersedeLost(i) \/ CreateFailed(i)
    BY <2>2 DEF SupersedeLost, CreateFailed
  <2>3. CASE Insert(i)
    BY <2>3 DEF Insert
  <2>4. CASE Match(i)
    BY <2>4 DEF Match
  <2> QED
    BY <2>1, <2>2, <2>3, <2>4 DEF Create
<1>3. \A j \in Intents : status[j] = "delivered" <=> status'[j] = "delivered"
  <2>1. CASE Insert(i)
    BY <2>1 DEF PayInv, TypeOK, Rows, Insert
  <2>2. CASE Match(i)
    BY <2>2 DEF PayInv, TypeOK, Match
  <2>3. CASE SupersedeOpenIntents(i)
    BY <2>3 DEF PayInv, TypeOK, SupersedeOpenIntents, Supersede
  <2>4. CASE SupersedeLost(i) \/ CreateFailed(i)
    BY <2>4 DEF SupersedeLost, CreateFailed
  <2> QED
    BY <2>1, <2>2, <2>3, <2>4 DEF Create
<1>4. Rows'
  <2>1. \A j \in Intents : cpc'[j] # "done" => status'[j] = "none"
    <3>1. CASE Insert(i)
      BY <3>1 DEF PayInv, TypeOK, Rows, Insert
    <3>2. CASE Match(i)
      BY <3>2 DEF PayInv, TypeOK, Rows, Match, createVars
    <3>3. CASE SupersedeOpenIntents(i)
      BY <3>3 DEF PayInv, TypeOK, Rows, SupersedeOpenIntents, Supersede
    <3>4. CASE SupersedeLost(i) \/ CreateFailed(i)
      BY <3>4 DEF PayInv, TypeOK, Rows, SupersedeLost, CreateFailed
    <3> QED
      BY <3>1, <3>2, <3>3, <3>4 DEF Create
  <2>2. \A j \in Intents : status[j] # "none" => status'[j] # "none"
    BY DEF PayInv, TypeOK, Create, Match, SupersedeOpenIntents, Supersede,
         SupersedeLost, Insert, CreateFailed, createVars
  <2>3. \A d \in Deliveries : pc[d] # "start" => target[d] \in Intents
    BY DEF PayInv, Phases
  <2> QED
    BY <1>1, <2>1, <2>2, <2>3 DEF PayInv, Rows, deliverVars
<1>5. Ledger' /\ Phases'
  BY <1>1 DEF PayInv, Ledger, Phases, deliverVars
<1>6. OneByOne'
  BY <1>1, <1>3 DEF PayInv, TypeOK, Phases, OneByOne, MayPay, Unsettled, deliverVars
<1>7. PaidOnceWhileSure' /\ DeliveredIsPaid'
  BY <1>1, <1>3 DEF PayInv, PaidOnceWhileSure, DeliveredIsPaid, deliverVars
<1> QED
  BY <1>2, <1>4, <1>5, <1>6, <1>7 DEF PayInv

\* The check starts a delivery only on an intent that has had no payment.
LEMMA CheckInv ==
    ASSUME PayInv, NEW d \in Deliveries, NEW i \in Intents, Check(d, i)
    PROVE  PayInv'
<1> USE DEF PayInv, Check, CheckUnless
<1>1. TypeOK' /\ Rows' /\ Phases'
  BY DEF TypeOK, Rows, Phases, createVars, Unsettled
<1>2. Ledger'
  <2>1. tx[d] = "none"
    BY DEF Phases
  <2>2. \A e \in Deliveries : tx[e] = "landed" => e # d /\ target'[e] = target[e]
    BY <2>1 DEF TypeOK
  <2> QED
    BY <2>1, <2>2 DEF TypeOK, Ledger
<1>3. OneByOne'
  <2> SUFFICES ASSUME sure' PROVE OneByOne'
    BY DEF OneByOne
  <2>1. sure /\ \A e \in Deliveries : target[e] = i => ~Unsettled(e)
    OBVIOUS
  <2>2. \A e \in Deliveries \ {d} :
           /\ Unsettled(e)' <=> Unsettled(e)
           /\ MayPay(e)' <=> MayPay(e)
           /\ target'[e] = target[e]
    BY DEF TypeOK, Unsettled, MayPay, createVars
  <2>3. target'[d] = i
    BY DEF TypeOK
  <2>4. \A e, f \in Deliveries :
           e # f /\ target'[e] = target'[f] /\ Unsettled(e)' => ~Unsettled(f)'
    BY <2>1, <2>2, <2>3 DEF OneByOne
  <2>5. MayPay(d)' => paid'[i] = 0
    <3> SUFFICES ASSUME MayPay(d)' PROVE paid[i] = 0
      OBVIOUS
    <3>1. status[i] # "delivered"
      BY DEF MayPay, TypeOK, Phases
    <3>2. \A e \in Deliveries : ~(tx[e] = "landed" /\ target[e] = i)
      BY <2>1, <3>1 DEF Unsettled
    <3> QED
      BY <3>2 DEF Ledger, TypeOK
  <2> QED
    BY <2>1, <2>2, <2>3, <2>4, <2>5 DEF OneByOne
<1>4. PaidOnceWhileSure' /\ DeliveredIsPaid'
  BY DEF PaidOnceWhileSure, DeliveredIsPaid, createVars
<1> QED
  BY <1>1, <1>2, <1>3, <1>4

\* The payment lands: nobody else could pay, and nobody had.
LEMMA LandInv ==
    ASSUME PayInv, NEW d \in Deliveries, Land(d)
    PROVE  PayInv'
<1> USE DEF PayInv, Land
<1>1. target[d] \in Intents
  BY DEF Phases
<1>2. TypeOK' /\ Rows' /\ Phases'
  <2>1. pc[d] \notin {"start", "checked", "marking"}
    BY DEF Phases
  <2> QED
    BY <1>1, <2>1 DEF TypeOK, Rows, Phases, createVars, Txs
<1>3. \A i \in Intents : paid'[i] = IF i = target[d] THEN paid[i] + 1 ELSE paid[i]
  BY <1>1 DEF TypeOK
<1>4. Ledger'
  BY <1>1, <1>3 DEF TypeOK, Ledger, Phases, Txs
<1>5. sure => paid[target[d]] = 0
  BY DEF OneByOne, MayPay
<1>6. OneByOne'
  <2> SUFFICES ASSUME sure PROVE OneByOne'
    BY DEF OneByOne
  <2>1. \A e \in Deliveries : Unsettled(e)' => Unsettled(e)
    BY DEF TypeOK, Unsettled, createVars
  <2>2. \A e \in Deliveries : MayPay(e)' => MayPay(e) /\ e # d
    BY DEF TypeOK, Phases, MayPay
  <2>3. \A e \in Deliveries : MayPay(e) /\ e # d => target[e] # target[d]
    BY DEF OneByOne, MayPay, Unsettled
  <2>4. \A e \in Deliveries : MayPay(e) => target[e] \in Intents
    BY DEF MayPay, Phases
  <2> QED
    BY <1>3, <2>1, <2>2, <2>3, <2>4 DEF OneByOne
<1>7. PaidOnceWhileSure' /\ DeliveredIsPaid'
  BY <1>3, <1>5 DEF TypeOK, PaidOnceWhileSure, DeliveredIsPaid, createVars
<1> QED
  BY <1>2, <1>4, <1>6, <1>7

\* The remaining steps of a delivery pay nothing.
LEMMA QuietInv ==
    ASSUME PayInv, NEW d \in Deliveries,
           Pay(d) \/ Answer(d) \/ Throw(d) \/ Mark(d) \/ MarkLost(d) \/ Refuse(d)
    PROVE  PayInv'
<1> USE DEF PayInv, Pay, Answer, Throw, Mark, MarkLost, Refuse
<1>1. target[d] \in Intents
  BY DEF Phases
<1>2. TypeOK' /\ Rows' /\ Phases'
  <2>1. TypeOK'
    BY <1>1 DEF TypeOK, createVars, Txs, Statuses
  <2>2. Phases'
    BY DEF TypeOK, Phases, Txs
  <2>3. Rows'
    <3>1. CASE Mark(d)
      <4>1. status[target[d]] # "none"
        BY <3>1 DEF Rows
      <4>2. \A i \in Intents :
               /\ status[i] = "none" => status'[i] = "none"
               /\ status[i] # "none" => status'[i] # "none"
        BY <1>1, <3>1, <4>1 DEF TypeOK
      <4>3. \A e \in Deliveries : pc'[e] \in {"checked", "awaiting", "marking"} =>
                                   pc[e] = pc'[e] /\ target'[e] = target[e]
        BY <3>1 DEF TypeOK
      <4> QED
        BY <3>1, <4>2, <4>3 DEF TypeOK, Rows, Phases, createVars
    <3>2. CASE ~Mark(d)
      <4>1. status' = status /\ cpc' = cpc /\ target' = target
        BY <3>2 DEF createVars
      <4>2. \A e \in Deliveries : pc'[e] \in {"checked", "awaiting", "marking"} =>
                                   pc[e] \in {"checked", "awaiting", "marking"}
        BY <3>2 DEF TypeOK
      <4> HIDE DEF Pay, Answer, Throw, MarkLost, Refuse
      <4> QED
        BY <4>1, <4>2 DEF Rows
    <3> QED
      BY <3>1, <3>2
  <2> QED
    BY <2>1, <2>2, <2>3
<1>3. \A e \in Deliveries : tx'[e] = "landed" <=> tx[e] = "landed"
  BY DEF TypeOK, Phases
<1>4. Ledger'
  BY <1>3 DEF Ledger
<1>5. \A i \in Intents : status[i] = "delivered" => status'[i] = "delivered"
  BY DEF TypeOK, createVars
<1>6. \A e \in Deliveries : /\ Unsettled(e)' => Unsettled(e)
                            /\ MayPay(e)' => MayPay(e)
  BY <1>1, <1>5 DEF TypeOK, Phases, Unsettled, MayPay
<1>7. OneByOne'
  BY <1>6 DEF OneByOne
<1>8. PaidOnceWhileSure'
  BY DEF PaidOnceWhileSure
<1>9. DeliveredIsPaid'
  BY <1>1 DEF TypeOK, Phases, Ledger, DeliveredIsPaid, createVars
<1> QED
  BY <1>2, <1>4, <1>7, <1>8, <1>9

\* Every step keeps it.
LEMMA Inductive == PayInv /\ [Next]_vars => PayInv'
<1> SUFFICES ASSUME PayInv, [Next]_vars PROVE PayInv'
  OBVIOUS
<1>1. CASE UNCHANGED vars
  BY <1>1 DEF PayInv, TypeOK, Rows, Phases, Ledger, OneByOne, MayPay, Unsettled,
       PaidOnceWhileSure, DeliveredIsPaid, vars, createVars, deliverVars
<1>2. ASSUME NEW i \in Intents, Create(i) \/ Match(i)
      PROVE  PayInv'
  BY <1>2, CreateInv
<1>3. ASSUME NEW d \in Deliveries, Deliver(d)
      PROVE  PayInv'
  BY <1>3, CheckInv, LandInv, QuietInv DEF Deliver
<1> QED
  BY <1>1, <1>2, <1>3 DEF Next

\* So it holds in every reachable state.
LEMMA Always == Spec => []PayInv
  BY InitInv, Inductive, PTL DEF Spec

\* Every variable keeps its type.
THEOREM TypeCorrect == Spec => []TypeOK
<1>1. PayInv => TypeOK
  BY DEF PayInv
<1> QED
  BY <1>1, Always, PTL

\* An intent whose deliveries do not overlap and are all recorded is paid once.
THEOREM PaidOnce == Spec => []PaidOnceWhileSure
<1>1. PayInv => PaidOnceWhileSure
  BY DEF PayInv
<1> QED
  BY <1>1, Always, PTL

\* What the table calls delivered has been paid.
THEOREM DeliveredMeansPaid == Spec => []DeliveredIsPaid
<1>1. PayInv => DeliveredIsPaid
  BY DEF PayInv
<1> QED
  BY <1>1, Always, PTL

\* An intent that pesos were matched to, or that was delivered, stays so.
THEOREM FundedStand == Spec => FundedIntentsStand
<1>1. PayInv /\ [Next]_vars =>
         [\A i \in Intents :
             /\ status[i] = "matched" => status'[i] \in {"matched", "delivered"}
             /\ status[i] = "delivered" => status'[i] = "delivered"]_vars
  <2> SUFFICES ASSUME PayInv, Next, NEW i \in Intents
               PROVE  /\ status[i] = "matched" => status'[i] \in {"matched", "delivered"}
                      /\ status[i] = "delivered" => status'[i] = "delivered"
    OBVIOUS
  <2>1. ASSUME NEW j \in Intents, Create(j) \/ Match(j)
        PROVE  /\ status[i] = "matched" => status'[i] \in {"matched", "delivered"}
               /\ status[i] = "delivered" => status'[i] = "delivered"
    BY <2>1 DEF PayInv, TypeOK, Rows, Create, Match, SupersedeOpenIntents, Supersede,
         SupersedeLost, Insert, CreateFailed
  <2>2. ASSUME NEW d \in Deliveries, Deliver(d)
        PROVE  /\ status[i] = "matched" => status'[i] \in {"matched", "delivered"}
               /\ status[i] = "delivered" => status'[i] = "delivered"
    BY <2>2 DEF PayInv, TypeOK, Deliver, Check, CheckUnless, Pay, Answer, Throw, Mark,
         MarkLost, Land, Refuse
  <2> QED
    BY <2>1, <2>2 DEF Next
<1> QED
  BY <1>1, Always, PTL DEF Spec, FundedIntentsStand

----------------------------------------------------------------------------
(* One open intent *)

\* The intent is open, or about to be.
Opening(i) == cpc[i] = "superseded" \/ status[i] = "pending"

OpenInv ==
    /\ TypeOK
    /\ tidy => \A i, j \in Intents :
                  i # j /\ owner[i] = owner[j] /\ Opening(i) => ~Opening(j)

\* As long as creations do not overlap and supersede what they replace, an
\* address has one open intent.
THEOREM OneOpen == Spec => []OneOpenWhileTidy
<1>1. Init => OpenInv
  BY OwnerAssumption, NoIntentAssumption DEF Init, OpenInv, Opening, TypeOK, Statuses, Txs
<1>2. OpenInv /\ TypeOK' /\ [Next]_vars => OpenInv'
  <2> SUFFICES ASSUME OpenInv, TypeOK', [Next]_vars, tidy',
                      NEW i \in Intents, NEW j \in Intents,
                      i # j, owner[i] = owner[j]
               PROVE  Opening(i)' => ~Opening(j)'
    BY DEF OpenInv
  <2>1. CASE \E k \in Intents : SupersedeOpenIntents(k)
    <3>1. PICK k \in Intents : SupersedeOpenIntents(k)
      BY <2>1
    <3>2. /\ tidy
          /\ \A l \in Rivals(k) : cpc[l] # "superseded" /\ status'[l] # "pending"
          /\ \A l \in Intents : cpc'[l] = IF l = k THEN "superseded" ELSE cpc[l]
          /\ \A l \in Intents : status'[l] = "pending" => status[l] = "pending"
      BY <3>1 DEF OpenInv, TypeOK, SupersedeOpenIntents, Supersede, Rivals
    <3>3. CASE k = i \/ k = j
      BY <3>2, <3>3 DEF Opening, Rivals
    <3>4. CASE k # i /\ k # j
      <4>1. Opening(i)' => Opening(i)
        BY <3>2, <3>4 DEF Opening
      <4>2. Opening(j)' => Opening(j)
        BY <3>2, <3>4 DEF Opening
      <4> QED
        BY <3>2, <4>1, <4>2 DEF OpenInv
    <3> QED
      BY <3>3, <3>4
  <2>2. CASE ~\E k \in Intents : SupersedeOpenIntents(k)
    <3>1. tidy /\ (\A l \in Intents : Opening(l)' => Opening(l))
      BY <2>2 DEF OpenInv, TypeOK, Opening, Next, Create, SupersedeLost, Insert,
           CreateFailed, Match, Deliver, Check, CheckUnless, Pay, Answer, Throw, Mark,
           MarkLost, Land, Refuse, vars, createVars, deliverVars
    <3> QED
      BY <3>1 DEF OpenInv
  <2> QED
    BY <2>1, <2>2
<1>3. OpenInv => OneOpenWhileTidy
  BY DEF OpenInv, Opening, OneOpenWhileTidy
<1> QED
  BY <1>1, <1>2, <1>3, TypeCorrect, PTL DEF Spec
=============================================================================
