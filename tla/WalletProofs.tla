---------------------------- MODULE WalletProofs ----------------------------
(***************************************************************************)
(* What holds of the phones of one owner, for any number of phones, key    *)
(* pairs and faults: an app that is signed in holds the key of its         *)
(* account, what it says of its email holds on the server, and no open     *)
(* account gets out of reach by what the code does on its way.  And what   *)
(* holds of what one phone shows of its account, for any number of         *)
(* payments, and of requests and rewritings of the contacts in flight: it  *)
(* shows what is due, of the account it holds, and keeps its stars.        *)
(***************************************************************************)
EXTENDS Wallet, Feed, FiniteSetTheorems, TLAPS

----------------------------------------------------------------------------
(* Types *)

\* A recovery that is about to look for its account, or to move its row, has one.
Targeted == \A d \in Devices : pc[d] \in {"check", "move"} => job[d].target \in Keys

\* Initially.
LEMMA InitType == Init => TypeOK
<1> SUFFICES ASSUME Init PROVE TypeOK
  OBVIOUS
<1> USE BoundsAssumption DEF Init, None, Keys, MaybeKeys
<1>1. ledger \in [Keys -> MaybeKeys] /\ rows \in [Keys -> {"none", "plain", "verified"}]
  OBVIOUS
<1>2. disk \in [Devices -> Storage] /\ app \in [Devices -> Memory] /\ job \in [Devices -> Locals]
  BY DEF Storage, Memory, Locals, Blank, SignedOut, NoJob
<1>3. asked \in [Devices -> SUBSET BOOLEAN] /\ pc \in [Devices -> PCs]
  BY DEF PCs
<1>4. maker \in [Keys -> Devices \cup {None}] /\ spoiled \subseteq Devices /\ moved \subseteq Keys
  OBVIOUS
<1>5. faults \in 0 .. MaxFaults
  OBVIOUS
<1>6. marking \in BOOLEAN /\ slip \in BOOLEAN
  BY Zenon
<1> QED
  BY <1>1, <1>2, <1>3, <1>4, <1>5, <1>6 DEF TypeOK

\* A key, an account or nothing can be stored wherever one is.
LEMMA KeyTypes ==
    ASSUME TypeOK, NEW d \in Devices, NEW k \in MaybeKeys
    PROVE  /\ [disk EXCEPT ![d].secret = k] \in [Devices -> Storage]
           /\ [disk EXCEPT ![d].public = k] \in [Devices -> Storage]
           /\ [app EXCEPT ![d].me = k] \in [Devices -> Memory]
           /\ [job EXCEPT ![d].target = k] \in [Devices -> Locals]
<1>1. [disk EXCEPT ![d].secret = k] \in [Devices -> Storage]
  BY DEF TypeOK, Storage
<1>2. [disk EXCEPT ![d].public = k] \in [Devices -> Storage]
  BY DEF TypeOK, Storage
<1>3. [app EXCEPT ![d].me = k] \in [Devices -> Memory]
  BY DEF TypeOK, Memory
<1>4. [job EXCEPT ![d].target = k] \in [Devices -> Locals]
  BY DEF TypeOK, Locals
<1> QED
  BY <1>1, <1>2, <1>3, <1>4

\* So can what a phone says of its account.
LEMMA WordTypes ==
    ASSUME TypeOK, NEW d \in Devices, NEW b \in BOOLEAN
    PROVE  /\ [disk EXCEPT ![d].named = TRUE, ![d].told = @ \/ b] \in [Devices -> Storage]
           /\ [app EXCEPT ![d].activated = b] \in [Devices -> Memory]
<1>1. [disk EXCEPT ![d].named = TRUE, ![d].told = @ \/ b] \in [Devices -> Storage]
  <2>1. ASSUME NEW c \in BOOLEAN
        PROVE  [disk EXCEPT ![d].named = TRUE, ![d].told = c] \in [Devices -> Storage]
    <3>1. disk \in [Devices -> Storage]
      BY DEF TypeOK
    <3> QED
      BY ONLY <3>1, c \in BOOLEAN, d \in Devices DEF Storage
  <2>2. (disk[d].told \/ b) \in BOOLEAN
    BY Zenon
  <2>3. [disk EXCEPT ![d].named = TRUE, ![d].told = @ \/ b]
          = [disk EXCEPT ![d].named = TRUE, ![d].told = disk[d].told \/ b]
    BY DEF TypeOK, Storage
  <2> QED
    BY <2>1, <2>2, <2>3, Zenon
<1>2. [app EXCEPT ![d].activated = b] \in [Devices -> Memory]
  BY DEF TypeOK, Memory
<1> QED
  BY <1>1, <1>2

\* A phone can be told that its email is verified, or lose everything.
LEMMA BlankTypes ==
    ASSUME TypeOK, NEW d \in Devices
    PROVE  /\ [disk EXCEPT ![d].told = TRUE] \in [Devices -> Storage]
           /\ [disk EXCEPT ![d] = Blank] \in [Devices -> Storage]
           /\ [app EXCEPT ![d] = SignedOut] \in [Devices -> Memory]
           /\ [job EXCEPT ![d] = NoJob] \in [Devices -> Locals]
<1>1. 0 \in MaybeKeys
  BY BoundsAssumption DEF MaybeKeys
<1>2. Blank \in Storage /\ SignedOut \in Memory /\ NoJob \in Locals
  BY <1>1 DEF Blank, SignedOut, NoJob, Storage, Memory, Locals, None
<1>3. [disk EXCEPT ![d].told = TRUE] \in [Devices -> Storage]
  <2>1. disk \in [Devices -> Storage]
    BY DEF TypeOK
  <2>2. [disk[d] EXCEPT !.told = TRUE] \in Storage
    BY <2>1 DEF Storage
  <2> QED
    BY <2>1, <2>2
<1> QED
  BY <1>2, <1>3 DEF TypeOK

\* And so is what is read of them.
LEMMA FieldTypes ==
    ASSUME TypeOK, NEW d \in Devices
    PROVE  /\ disk[d].secret \in MaybeKeys /\ disk[d].public \in MaybeKeys
           /\ disk[d].named \in BOOLEAN /\ disk[d].told \in BOOLEAN
           /\ app[d].me \in MaybeKeys /\ app[d].activated \in BOOLEAN
           /\ job[d].key \in MaybeKeys /\ job[d].target \in MaybeKeys /\ job[d].recovering \in BOOLEAN
  BY DEF TypeOK, Storage, Memory, Locals

\* A fault is counted.
LEMMA FaultTypes ==
    ASSUME TypeOK, Fault PROVE faults' \in 0 .. MaxFaults
  BY BoundsAssumption DEF TypeOK, Fault

\* A call that ends is counted if it did not end well.
LEMMA EndTypes ==
    ASSUME TypeOK, NEW fine, FaultUnless(fine) PROVE faults' \in 0 .. MaxFaults
<1>1. CASE fine
  BY <1>1 DEF FaultUnless, TypeOK
<1>2. CASE ~fine
  BY <1>2, FaultTypes DEF FaultUnless
<1> QED
  BY <1>1, <1>2

\* An app that moves on is somewhere.
LEMMA GotoTypes ==
    ASSUME TypeOK, NEW d \in Devices, NEW there \in PCs, Goto(d, there)
    PROVE  pc' \in [Devices -> PCs]
  BY DEF TypeOK, Goto

\* An app that forgets is well typed.
LEMMA ForgetTypes ==
    ASSUME TypeOK, NEW d \in Devices, Forget(d)
    PROVE  /\ app' \in [Devices -> Memory] /\ asked' \in [Devices -> SUBSET BOOLEAN]
           /\ job' \in [Devices -> Locals] /\ pc' \in [Devices -> PCs]
<1>1. "off" \in PCs
  BY DEF PCs
<1>2. pc' \in [Devices -> PCs]
  BY <1>1, GotoTypes DEF Forget
<1>3. asked' \in [Devices -> SUBSET BOOLEAN]
  BY DEF Forget, TypeOK
<1> QED
  BY <1>2, <1>3, BlankTypes DEF Forget

\* A row is registered, or the call is lost.
LEMMA RegisterTypes ==
    ASSUME TypeOK, NEW a \in MaybeKeys, NEW sent \in BOOLEAN, RegisterUser(a, sent)
    PROVE  /\ rows' \in [Keys -> {"none", "plain", "verified"}] /\ slip' \in BOOLEAN
           /\ faults' \in 0 .. MaxFaults
<1>1. rows' \in [Keys -> {"none", "plain", "verified"}]
  BY DEF RegisterUser, Upsert, TypeOK
<1>2. slip' \in BOOLEAN
  BY Zenon DEF RegisterUser, TypeOK
<1> QED
  BY <1>1, <1>2, EndTypes DEF RegisterUser

\* A new key is noted with its maker.
LEMMA NewKeyTypes ==
    ASSUME TypeOK, NEW d \in Devices, NEW k \in Keys, NewKey(d, k)
    PROVE  maker' \in [Keys -> Devices \cup {None}] /\ spoiled' \subseteq Devices
  BY DEF TypeOK, NewKey

\* Every step keeps the types.
LEMMA NextType == TypeOK /\ Targeted /\ [Next]_vars => TypeOK'
<1> SUFFICES ASSUME TypeOK, Targeted, [Next]_vars PROVE TypeOK'
  OBVIOUS
<1>1. CASE UNCHANGED vars
  BY <1>1 DEF vars, phone, world, history, TypeOK
<1>2. CASE MarkEmailVerified
  <2>1. rows' \in [Keys -> {"none", "plain", "verified"}]
    BY <1>2 DEF MarkEmailVerified, TypeOK
  <2>2. faults' \in 0 .. MaxFaults
    BY <1>2, FaultTypes DEF MarkEmailVerified, TypeOK
  <2>3. marking' \in BOOLEAN /\ slip' \in BOOLEAN
    BY <1>2, Zenon DEF MarkEmailVerified, TypeOK
  <2> QED
    BY <1>2, <2>1, <2>2, <2>3 DEF MarkEmailVerified, TypeOK, phone
<1>3. ASSUME NEW d \in Devices, Step(d) PROVE TypeOK'
  <2>1. CASE Boot(d)
    <3>1. pc' \in [Devices -> PCs]
      BY <2>1, GotoTypes DEF Boot, PCs
    <3>2. app' \in [Devices -> Memory]
      BY <2>1, FieldTypes, KeyTypes DEF Boot
    <3>3. rows' \in [Keys -> {"none", "plain", "verified"}] /\ slip' \in BOOLEAN /\ faults' \in 0 .. MaxFaults
      <4>1. CASE disk[d].public # None /\ disk[d].named
        <5>1. disk[d].public \in MaybeKeys
          BY FieldTypes
        <5>2. PICK sent \in BOOLEAN : RegisterUser(disk[d].public, sent)
          BY <2>1, <4>1 DEF Boot
        <5> QED
          BY <5>1, <5>2, RegisterTypes
      <4>2. CASE ~(disk[d].public # None /\ disk[d].named)
        BY <2>1, <4>2 DEF Boot, TypeOK
      <4> QED
        BY <4>1, <4>2
    <3> QED
      BY <2>1, <3>1, <3>2, <3>3 DEF Boot, TypeOK, world, history
  <2>2. CASE Refresh(d)
    <3>1. asked' \in [Devices -> SUBSET BOOLEAN]
      BY <2>2 DEF Live, TypeOK, Refresh
    <3> QED
      BY <2>2, <3>1 DEF Refresh, TypeOK, world, history
  <2>3. CASE \E exists \in BOOLEAN : Refreshed(d, exists)
    <3>1. app' \in [Devices -> Memory] /\ asked' \in [Devices -> SUBSET BOOLEAN]
      <4>1. PICK exists \in BOOLEAN : Refreshed(d, exists)
        BY <2>3
      <4>2. app' \in [Devices -> Memory]
        BY <4>1, WordTypes DEF Refreshed
      <4>3. asked' \in [Devices -> SUBSET BOOLEAN]
        BY <4>1 DEF Refreshed, TypeOK
      <4> QED
        BY <4>2, <4>3
    <3> QED
      BY <2>3, <3>1 DEF Refreshed, TypeOK, world, history
  <2>4. CASE CreateAccount(d)
    <3>1. pc' \in [Devices -> PCs]
      BY <2>4, GotoTypes DEF CreateAccount, PCs
    <3>2. maker' \in [Keys -> Devices \cup {None}] /\ spoiled' \subseteq Devices
      BY <2>4, NewKeyTypes DEF CreateAccount
    <3>3. disk' \in [Devices -> Storage]
      <4>1. PICK k \in Keys : disk' = [disk EXCEPT ![d].secret = k]
        BY <2>4 DEF CreateAccount
      <4>2. k \in MaybeKeys
        BY DEF Keys, MaybeKeys
      <4> QED
        BY <4>1, <4>2, KeyTypes
    <3>4. job' \in [Devices -> Locals]
      BY <2>4 DEF TypeOK, Locals, Keys, MaybeKeys, CreateAccount
    <3> QED
      BY <2>4, <3>1, <3>2, <3>3, <3>4 DEF CreateAccount, TypeOK, world, history
  <2>5. CASE StorePublic(d)
    <3>1. pc' \in [Devices -> PCs]
      BY <2>5, GotoTypes DEF StorePublic, PCs
    <3>2. disk' \in [Devices -> Storage]
      BY <2>5, FieldTypes, KeyTypes DEF StorePublic
    <3> QED
      BY <2>5, <3>1, <3>2 DEF StorePublic, TypeOK, world, history
  <2>6. CASE Activate(d)
    <3>1. pc' \in [Devices -> PCs]
      BY <2>6, GotoTypes DEF Activate, PCs
    <3>2. ledger' \in [Keys -> MaybeKeys]
      BY <2>6, FieldTypes DEF Activate, TypeOK
    <3>3. faults' \in 0 .. MaxFaults
      BY <2>6, EndTypes DEF Activate
    <3> QED
      BY <2>6, <3>1, <3>2, <3>3 DEF Activate, TypeOK, world, history
  <2>7. CASE StoreProfile(d)
    <3>1. pc' \in [Devices -> PCs]
      BY <2>7, GotoTypes DEF StoreProfile, PCs
    <3>2. disk' \in [Devices -> Storage]
      BY <2>7, FieldTypes, KeyTypes, WordTypes DEF StoreProfile
    <3>3. app' \in [Devices -> Memory]
      <4>1. CASE job[d].recovering
        <5>1. app' = [app EXCEPT ![d].me = job[d].target]
          BY <2>7, <4>1, Zenon DEF StoreProfile
        <5> QED
          BY <5>1, FieldTypes, KeyTypes
      <4>2. CASE ~job[d].recovering
        BY <2>7, <4>2 DEF StoreProfile, TypeOK
      <4> QED
        BY <4>1, <4>2
    <3> QED
      BY <2>7, <3>1, <3>2, <3>3 DEF StoreProfile, TypeOK, world, history
  <2>8. CASE Register(d)
    <3>1. pc' \in [Devices -> PCs]
      BY <2>8, GotoTypes DEF Register, PCs
    <3>2. app' \in [Devices -> Memory]
      BY <2>8, FieldTypes, KeyTypes DEF Register
    <3>3. rows' \in [Keys -> {"none", "plain", "verified"}] /\ slip' \in BOOLEAN /\ faults' \in 0 .. MaxFaults
      BY <2>8, FieldTypes, RegisterTypes DEF Register
    <3> QED
      BY <2>8, <3>1, <3>2, <3>3 DEF Register, TypeOK, world, history
  <2>9. CASE ConfirmEmailVerified(d)
    <3>1. pc' \in [Devices -> PCs]
      BY <2>9, GotoTypes DEF ConfirmEmailVerified, PCs
    <3>2. disk' \in [Devices -> Storage]
      BY <2>9, BlankTypes DEF ConfirmEmailVerified
    <3>3. marking' \in BOOLEAN
      BY <2>9 DEF ConfirmEmailVerified
    <3> QED
      BY <2>9, <3>1, <3>2, <3>3 DEF ConfirmEmailVerified, TypeOK, world, history
  <2>10. CASE RecoverProfile(d)
    <3>1. pc' \in [Devices -> PCs]
      BY <2>10, GotoTypes DEF RecoverProfile, PCs
    <3>2. maker' \in [Keys -> Devices \cup {None}] /\ spoiled' \subseteq Devices
      BY <2>10, NewKeyTypes DEF RecoverProfile
    <3>3. job' \in [Devices -> Locals]
      BY <2>10 DEF TypeOK, Locals, Keys, MaybeKeys, Verified, RecoverProfile
    <3> QED
      BY <2>10, <3>1, <3>2, <3>3 DEF RecoverProfile, TypeOK, world, history
  <2>11. CASE AccountExists(d)
    <3>1. pc' \in [Devices -> PCs]
      BY <2>11, GotoTypes DEF AccountExists, PCs
    <3> QED
      BY <2>11, <3>1 DEF AccountExists, TypeOK, world, history
  <2>12. CASE Rekey(d)
    <3>1. pc' \in [Devices -> PCs]
      BY <2>12, GotoTypes DEF Rekey, PCs, CallEnds
    <3>2. ledger' \in [Keys -> MaybeKeys]
      BY <2>12, FieldTypes DEF Rekey, TypeOK
    <3>3. faults' \in 0 .. MaxFaults
      BY <2>12, EndTypes DEF Rekey, CallEnds, TypeOK
    <3>4. spoiled' \subseteq Devices
      BY <2>12 DEF TypeOK, Rekey
    <3> QED
      BY <2>12, <3>1, <3>2, <3>3, <3>4 DEF Rekey, TypeOK, world, history
  <2>13. CASE Move(d)
    <3>1. pc' \in [Devices -> PCs]
      BY <2>13, GotoTypes DEF Move, PCs, CallEnds
    <3>2. rows' \in [Keys -> {"none", "plain", "verified"}]
      <4>1. PICK done \in BOOLEAN :
               rows' = IF done
                       THEN [rows EXCEPT ![job[d].target] = "none",
                                         ![job[d].key] = rows[job[d].target]]
                       ELSE rows
        BY <2>13 DEF Move
      <4>2. rows[job[d].target] \in {"none", "plain", "verified"}
        BY <2>13 DEF TypeOK, Move, Targeted, At
      <4> QED
        BY <4>1, <4>2 DEF TypeOK
    <3>3. job' \in [Devices -> Locals]
      <4>1. job' = [job EXCEPT ![d].target = job[d].key]
        BY <2>13 DEF Move
      <4> QED
        BY <4>1, FieldTypes, KeyTypes
    <3>4. faults' \in 0 .. MaxFaults
      BY <2>13, EndTypes DEF Move, CallEnds
    <3>5. moved' \subseteq Keys
      BY <2>13 DEF TypeOK, Move, Targeted, At
    <3>6. slip' \in BOOLEAN
      BY <2>13, Zenon DEF Move, TypeOK
    <3> QED
      BY <2>13, <3>1, <3>2, <3>3, <3>4, <3>5, <3>6 DEF Move, TypeOK, world, history
  <2>14. CASE StoreSecret(d)
    <3>1. pc' \in [Devices -> PCs]
      BY <2>14, GotoTypes DEF StoreSecret, PCs
    <3>2. disk' \in [Devices -> Storage]
      BY <2>14, FieldTypes, KeyTypes DEF StoreSecret
    <3> QED
      BY <2>14, <3>1, <3>2 DEF StoreSecret, TypeOK, world, history
  <2>15. CASE AddCash(d)
    <3>1. ledger' \in [Keys -> MaybeKeys]
      BY <2>15, FieldTypes DEF AddCash, TypeOK
    <3>2. app' \in [Devices -> Memory]
      <4>1. (app[d].me = disk[d].secret) \in BOOLEAN
        OBVIOUS
      <4> QED
        BY <2>15, <4>1, WordTypes DEF AddCash
    <3>3. spoiled' \subseteq Devices
      BY <2>15 DEF TypeOK, AddCash
    <3> QED
      BY <2>15, <3>1, <3>2, <3>3 DEF AddCash, TypeOK, world, history
  <2>16. CASE CloseAccount(d)
    <3>1. pc' \in [Devices -> PCs]
      BY <2>16, GotoTypes DEF CloseAccount, PCs
    <3>2. ledger' \in [Keys -> MaybeKeys]
      BY <2>16, BoundsAssumption DEF TypeOK, MaybeKeys, None, CloseAccount
    <3>3. faults' \in 0 .. MaxFaults
      BY <2>16, EndTypes DEF CloseAccount, TypeOK
    <3> QED
      BY <2>16, <3>1, <3>2, <3>3 DEF CloseAccount, TypeOK, world, history
  <2>17. CASE Reset(d)
    <3>1. pc' \in [Devices -> PCs]
      BY <2>17, GotoTypes DEF Reset, PCs
    <3> QED
      BY <2>17, <3>1 DEF Reset, TypeOK, world, history
  <2>18. CASE Wipe(d)
    <3>1. pc' \in [Devices -> PCs]
      BY <2>18, GotoTypes DEF Wipe, PCs
    <3>2. disk' \in [Devices -> Storage] /\ app' \in [Devices -> Memory]
      BY <2>18, BlankTypes DEF Wipe
    <3>3. spoiled' \subseteq Devices
      BY <2>18 DEF TypeOK, Wipe
    <3> QED
      BY <2>18, <3>1, <3>2, <3>3 DEF Wipe, TypeOK, world, history
  <2>19. CASE WipeCut(d)
    <3>1. app' \in [Devices -> Memory] /\ asked' \in [Devices -> SUBSET BOOLEAN] /\ job' \in [Devices -> Locals] /\ pc' \in [Devices -> PCs]
      BY <2>19, ForgetTypes DEF WipeCut
    <3>2. disk' \in [Devices -> Storage]
      <4>1. PICK left \in SUBSET {"secret", "public", "locals"} :
               disk' = [disk EXCEPT ![d] =
                   [secret |-> IF "secret" \in left THEN @.secret ELSE None,
                    public |-> IF "public" \in left THEN @.public ELSE None,
                    named |-> @.named /\ "locals" \in left,
                    told |-> @.told /\ "locals" \in left]]
        BY <2>19 DEF WipeCut
      <4>2. None \in MaybeKeys
        BY BoundsAssumption DEF MaybeKeys, None
      <4> QED
        BY <4>1, <4>2, FieldTypes DEF TypeOK, Storage
    <3>3. faults' \in 0 .. MaxFaults
      BY <2>19, FaultTypes DEF WipeCut
    <3>4. spoiled' \subseteq Devices
      BY <2>19 DEF TypeOK, WipeCut
    <3>5. slip' \in BOOLEAN
      BY <2>19, Zenon DEF WipeCut, TypeOK
    <3> QED
      BY <2>19, <3>1, <3>2, <3>3, <3>4, <3>5 DEF WipeCut, TypeOK, world, history
  <2>20. CASE Crash(d)
    <3>1. app' \in [Devices -> Memory] /\ asked' \in [Devices -> SUBSET BOOLEAN] /\ job' \in [Devices -> Locals] /\ pc' \in [Devices -> PCs]
      BY <2>20, ForgetTypes DEF Crash
    <3>2. faults' \in 0 .. MaxFaults
      BY <2>20, FaultTypes DEF Crash
    <3>3. spoiled' \subseteq Devices
      BY <2>20 DEF TypeOK, Crash
    <3> QED
      BY <2>20, <3>1, <3>2, <3>3 DEF Crash, TypeOK, world, history
  <2>21. CASE Lose(d)
    <3>1. app' \in [Devices -> Memory] /\ asked' \in [Devices -> SUBSET BOOLEAN] /\ job' \in [Devices -> Locals] /\ pc' \in [Devices -> PCs]
      BY <2>21, ForgetTypes DEF Lose
    <3>2. faults' \in 0 .. MaxFaults
      BY <2>21, FaultTypes DEF Lose
    <3>3. disk' \in [Devices -> Storage]
      BY <2>21, BlankTypes DEF Lose
    <3>4. spoiled' \subseteq Devices
      BY <2>21 DEF TypeOK, Lose
    <3> QED
      BY <2>21, <3>1, <3>2, <3>3, <3>4 DEF Lose, TypeOK, world, history
  <2> QED
    BY <1>3, <2>1, <2>2, <2>3, <2>4, <2>5, <2>6, <2>7, <2>8, <2>9, <2>10, <2>11, <2>12, <2>13, <2>14, <2>15, <2>16, <2>17, <2>18, <2>19, <2>20, <2>21 DEF Step
<1> QED
  BY <1>1, <1>2, <1>3 DEF Next

----------------------------------------------------------------------------
(* What a step does, phone by phone *)

Same(e) == disk'[e] = disk[e] /\ app'[e].me = app[e].me /\ pc'[e] = pc[e] /\ job'[e] = job[e]

\* A step of one phone leaves the others as they are.
LEMMA Frame ==
    ASSUME TypeOK, NEW d \in Devices, Step(d), NEW e \in Devices \ {d}
    PROVE  Same(e)
<1>1. DOMAIN disk = Devices /\ DOMAIN app = Devices /\ DOMAIN pc = Devices /\ DOMAIN job = Devices
  BY DEF TypeOK
<1> USE DEF Step, Boot, Refresh, Refreshed, CreateAccount, StorePublic, Activate, StoreProfile, Register, ConfirmEmailVerified, RecoverProfile, AccountExists, Rekey, Move, StoreSecret, AddCash, CloseAccount, Reset, Wipe, WipeCut, Crash, Lose, phone, Goto, Forget, CallEnds
<1>2. disk'[e] = disk[e] /\ pc'[e] = pc[e]
  BY <1>1
<1>3. job'[e] = job[e] /\ app'[e] = app[e]
  BY <1>1
<1> QED
  BY <1>2, <1>3 DEF Same

\* The app is started, and registers the account of the phone.
LEMMA BootDoes ==
    ASSUME TypeOK, NEW d \in Devices, Boot(d)
    PROVE  /\ pc[d] = "off" /\ pc'[d] = "home" /\ app'[d].me = disk[d].public
           /\ UNCHANGED <<disk, job, ledger, marking, maker, spoiled, moved>>
           /\ \/ UNCHANGED <<rows, slip>> /\ (disk[d].public = None \/ ~disk[d].named)
              \/ \E sent \in BOOLEAN : RegisterUser(disk[d].public, sent)
  BY DEF Boot, At, Goto, TypeOK, Storage, Memory, Locals

\* A creation starts with a key that nobody has made before.
LEMMA CreateAccountDoes ==
    ASSUME TypeOK, NEW d \in Devices, CreateAccount(d)
    PROVE  /\ pc[d] = "home" /\ pc'[d] = "public" /\ app[d].me = None /\ app' = app
           /\ \E k \in Keys \ Made :
                 /\ maker' = [maker EXCEPT ![k] = d]
                 /\ job'[d].key = k /\ job'[d].target = k /\ job'[d].recovering = FALSE
                 /\ disk'[d].secret = k /\ disk'[d].public = disk[d].public
           /\ disk'[d].named = disk[d].named /\ disk'[d].told = disk[d].told
           /\ spoiled' = spoiled \ {d}
           /\ UNCHANGED <<ledger, rows, marking, slip, moved>>
<1>1. PICK k \in Keys : /\ NewKey(d, k)
                        /\ job' = [job EXCEPT ![d] = [key |-> k, target |-> k, recovering |-> FALSE]]
                        /\ disk' = [disk EXCEPT ![d].secret = k]
  BY DEF CreateAccount
<1>2. k \notin Made
  BY <1>1 DEF NewKey, Keys
<1>3. job'[d].key = k /\ job'[d].target = k /\ job'[d].recovering = FALSE
  BY <1>1 DEF TypeOK
<1>4. /\ disk'[d].secret = k /\ disk'[d].public = disk[d].public
      /\ disk'[d].named = disk[d].named /\ disk'[d].told = disk[d].told
  BY <1>1 DEF TypeOK, Storage
<1> QED
  BY <1>1, <1>2, <1>3, <1>4 DEF CreateAccount, NewKey, Goto, At, Welcome, TypeOK, world

\* The pair it makes is new.
LEMMA CreateAccountMakes ==
    ASSUME TypeOK, NEW d \in Devices, CreateAccount(d)
    PROVE  \E k \in Keys \ Made :
              maker' = [maker EXCEPT ![k] = d] /\ job'[d].key = k /\ job'[d].target = k
<1>1. PICK k \in Keys \ Made :
         /\ maker' = [maker EXCEPT ![k] = d]
         /\ job'[d].key = k /\ job'[d].target = k /\ job'[d].recovering = FALSE
         /\ disk'[d].secret = k /\ disk'[d].public = disk[d].public
  BY CreateAccountDoes
<1> QED
  BY <1>1

\* The address follows its key.
LEMMA StorePublicDoes ==
    ASSUME TypeOK, NEW d \in Devices, StorePublic(d)
    PROVE  /\ pc[d] = "public" /\ pc'[d] = IF job[d].recovering THEN "locals" ELSE "activate"
           /\ disk'[d].secret = disk[d].secret /\ disk'[d].public = job[d].target
           /\ disk'[d].named = disk[d].named /\ disk'[d].told = disk[d].told
           /\ UNCHANGED <<app, job, world, history>>
<1>1. disk' = [disk EXCEPT ![d].public = job[d].target]
  BY DEF StorePublic
<1>2. /\ disk'[d].secret = disk[d].secret /\ disk'[d].public = job[d].target
      /\ disk'[d].named = disk[d].named /\ disk'[d].told = disk[d].told
  BY <1>1 DEF TypeOK, Storage
<1> QED
  BY <1>2 DEF StorePublic, At, Goto, TypeOK

\* The account is opened, or not.
LEMMA ActivateDoes ==
    ASSUME TypeOK, NEW d \in Devices, Activate(d)
    PROVE  /\ pc[d] = "activate" /\ pc'[d] \in {"locals", "home"}
           /\ ledger' \in {ledger, [ledger EXCEPT ![job[d].key] = job[d].key]}
           /\ UNCHANGED <<disk, app, job, rows, marking, history>>
  BY DEF Activate, At, Goto, TypeOK, Storage, Memory, Locals

\* The profile is stored, and a recovery is over.
LEMMA StoreProfileDoes ==
    ASSUME TypeOK, NEW d \in Devices, StoreProfile(d)
    PROVE  /\ pc[d] = "locals"
           /\ disk'[d].secret = disk[d].secret /\ disk'[d].public = disk[d].public
           /\ disk'[d].named = TRUE /\ (disk'[d].told <=> disk[d].told \/ job[d].recovering)
           /\ job[d].recovering => pc'[d] = "home" /\ app'[d].me = job[d].target
           /\ ~job[d].recovering => pc'[d] = "register" /\ app' = app
           /\ UNCHANGED <<job, world, history>>
  BY DEF StoreProfile, At, Goto, TypeOK, Storage, Memory

\* A new account is registered, or the call is lost.
LEMMA RegisterDoes ==
    ASSUME TypeOK, NEW d \in Devices, Register(d)
    PROVE  /\ pc[d] = "register" /\ pc'[d] = "confirm" /\ app'[d].me = job[d].key
           /\ \E sent \in BOOLEAN : RegisterUser(job[d].key, sent)
           /\ UNCHANGED <<disk, job, ledger, marking, maker, spoiled, moved>>
  BY DEF Register, At, Goto, TypeOK, Memory

\* The phone says that its email is verified, and the server will be told.
LEMMA ConfirmEmailVerifiedDoes ==
    ASSUME TypeOK, NEW d \in Devices, ConfirmEmailVerified(d)
    PROVE  /\ pc'[d] = "home" /\ (pc[d] = "confirm" \/ (pc[d] = "home" /\ app[d].me # None /\ disk[d].named))
           /\ disk'[d].secret = disk[d].secret /\ disk'[d].public = disk[d].public
           /\ disk'[d].named = disk[d].named /\ disk'[d].told = TRUE /\ marking' = TRUE
           /\ UNCHANGED <<app, job, ledger, rows, history>>
<1>1. pc'[d] = "home"
  BY DEF ConfirmEmailVerified, Goto, TypeOK
<1>5. pc[d] = "confirm" \/ (pc[d] = "home" /\ app[d].me # None /\ disk[d].named)
  <2>1. CASE At(d, "confirm")
    BY <2>1, Zenon DEF At
  <2>2. CASE VerifyEmail(d)
    <3>1. disk[d].named
      BY <2>2, Zenon DEF VerifyEmail
    <3>2. pc[d] = "home" /\ app[d].me # None
      BY <2>2 DEF VerifyEmail, SignedIn, At
    <3> QED
      BY <3>1, <3>2
  <2> QED
    BY <2>1, <2>2 DEF ConfirmEmailVerified
<1>2. disk' = [disk EXCEPT ![d].told = TRUE]
  BY DEF ConfirmEmailVerified
<1>3. disk'[d].secret = disk[d].secret /\ disk'[d].public = disk[d].public
  BY <1>2 DEF TypeOK, Storage
<1>4. disk'[d].named = disk[d].named /\ disk'[d].told = TRUE
  BY <1>2 DEF TypeOK, Storage
<1> QED
  BY <1>1, <1>5, <1>3, <1>4, Zenon DEF ConfirmEmailVerified


\* A recovery starts with a verified account, and a key that nobody has made before.
LEMMA RecoverProfileDoes ==
    ASSUME TypeOK, NEW d \in Devices, RecoverProfile(d)
    PROVE  /\ pc[d] = "home" /\ pc'[d] = "check" /\ app[d].me = None /\ UNCHANGED <<app, disk>>
           /\ \E k \in Keys \ Made, a \in Verified :
                 /\ maker' = [maker EXCEPT ![k] = d]
                 /\ job'[d].key = k /\ job'[d].target = a /\ job'[d].recovering = TRUE
           /\ spoiled' = spoiled \ {d}
           /\ UNCHANGED <<ledger, rows, marking, slip, moved>>
<1>1. PICK a \in Verified, k \in Keys :
           /\ NewKey(d, k)
           /\ job' = [job EXCEPT ![d] = [key |-> k, target |-> a, recovering |-> TRUE]]
  BY DEF RecoverProfile
<1>2. k \notin Made
  BY <1>1 DEF NewKey, Keys
<1>3. job'[d].key = k /\ job'[d].target = a /\ job'[d].recovering = TRUE
  BY <1>1 DEF TypeOK
<1> QED
  BY <1>1, <1>2, <1>3 DEF RecoverProfile, NewKey, Goto, At, Welcome, TypeOK, world

\* An account that is open gets a new key, of one that is not the row is moved.
LEMMA AccountExistsDoes ==
    ASSUME TypeOK, NEW d \in Devices, AccountExists(d)
    PROVE  /\ pc[d] = "check" /\ pc'[d] = IF Live(job[d].target) THEN "rekey" ELSE "move"
           /\ UNCHANGED <<disk, app, job, world, history>>
  BY DEF AccountExists, At, Goto, TypeOK

\* An open account of the inbox gets the new key, or nothing happens.
LEMMA RekeyDoes ==
    ASSUME TypeOK, NEW d \in Devices, Rekey(d)
    PROVE  /\ pc[d] = "rekey" /\ pc'[d] \in {"secret", "home"}
           /\ \/ pc'[d] = "home" /\ UNCHANGED <<ledger, spoiled>>
              \/ \E a \in Verified :
                    /\ Live(a) /\ ledger' = [ledger EXCEPT ![a] = job[d].key]
                    /\ spoiled' = IF a # job[d].target THEN spoiled \cup {d} ELSE spoiled
           /\ UNCHANGED <<disk, app, job, rows, marking, maker, slip, moved>>
  BY DEF Rekey, CallEnds, At, Goto, TypeOK

\* The row of the target becomes that of the new key, or nothing happens.
LEMMA MoveDoes ==
    ASSUME TypeOK, NEW d \in Devices, Move(d)
    PROVE  /\ pc[d] = "move" /\ pc'[d] \in {"secret", "home"}
           /\ job'[d].key = job[d].key /\ job'[d].target = job[d].key /\ job'[d].recovering = job[d].recovering
           /\ \/ pc'[d] = "home" /\ UNCHANGED <<rows, moved, slip>>
              \/ /\ rows' = [rows EXCEPT ![job[d].target] = "none", ![job[d].key] = rows[job[d].target]]
                 /\ moved' = moved \cup {job[d].target}
                 /\ slip' = (slip \/ rows[job[d].target] # "verified")
           /\ UNCHANGED <<disk, app, ledger, marking, maker, spoiled>>
<1>1. job' = [job EXCEPT ![d].target = job[d].key]
  BY DEF Move
<1>2. job'[d].key = job[d].key /\ job'[d].target = job[d].key /\ job'[d].recovering = job[d].recovering
  BY <1>1 DEF TypeOK, Locals
<1> QED
  BY <1>2 DEF Move, CallEnds, At, Goto, TypeOK

\* The new key is stored.
LEMMA StoreSecretDoes ==
    ASSUME TypeOK, NEW d \in Devices, StoreSecret(d)
    PROVE  /\ pc[d] = "secret" /\ pc'[d] = "public"
           /\ disk'[d].secret = job[d].key /\ disk'[d].public = disk[d].public
           /\ disk'[d].named = disk[d].named /\ disk'[d].told = disk[d].told
           /\ UNCHANGED <<app, job, world, history>>
<1>1. disk' = [disk EXCEPT ![d].secret = job[d].key]
  BY DEF StoreSecret
<1>2. /\ disk'[d].secret = job[d].key /\ disk'[d].public = disk[d].public
      /\ disk'[d].named = disk[d].named /\ disk'[d].told = disk[d].told
  BY <1>1 DEF TypeOK, Storage
<1> QED
  BY <1>2 DEF StoreSecret, At, Goto, TypeOK

\* Cash-in opens the account of the stored key.
LEMMA AddCashDoes ==
    ASSUME TypeOK, NEW d \in Devices, AddCash(d)
    PROVE  /\ pc[d] = "home" /\ app[d].me # None /\ disk[d].secret # None /\ ~Live(disk[d].secret)
           /\ ledger' = [ledger EXCEPT ![disk[d].secret] = disk[d].secret] /\ app'[d].me = app[d].me
           /\ spoiled \subseteq spoiled' /\ (app[d].me # disk[d].secret => d \in spoiled')
           /\ \A e \in Devices : pc[e] = "move" /\ job[e].target = disk[d].secret => e \in spoiled'
           /\ UNCHANGED <<disk, pc, job, rows, marking, maker, slip, moved>>
  BY DEF AddCash, SignedIn, At, TypeOK, Memory

\* The account is closed, or the app takes it for closed.
LEMMA CloseAccountDoes ==
    ASSUME TypeOK, NEW d \in Devices, CloseAccount(d)
    PROVE  /\ pc[d] = "home" /\ app[d].me # None /\ pc'[d] \in {"wipe", "home", "discard"}
           /\ \/ pc'[d] = "discard" /\ ledger' = ledger
              \/ pc'[d] # "discard" /\ ledger' = [ledger EXCEPT ![app[d].me] = None]
           /\ UNCHANGED <<disk, app, job, rows, marking, history>>
  BY DEF CloseAccount, SignedIn, At, Goto, TypeOK

\* The owner gives the account up.
LEMMA ResetDoes ==
    ASSUME TypeOK, NEW d \in Devices, Reset(d)
    PROVE  /\ pc[d] = "home" /\ app[d].me # None /\ pc'[d] = "reset"
           /\ UNCHANGED <<disk, app, job, world, history>>
  BY DEF Reset, SignedIn, At, Goto, TypeOK

\* The phone forgets its account.
LEMMA WipeDoes ==
    ASSUME TypeOK, NEW d \in Devices, Wipe(d)
    PROVE  /\ pc[d] \in Wiping /\ pc'[d] = "home" /\ disk'[d] = Blank /\ app'[d].me = None
           /\ spoiled' = spoiled \ {d} /\ UNCHANGED <<job, world, maker, slip, moved>>
  BY DEF Wipe, Goto, TypeOK, SignedOut

\* It forgets a part of it.
LEMMA WipeCutDoes ==
    ASSUME TypeOK, NEW d \in Devices, WipeCut(d)
    PROVE  /\ pc[d] \in Wiping /\ pc'[d] = "off" /\ app'[d].me = None /\ job'[d] = NoJob
           /\ disk'[d].secret \in {None, disk[d].secret} /\ disk'[d].public \in {None, disk[d].public}
           /\ disk'[d].told => slip'
           /\ slip => slip'
           /\ spoiled' = spoiled \cup {d} /\ UNCHANGED <<world, maker, moved>>
<1>1. pc[d] \in Wiping /\ pc'[d] = "off" /\ app'[d].me = None /\ job'[d] = NoJob
  BY DEF WipeCut, Forget, Goto, TypeOK, SignedOut
<1>2. disk'[d].secret \in {None, disk[d].secret} /\ disk'[d].public \in {None, disk[d].public}
  BY DEF WipeCut, TypeOK
<1>3. slip' = (slip \/ disk'[d].told)
  BY DEF WipeCut
<1>4. (disk'[d].told => slip') /\ (slip => slip')
  BY <1>3, Zenon
<1> QED
  BY <1>1, <1>2, <1>4 DEF WipeCut

\* The app is gone, with what it had in memory.
LEMMA CrashDoes ==
    ASSUME TypeOK, NEW d \in Devices, Crash(d)
    PROVE  /\ pc[d] # "off" /\ pc'[d] = "off" /\ app'[d].me = None /\ job'[d] = NoJob
           /\ spoiled' = IF pc[d] = "public" THEN spoiled \cup {d} ELSE spoiled
           /\ UNCHANGED <<disk, world, maker, slip, moved>>
  BY DEF Crash, Forget, At, Goto, TypeOK, SignedOut

\* The phone is gone.
LEMMA LoseDoes ==
    ASSUME TypeOK, NEW d \in Devices, Lose(d)
    PROVE  /\ pc'[d] = "off" /\ app'[d].me = None /\ job'[d] = NoJob /\ disk'[d] = Blank
           /\ spoiled' = spoiled \ {d} /\ UNCHANGED <<world, maker, slip, moved>>
  BY DEF Lose, Forget, Goto, TypeOK, SignedOut

----------------------------------------------------------------------------
(* Who made the keys, and where a phone keeps which *)

Underway == {"check", "rekey", "move", "secret", "public", "activate", "locals", "register", "confirm"}
Recovery == {"check", "rekey", "move", "secret"}

\* The ledger and the directory know only of keys that some phone has made.
Known ==
    /\ \A a \in Keys : Live(a) => a \in Made /\ ledger[a] \in Made
    /\ \A a \in Keys : rows[a] # "none" \/ a \in moved => a \in Made

\* A phone stores and works with keys it has made itself.
OwnKeys(d) ==
    /\ disk[d].secret # None => maker[disk[d].secret] = d
    /\ disk[d].public # None => disk[d].public \in Made
    /\ job[d].key # None => maker[job[d].key] = d
    /\ job[d].target # None => job[d].target \in Made

\* What the locals of an opening or a recovery say at each of its awaits.
Stage(d) ==
    /\ pc[d] \in Underway => job[d].key # None /\ job[d].target # None
    /\ pc[d] \in Recovery => job[d].recovering
    /\ pc[d] \in {"activate", "register", "confirm"} => ~job[d].recovering
    /\ pc[d] \in Underway /\ ~job[d].recovering => job[d].target = job[d].key
    /\ pc[d] \in {"public", "activate", "locals", "register", "confirm"} => disk[d].secret = job[d].key
    /\ pc[d] \in {"activate", "locals", "register", "confirm"} => disk[d].public = job[d].target
    /\ pc[d] \in {"register", "confirm"} => disk[d].named

\* Where an app is signed in, and as whom.
Place(d) ==
    /\ pc[d] \in {"off"} \cup (Underway \ {"confirm"}) => app[d].me = None
    /\ app[d].me # None => app[d].me = disk[d].public
    /\ pc[d] \in Wiping \cup {"confirm"} => app[d].me # None

Holds(d) == OwnKeys(d) /\ Stage(d) /\ Place(d)
Owned == Known /\ \A d \in Devices : Holds(d)

\* Initially.
LEMMA InitOwned == Init => Owned
  BY DEF Init, Owned, Known, Holds, OwnKeys, Stage, Place, Blank, SignedOut, NoJob, Live, Underway, Recovery, Wiping, None

\* A recovery that has a target knows it.
LEMMA OwnedTargets == TypeOK /\ Owned => Targeted
  BY DEF Owned, Holds, OwnKeys, Stage, Targeted, Underway, Made, None

\* Nobody makes a key twice.
LEMMA MakersKept ==
    ASSUME TypeOK, NEW d \in Devices, Step(d)
    PROVE  (\A k \in Made : maker'[k] = maker[k]) /\ Made \subseteq Made'
<1>1. maker' = maker \/ \E k \in Keys \ Made : maker' = [maker EXCEPT ![k] = d]
  <2>1. CASE CreateAccount(d)
    BY <2>1, CreateAccountMakes
  <2>3. CASE RecoverProfile(d)
    <3>1. \E k \in Keys \ Made, a \in Verified : maker' = [maker EXCEPT ![k] = d]
      BY <2>3, RecoverProfileDoes
    <3> QED
      BY <3>1
  <2>2. CASE ~CreateAccount(d) /\ ~RecoverProfile(d)
    BY <2>2 DEF Step, Boot, Refresh, Refreshed, StorePublic, Activate, StoreProfile, Register, ConfirmEmailVerified, AccountExists, Rekey, Move, StoreSecret, AddCash, CloseAccount, Reset, Wipe, WipeCut, Crash, Lose, history
  <2> QED
    BY <2>1, <2>2, <2>3
<1>2. \A k \in Made : maker'[k] = maker[k]
  BY <1>1 DEF Made, TypeOK
<1> QED
  BY <1>2 DEF Made

\* The phones that a step is not of.
LEMMA OthersHold ==
    ASSUME TypeOK, Owned, NEW d \in Devices, Step(d), NEW e \in Devices \ {d}
    PROVE  Holds(e)'
<1>1. Same(e) /\ Holds(e) /\ (\A k \in Made : maker'[k] = maker[k]) /\ Made \subseteq Made'
  BY Frame, MakersKept DEF Owned
<1>2. disk[e].secret \in MaybeKeys /\ disk[e].public \in MaybeKeys /\ job[e].key \in MaybeKeys /\ job[e].target \in MaybeKeys
  BY FieldTypes
<1>3. \A k \in MaybeKeys : k # None /\ maker[k] = e => k \in Made
  BY DEF Made, MaybeKeys, Keys, None
<1>4. OwnKeys(e)'
  BY <1>1, <1>2, <1>3 DEF Holds, OwnKeys, Same
<1>5. Stage(e)'
  BY <1>1 DEF Holds, Stage, Same
<1>6. Place(e)'
  BY <1>1 DEF Holds, Place, Same
<1> QED
  BY <1>4, <1>5, <1>6 DEF Holds
\* An answer to refresh changes neither place nor keys.
LEMMA RefreshDoes ==
    ASSUME TypeOK, NEW d \in Devices, Refresh(d) \/ \E exists \in BOOLEAN : Refreshed(d, exists)
    PROVE  Same(d) /\ UNCHANGED <<disk, pc, job, world, history>>
  BY DEF Refresh, Refreshed, Same, TypeOK, Memory

\* The phone that a step is of.
LEMMA ActorHolds ==
    ASSUME TypeOK, Owned, NEW d \in Devices, Step(d)
    PROVE  Holds(d)'
<1>1. Holds(d) /\ (\A k \in Made : maker'[k] = maker[k]) /\ Made \subseteq Made'
  BY MakersKept DEF Owned
<1>2. disk[d].secret \in MaybeKeys /\ disk[d].public \in MaybeKeys /\ job[d].key \in MaybeKeys /\ job[d].target \in MaybeKeys
  BY FieldTypes
<1>3. \A k \in MaybeKeys : k # None /\ maker[k] = d => k \in Made
  BY DEF Made, MaybeKeys, Keys, None
<1> USE DEF Holds, OwnKeys, Stage, Place, Underway, Recovery, Wiping
<1>4. CASE Boot(d)
  BY <1>1, <1>2, <1>3, <1>4, BootDoes DEF history, world, Blank, NoJob, Same
<1>5. CASE Refresh(d)
  BY <1>1, <1>2, <1>3, <1>5, RefreshDoes DEF history, world, Blank, NoJob, Same
<1>6. CASE \E exists \in BOOLEAN : Refreshed(d, exists)
  BY <1>1, <1>2, <1>3, <1>6, RefreshDoes DEF history, world, Blank, NoJob, Same
<1>7. CASE CreateAccount(d)
  <2>1. PICK k \in Keys \ Made :
           /\ maker' = [maker EXCEPT ![k] = d]
           /\ job'[d].key = k /\ job'[d].target = k /\ job'[d].recovering = FALSE
           /\ disk'[d].secret = k /\ disk'[d].public = disk[d].public
    BY <1>7, CreateAccountDoes
  <2>2. maker'[k] = d /\ k # None /\ k \in Made'
    BY <2>1 DEF Made, TypeOK, Keys, None
  <2>3. pc[d] = "home" /\ pc'[d] = "public" /\ app[d].me = None /\ app'[d] = app[d]
    BY <1>7, CreateAccountDoes
  <2>4. OwnKeys(d)'
    BY <1>1, <2>1, <2>2
  <2>5. Stage(d)' /\ Place(d)'
    BY <2>1, <2>2, <2>3
  <2> QED
    BY <2>4, <2>5
<1>8. CASE StorePublic(d)
  BY <1>1, <1>2, <1>3, <1>8, StorePublicDoes DEF history, world, Blank, NoJob, Same
<1>9. CASE Activate(d)
  BY <1>1, <1>2, <1>3, <1>9, ActivateDoes DEF history, world, Blank, NoJob, Same
<1>10. CASE StoreProfile(d)
  BY <1>1, <1>2, <1>3, <1>10, StoreProfileDoes DEF history, world, Blank, NoJob, Same
<1>11. CASE Register(d)
  BY <1>1, <1>2, <1>3, <1>11, RegisterDoes DEF history, world, Blank, NoJob, Same
<1>12. CASE ConfirmEmailVerified(d)
  BY <1>1, <1>2, <1>3, <1>12, ConfirmEmailVerifiedDoes DEF history, world, Blank, NoJob, Same
<1>13. CASE RecoverProfile(d)
  <2>1. PICK k \in Keys \ Made, a \in Verified :
           /\ maker' = [maker EXCEPT ![k] = d]
           /\ job'[d].key = k /\ job'[d].target = a /\ job'[d].recovering = TRUE
    BY <1>13, RecoverProfileDoes
  <2>2. maker'[k] = d /\ k # None /\ a # None /\ a \in Made
    BY <2>1 DEF Made, TypeOK, Owned, Known, Verified, Keys, None
  <2>3. pc[d] = "home" /\ pc'[d] = "check" /\ app[d].me = None /\ app'[d] = app[d] /\ disk'[d] = disk[d]
    BY <1>13, RecoverProfileDoes
  <2>4. OwnKeys(d)'
    BY <1>1, <1>2, <1>3, <2>1, <2>2, <2>3
  <2>5. Stage(d)' /\ Place(d)'
    BY <1>1, <2>1, <2>2, <2>3
  <2> QED
    BY <2>4, <2>5
<1>14. CASE AccountExists(d)
  BY <1>1, <1>2, <1>3, <1>14, AccountExistsDoes DEF history, world, Blank, NoJob, Same
<1>15. CASE Rekey(d)
  BY <1>1, <1>2, <1>3, <1>15, RekeyDoes DEF history, world, Blank, NoJob, Same
<1>16. CASE Move(d)
  BY <1>1, <1>2, <1>3, <1>16, MoveDoes DEF history, world, Blank, NoJob, Same
<1>17. CASE StoreSecret(d)
  BY <1>1, <1>2, <1>3, <1>17, StoreSecretDoes DEF history, world, Blank, NoJob, Same
<1>18. CASE AddCash(d)
  BY <1>1, <1>2, <1>3, <1>18, AddCashDoes DEF history, world, Blank, NoJob, Same
<1>19. CASE CloseAccount(d)
  BY <1>1, <1>2, <1>3, <1>19, CloseAccountDoes DEF history, world, Blank, NoJob, Same
<1>20. CASE Reset(d)
  BY <1>1, <1>2, <1>3, <1>20, ResetDoes DEF history, world, Blank, NoJob, Same
<1>21. CASE Wipe(d)
  BY <1>1, <1>2, <1>3, <1>21, WipeDoes DEF history, world, Blank, NoJob, Same
<1>22. CASE WipeCut(d)
  BY <1>1, <1>2, <1>3, <1>22, WipeCutDoes DEF history, world, Blank, NoJob, Same
<1>23. CASE Crash(d)
  BY <1>1, <1>2, <1>3, <1>23, CrashDoes DEF history, world, Blank, NoJob, Same
<1>24. CASE Lose(d)
  BY <1>1, <1>2, <1>3, <1>24, LoseDoes DEF history, world, Blank, NoJob, Same
<1> QED
  BY <1>4, <1>5, <1>6, <1>7, <1>8, <1>9, <1>10, <1>11, <1>12, <1>13, <1>14, <1>15, <1>16, <1>17, <1>18, <1>19, <1>20, <1>21, <1>22, <1>23, <1>24 DEF Step
\* A row that is registered is that of a known account.
LEMMA RegisteredKnown ==
    ASSUME TypeOK, Known, NEW b \in Made, NEW sent \in BOOLEAN, RegisterUser(b, sent)
    PROVE  \A a \in Keys : rows'[a] # "none" => rows[a] # "none" \/ a \in Made
  BY DEF RegisterUser, Upsert, TypeOK, Made

\* The ledger and the directory.
LEMMA StepKnown ==
    ASSUME TypeOK, Owned, NEW d \in Devices, Step(d)
    PROVE  Known'
<1>1. Holds(d) /\ Known /\ Made \subseteq Made'
  BY MakersKept DEF Owned
<1>2. disk[d].secret \in MaybeKeys /\ disk[d].public \in MaybeKeys /\ job[d].key \in MaybeKeys /\ job[d].target \in MaybeKeys
  BY FieldTypes
<1>3. \A k \in MaybeKeys : k # None /\ maker[k] = d => k \in Made
  BY DEF Made, MaybeKeys, Keys, None
<1>4. \A a \in Keys : Live(a)' => a \in Made /\ ledger'[a] \in Made
  <2>1. CASE ledger' = ledger
    BY <1>1, <2>1 DEF Known, Live
  <2>2. CASE Activate(d)
    <3>1. job[d].key \in Made
      BY <1>1, <1>2, <1>3, <2>2, ActivateDoes DEF Holds, OwnKeys, Stage, Underway
    <3> QED
      BY <1>1, <2>2, <3>1, ActivateDoes DEF Known, Live, TypeOK, Made
  <2>3. CASE Rekey(d)
    <3>1. job[d].key \in Made
      BY <1>1, <1>2, <1>3, <2>3, RekeyDoes DEF Holds, OwnKeys, Stage, Underway
    <3> QED
      BY <1>1, <2>3, <3>1, RekeyDoes DEF Known, Live, TypeOK, Made, Verified
  <2>4. CASE AddCash(d)
    <3>1. disk[d].secret \in Made
      BY <1>1, <1>2, <1>3, <2>4, AddCashDoes DEF Holds, OwnKeys
    <3> QED
      BY <1>1, <2>4, <3>1, AddCashDoes DEF Known, Live, TypeOK, Made
  <2>5. CASE CloseAccount(d)
    BY <1>1, <2>5, CloseAccountDoes DEF Known, Live, TypeOK, Made, None
  <2>6. CASE ~(Activate(d) \/ Rekey(d) \/ AddCash(d) \/ CloseAccount(d))
    <3>1. ledger' = ledger
      BY <2>6 DEF Step, Boot, Refresh, Refreshed, CreateAccount, StorePublic, StoreProfile, Register, ConfirmEmailVerified, RecoverProfile, AccountExists, Move, StoreSecret, Reset, Wipe, WipeCut, Crash, Lose, world
    <3> QED
      BY <2>1, <3>1
  <2> QED
    BY <2>2, <2>3, <2>4, <2>5, <2>6
<1>5. \A a \in Keys : rows'[a] # "none" \/ a \in moved' => rows[a] # "none" \/ a \in moved \/ a \in Made
  <2>1. CASE Boot(d)
    <3>1. moved' = moved
      BY <2>1, BootDoes
    <3>2. CASE UNCHANGED <<rows, slip>>
      BY <3>1, <3>2
    <3>3. CASE disk[d].public # None /\ disk[d].named
      <4>1. disk[d].public \in Made
        BY <1>1, <3>3 DEF Holds, OwnKeys
      <4>2. PICK sent \in BOOLEAN : RegisterUser(disk[d].public, sent)
        BY <2>1, <3>3 DEF Boot
      <4> QED
        BY <1>1, <3>1, <4>1, <4>2, RegisteredKnown
    <3> QED
      BY <2>1, <3>2, <3>3 DEF Boot
  <2>2. CASE Register(d)
    <3>1. job[d].key \in Made
      BY <1>1, <1>2, <1>3, <2>2, RegisterDoes DEF Holds, OwnKeys, Stage, Underway
    <3>2. PICK sent \in BOOLEAN : RegisterUser(job[d].key, sent)
      BY <2>2, RegisterDoes
    <3>3. moved' = moved
      BY <2>2, RegisterDoes
    <3> QED
      BY <1>1, <3>1, <3>2, <3>3, RegisteredKnown
  <2>3. CASE Move(d)
    <3>1. job[d].key \in Made /\ job[d].target \in Made
      BY <1>1, <1>2, <1>3, <2>3, MoveDoes DEF Holds, OwnKeys, Stage, Underway
    <3> QED
      BY <2>3, <3>1, MoveDoes DEF TypeOK, Made
  <2>4. CASE ~(Boot(d) \/ Register(d) \/ Move(d))
    BY <2>4 DEF Step, Refresh, Refreshed, CreateAccount, StorePublic, Activate, StoreProfile, ConfirmEmailVerified, RecoverProfile, AccountExists, Rekey, StoreSecret, AddCash, CloseAccount, Reset, Wipe, WipeCut, Crash, Lose, world, history
  <2> QED
    BY <2>1, <2>2, <2>3, <2>4
<1> QED
  BY <1>1, <1>4, <1>5 DEF Known

\* Every step.
LEMMA NextOwned == TypeOK /\ Owned /\ [Next]_vars => Owned'
<1> SUFFICES ASSUME TypeOK, Owned, [Next]_vars PROVE Owned'
  OBVIOUS
<1>1. CASE UNCHANGED vars
  BY <1>1 DEF vars, phone, world, history, Owned, Known, Holds, OwnKeys, Stage, Place, Live, Made
<1>2. CASE MarkEmailVerified
  <2>1. Known'
    BY <1>2 DEF MarkEmailVerified, Owned, Known, Live, Made
  <2> QED
    BY <1>2, <2>1 DEF MarkEmailVerified, phone, Owned, Holds, OwnKeys, Stage, Place, Made
<1>3. ASSUME NEW d \in Devices, Step(d) PROVE Owned'
  BY <1>3, StepKnown, ActorHolds, OthersHold DEF Owned
<1> QED
  BY <1>1, <1>2, <1>3 DEF Next

----------------------------------------------------------------------------
(* What a step of one phone can do to what the others rely on *)

\* The keys a phone has at hand are known ones that it made.
LEMMA AtHand ==
    ASSUME TypeOK, Owned, NEW d \in Devices
    PROVE  /\ disk[d].secret # None => disk[d].secret \in Made /\ maker[disk[d].secret] = d
           /\ disk[d].public # None => disk[d].public \in Made
           /\ app[d].me # None => app[d].me = disk[d].public
           /\ job[d].key # None => job[d].key \in Made /\ maker[job[d].key] = d
           /\ job[d].target # None => job[d].target \in Made
           /\ pc[d] \in Underway => job[d].key # None /\ job[d].target # None
<1>1. Holds(d)
  BY DEF Owned
<1>2. disk[d].secret \in MaybeKeys /\ disk[d].public \in MaybeKeys /\ job[d].key \in MaybeKeys /\ job[d].target \in MaybeKeys
  BY FieldTypes
<1>3. \A k \in MaybeKeys : k # None /\ maker[k] = d => k \in Made
  BY DEF Made, MaybeKeys, Keys, None
<1> QED
  BY <1>1, <1>2, <1>3 DEF Holds, OwnKeys, Stage, Place

\* An account is closed by the phone that is signed in to it, and opened, or given
\* a key, with a key of the phone that does so.
LEMMA StepLedger ==
    ASSUME TypeOK, Owned, NEW d \in Devices, Step(d), NEW a \in Keys
    PROVE  \/ ledger'[a] = ledger[a]
           \/ ledger'[a] = None /\ a = app[d].me /\ pc[d] = "home"
           \/ /\ ledger'[a] \in Made /\ maker[ledger'[a]] = d
              /\ \/ ledger'[a] = a /\ pc[d] = "activate" /\ a = job[d].key
                 \/ ledger'[a] = a /\ pc[d] = "home" /\ ~Live(a) /\ a = disk[d].secret
                 \/ a \in Verified /\ Live(a) /\ pc[d] = "rekey" /\ ledger'[a] = job[d].key
<1>1. CASE Activate(d)
  BY <1>1, ActivateDoes, AtHand DEF TypeOK, Underway
<1>2. CASE Rekey(d)
  BY <1>2, RekeyDoes, AtHand DEF TypeOK, Underway
<1>3. CASE AddCash(d)
  BY <1>3, AddCashDoes, AtHand DEF TypeOK
<1>4. CASE CloseAccount(d)
  BY <1>4, CloseAccountDoes DEF TypeOK
<1>5. CASE ~(Activate(d) \/ Rekey(d) \/ AddCash(d) \/ CloseAccount(d))
  BY <1>5 DEF Step, Boot, Refresh, Refreshed, CreateAccount, StorePublic, StoreProfile, Register, ConfirmEmailVerified, RecoverProfile, AccountExists, Move, StoreSecret, Reset, Wipe, WipeCut, Crash, Lose, world
<1> QED
  BY <1>1, <1>2, <1>3, <1>4, <1>5

\* A row is registered for the account of the phone, and only a recovery takes one away.
LEMMA StepRows ==
    ASSUME TypeOK, Owned, NEW d \in Devices, Step(d), NEW a \in Keys
    PROVE  \/ rows'[a] = rows[a]
           \/ rows[a] = "none" /\ rows'[a] = "plain" /\ a = disk[d].public /\ pc[d] = "off"
           \/ rows[a] = "none" /\ rows'[a] = "plain" /\ a = job[d].key /\ pc[d] = "register"
           \/ pc[d] = "move" /\ a = job[d].key
           \/ pc[d] = "move" /\ a = job[d].target /\ a \in moved'
<1>1. CASE Boot(d)
  BY <1>1, BootDoes DEF RegisterUser, Upsert, TypeOK
<1>2. CASE Register(d)
  BY <1>2, RegisterDoes DEF RegisterUser, Upsert, TypeOK
<1>3. CASE Move(d)
  BY <1>3, MoveDoes DEF TypeOK
<1>4. CASE ~(Boot(d) \/ Register(d) \/ Move(d))
  BY <1>4 DEF Step, Refresh, Refreshed, CreateAccount, StorePublic, Activate, StoreProfile, ConfirmEmailVerified, RecoverProfile, AccountExists, Rekey, StoreSecret, AddCash, CloseAccount, Reset, Wipe, WipeCut, Crash, Lose, world, history
<1> QED
  BY <1>1, <1>2, <1>3, <1>4

\* What has been moved stays noted, and only a recovery's account is.
LEMMA StepMoved ==
    ASSUME TypeOK, Owned, NEW d \in Devices, Step(d), NEW a \in Keys
    PROVE  (a \in moved => a \in moved') /\ (a \in moved' => a \in moved \/ (pc[d] = "move" /\ a = job[d].target))
<1>1. CASE Move(d)
  BY <1>1, MoveDoes
<1>2. CASE ~Move(d)
  BY <1>2 DEF Step, Boot, Refresh, Refreshed, CreateAccount, StorePublic, Activate, StoreProfile, Register, ConfirmEmailVerified, RecoverProfile, AccountExists, Rekey, StoreSecret, AddCash, CloseAccount, Reset, Wipe, WipeCut, Crash, Lose, world, history
<1> QED
  BY <1>1, <1>2

\* The address a phone stores is that of its locals, and these name an account that
\* is verified, or a key of its own.
LEMMA StepNames ==
    ASSUME TypeOK, Owned, NEW d \in Devices, Step(d)
    PROVE  /\ disk'[d].public \in {None, disk[d].public, job[d].target}
           /\ \/ job'[d].target \in {None, job[d].target, job[d].key}
              \/ job'[d].target \in Verified
              \/ job'[d].target \notin Made
<1>1. CASE CreateAccount(d)
  BY <1>1, CreateAccountDoes
<1>2. CASE RecoverProfile(d)
  BY <1>2, RecoverProfileDoes
<1>3. CASE StorePublic(d)
  BY <1>3, StorePublicDoes
<1>4. CASE StoreProfile(d)
  BY <1>4, StoreProfileDoes
<1>5. CASE ConfirmEmailVerified(d)
  BY <1>5, ConfirmEmailVerifiedDoes
<1>6. CASE Move(d)
  BY <1>6, MoveDoes
<1>7. CASE StoreSecret(d)
  BY <1>7, StoreSecretDoes
<1>8. CASE Wipe(d)
  BY <1>8, WipeDoes DEF Blank
<1>9. CASE WipeCut(d)
  BY <1>9, WipeCutDoes DEF NoJob
<1>10. CASE Crash(d)
  BY <1>10, CrashDoes DEF NoJob
<1>11. CASE Lose(d)
  BY <1>11, LoseDoes DEF NoJob, Blank
<1>12. CASE ~(CreateAccount(d) \/ RecoverProfile(d) \/ StorePublic(d) \/ StoreProfile(d) \/ ConfirmEmailVerified(d) \/ Move(d) \/ StoreSecret(d) \/ Wipe(d) \/ WipeCut(d) \/ Crash(d) \/ Lose(d))
  BY <1>12 DEF Step, Boot, Refresh, Refreshed, Activate, Register, AccountExists, Rekey, AddCash, CloseAccount, Reset
<1> QED
  BY <1>1, <1>2, <1>3, <1>4, <1>5, <1>6, <1>7, <1>8, <1>9, <1>10, <1>11, <1>12

----------------------------------------------------------------------------
(* New keys *)

\* Nothing but the phone that made it knows of a key.
Unused(d, k) ==
    /\ \A a \in Keys : ledger[a] # k
    /\ ledger[k] = None /\ rows[k] = "none" /\ k \notin moved
    /\ \A e \in Devices : disk[e].public # k
    /\ \A e \in Devices \ {d} : job[e].target # k

\* The key of a recovery is unused until its call has been answered.
NewKeyUnused(d) ==
    /\ pc[d] \in {"check", "rekey", "move"} =>
          Unused(d, job[d].key) /\ disk[d].secret # job[d].key /\ job[d].target # job[d].key
    /\ pc[d] = "public" /\ ~job[d].recovering => Unused(d, job[d].key)
    /\ pc[d] \in {"secret", "public"} /\ job[d].recovering =>
          ledger[job[d].key] = None /\ disk[d].public # job[d].key

\* The account of an opening that ended with an error before it was registered:
\* the phone's own, and nobody else knows of it.
HalfOpen(d) ==
    /\ pc[d] # "off" /\ app[d].me = None /\ disk[d].public # None
    /\ ~(pc[d] = "locals" /\ job[d].recovering)

OwnAffair(d, p) ==
    /\ maker[p] = d /\ rows[p] = "none" /\ p \notin moved
    /\ ledger[p] \in {None, p} /\ \A a \in Keys : ledger[a] = p => a = p
    /\ \A e \in Devices \ {d} : job[e].target # p /\ disk[e].public # p

HalfOpenOwn(d) ==
    HalfOpen(d) =>
        /\ OwnAffair(d, disk[d].public)
        /\ pc[d] # "public" => disk[d].secret = disk[d].public
        /\ pc[d] \in Recovery \cup {"public"} => job[d].target # disk[d].public

New == \A d \in Devices : NewKeyUnused(d) /\ HalfOpenOwn(d)

\* Initially.
LEMMA InitNew == Init => New
  BY DEF Init, New, NewKeyUnused, HalfOpenOwn, HalfOpen

\* A key that is unused stays so while other phones go on.
LEMMA OthersUnused ==
    ASSUME TypeOK, Owned, NEW d \in Devices, Step(d), NEW e \in Devices \ {d},
           NEW k \in Keys, maker[k] = e, Unused(e, k)
    PROVE  Unused(e, k)'
<1>1. k \in Made /\ k # None
  BY DEF Made, Keys, None
<1>2. disk[d].secret # k /\ disk[d].public # k /\ job[d].key # k /\ job[d].target # k
  BY <1>1, AtHand DEF Unused
<1>3. (\A a \in Keys : ledger'[a] # k) /\ ledger'[k] = None
  BY <1>1, <1>2, StepLedger, AtHand DEF Unused, Live
<1>4. rows'[k] = "none" /\ k \notin moved'
  BY <1>2, StepRows, StepMoved DEF Unused
<1>5. \A f \in Devices : disk'[f].public # k
  BY <1>1, <1>2, StepNames, Frame DEF Unused, Same
<1>6. \A f \in Devices \ {e} : job'[f].target # k
  <2>1. job'[d].target # k
    BY <1>1, <1>2, StepNames DEF Unused, Verified
  <2> QED
    BY <2>1, Frame DEF Unused, Same
<1> QED
  BY <1>3, <1>4, <1>5, <1>6 DEF Unused

\* So does an account that is nobody else's affair.
LEMMA OthersAffair ==
    ASSUME TypeOK, Owned, NEW d \in Devices, Step(d), NEW e \in Devices \ {d},
           NEW p \in Keys, OwnAffair(e, p)
    PROVE  OwnAffair(e, p)'
<1>1. p \in Made /\ p # None /\ maker[p] = e
  BY DEF Made, Keys, None, OwnAffair
<1>2. disk[d].secret # p /\ disk[d].public # p /\ job[d].key # p /\ job[d].target # p
  BY <1>1, AtHand DEF OwnAffair
<1>3. maker'[p] = e
  BY <1>1, MakersKept
<1>4. ledger'[p] \in {None, p} /\ \A a \in Keys : ledger'[a] = p => a = p
  BY <1>1, <1>2, StepLedger DEF OwnAffair, Verified
<1>5. rows'[p] = "none" /\ p \notin moved'
  BY <1>2, StepRows, StepMoved DEF OwnAffair
<1>6. \A f \in Devices \ {e} : disk'[f].public # p /\ job'[f].target # p
  <2>1. job'[d].target # p /\ disk'[d].public # p
    BY <1>1, <1>2, StepNames DEF OwnAffair, Verified
  <2> QED
    BY <2>1, Frame DEF OwnAffair, Same
<1> QED
  BY <1>3, <1>4, <1>5, <1>6 DEF OwnAffair

\* The phones that a step is not of.
LEMMA OthersNew ==
    ASSUME TypeOK, Owned, New, NEW d \in Devices, Step(d), NEW e \in Devices \ {d}
    PROVE  NewKeyUnused(e)' /\ HalfOpenOwn(e)'
<1>1. Same(e) /\ NewKeyUnused(e) /\ HalfOpenOwn(e)
  BY Frame DEF New
<1>2. pc[e] \in Underway => job[e].key \in Keys /\ maker[job[e].key] = e
  BY AtHand DEF Made
<1>3. ASSUME pc[e] \in Underway, Unused(e, job[e].key) PROVE Unused(e, job[e].key)'
  BY <1>1, <1>2, <1>3, OthersUnused DEF Same
<1>4. ASSUME pc[e] \in Underway, ledger[job[e].key] = None PROVE ledger'[job[e].key] = None
  <2>1. maker[job[e].key] = e /\ job[e].key \in Keys
    BY <1>2, <1>4
  <2> QED
    BY <1>4, <2>1, StepLedger, AtHand DEF Live
<1>5. NewKeyUnused(e)'
  BY <1>1, <1>3, <1>4 DEF NewKeyUnused, Same, Underway
<1>6. HalfOpen(e)' => HalfOpen(e)
  BY <1>1 DEF HalfOpen, Same
<1>7. HalfOpen(e) => disk[e].public \in Keys
  BY AtHand DEF HalfOpen, Made
<1>8. HalfOpen(e) => OwnAffair(e, disk[e].public)'
  <2>1. HalfOpen(e) => OwnAffair(e, disk[e].public)
    BY <1>1 DEF HalfOpenOwn
  <2> QED
    BY <1>1, <1>7, <2>1, OthersAffair DEF Same
<1>9. HalfOpenOwn(e)'
  BY <1>1, <1>6, <1>8 DEF HalfOpenOwn, Same
<1> QED
  BY <1>5, <1>9

\* The key of a creation or of a recovery that starts is unused.
LEMMA MadeUnused ==
    ASSUME TypeOK, Owned, NEW d \in Devices, NEW k \in Keys \ Made
    PROVE  Unused(d, k) /\ disk[d].secret # k /\ \A e \in Devices : job[e].target # k
<1>1. \A e \in Devices : disk[e].secret # k /\ disk[e].public # k /\ job[e].target # k
  BY AtHand DEF Keys, None
<1>2. ledger[k] = None /\ rows[k] = "none" /\ k \notin moved
  BY DEF Owned, Known, Live, TypeOK
<1>3. \A a \in Keys : ledger[a] # k
  BY DEF Owned, Known, Live, TypeOK, Keys, None
<1> QED
  BY <1>1, <1>2, <1>3 DEF Unused

\* The new key of the phone that a step is of.
LEMMA ActorNewKey ==
    ASSUME TypeOK, Owned, New, NEW d \in Devices, Step(d)
    PROVE  NewKeyUnused(d)'
<1>1. NewKeyUnused(d) /\ Holds(d) /\ Holds(d)'
  BY ActorHolds DEF New, Owned
<1>2. pc[d] \in Underway => job[d].key \in Keys /\ maker[job[d].key] = d
  BY AtHand DEF Made
<1>3. ASSUME UNCHANGED <<disk, job, ledger, rows, moved>>, Unused(d, job[d].key) PROVE Unused(d, job[d].key)'
  BY <1>3 DEF Unused
<1>4. CASE CreateAccount(d)
  <2>1. PICK k \in Keys \ Made :
           /\ job'[d].key = k /\ job'[d].target = k /\ job'[d].recovering = FALSE
           /\ disk'[d].secret = k /\ disk'[d].public = disk[d].public
    BY <1>4, CreateAccountDoes
  <2>2. pc'[d] = "public" /\ UNCHANGED <<ledger, rows, moved>>
    BY <1>4, CreateAccountDoes
  <2>3. \A e \in Devices \ {d} : Same(e)
    BY Frame
  <2>4. Unused(d, k)'
    BY <2>1, <2>2, <2>3, MadeUnused DEF Unused, Same
  <2> QED
    BY <2>1, <2>2, <2>4 DEF NewKeyUnused
<1>5. CASE RecoverProfile(d)
  <2>1. PICK k \in Keys \ Made, a \in Verified :
           job'[d].key = k /\ job'[d].target = a /\ job'[d].recovering = TRUE
    BY <1>5, RecoverProfileDoes
  <2>2. pc'[d] = "check" /\ UNCHANGED <<disk, ledger, rows, moved>>
    BY <1>5, RecoverProfileDoes
  <2>3. \A e \in Devices \ {d} : Same(e)
    BY Frame
  <2>4. Unused(d, k)' /\ disk'[d].secret # k
    BY <2>1, <2>2, <2>3, MadeUnused DEF Unused, Same
  <2>5. a # k
    BY <2>1, MadeUnused DEF Unused, Verified
  <2> QED
    BY <2>1, <2>2, <2>4, <2>5 DEF NewKeyUnused
<1>6. CASE AccountExists(d)
  BY <1>1, <1>3, <1>6, AccountExistsDoes DEF NewKeyUnused, world, history
<1>7. CASE Rekey(d)
  <2>1. pc[d] = "rekey" /\ pc'[d] \in {"secret", "home"} /\ job'[d] = job[d] /\ disk'[d] = disk[d]
    BY <1>7, RekeyDoes
  <2>2. Unused(d, job[d].key) /\ job[d].key \in Keys
    BY <1>1, <1>2, <2>1 DEF NewKeyUnused, Underway
  <2>3. ledger'[job[d].key] = None
    BY <1>7, <2>1, <2>2, StepLedger DEF Unused, Live
  <2>4. disk[d].public # job[d].key
    BY <2>2 DEF Unused
  <2> QED
    BY <2>1, <2>3, <2>4 DEF NewKeyUnused
<1>8. CASE Move(d)
  <2>1. /\ pc[d] = "move" /\ pc'[d] \in {"secret", "home"} /\ job'[d].key = job[d].key
        /\ job'[d].recovering = job[d].recovering /\ ledger' = ledger /\ disk' = disk
    BY <1>8, MoveDoes
  <2>2. Unused(d, job[d].key)
    BY <1>1, <2>1 DEF NewKeyUnused
  <2> QED
    BY <2>1, <2>2 DEF NewKeyUnused, Unused
<1>9. CASE StoreSecret(d)
  BY <1>1, <1>9, StoreSecretDoes DEF NewKeyUnused, Holds, Stage, Recovery, world
<1>10. CASE Refresh(d) \/ \E exists \in BOOLEAN : Refreshed(d, exists)
  BY <1>1, <1>3, <1>10, RefreshDoes DEF NewKeyUnused, Same, world, history
<1>11. ASSUME pc'[d] \notin {"check", "rekey", "move", "secret", "public"} PROVE NewKeyUnused(d)'
  BY <1>11 DEF NewKeyUnused
<1>12. CASE AddCash(d)
  BY <1>11, <1>12, AddCashDoes
<1>13. CASE Boot(d) \/ Register(d) \/ ConfirmEmailVerified(d)
  BY <1>11, <1>13, BootDoes, RegisterDoes, ConfirmEmailVerifiedDoes
<1>14. CASE StorePublic(d) \/ Activate(d)
  BY <1>11, <1>14, StorePublicDoes, ActivateDoes
<1>15. CASE StoreProfile(d)
  BY <1>11, <1>15, StoreProfileDoes DEF TypeOK, Locals
<1>16. CASE CloseAccount(d) \/ Reset(d) \/ Wipe(d)
  BY <1>11, <1>16, CloseAccountDoes, ResetDoes, WipeDoes
<1>17. CASE WipeCut(d) \/ Crash(d) \/ Lose(d)
  BY <1>11, <1>17, WipeCutDoes, CrashDoes, LoseDoes
<1> QED
  BY <1>4, <1>5, <1>6, <1>7, <1>8, <1>9, <1>10, <1>12, <1>13, <1>14, <1>15, <1>16, <1>17 DEF Step

\* The half-open account of the phone that a step is of.
LEMMA ActorHalfOpen ==
    ASSUME TypeOK, Owned, New, NEW d \in Devices, Step(d)
    PROVE  HalfOpenOwn(d)'
<1>1. NewKeyUnused(d) /\ HalfOpenOwn(d) /\ Holds(d) /\ Holds(d)'
  BY ActorHolds DEF New, Owned
<1>2. /\ pc[d] \in Underway => job[d].key \in Keys /\ maker[job[d].key] = d /\ job[d].target # None
      /\ disk[d].public # None => disk[d].public \in Made
  BY AtHand DEF Made
<1>3. /\ \A e \in Devices \ {d} : Same(e)
      /\ \A k \in Made : maker'[k] = maker[k]
  BY Frame, MakersKept
<1>4. ASSUME NEW p \in Made, OwnAffair(d, p), UNCHANGED <<ledger, rows, moved>> PROVE OwnAffair(d, p)'
  <2>1. \A e \in Devices \ {d} : job'[e].target # p /\ disk'[e].public # p
    BY <1>3, <1>4 DEF OwnAffair, Same
  <2> QED
    BY <1>3, <1>4, <2>1 DEF OwnAffair
<1>5. ASSUME ~HalfOpen(d)' PROVE HalfOpenOwn(d)'
  BY <1>5 DEF HalfOpenOwn
<1>6. CASE Boot(d)
  BY <1>5, <1>6, BootDoes DEF HalfOpen
<1>7. CASE Refresh(d) \/ \E exists \in BOOLEAN : Refreshed(d, exists)
  <2>1. Same(d) /\ UNCHANGED <<ledger, rows, moved>>
    BY <1>7, RefreshDoes DEF world, history
  <2>2. HalfOpen(d)' => HalfOpen(d)
    BY <2>1 DEF HalfOpen, Same
  <2> QED
    BY <1>1, <1>2, <1>4, <2>1, <2>2 DEF HalfOpenOwn, HalfOpen, Same
<1>8. CASE CreateAccount(d)
  <2>1. PICK k \in Keys \ Made :
           job'[d].key = k /\ job'[d].target = k /\ job'[d].recovering = FALSE /\ disk'[d].public = disk[d].public
    BY <1>8, CreateAccountDoes
  <2>2. pc[d] = "home" /\ app[d].me = None /\ pc'[d] = "public" /\ UNCHANGED <<ledger, rows, moved>>
    BY <1>8, CreateAccountDoes
  <2>3. HalfOpen(d)' => HalfOpen(d)
    BY <2>1, <2>2 DEF HalfOpen
  <2> QED
    BY <1>1, <1>2, <1>4, <2>1, <2>2, <2>3 DEF HalfOpenOwn, HalfOpen
<1>9. CASE StorePublic(d)
  <2>1. /\ pc[d] = "public" /\ pc'[d] = IF job[d].recovering THEN "locals" ELSE "activate"
        /\ disk'[d].secret = disk[d].secret /\ disk'[d].public = job[d].target
        /\ UNCHANGED <<job, ledger, rows, moved, maker>>
    BY <1>9, StorePublicDoes DEF world, history
  <2>2. CASE job[d].recovering
    BY <1>5, <2>1, <2>2 DEF HalfOpen
  <2>3. CASE ~job[d].recovering
    <3>1. Unused(d, job[d].key) /\ job[d].target = job[d].key /\ disk[d].secret = job[d].key
      BY <1>1, <2>1, <2>3 DEF NewKeyUnused, Holds, Stage, Underway
    <3>2. job[d].key \in Made /\ maker[job[d].key] = d
      BY <1>2, <2>1 DEF Underway, Made
    <3>3. OwnAffair(d, job[d].key)
      BY <3>1, <3>2 DEF Unused, OwnAffair
    <3>4. OwnAffair(d, job[d].key)'
      BY <1>4, <2>1, <3>2, <3>3
    <3> QED
      BY <2>1, <2>3, <3>1, <3>4 DEF HalfOpenOwn, Recovery
  <2> QED
    BY <2>2, <2>3
<1>10. CASE Activate(d)
  <2>1. /\ pc[d] = "activate" /\ pc'[d] \in {"locals", "home"}
        /\ ledger' = ledger \/ ledger' = [ledger EXCEPT ![job[d].key] = job[d].key]
        /\ UNCHANGED <<disk, app, job, rows, moved>>
    BY <1>10, ActivateDoes DEF history
  <2>2. disk[d].public = job[d].key /\ job[d].key \in Made /\ app[d].me = None /\ ~job[d].recovering
    BY <1>1, <1>2, <2>1 DEF Holds, Stage, Place, Underway, Made
  <2>3. HalfOpen(d)
    BY <2>1, <2>2 DEF HalfOpen, Made, Keys, None
  <2>4. OwnAffair(d, job[d].key) /\ disk[d].secret = disk[d].public
    BY <1>1, <2>1, <2>2, <2>3 DEF HalfOpenOwn
  <2>5. ledger'[job[d].key] \in {None, job[d].key} /\ \A a \in Keys : ledger'[a] = job[d].key => a = job[d].key
    BY <2>1, <2>2, <2>4 DEF OwnAffair, TypeOK, Made
  <2>6. \A e \in Devices \ {d} : job'[e].target # job[d].key /\ disk'[e].public # job[d].key
    BY <2>1, <2>4 DEF OwnAffair
  <2>7. maker'[job[d].key] = d
    BY <1>3, <2>2, <2>4 DEF OwnAffair
  <2>8. OwnAffair(d, job[d].key)'
    BY <2>1, <2>4, <2>5, <2>6, <2>7 DEF OwnAffair
  <2> QED
    BY <2>1, <2>2, <2>4, <2>8 DEF HalfOpenOwn, Recovery
<1>11. CASE StoreProfile(d)
  <2>1. /\ pc[d] = "locals" /\ disk'[d].secret = disk[d].secret /\ disk'[d].public = disk[d].public
        /\ UNCHANGED <<job, ledger, rows, moved>>
        /\ job[d].recovering => app'[d].me = job[d].target
        /\ ~job[d].recovering => pc'[d] = "register" /\ app' = app
    BY <1>11, StoreProfileDoes DEF world, history
  <2>2. CASE job[d].recovering
    BY <1>2, <1>5, <2>1, <2>2 DEF HalfOpen, Underway
  <2>3. CASE ~job[d].recovering
    <3>1. HalfOpen(d)' => HalfOpen(d)
      BY <2>1, <2>3 DEF HalfOpen
    <3> QED
      BY <1>1, <1>2, <1>4, <2>1, <2>3, <3>1 DEF HalfOpenOwn, HalfOpen, Recovery
  <2> QED
    BY <2>2, <2>3
<1>12. CASE Register(d)
  <2>1. app'[d].me = job[d].key /\ job[d].key \in Keys
    BY <1>2, <1>12, RegisterDoes DEF Underway
  <2> QED
    BY <1>5, <2>1 DEF HalfOpen, Keys, None
<1>13. CASE ConfirmEmailVerified(d)
  BY <1>1, <1>5, <1>13, ConfirmEmailVerifiedDoes DEF HalfOpen, Holds, Place
<1>14. CASE RecoverProfile(d)
  <2>1. PICK a \in Verified : job'[d].target = a
    BY <1>14, RecoverProfileDoes
  <2>2. pc[d] = "home" /\ app[d].me = None /\ pc'[d] = "check" /\ UNCHANGED <<disk, ledger, rows, moved>>
    BY <1>14, RecoverProfileDoes
  <2>3. HalfOpen(d)' => HalfOpen(d)
    BY <2>2 DEF HalfOpen
  <2>4. HalfOpen(d) => a # disk[d].public
    BY <1>1, <2>1 DEF HalfOpenOwn, OwnAffair, Verified
  <2> QED
    BY <1>1, <1>2, <1>4, <2>1, <2>2, <2>3, <2>4 DEF HalfOpenOwn, HalfOpen
<1>15. CASE AccountExists(d)
  <2>1. pc[d] = "check" /\ pc'[d] \in {"rekey", "move"} /\ UNCHANGED <<disk, app, job, ledger, rows, moved>>
    BY <1>15, AccountExistsDoes DEF world, history
  <2>2. HalfOpen(d)' => HalfOpen(d)
    BY <2>1 DEF HalfOpen
  <2> QED
    BY <1>1, <1>2, <1>4, <2>1, <2>2 DEF HalfOpenOwn, HalfOpen, Recovery
<1>16. CASE Rekey(d)
  <2>1. pc[d] = "rekey" /\ pc'[d] \in {"secret", "home"} /\ UNCHANGED <<disk, app, job, rows, moved>>
    BY <1>16, RekeyDoes
  <2>2. HalfOpen(d)' => HalfOpen(d)
    BY <2>1 DEF HalfOpen
  <2>3. ASSUME HalfOpen(d) PROVE OwnAffair(d, disk[d].public)'
    <3>1. OwnAffair(d, disk[d].public) /\ disk[d].public \in Made
      BY <1>1, <1>2, <2>3 DEF HalfOpenOwn, HalfOpen
    <3>2. disk[d].public # job[d].key
      BY <1>1, <2>1 DEF NewKeyUnused, Unused
    <3>3. \A a \in Keys : ledger'[a] = ledger[a] \/ (a \in Verified /\ ledger'[a] = job[d].key)
      BY <1>16, <2>1, StepLedger
    <3>4. ledger'[disk[d].public] \in {None, disk[d].public} /\ \A a \in Keys : ledger'[a] = disk[d].public => a = disk[d].public
      BY <3>1, <3>2, <3>3 DEF OwnAffair, Verified, Made
    <3>5. maker'[disk[d].public] = d
      BY <1>3, <3>1 DEF OwnAffair
    <3> QED
      BY <2>1, <3>1, <3>4, <3>5 DEF OwnAffair
  <2> QED
    BY <1>1, <2>1, <2>2, <2>3 DEF HalfOpenOwn, Recovery
<1>17. CASE Move(d)
  <2>1. /\ pc[d] = "move" /\ pc'[d] \in {"secret", "home"} /\ UNCHANGED <<disk, app, ledger>>
        /\ job'[d].target = job[d].key
    BY <1>17, MoveDoes
  <2>2. HalfOpen(d)' => HalfOpen(d)
    BY <2>1 DEF HalfOpen
  <2>3. disk[d].public # job[d].key
    BY <1>1, <2>1 DEF NewKeyUnused, Unused
  <2>4. ASSUME HalfOpen(d) PROVE OwnAffair(d, disk[d].public)'
    <3>1. OwnAffair(d, disk[d].public) /\ disk[d].public \in Made /\ job[d].target # disk[d].public
      BY <1>1, <1>2, <2>1, <2>4 DEF HalfOpenOwn, HalfOpen, Recovery
    <3>2. rows'[disk[d].public] = "none" /\ disk[d].public \notin moved'
      BY <1>17, <2>1, <2>3, <3>1, StepRows, StepMoved DEF OwnAffair, Made
    <3>3. \A e \in Devices \ {d} : job'[e].target # disk[d].public /\ disk'[e].public # disk[d].public
      BY <1>3, <3>1 DEF OwnAffair, Same
    <3>4. maker'[disk[d].public] = d
      BY <1>3, <3>1 DEF OwnAffair
    <3> QED
      BY <2>1, <3>1, <3>2, <3>3, <3>4 DEF OwnAffair
  <2> QED
    BY <1>1, <2>1, <2>2, <2>3, <2>4 DEF HalfOpenOwn
<1>18. CASE StoreSecret(d)
  <2>1. /\ pc[d] = "secret" /\ pc'[d] = "public" /\ disk'[d].public = disk[d].public
        /\ UNCHANGED <<app, job, ledger, rows, moved>>
    BY <1>18, StoreSecretDoes DEF world, history
  <2>2. HalfOpen(d)' => HalfOpen(d)
    BY <2>1 DEF HalfOpen
  <2> QED
    BY <1>1, <1>2, <1>4, <2>1, <2>2 DEF HalfOpenOwn, HalfOpen, Recovery
<1>19. CASE AddCash(d)
  BY <1>5, <1>19, AddCashDoes DEF HalfOpen
<1>20. CASE CloseAccount(d)
  BY <1>5, <1>20, CloseAccountDoes DEF HalfOpen
<1>21. CASE Reset(d)
  BY <1>5, <1>21, ResetDoes DEF HalfOpen
<1>22. CASE Wipe(d)
  BY <1>5, <1>22, WipeDoes DEF HalfOpen, Blank
<1>23. CASE WipeCut(d) \/ Crash(d) \/ Lose(d)
  BY <1>5, <1>23, WipeCutDoes, CrashDoes, LoseDoes DEF HalfOpen
<1> QED
  BY <1>6, <1>7, <1>8, <1>9, <1>10, <1>11, <1>12, <1>13, <1>14, <1>15, <1>16, <1>17, <1>18, <1>19, <1>20, <1>21, <1>22, <1>23 DEF Step

\* Every step.
LEMMA NextNew == TypeOK /\ Owned /\ New /\ [Next]_vars => New'
<1> SUFFICES ASSUME TypeOK, Owned, New, [Next]_vars PROVE New'
  OBVIOUS
<1>1. CASE UNCHANGED vars
  BY <1>1 DEF vars, phone, world, history, New, NewKeyUnused, HalfOpenOwn, HalfOpen, OwnAffair, Unused
<1>2. CASE MarkEmailVerified
  <2>1. UNCHANGED <<disk, app, pc, job, ledger, maker, moved>>
    BY <1>2 DEF MarkEmailVerified, phone
  <2>2. \A a \in Keys : rows[a] = "none" => rows'[a] = "none"
    BY <1>2 DEF MarkEmailVerified
  <2>3. ASSUME NEW d \in Devices, NEW k \in Keys, Unused(d, k) PROVE Unused(d, k)'
    BY <2>1, <2>2, <2>3 DEF Unused
  <2>4. ASSUME NEW d \in Devices, NEW k \in Keys, OwnAffair(d, k) PROVE OwnAffair(d, k)'
    BY <2>1, <2>2, <2>4 DEF OwnAffair
  <2>5. ASSUME NEW d \in Devices PROVE NewKeyUnused(d)' /\ HalfOpenOwn(d)'
    <3>1. NewKeyUnused(d) /\ HalfOpenOwn(d)
      BY DEF New
    <3>2. pc[d] \in Underway => job[d].key \in Keys
      BY AtHand DEF Made
    <3>3. HalfOpen(d) => disk[d].public \in Keys
      BY AtHand DEF HalfOpen, Made
    <3>4. NewKeyUnused(d)'
      BY <2>1, <2>3, <3>1, <3>2 DEF NewKeyUnused, Underway
    <3>5. HalfOpenOwn(d)'
      BY <2>1, <2>4, <3>1, <3>3 DEF HalfOpenOwn, HalfOpen
    <3> QED
      BY <3>4, <3>5
  <2> QED
    BY <2>5 DEF New
<1>3. ASSUME NEW d \in Devices, Step(d) PROVE New'
  BY <1>3, ActorNewKey, ActorHalfOpen, OthersNew DEF New
<1> QED
  BY <1>1, <1>2, <1>3 DEF Next

----------------------------------------------------------------------------
(* Keys and accounts *)

\* Of the keys made on a phone, the account obeys this one, which controls no other.
Fitting(d, key, account) ==
    \A a \in Keys : Live(a) /\ maker[ledger[a]] = d => (ledger[a] = key <=> a = account)

\* So do the stored ones, and those that are about to be stored.
Fits(d) ==
    d \notin spoiled =>
        /\ pc[d] # "public" /\ disk[d].public # None => Fitting(d, disk[d].secret, disk[d].public)
        /\ pc[d] \in {"secret", "public"} => Fitting(d, job[d].key, job[d].target)

AllFit == \A d \in Devices : Fits(d)

\* Initially.
LEMMA InitFits == Init => AllFit
  BY DEF Init, AllFit, Fits, Blank, None

\* The same after a step, of a key and an account named before it.
StillFitting(d, key, account) ==
    \A a \in Keys : ledger'[a] # None /\ maker'[ledger'[a]] = d => (ledger'[a] = key <=> a = account)

\* A phone fits after a step if what it stores, or is about to, still fits.
LEMMA FitsNext ==
    ASSUME NEW d \in Devices,
           d \notin spoiled' =>
               /\ pc'[d] # "public" /\ disk'[d].public # None => StillFitting(d, disk'[d].secret, disk'[d].public)
               /\ pc'[d] \in {"secret", "public"} => StillFitting(d, job'[d].key, job'[d].target)
    PROVE  Fits(d)'
  BY DEF Fits, Fitting, StillFitting, Live

\* What fits keeps fitting, unless the ledger gets another key of this phone.
LEMMA FittingKept ==
    ASSUME TypeOK, Owned, NEW d \in Devices, NEW key, NEW account, Fitting(d, key, account),
           \A k \in Made : maker'[k] = maker[k],
           \A a \in Keys : \/ ledger'[a] = ledger[a] \/ ledger'[a] = None
                           \/ ledger'[a] \in Made /\ (maker[ledger'[a]] = d => (ledger'[a] = key <=> a = account))
    PROVE  StillFitting(d, key, account)
<1> SUFFICES ASSUME NEW a \in Keys, ledger'[a] # None, maker'[ledger'[a]] = d
             PROVE  ledger'[a] = key <=> a = account
  BY DEF StillFitting
<1>1. CASE ledger'[a] = ledger[a]
  <2>1. Live(a) /\ ledger[a] \in Made /\ maker[ledger[a]] = d
    BY <1>1 DEF Owned, Known, Live
  <2> QED
    BY <1>1, <2>1 DEF Fitting
<1>2. CASE ledger'[a] # ledger[a]
  BY <1>2
<1> QED
  BY <1>1, <1>2

\* The phones that a step is not of.
LEMMA OthersFit ==
    ASSUME TypeOK, Owned, AllFit, NEW d \in Devices, Step(d), NEW e \in Devices \ {d}
    PROVE  Fits(e)'
<1>1. Same(e) /\ Fits(e) /\ \A k \in Made : maker'[k] = maker[k]
  BY Frame, MakersKept DEF AllFit
<1>2. e \notin spoiled' => e \notin spoiled
  BY DEF Step, Boot, Refresh, Refreshed, CreateAccount, NewKey, StorePublic, Activate, StoreProfile, Register, ConfirmEmailVerified, RecoverProfile, AccountExists, Rekey, Move, StoreSecret, AddCash, CloseAccount, Reset, Wipe, WipeCut, Crash, Lose, world, history
<1>3. \A a \in Keys : ledger'[a] = ledger[a] \/ ledger'[a] = None \/ (ledger'[a] \in Made /\ maker[ledger'[a]] # e)
  BY StepLedger
<1>4. ASSUME NEW key, NEW account, Fitting(e, key, account) PROVE StillFitting(e, key, account)
  BY <1>1, <1>3, <1>4, FittingKept
<1> QED
  BY <1>1, <1>2, <1>4, FitsNext DEF Fits, Same

\* A half-open account fits, whatever became of its phone before.
LEMMA HalfOpenFits ==
    ASSUME TypeOK, Owned, New, NEW d \in Devices, HalfOpen(d), pc[d] # "public"
    PROVE  Fitting(d, disk[d].secret, disk[d].public)
<1>1. OwnAffair(d, disk[d].public) /\ disk[d].secret = disk[d].public /\ disk[d].public \in Keys
  BY AtHand DEF New, HalfOpenOwn, HalfOpen, Made
<1> QED
  BY <1>1 DEF Fitting, OwnAffair, Live

\* The phone that a step is of.
LEMMA ActorFits ==
    ASSUME TypeOK, Owned, New, AllFit, NEW d \in Devices, Step(d)
    PROVE  Fits(d)'
<1>1. Fits(d) /\ NewKeyUnused(d) /\ Holds(d) /\ \A k \in Made : maker'[k] = maker[k]
  BY MakersKept DEF AllFit, New, Owned
<1>2. /\ pc[d] \in Underway => job[d].key \in Keys /\ maker[job[d].key] = d /\ job[d].key # None
      /\ disk[d].public # None => disk[d].public \in Made
  BY AtHand DEF Made
<1>3. ASSUME ledger' = ledger, NEW key, NEW account, Fitting(d, key, account) PROVE StillFitting(d, key, account)
  BY <1>1, <1>3, FittingKept
<1>4. ASSUME ledger' = ledger, disk'[d].secret = disk[d].secret, disk'[d].public = disk[d].public,
             d \notin spoiled' => d \notin spoiled, pc[d] # "public", pc'[d] \notin {"secret", "public"}
      PROVE  Fits(d)'
  BY <1>1, <1>3, <1>4, FitsNext DEF Fits
<1>5. ASSUME d \in spoiled' PROVE Fits(d)'
  BY <1>5 DEF Fits
<1>6. ASSUME disk'[d].public = None, pc'[d] \notin {"secret", "public"} PROVE Fits(d)'
  BY <1>6 DEF Fits
<1>7. CASE Boot(d)
  BY <1>4, <1>7, BootDoes
<1>8. CASE Refresh(d) \/ \E exists \in BOOLEAN : Refreshed(d, exists)
  <2>1. Same(d) /\ ledger' = ledger /\ spoiled' = spoiled
    BY <1>8, RefreshDoes DEF world, history
  <2> QED
    BY <1>1, <1>3, <2>1, FitsNext DEF Fits, Same
<1>9. CASE CreateAccount(d)
  <2>1. PICK k \in Keys \ Made : job'[d].key = k /\ job'[d].target = k
    BY <1>9, CreateAccountMakes
  <2>2. pc'[d] = "public" /\ ledger' = ledger
    BY <1>9, CreateAccountDoes
  <2>3. Fitting(d, k, k)
    BY MadeUnused DEF Unused, Fitting, Live
  <2> QED
    BY <1>3, <2>1, <2>2, <2>3, FitsNext
<1>10. CASE StorePublic(d)
  <2>1. /\ pc[d] = "public" /\ pc'[d] \in {"locals", "activate"}
        /\ disk'[d].secret = disk[d].secret /\ disk'[d].public = job[d].target
        /\ ledger' = ledger /\ spoiled' = spoiled
    BY <1>10, StorePublicDoes DEF world, history
  <2>2. disk[d].secret = job[d].key
    BY <1>1, <2>1 DEF Holds, Stage
  <2> QED
    BY <1>1, <1>3, <2>1, <2>2, FitsNext DEF Fits
<1>11. CASE Activate(d)
  <2>1. /\ pc[d] = "activate" /\ pc'[d] \in {"locals", "home"} /\ spoiled' = spoiled /\ disk' = disk
        /\ \A a \in Keys : ledger'[a] = ledger[a] \/ (a = job[d].key /\ ledger'[a] = job[d].key)
    BY <1>11, ActivateDoes DEF TypeOK, history
  <2>2. disk[d].secret = job[d].key /\ disk[d].public = job[d].key /\ job[d].key \in Made
    BY <1>1, <1>2, <2>1 DEF Holds, Stage, Underway, Made
  <2>3. ASSUME d \notin spoiled PROVE StillFitting(d, job[d].key, job[d].key)
    <3>1. Fitting(d, job[d].key, job[d].key)
      BY <1>1, <1>2, <2>1, <2>2, <2>3 DEF Fits, Underway
    <3> QED
      BY <1>1, <2>1, <2>2, <3>1, FittingKept
  <2> QED
    BY <2>1, <2>2, <2>3, FitsNext
<1>12. CASE StoreProfile(d)
  <2>1. pc'[d] \in {"home", "register"}
    BY <1>12, StoreProfileDoes, FieldTypes
  <2> QED
    BY <1>4, <1>12, <2>1, StoreProfileDoes DEF world, history
<1>13. CASE Register(d)
  BY <1>4, <1>13, RegisterDoes
<1>14. CASE ConfirmEmailVerified(d)
  BY <1>4, <1>14, ConfirmEmailVerifiedDoes DEF history
<1>15. CASE RecoverProfile(d)
  <2>1. pc[d] = "home" /\ app[d].me = None /\ pc'[d] = "check" /\ disk' = disk /\ ledger' = ledger
    BY <1>15, RecoverProfileDoes
  <2>2. disk[d].public # None => Fitting(d, disk[d].secret, disk[d].public)
    BY <2>1, HalfOpenFits DEF HalfOpen
  <2> QED
    BY <1>3, <2>1, <2>2, FitsNext
<1>16. CASE AccountExists(d)
  BY <1>4, <1>16, AccountExistsDoes DEF world, history
<1>17. CASE Rekey(d)
  <2>1. pc[d] = "rekey" /\ pc'[d] \in {"secret", "home"} /\ disk' = disk /\ job' = job
    BY <1>17, RekeyDoes
  <2>2. CASE pc'[d] = "home" /\ UNCHANGED <<ledger, spoiled>>
    BY <1>4, <2>1, <2>2
  <2>3. ASSUME NEW a \in Verified, ledger' = [ledger EXCEPT ![a] = job[d].key],
               spoiled' = IF a # job[d].target THEN spoiled \cup {d} ELSE spoiled, d \notin spoiled'
        PROVE  Fits(d)'
    <3>1. /\ Unused(d, job[d].key) /\ disk[d].secret # job[d].key /\ a = job[d].target
          /\ job[d].key \in Made /\ d \notin spoiled
      BY <1>1, <1>2, <2>1, <2>3 DEF NewKeyUnused, Underway, Made
    <3>2. \A b \in Keys : ledger'[b] = IF b = a THEN job[d].key ELSE ledger[b]
      BY <2>3 DEF TypeOK, Verified
    <3>3. StillFitting(d, job[d].key, job[d].target)
      <4>1. \A b \in Keys : ledger'[b] = job[d].key <=> b = job[d].target
        BY <3>1, <3>2 DEF Unused
      <4> QED
        BY <4>1 DEF StillFitting
    <3>4. ASSUME disk[d].public # None PROVE StillFitting(d, disk[d].secret, disk[d].public)
      <4>1. HalfOpen(d)
        BY <1>1, <2>1, <3>4 DEF HalfOpen, Holds, Place, Underway
      <4>2. a # disk[d].public
        BY <4>1 DEF New, HalfOpenOwn, OwnAffair, Verified
      <4>3. Fitting(d, disk[d].secret, disk[d].public)
        BY <2>1, <4>1, HalfOpenFits
      <4> QED
        BY <1>1, <3>1, <3>2, <4>2, <4>3, FittingKept
    <3> QED
      BY <2>1, <3>3, <3>4, FitsNext
  <2> QED
    BY <1>5, <1>17, <2>2, <2>3, RekeyDoes
<1>18. CASE Move(d)
  <2>1. /\ pc[d] = "move" /\ pc'[d] \in {"secret", "home"} /\ UNCHANGED <<disk, ledger, spoiled>>
        /\ job'[d].key = job[d].key /\ job'[d].target = job[d].key
    BY <1>18, MoveDoes
  <2>2. Fitting(d, job[d].key, job[d].key)
    BY <1>1, <2>1 DEF NewKeyUnused, Unused, Fitting, Live
  <2> QED
    BY <1>1, <1>3, <2>1, <2>2, FitsNext DEF Fits
<1>19. CASE StoreSecret(d)
  <2>1. pc[d] = "secret" /\ pc'[d] = "public" /\ UNCHANGED <<job, ledger, spoiled>>
    BY <1>19, StoreSecretDoes DEF world, history
  <2> QED
    BY <1>1, <1>3, <2>1, FitsNext DEF Fits
<1>20. CASE AddCash(d)
  <2>1. /\ pc[d] = "home" /\ disk[d].secret # None /\ app[d].me # None /\ UNCHANGED <<disk, pc>>
        /\ ledger' = [ledger EXCEPT ![disk[d].secret] = disk[d].secret]
        /\ spoiled \subseteq spoiled' /\ (app[d].me # disk[d].secret => d \in spoiled')
    BY <1>20, AddCashDoes
  <2>2. CASE d \in spoiled'
    BY <1>5, <2>2
  <2>3. CASE d \notin spoiled'
    <3>1. disk[d].public = disk[d].secret /\ disk[d].secret \in Made /\ d \notin spoiled
      BY <2>1, <2>3, AtHand
    <3>2. Fitting(d, disk[d].secret, disk[d].secret)
      BY <1>1, <2>1, <3>1 DEF Fits
    <3>3. StillFitting(d, disk[d].secret, disk[d].secret)
      BY <1>1, <2>1, <3>1, <3>2, FittingKept DEF TypeOK
    <3> QED
      BY <2>1, <3>1, <3>3, FitsNext
  <2> QED
    BY <2>2, <2>3
<1>21. CASE CloseAccount(d)
  <2>1. /\ pc[d] = "home" /\ pc'[d] \in {"wipe", "home", "discard"} /\ disk' = disk /\ spoiled' = spoiled
        /\ \A a \in Keys : ledger'[a] = ledger[a] \/ ledger'[a] = None
    BY <1>21, CloseAccountDoes DEF TypeOK, history
  <2>2. ASSUME NEW key, NEW account, Fitting(d, key, account) PROVE StillFitting(d, key, account)
    BY <1>1, <2>1, <2>2, FittingKept
  <2> QED
    BY <1>1, <2>1, <2>2, FitsNext DEF Fits
<1>22. CASE Reset(d)
  BY <1>4, <1>22, ResetDoes DEF world, history
<1>23. CASE Wipe(d)
  BY <1>6, <1>23, WipeDoes DEF Blank
<1>24. CASE WipeCut(d)
  BY <1>5, <1>24, WipeCutDoes
<1>25. CASE Crash(d)
  BY <1>4, <1>5, <1>25, CrashDoes DEF world
<1>26. CASE Lose(d)
  BY <1>6, <1>26, LoseDoes DEF Blank
<1> QED
  BY <1>7, <1>8, <1>9, <1>10, <1>11, <1>12, <1>13, <1>14, <1>15, <1>16, <1>17, <1>18, <1>19, <1>20, <1>21, <1>22, <1>23, <1>24, <1>25, <1>26 DEF Step

\* Every step.
LEMMA NextFits == TypeOK /\ Owned /\ New /\ AllFit /\ [Next]_vars => AllFit'
<1> SUFFICES ASSUME TypeOK, Owned, New, AllFit, [Next]_vars PROVE AllFit'
  OBVIOUS
<1>1. CASE UNCHANGED vars
  BY <1>1 DEF vars, phone, world, history, AllFit, Fits, Fitting, Live
<1>2. CASE MarkEmailVerified
  BY <1>2 DEF MarkEmailVerified, phone, AllFit, Fits, Fitting, Live
<1>3. ASSUME NEW d \in Devices, Step(d) PROVE AllFit'
  BY <1>3, ActorFits, OthersFit DEF AllFit
<1> QED
  BY <1>1, <1>2, <1>3 DEF Next

\* What it means for an app that is signed in.
LEMMA FitsKeys == TypeOK /\ Owned /\ AllFit => KeyFits
<1> SUFFICES ASSUME TypeOK, Owned, AllFit, NEW d \in Devices, SignedIn(d), d \notin spoiled
             PROVE  Fitting(d, disk[d].secret, app[d].me)
  BY DEF KeyFits, Fitting
<1>1. pc[d] = "home" /\ app[d].me # None /\ app[d].me = disk[d].public
  BY AtHand DEF SignedIn, At
<1> QED
  BY <1>1 DEF AllFit, Fits

----------------------------------------------------------------------------
(* What a phone says of its email *)

InDirectory(a) == a \in Keys /\ (rows[a] # "none" \/ a \in moved)

\* The directory has the account, or a recovery has moved it away, and it is verified
\* as soon as the call that is on its way has been done.
Vouched(a) == InDirectory(a) /\ (~marking => a \in Verified \cup moved)

\* What a phone says is so; a phone that is signed in has its account in the directory;
\* a recovery has an account that is verified.
Words(d) ==
    /\ disk[d].told => disk[d].named /\ Vouched(disk[d].public) /\ (pc[d] # "off" => app[d].me # None)
    /\ app[d].me # None /\ disk[d].named => InDirectory(app[d].me)
    /\ pc[d] \in Recovery \cup {"public", "locals"} /\ job[d].recovering => Vouched(job[d].target)

AllWords == ~slip => \A d \in Devices : Words(d)

\* Initially.
LEMMA InitWords == Init => AllWords
<1> SUFFICES ASSUME Init, NEW d \in Devices PROVE Words(d)
  BY DEF AllWords
<1>1. disk[d].told = FALSE /\ app[d].me = None /\ pc[d] = "off"
  BY DEF Init, Blank, SignedOut
<1> QED
  BY <1>1 DEF Words, Recovery

\* What is vouched for stays so whatever a phone does.
LEMMA StepVouched ==
    ASSUME TypeOK, Owned, New, NEW d \in Devices, Step(d), NEW a
    PROVE  (InDirectory(a) => InDirectory(a)') /\ (Vouched(a) => Vouched(a)')
<1>1. marking' = marking \/ marking' = TRUE
  BY DEF Step, Boot, Refresh, Refreshed, CreateAccount, NewKey, StorePublic, Activate, StoreProfile, Register, ConfirmEmailVerified, RecoverProfile, AccountExists, Rekey, Move, StoreSecret, AddCash, CloseAccount, Reset, Wipe, WipeCut, Crash, Lose, world
<1>2. marking' \/ (~marking' /\ ~marking)
  BY <1>1
<1>3. pc[d] = "move" => Unused(d, job[d].key)
  BY DEF New, NewKeyUnused
<1>4. ASSUME InDirectory(a) PROVE a \in moved' \/ rows'[a] = rows[a]
  <2>1. a \in Keys /\ (rows[a] # "none" \/ a \in moved)
    BY <1>4 DEF InDirectory
  <2>2. CASE a \in moved
    BY <2>1, <2>2, StepMoved
  <2>3. CASE rows[a] # "none"
    BY <1>3, <2>1, <2>3, StepRows DEF Unused
  <2> QED
    BY <2>1, <2>2, <2>3
<1>5. a \in Keys /\ a \in moved => a \in moved'
  BY StepMoved
<1>6. InDirectory(a) => InDirectory(a)'
  BY <1>4, <1>5 DEF InDirectory
<1>7. a \in Verified \cup moved /\ InDirectory(a) => (a \in Verified \cup moved)'
  BY <1>4, <1>5 DEF Verified, InDirectory
<1> QED
  BY <1>2, <1>6, <1>7, Zenon DEF Vouched

\* A call that was lost stays noted.
LEMMA StepSlip ==
    ASSUME NEW d \in Devices, Step(d), slip PROVE slip'
<1>1. CASE Boot(d)
  BY <1>1, Zenon DEF Boot, RegisterUser
<1>2. CASE Register(d)
  BY <1>2, Zenon DEF Register, RegisterUser
<1>3. CASE Move(d)
  BY <1>3, Zenon DEF Move
<1>4. CASE WipeCut(d)
  BY <1>4, Zenon DEF WipeCut
<1>5. CASE ~(Boot(d) \/ Register(d) \/ Move(d) \/ WipeCut(d))
  BY <1>5 DEF Step, Refresh, Refreshed, CreateAccount, StorePublic, Activate, StoreProfile, ConfirmEmailVerified, RecoverProfile, AccountExists, Rekey, StoreSecret, AddCash, CloseAccount, Reset, Wipe, Crash, Lose, history
<1> QED
  BY <1>1, <1>2, <1>3, <1>4, <1>5

\* A registration that is not lost puts the account into the directory.
LEMMA RegisteredInDirectory ==
    ASSUME TypeOK, NEW a \in Keys, NEW sent \in BOOLEAN, RegisterUser(a, sent), ~slip'
    PROVE  InDirectory(a)'
<1>1. sent
  BY Zenon DEF RegisterUser
<1>2. rows' = Upsert(a)
  BY <1>1 DEF RegisterUser
<1> QED
  BY <1>2 DEF Upsert, InDirectory, TypeOK

\* The phones that a step is not of.
LEMMA OthersWords ==
    ASSUME TypeOK, Owned, New, NEW d \in Devices, Step(d), NEW e \in Devices \ {d}, Words(e)
    PROVE  Words(e)'
<1>1. Same(e)
  BY Frame
<1>2. /\ Vouched(disk[e].public) => \A p : p = disk[e].public => Vouched(p)'
      /\ InDirectory(app[e].me) => \A p : p = app[e].me => InDirectory(p)'
      /\ Vouched(job[e].target) => \A p : p = job[e].target => Vouched(p)'
  BY StepVouched
<1>3. disk[e].told \in BOOLEAN /\ disk[e].named \in BOOLEAN /\ job[e].recovering \in BOOLEAN
  BY FieldTypes
<1> QED
  BY <1>1, <1>2, <1>3 DEF Words, Same

\* An app that is not signed in has started, says nothing.
LEMMA Silent ==
    ASSUME NEW d \in Devices, Words(d), pc[d] # "off", app[d].me = None PROVE ~disk[d].told
  BY DEF Words

\* The words of a phone, one by one.
LEMMA WordsNext ==
    ASSUME NEW d \in Devices,
           disk'[d].told => disk'[d].named /\ Vouched(disk[d].public)' /\ (pc'[d] # "off" => app'[d].me # None),
           app'[d].me # None /\ disk'[d].named => InDirectory(app[d].me)',
           pc'[d] \in Recovery \cup {"public", "locals"} /\ job'[d].recovering => Vouched(job[d].target)'
    PROVE  Words(d)'
  BY DEF Words

\* The phone that a step is of.
LEMMA ActorWords ==
    ASSUME TypeOK, Owned, New, NEW d \in Devices, Step(d), Words(d), ~slip'
    PROVE  Words(d)'
<1>1. NewKeyUnused(d) /\ Holds(d) /\ Holds(d)'
  BY ActorHolds DEF New, Owned
<1>2. /\ pc[d] \in Underway => job[d].key \in Keys /\ job[d].target \in Keys /\ job[d].target # None
      /\ disk[d].public # None => disk[d].public \in Keys
  BY AtHand DEF Made
<1>3. /\ Vouched(disk[d].public) => \A p : p = disk[d].public => Vouched(p)'
      /\ Vouched(job[d].target) => \A p : p = job[d].target => Vouched(p)'
      /\ InDirectory(app[d].me) => \A p : p = app[d].me => InDirectory(p)'
  BY StepVouched
<1>5. disk[d].told \in BOOLEAN /\ disk[d].named \in BOOLEAN /\ job[d].recovering \in BOOLEAN
  BY FieldTypes
<1>6. pc[d] \in Underway \ {"confirm"} => disk[d].told = FALSE /\ app[d].me = None
  <2>1. pc[d] \in Underway \ {"confirm"} => app[d].me = None /\ pc[d] # "off"
    BY <1>1 DEF Holds, Place, Underway
  <2>2. pc[d] \in Underway \ {"confirm"} => ~disk[d].told
    BY <2>1, Silent
  <2> QED
    BY <1>5, <2>1, <2>2
<1>7. disk[d].told => disk[d].public \in Keys /\ disk[d].public # None
  BY DEF Words, Vouched, InDirectory, Keys, None
<1>8. CASE Boot(d)
  <2>1. pc[d] = "off" /\ pc'[d] = "home" /\ app'[d].me = disk[d].public /\ UNCHANGED <<disk, job>>
    BY <1>8, BootDoes
  <2>2. disk[d].told => disk'[d].named /\ Vouched(disk[d].public)' /\ app'[d].me # None
    BY <1>3, <1>7, <2>1 DEF Words
  <2>3. ASSUME app'[d].me # None, disk'[d].named PROVE InDirectory(app[d].me)'
    <3>1. disk[d].public \in Keys
      BY <1>2, <2>1, <2>3
    <3>2. PICK sent \in BOOLEAN : RegisterUser(disk[d].public, sent)
      BY <1>8, <2>1, <2>3 DEF Boot
    <3>3. \A p : p = disk[d].public => InDirectory(p)'
      BY <3>1, <3>2, RegisteredInDirectory
    <3> QED
      BY <2>1, <3>3
  <2> QED
    BY <2>1, <2>2, <2>3, WordsNext DEF Recovery
<1>9. CASE Refresh(d) \/ \E exists \in BOOLEAN : Refreshed(d, exists)
  <2>1. Same(d)
    BY <1>9, RefreshDoes
  <2> QED
    BY <1>3, <1>5, <2>1 DEF Words, Same
<1>10. CASE CreateAccount(d)
  <2>1. /\ pc[d] = "home" /\ pc'[d] = "public" /\ app[d].me = None /\ app' = app
        /\ job'[d].recovering = FALSE /\ disk'[d].told = disk[d].told
    BY <1>10, CreateAccountDoes
  <2>2. ~disk[d].told
    BY <2>1, Silent
  <2> QED
    BY <2>1, <2>2, WordsNext
<1>11. CASE StorePublic(d)
  <2>1. /\ pc[d] = "public" /\ pc'[d] \in {"locals", "activate"} /\ app' = app /\ job' = job
        /\ disk'[d].told = disk[d].told
    BY <1>11, StorePublicDoes
  <2>2. disk[d].told = FALSE /\ app[d].me = None
    BY <1>6, <2>1 DEF Underway
  <2>3. job[d].recovering => Vouched(job[d].target)'
    BY <1>3, <2>1 DEF Words
  <2> QED
    BY <2>1, <2>2, <2>3, WordsNext
<1>12. CASE Activate(d)
  <2>1. pc[d] = "activate" /\ pc'[d] \in {"locals", "home"} /\ UNCHANGED <<disk, app, job>>
    BY <1>12, ActivateDoes
  <2>2. disk[d].told = FALSE /\ app[d].me = None /\ ~job[d].recovering
    BY <1>1, <1>6, <2>1 DEF Underway, Holds, Stage
  <2> QED
    BY <2>1, <2>2, WordsNext
<1>13. CASE StoreProfile(d)
  <2>1. /\ pc[d] = "locals" /\ disk'[d].public = disk[d].public /\ job' = job
        /\ disk'[d].named = TRUE /\ (disk'[d].told <=> disk[d].told \/ job[d].recovering)
        /\ job[d].recovering => pc'[d] = "home" /\ app'[d].me = job[d].target
        /\ ~job[d].recovering => pc'[d] = "register" /\ app' = app
    BY <1>13, StoreProfileDoes
  <2>2. disk[d].told = FALSE /\ app[d].me = None /\ disk[d].public = job[d].target /\ job[d].target # None
    BY <1>1, <1>2, <1>6, <2>1 DEF Underway, Holds, Stage
  <2>3. CASE job[d].recovering
    <3>1. Vouched(disk[d].public)' /\ Vouched(app[d].me)'
      BY <1>3, <2>1, <2>2, <2>3 DEF Words
    <3>2. InDirectory(app[d].me)'
      BY <3>1 DEF Vouched
    <3> QED
      BY <2>1, <2>2, <2>3, <3>1, <3>2, WordsNext DEF Recovery
  <2>4. CASE ~job[d].recovering
    <3>1. ~disk'[d].told /\ app'[d].me = None /\ pc'[d] = "register"
      BY <2>1, <2>2, <2>4
    <3> QED
      BY <3>1, WordsNext DEF Recovery
  <2> QED
    BY <2>3, <2>4
<1>14. CASE Register(d)
  <2>1. pc[d] = "register" /\ pc'[d] = "confirm" /\ app'[d].me = job[d].key /\ UNCHANGED disk
    BY <1>14, RegisterDoes
  <2>2. disk[d].told = FALSE /\ job[d].key \in Keys
    BY <1>2, <1>6, <2>1 DEF Underway
  <2>3. PICK sent \in BOOLEAN : RegisterUser(job[d].key, sent)
    BY <1>14, RegisterDoes
  <2>4. \A p : p = job[d].key => InDirectory(p)'
    BY <2>2, <2>3, RegisteredInDirectory
  <2> QED
    BY <2>1, <2>2, <2>4, WordsNext DEF Recovery
<1>15. CASE ConfirmEmailVerified(d)
  <2>1. /\ pc'[d] = "home" /\ disk'[d].public = disk[d].public
        /\ marking' = TRUE /\ UNCHANGED app
        /\ pc[d] = "confirm" \/ (pc[d] = "home" /\ app[d].me # None /\ disk[d].named)
    BY <1>15, ConfirmEmailVerifiedDoes
  <2>2. app[d].me # None /\ app[d].me = disk[d].public /\ disk[d].named
    BY <1>1, <2>1 DEF Holds, Place, Stage
  <2>3. disk'[d].named = disk[d].named
    BY <1>15, ConfirmEmailVerifiedDoes
  <2>4. InDirectory(app[d].me)' /\ InDirectory(disk[d].public)'
    BY <1>3, <2>1, <2>2 DEF Words
  <2>5. Vouched(disk[d].public)'
    BY <2>1, <2>4 DEF Vouched
  <2> QED
    BY <2>1, <2>2, <2>3, <2>4, <2>5, WordsNext DEF Recovery
<1>16. CASE RecoverProfile(d)
  <2>1. pc[d] = "home" /\ app[d].me = None /\ UNCHANGED <<app, disk, rows, moved, marking>>
    BY <1>16, RecoverProfileDoes
  <2>2. PICK a \in Verified : job'[d].target = a
    BY <1>16, RecoverProfileDoes
  <2>3. ~disk[d].told
    BY <2>1, Silent
  <2>4. Vouched(job[d].target)'
    BY <2>1, <2>2 DEF Vouched, InDirectory, Verified
  <2> QED
    BY <2>1, <2>3, <2>4, WordsNext
<1>17. CASE AccountExists(d) \/ Rekey(d)
  <2>1. pc[d] \in {"check", "rekey"} /\ UNCHANGED <<disk, app, job>>
    BY <1>17, AccountExistsDoes, RekeyDoes
  <2>2. disk[d].told = FALSE /\ app[d].me = None /\ (job[d].recovering => Vouched(job[d].target)')
    BY <1>3, <1>6, <2>1 DEF Underway, Words, Recovery
  <2> QED
    BY <2>1, <2>2, WordsNext
<1>18. CASE Move(d)
  <2>1. /\ pc[d] = "move" /\ pc'[d] \in {"secret", "home"} /\ UNCHANGED <<disk, app>>
        /\ job'[d].target = job[d].key
    BY <1>18, MoveDoes
  <2>2. disk[d].told = FALSE /\ app[d].me = None
    BY <1>6, <2>1 DEF Underway
  <2>3. CASE pc'[d] = "home"
    BY <2>1, <2>2, <2>3, WordsNext DEF Recovery
  <2>4. CASE pc'[d] # "home"
    <3>1. /\ rows' = [rows EXCEPT ![job[d].target] = "none", ![job[d].key] = rows[job[d].target]]
          /\ slip' = (slip \/ rows[job[d].target] # "verified")
      BY <1>18, <2>4, MoveDoes
    <3>2. rows[job[d].target] = "verified"
      BY <3>1, Zenon
    <3>3. job[d].key \in Keys /\ job[d].target \in Keys
      BY <1>2, <2>1 DEF Underway
    <3>4. rows'[job[d].key] = "verified"
      BY <3>1, <3>2, <3>3 DEF TypeOK
    <3>5. Vouched(job[d].target)'
      BY <2>1, <3>3, <3>4 DEF Vouched, InDirectory, Verified
    <3> QED
      BY <2>1, <2>2, <3>5, WordsNext
  <2> QED
    BY <2>3, <2>4
<1>19. CASE StoreSecret(d)
  <2>1. pc[d] = "secret" /\ UNCHANGED <<app, job>> /\ disk'[d].told = disk[d].told
    BY <1>19, StoreSecretDoes
  <2>2. disk[d].told = FALSE /\ app[d].me = None /\ (job[d].recovering => Vouched(job[d].target)')
    BY <1>3, <1>6, <2>1 DEF Underway, Words, Recovery
  <2> QED
    BY <2>1, <2>2, WordsNext
<1>20. ASSUME UNCHANGED <<disk, job>>, app'[d].me = app[d].me, pc[d] = "home", pc'[d] \in {"home"} \cup Wiping
       PROVE  Words(d)'
  <2>1. disk[d].told => disk[d].named /\ Vouched(disk[d].public)' /\ app[d].me # None
    BY <1>3, <1>20 DEF Words
  <2>2. app[d].me # None /\ disk[d].named => InDirectory(app[d].me)'
    BY <1>3, <1>20 DEF Words
  <2> QED
    BY <1>20, <2>1, <2>2, WordsNext DEF Recovery, Wiping
<1>21. CASE AddCash(d)
  BY <1>20, <1>21, AddCashDoes
<1>22. CASE CloseAccount(d)
  BY <1>20, <1>22, CloseAccountDoes DEF Wiping
<1>23. CASE Reset(d)
  BY <1>20, <1>23, ResetDoes DEF Wiping
<1>24. CASE Wipe(d)
  <2>1. disk'[d] = Blank /\ app'[d].me = None /\ pc'[d] = "home"
    BY <1>24, WipeDoes
  <2>2. ~disk'[d].told
    BY <2>1 DEF Blank
  <2> QED
    BY <2>1, <2>2, WordsNext DEF Recovery
<1>25. CASE WipeCut(d)
  <2>1. pc'[d] = "off" /\ app'[d].me = None /\ ~disk'[d].told
    BY <1>25, WipeCutDoes
  <2> QED
    BY <2>1, WordsNext DEF Recovery
<1>26. CASE Crash(d)
  <2>1. pc'[d] = "off" /\ app'[d].me = None /\ disk' = disk
    BY <1>26, CrashDoes
  <2>2. disk[d].told => disk[d].named /\ Vouched(disk[d].public)'
    BY <1>3, <2>1 DEF Words
  <2> QED
    BY <2>1, <2>2, WordsNext DEF Recovery
<1>27. CASE Lose(d)
  <2>1. disk'[d] = Blank /\ app'[d].me = None /\ pc'[d] = "off"
    BY <1>27, LoseDoes
  <2>2. ~disk'[d].told
    BY <2>1 DEF Blank
  <2> QED
    BY <2>1, <2>2, WordsNext DEF Recovery
<1> QED
  BY <1>8, <1>9, <1>10, <1>11, <1>12, <1>13, <1>14, <1>15, <1>16, <1>17, <1>18, <1>19, <1>21, <1>22, <1>23, <1>24, <1>25, <1>26, <1>27 DEF Step

\* Every step.
LEMMA NextWords == TypeOK /\ Owned /\ New /\ AllWords /\ [Next]_vars => AllWords'
<1> SUFFICES ASSUME TypeOK, Owned, New, AllWords, [Next]_vars, ~slip', NEW e \in Devices PROVE Words(e)'
  BY DEF AllWords
<1>1. CASE UNCHANGED vars
  BY <1>1 DEF vars, phone, world, history, AllWords, Words, Vouched, InDirectory, Verified
<1>2. CASE MarkEmailVerified
  <2>1. /\ UNCHANGED <<disk, app, pc, job, moved>> /\ (slip' = slip \/ slip' = TRUE)
        /\ slip' = slip => rows' = [a \in Keys |-> IF rows[a] = "none" THEN "none" ELSE "verified"]
    BY <1>2 DEF MarkEmailVerified, phone
  <2>2. Words(e)
    BY <2>1 DEF AllWords
  <2>3. ASSUME NEW a PROVE (InDirectory(a) => InDirectory(a)') /\ (InDirectory(a) => Vouched(a)')
    BY <2>1 DEF InDirectory, Vouched, Verified
  <2>4. disk[e].told \in BOOLEAN /\ disk[e].named \in BOOLEAN /\ job[e].recovering \in BOOLEAN
    BY FieldTypes
  <2>5. /\ Vouched(disk[e].public) => \A p : p = disk[e].public => Vouched(p)'
        /\ InDirectory(app[e].me) => \A p : p = app[e].me => InDirectory(p)'
        /\ Vouched(job[e].target) => \A p : p = job[e].target => Vouched(p)'
    BY <2>3 DEF Vouched
  <2> QED
    BY <2>1, <2>2, <2>4, <2>5 DEF Words
<1>3. ASSUME NEW d \in Devices, Step(d) PROVE Words(e)'
  <2>1. Words(e)
    BY <1>3, StepSlip DEF AllWords
  <2> QED
    BY <1>3, <2>1, ActorWords, OthersWords
<1> QED
  BY <1>1, <1>2, <1>3 DEF Next

\* What it means for an app that is signed in.
LEMMA WordsKeep == TypeOK /\ Owned /\ AllWords => WordKept
<1> SUFFICES ASSUME TypeOK, Owned, AllWords, NEW d \in Devices,
                    SignedIn(d), disk[d].told, ~slip, ~marking
             PROVE  app[d].me \in Verified \cup moved
  BY DEF WordKept
<1>1. app[d].me = disk[d].public
  BY AtHand DEF SignedIn
<1>2. Vouched(disk[d].public)
  BY DEF AllWords, Words
<1> QED
  BY <1>1, <1>2 DEF Vouched

----------------------------------------------------------------------------
(* Accounts within reach *)

\* The account of a recovery that moves a row is closed, unless the recovery has been
\* overtaken; a phone that wipes an account it has closed has no key of it; and what a
\* recovery has got the key of can be recovered again.
Leads(d) ==
    /\ pc[d] = "move" => ~Live(job[d].target) \/ d \in spoiled
    /\ pc[d] = "wipe" => ledger[disk[d].public] = None \/ ledger[disk[d].public] # disk[d].secret
    /\ pc[d] \in {"secret", "public"} /\ Live(job[d].target) /\ ledger[job[d].target] = job[d].key =>
          job[d].target \in Verified \cup moved

AllLead == \A d \in Devices : Leads(d)

\* Initially.
LEMMA InitLeads == Init => AllLead
  BY DEF Init, AllLead, Leads

\* What is verified stays so, or its row is moved away.
LEMMA StepVerified ==
    ASSUME TypeOK, Owned, New, NEW d \in Devices, Step(d), NEW a \in Keys
    PROVE  (a \in Verified => a \in Verified' \cup moved') /\ (a \in moved => a \in moved')
<1>1. pc[d] = "move" => Unused(d, job[d].key)
  BY DEF New, NewKeyUnused
<1>2. a \in Verified => rows'[a] = rows[a] \/ a \in moved'
  BY <1>1, StepRows DEF Verified, Unused
<1> QED
  BY <1>2, StepMoved DEF Verified

\* The phones that a step is not of.
LEMMA OthersLead ==
    ASSUME TypeOK, Owned, New, AllLead, NEW d \in Devices, Step(d), NEW e \in Devices \ {d}
    PROVE  Leads(e)'
<1>1. Same(e) /\ Leads(e) /\ Holds(e)
  BY Frame DEF AllLead, Owned
<1>2. /\ pc[e] \in Underway => job[e].target \in Keys /\ job[e].key \in Keys /\ maker[job[e].key] = e
      /\ disk[e].secret # None => maker[disk[e].secret] = e
      /\ app[e].me # None => app[e].me = disk[e].public
      /\ disk[e].public # None => disk[e].public \in Keys
  BY AtHand DEF Made
<1>3. e \in spoiled => e \in spoiled'
  BY DEF Step, Boot, Refresh, Refreshed, CreateAccount, NewKey, StorePublic, Activate, StoreProfile, Register, ConfirmEmailVerified, RecoverProfile, AccountExists, Rekey, Move, StoreSecret, AddCash, CloseAccount, Reset, Wipe, WipeCut, Crash, Lose, world, history
<1>4. ASSUME pc[e] = "move", ~Live(job[e].target) PROVE ~Live(job[e].target)' \/ e \in spoiled'
  <2>1. job[e].target \in Keys
    BY <1>2, <1>4 DEF Underway
  <2>2. CASE ledger'[job[e].target] = ledger[job[e].target] \/ ledger'[job[e].target] = None
    BY <1>1, <1>4, <2>2 DEF Live, Same
  <2>3. CASE pc[d] = "activate" /\ job[e].target = job[d].key
    <3>1. Holds(d) /\ HalfOpenOwn(d)
      BY DEF New, Owned
    <3>2. disk[d].public = job[d].key /\ app[d].me = None
      BY <2>3, <3>1 DEF Holds, Stage, Place, Underway
    <3>3. HalfOpen(d)
      BY <2>1, <2>3, <3>2 DEF HalfOpen, Keys, None
    <3> QED
      BY <2>3, <3>1, <3>2, <3>3 DEF HalfOpenOwn, OwnAffair
  <2>4. CASE pc[d] = "home" /\ job[e].target = disk[d].secret /\ ledger'[job[e].target] # ledger[job[e].target]
    <3>1. CASE AddCash(d)
      BY <1>4, <2>4, <3>1, AddCashDoes
    <3>2. CASE CloseAccount(d)
      BY <2>1, <2>2, <3>2, CloseAccountDoes DEF TypeOK
    <3>3. CASE ~(AddCash(d) \/ CloseAccount(d))
      <4>1. ledger' = ledger
        BY <2>4, <3>3, ActivateDoes, RekeyDoes DEF Step, Boot, Refresh, Refreshed, CreateAccount, StorePublic, StoreProfile, Register, ConfirmEmailVerified, RecoverProfile, AccountExists, Move, StoreSecret, Reset, Wipe, WipeCut, Crash, Lose, world
      <4> QED
        BY <2>4, <4>1
    <3> QED
      BY <3>1, <3>2, <3>3
  <2> QED
    BY <1>4, <2>1, <2>2, <2>3, <2>4, StepLedger
<1>5. ASSUME pc[e] = "wipe" PROVE ledger'[disk[e].public] = None \/ ledger'[disk[e].public] # disk[e].secret
  <2>1. disk[e].public \in Keys
    BY <1>1, <1>2, <1>5 DEF Holds, Place, Wiping
  <2>2. ledger[disk[e].public] = None \/ ledger[disk[e].public] # disk[e].secret
    BY <1>1, <1>5 DEF Leads
  <2>3. ledger'[disk[e].public] = ledger[disk[e].public] \/ ledger'[disk[e].public] = None
        \/ (ledger'[disk[e].public] \in Made /\ maker[ledger'[disk[e].public]] = d)
    BY <2>1, StepLedger
  <2>4. \A k \in Made : k # None
    BY DEF Made, Keys, None
  <2> QED
    BY <1>2, <2>2, <2>3, <2>4
<1>6. ASSUME pc[e] \in {"secret", "public"}, ledger'[job[e].target] # None, ledger'[job[e].target] = job[e].key
      PROVE  job[e].target \in Verified' \cup moved'
  <2>1. job[e].target \in Keys /\ maker[job[e].key] = e
    BY <1>2, <1>6 DEF Underway
  <2>2. ledger[job[e].target] = ledger'[job[e].target]
    BY <1>6, <2>1, StepLedger
  <2>3. job[e].target \in Verified \cup moved
    BY <1>1, <1>6, <2>2 DEF Leads, Live
  <2> QED
    BY <2>1, <2>3, StepVerified
<1>7. pc'[e] = "move" => ~Live(job[e].target)' \/ e \in spoiled'
  BY <1>1, <1>3, <1>4 DEF Leads, Same
<1> QED
  BY <1>1, <1>5, <1>6, <1>7 DEF Leads, Live, Same

\* The phone that a step is of.
LEMMA ActorLeads ==
    ASSUME TypeOK, Owned, New, AllLead, NEW d \in Devices, Step(d)
    PROVE  Leads(d)'
<1>1. Leads(d) /\ Holds(d) /\ NewKeyUnused(d)
  BY DEF AllLead, Owned, New
<1>2. /\ pc[d] \in Underway => job[d].target \in Keys /\ job[d].key \in Keys
      /\ app[d].me # None => app[d].me = disk[d].public /\ disk[d].public \in Keys
  BY AtHand DEF Made
<1>3. ASSUME pc'[d] \notin {"move", "wipe", "secret", "public"} PROVE Leads(d)'
  BY <1>3 DEF Leads
<1>4. CASE Boot(d) \/ Register(d) \/ ConfirmEmailVerified(d)
  BY <1>3, <1>4, BootDoes, RegisterDoes, ConfirmEmailVerifiedDoes
<1>5. CASE StorePublic(d) \/ Activate(d)
  BY <1>3, <1>5, StorePublicDoes, ActivateDoes
<1>6. CASE StoreProfile(d)
  <2>1. pc'[d] \in {"home", "register"}
    BY <1>6, StoreProfileDoes, FieldTypes
  <2> QED
    BY <1>3, <2>1
<1>7. CASE AddCash(d) \/ Reset(d)
  BY <1>3, <1>7, AddCashDoes, ResetDoes
<1>8. CASE Wipe(d) \/ WipeCut(d) \/ Crash(d) \/ Lose(d)
  BY <1>3, <1>8, WipeDoes, WipeCutDoes, CrashDoes, LoseDoes
<1>9. CASE RecoverProfile(d)
  BY <1>3, <1>9, RecoverProfileDoes
<1>10. CASE Refresh(d) \/ \E exists \in BOOLEAN : Refreshed(d, exists)
  BY <1>1, <1>10, RefreshDoes DEF Leads, Same, Live, Verified, world, history
<1>11. CASE CreateAccount(d)
  <2>1. PICK k \in Keys \ Made : job'[d].key = k /\ job'[d].target = k
    BY <1>11, CreateAccountMakes
  <2>2. pc'[d] = "public" /\ ledger' = ledger
    BY <1>11, CreateAccountDoes
  <2>3. ledger[k] = None
    BY MadeUnused DEF Unused
  <2> QED
    BY <2>1, <2>2, <2>3 DEF Leads, Live
<1>12. CASE AccountExists(d)
  BY <1>12, AccountExistsDoes DEF Leads, Live, world
<1>13. CASE Rekey(d)
  <2>1. pc[d] = "rekey" /\ pc'[d] \in {"secret", "home"} /\ UNCHANGED <<job, rows, moved>>
    BY <1>13, RekeyDoes
  <2>2. CASE pc'[d] = "home"
    BY <1>3, <2>2
  <2>3. CASE pc'[d] = "secret"
    <3>1. PICK a \in Verified : ledger' = [ledger EXCEPT ![a] = job[d].key]
      BY <1>13, <2>3, RekeyDoes
    <3>2. job[d].target \in Keys /\ ledger[job[d].target] # job[d].key
      BY <1>1, <1>2, <2>1 DEF NewKeyUnused, Unused, Underway
    <3>3. ledger'[job[d].target] = job[d].key => job[d].target = a
      BY <3>1, <3>2 DEF TypeOK
    <3> QED
      BY <2>1, <2>3, <3>1, <3>3 DEF Leads, Verified
  <2> QED
    BY <2>1, <2>2, <2>3
<1>14. CASE Move(d)
  <2>1. pc[d] = "move" /\ pc'[d] \in {"secret", "home"} /\ ledger' = ledger /\ job'[d].target = job[d].key
    BY <1>14, MoveDoes
  <2>2. ledger[job[d].key] = None
    BY <1>1, <2>1 DEF NewKeyUnused, Unused
  <2> QED
    BY <2>1, <2>2 DEF Leads, Live
<1>15. CASE StoreSecret(d)
  BY <1>1, <1>15, StoreSecretDoes DEF Leads, Live, Verified, world, history
<1>16. CASE CloseAccount(d)
  <2>1. /\ pc[d] = "home" /\ app[d].me # None /\ pc'[d] \in {"wipe", "home", "discard"} /\ disk' = disk
        /\ pc'[d] = "wipe" => ledger' = [ledger EXCEPT ![app[d].me] = None]
    BY <1>16, CloseAccountDoes
  <2>2. pc'[d] = "wipe" => ledger'[disk[d].public] = None
    BY <1>2, <2>1 DEF TypeOK
  <2> QED
    BY <2>1, <2>2 DEF Leads
<1> QED
  BY <1>4, <1>5, <1>6, <1>7, <1>8, <1>9, <1>10, <1>11, <1>12, <1>13, <1>14, <1>15, <1>16 DEF Step

\* Every step.
LEMMA NextLeads == TypeOK /\ Owned /\ New /\ AllLead /\ [Next]_vars => AllLead'
<1> SUFFICES ASSUME TypeOK, Owned, New, AllLead, [Next]_vars PROVE AllLead'
  OBVIOUS
<1>1. CASE UNCHANGED vars
  BY <1>1 DEF vars, phone, world, history, AllLead, Leads, Live, Verified
<1>2. CASE MarkEmailVerified
  <2>1. UNCHANGED <<disk, pc, job, ledger, spoiled, moved>> /\ Verified \subseteq Verified'
    BY <1>2 DEF MarkEmailVerified, phone, Verified, TypeOK
  <2> QED
    BY <2>1 DEF AllLead, Leads, Live
<1>3. ASSUME NEW d \in Devices, Step(d) PROVE AllLead'
  BY <1>3, ActorLeads, OthersLead DEF AllLead
<1> QED
  BY <1>1, <1>2, <1>3 DEF Next

\* The ways an account can be within reach.
Stored(e, a) == disk[e].secret = ledger[a] /\ disk[e].public = a
AboutToBe(e, a) ==
    pc[e] \in {"secret", "public", "activate"} /\ job[e].key = ledger[a] /\ job[e].target = a

\* An account is within reach if the directory has it, or a phone.
LEMMA Reached ==
    ASSUME NEW a, NEW e \in Devices
    PROVE  /\ (a \in Verified)' => Reach(a)'
           /\ disk'[e].secret = ledger'[a] /\ disk'[e].public = a => Reach(a)'
           /\ pc'[e] \in {"secret", "public", "activate"} /\ job'[e].key = ledger'[a] /\ job'[e].target = a => Reach(a)'
  BY DEF Reach

\* An open account that gets another key is within reach of that key.
LEMMA RekeyedReached ==
    ASSUME TypeOK, Owned, NEW d \in Devices, Step(d), NEW a \in Keys,
           Live(a), Live(a)', ledger'[a] # ledger[a]
    PROVE  Reach(a)'
<1>1. CASE pc[d] = "rekey" /\ a \in Verified
  <2>1. rows'[a] = rows[a]
    BY <1>1, StepRows
  <2> QED
    BY <2>1, <1>1, Reached DEF Verified
<1>2. CASE pc[d] = "activate" /\ a = job[d].key /\ ledger'[a] = a
  <2>1. disk[d].secret = a /\ disk[d].public = a
    BY <1>2 DEF Owned, Holds, Stage, Underway
  <2>2. CASE disk' = disk
    BY <1>2, <2>1, <2>2, Reached
  <2>3. CASE disk' # disk
    <3>1. Lose(d)
      BY <1>2, <2>3 DEF Step, Boot, Refresh, Refreshed, CreateAccount, StorePublic, Activate, StoreProfile, Register, ConfirmEmailVerified, RecoverProfile, AccountExists, Rekey, Move, StoreSecret, AddCash, CloseAccount, Reset, Wipe, WipeCut, Crash, At, Welcome, VerifyEmail, SignedIn, Wiping
    <3> QED
      BY <3>1, LoseDoes DEF world
  <2> QED
    BY <2>2, <2>3
<1> QED
  BY <1>1, <1>2, StepLedger DEF Live

IInv == TypeOK /\ Owned /\ New /\ AllFit /\ AllLead

\* A phone with an account and its key keeps both, unless its owner gives it up.
LEMMA StoredKept ==
    ASSUME IInv, NEW d \in Devices, Step(d), NEW a \in Keys, Live(a), ledger'[a] = ledger[a], Stored(d, a)
    PROVE  Reach(a)' \/ GivesUp(d, a)
<1>1. /\ TypeOK /\ Owned /\ New /\ Holds(d) /\ NewKeyUnused(d) /\ HalfOpenOwn(d) /\ Leads(d)
      /\ disk[d].secret = ledger[a] /\ disk[d].public = a /\ a # None
  BY DEF IInv, Owned, New, AllLead, Stored, Keys, None
<1>2. ASSUME disk'[d].secret = disk[d].secret, disk'[d].public = disk[d].public PROVE Reach(a)'
  BY <1>1, <1>2, Reached
<1>3. CASE CreateAccount(d) \/ StoreSecret(d)
  <2>1. disk'[d].public = disk[d].public /\ Goto(d, "public")
    <3>1. CASE CreateAccount(d)
      BY <1>1, <3>1, CreateAccountDoes DEF CreateAccount
    <3>2. CASE StoreSecret(d)
      BY <1>1, <3>2, StoreSecretDoes DEF StoreSecret
    <3> QED
      BY <1>3, <3>1, <3>2
  <2>2. CASE disk'[d].secret = disk[d].secret
    BY <1>2, <2>1, <2>2
  <2>3. CASE disk'[d].secret # disk[d].secret
    BY <2>1, <2>3 DEF GivesUp
  <2> QED
    BY <2>2, <2>3
<1>4. CASE StorePublic(d)
  <2>1. /\ pc[d] = "public" /\ disk'[d].secret = disk[d].secret /\ disk'[d].public = job[d].target
    BY <1>1, <1>4, StorePublicDoes
  <2>2. app[d].me = None /\ disk[d].secret = job[d].key
    BY <1>1, <2>1 DEF Holds, Stage, Place, Underway
  <2>3. HalfOpen(d)
    BY <1>1, <2>1, <2>2 DEF HalfOpen
  <2>4. ledger[a] = a
    BY <1>1, <2>3 DEF HalfOpenOwn, OwnAffair, Live
  <2>5. a # job[d].key
    BY <1>1, <2>1 DEF NewKeyUnused, Unused
  <2> QED
    BY <1>1, <2>2, <2>4, <2>5
<1>5. CASE Wipe(d) \/ WipeCut(d)
  <2>1. pc[d] \in Wiping /\ pc'[d] \in {"home", "off"}
    BY <1>1, <1>5, WipeDoes, WipeCutDoes
  <2>2. CASE pc[d] = "wipe"
    BY <1>1, <2>2 DEF Leads, Live
  <2>3. CASE pc[d] # "wipe"
    <3>1. pc[d] \in {"reset", "discard"} /\ pc'[d] # pc[d]
      BY <2>1, <2>3 DEF Wiping
    <3> QED
      BY <3>1 DEF GivesUp
  <2> QED
    BY <2>2, <2>3
<1>6. CASE Lose(d)
  BY <1>6 DEF GivesUp
<1>7. CASE StoreProfile(d)
  BY <1>1, <1>2, <1>7, StoreProfileDoes
<1>8. CASE ConfirmEmailVerified(d)
  BY <1>1, <1>2, <1>8, ConfirmEmailVerifiedDoes
<1>9. CASE ~(CreateAccount(d) \/ StoreSecret(d) \/ StorePublic(d) \/ Wipe(d) \/ WipeCut(d) \/ Lose(d) \/ StoreProfile(d) \/ ConfirmEmailVerified(d))
  <2>1. disk' = disk
    BY <1>9 DEF Step, Boot, Refresh, Refreshed, Activate, Register, RecoverProfile, AccountExists, Rekey, Move, AddCash, CloseAccount, Reset, Crash
  <2> QED
    BY <1>2, <2>1
<1> QED
  BY <1>3, <1>4, <1>5, <1>6, <1>7, <1>8, <1>9

\* So does one that is about to store them.
LEMMA AboutToBeKept ==
    ASSUME IInv, NEW d \in Devices, Step(d), NEW a \in Keys, Live(a), ledger'[a] = ledger[a], AboutToBe(d, a)
    PROVE  Reach(a)' \/ GivesUp(d, a)
<1>1. /\ TypeOK /\ Owned /\ New /\ Holds(d) /\ Leads(d)
      /\ pc[d] \in {"secret", "public", "activate"} /\ job[d].key = ledger[a] /\ job[d].target = a
  BY DEF IInv, Owned, AllLead, AboutToBe
<1>2. CASE pc[d] = "activate"
  <2>1. Stored(d, a)
    BY <1>1, <1>2 DEF Holds, Stage, Stored
  <2> QED
    BY <2>1, StoredKept
<1>3. CASE StoreSecret(d)
  <2>1. pc'[d] = "public" /\ job' = job
    BY <1>1, <1>3, StoreSecretDoes
  <2> QED
    BY <1>1, <2>1, Reached
<1>4. CASE StorePublic(d)
  <2>1. pc[d] = "public" /\ disk'[d].secret = disk[d].secret /\ disk'[d].public = job[d].target
    BY <1>1, <1>4, StorePublicDoes
  <2>2. disk[d].secret = job[d].key
    BY <1>1, <2>1 DEF Holds, Stage
  <2> QED
    BY <1>1, <2>1, <2>2, Reached
<1>5. CASE Refresh(d) \/ \E exists \in BOOLEAN : Refreshed(d, exists)
  <2>1. Same(d)
    BY <1>1, <1>5, RefreshDoes
  <2> QED
    BY <1>1, <2>1, Reached DEF Same
<1>6. CASE Crash(d) /\ pc[d] # "activate"
  <2>1. pc'[d] = "off" /\ rows' = rows
    BY <1>1, <1>6, CrashDoes DEF world
  <2>2. a \in Verified \cup moved
    BY <1>1, <1>6 DEF Leads
  <2>3. CASE a \in Verified
    BY <2>1, <2>3, Reached DEF Verified
  <2>4. CASE a \in moved
    BY <1>1, <1>6, <2>1, <2>4 DEF GivesUp
  <2> QED
    BY <2>2, <2>3, <2>4
<1>7. CASE Lose(d)
  BY <1>7 DEF GivesUp
<1> QED
  BY <1>1, <1>2, <1>3, <1>4, <1>5, <1>6, <1>7 DEF Step, Boot, CreateAccount, Activate, StoreProfile, Register, ConfirmEmailVerified, RecoverProfile, AccountExists, Rekey, Move, AddCash, CloseAccount, Reset, Wipe, WipeCut, At, Welcome, SignedIn, VerifyEmail, Wiping

\* A verified account loses its row only to a recovery that was overtaken.
LEMMA VerifiedKept ==
    ASSUME IInv, NEW d \in Devices, Step(d), NEW a \in Verified, Live(a)
    PROVE  Reach(a)' \/ GivesUp(d, a)
<1>1. TypeOK /\ Owned /\ New /\ NewKeyUnused(d) /\ Leads(d) /\ a \in Keys /\ rows[a] = "verified"
  BY DEF IInv, New, AllLead, Verified
<1>2. CASE rows'[a] = rows[a]
  BY <1>1, <1>2, Reached DEF Verified
<1>3. CASE rows'[a] # rows[a]
  <2>1. pc[d] = "move" /\ (a = job[d].key \/ a = job[d].target)
    BY <1>1, <1>3, StepRows
  <2>2. a = job[d].target
    BY <1>1, <2>1 DEF NewKeyUnused, Unused
  <2>3. d \in spoiled
    BY <1>1, <2>1, <2>2 DEF Leads
  <2>4. pc'[d] # "move"
    <3>1. CASE Move(d)
      BY <1>1, <3>1, MoveDoes
    <3>2. CASE ~Move(d)
      BY <1>3, <2>1, <3>2 DEF Step, Boot, Refresh, Refreshed, CreateAccount, StorePublic, Activate, StoreProfile, Register, ConfirmEmailVerified, RecoverProfile, AccountExists, Rekey, StoreSecret, AddCash, CloseAccount, Reset, Wipe, WipeCut, Crash, Lose, At, world
    <3> QED
      BY <3>1, <3>2
  <2> QED
    BY <2>1, <2>3, <2>4 DEF GivesUp, At
<1> QED
  BY <1>2, <1>3

\* An open account within reach stays there, unless the step gives it up.
LEMMA StepReaches ==
    ASSUME IInv, NEW d \in Devices, Step(d), NEW a \in Keys, Live(a), Live(a)', Reach(a)
    PROVE  Reach(a)' \/ GivesUp(d, a)
<1>1. TypeOK /\ Owned
  BY DEF IInv
<1>2. CASE ledger'[a] # ledger[a]
  BY <1>1, <1>2, RekeyedReached
<1>3. CASE ledger'[a] = ledger[a]
  <2>1. CASE a \in Verified
    BY <2>1, VerifiedKept
  <2>2. ASSUME NEW e \in Devices, Stored(e, a) \/ AboutToBe(e, a) PROVE Reach(a)' \/ GivesUp(d, a)
    <3>1. CASE e = d
      BY <1>3, <2>2, <3>1, StoredKept, AboutToBeKept
    <3>2. CASE e # d
      <4>1. Same(e)
        BY <1>1, <3>2, Frame
      <4> QED
        BY <1>3, <2>2, <4>1, Reached DEF Same, Stored, AboutToBe
    <3> QED
      BY <3>1, <3>2
  <2> QED
    BY <2>1, <2>2 DEF Reach, Stored, AboutToBe
<1> QED
  BY <1>2, <1>3

----------------------------------------------------------------------------
(* The theorems *)

\* The inductive invariant.
LEMMA Invariance == Spec => []IInv
<1>1. Init => IInv
  BY InitType, InitOwned, InitNew, InitFits, InitLeads DEF IInv
<1>2. IInv /\ [Next]_vars => IInv'
  BY OwnedTargets, NextType, NextOwned, NextNew, NextFits, NextLeads DEF IInv
<1> QED
  BY <1>1, <1>2, PTL DEF Spec

\* Every reachable state is well typed: a recovery never moves a row to, or away
\* from, nowhere, whatever was lost on the way.
THEOREM TypeCorrect == Spec => []TypeOK
  BY Invariance, PTL DEF IInv

\* An app that is signed in holds the key of its account, through openings that fail
\* half way, crashes between the two writes of a key pair and recoveries on other
\* phones (wallet-context: createAccount, recoverExistingAccount, addCash).
THEOREM KeysFit == Spec => []KeyFits
<1>1. IInv => KeyFits
  BY FitsKeys DEF IInv
<1> QED
  BY <1>1, Invariance, PTL

\* What a phone says of its email holds on the server, as long as no call to the
\* directory was lost (wallet-context: confirmEmailVerified, recoverExistingAccount).
THEOREM WordsKept == Spec => []WordKept
<1>1. Init => AllWords
  BY InitWords
<1>2. IInv /\ AllWords /\ [Next]_vars => AllWords'
  BY NextWords DEF IInv
<1>3. IInv /\ AllWords => WordKept
  BY WordsKeep DEF IInv
<1> QED
  BY <1>1, <1>2, <1>3, Invariance, PTL DEF Spec

\* No open account gets out of reach by what the code does on its way: a crash, an
\* error, a lost answer or another phone's recovery included.
THEOREM NothingLost == Spec => OnlyGivenUp
<1>1. IInv /\ [Next]_vars =>
          [\A a \in Keys : Live(a) /\ Reach(a) /\ Live(a)' /\ ~Reach(a)' =>
               \E d \in Devices : GivesUp(d, a)]_vars
  <2> SUFFICES ASSUME IInv, Next, NEW a \in Keys, Live(a), Reach(a), Live(a)', ~Reach(a)'
               PROVE  \E d \in Devices : GivesUp(d, a)
    OBVIOUS
  <2>1. CASE MarkEmailVerified
    <3>1. UNCHANGED <<disk, pc, job, ledger>> /\ Verified \subseteq Verified'
      BY <2>1 DEF MarkEmailVerified, phone, Verified, IInv, TypeOK
    <3>2. Reach(a)'
      BY <3>1 DEF Reach
    <3> QED
      BY <3>2
  <2>2. CASE \E d \in Devices : Step(d)
    BY <2>2, StepReaches
  <2> QED
    BY <2>1, <2>2 DEF Next
<1> QED
  BY <1>1, Invariance, PTL DEF Spec, OnlyGivenUp

----------------------------------------------------------------------------
(* What a phone shows: types *)

\* Payments the stream has to announce have been made, and there is no opening
\* under an account.
StreamInv ==
    /\ events > 0 => owner # Nobody /\ events <= paid[owner]
    /\ opening => owner = Nobody

\* A job that waits for answers asks for an account; one that has read the contacts is
\* rewriting them.
Tasks == {w \in Works :
    /\ w.kind \in Asking => w.who \in Accounts /\ w.at = "read"
    /\ w.at # "read" => w.kind \in Rewriting}

Basics == FeedTypeOK /\ StreamInv /\ jobs \in [Jobs -> Tasks]

\* The values fresh jobs are made of.
LEMMA FreshTypes ==
    /\ 0 \in Counts /\ NoContacts \in Lists
    /\ Nothing \in [Parts -> [of : MaybeAccounts, seen : Counts]]
    /\ Free \in Tasks
    /\ \A a \in MaybeAccounts : \A kind \in Rewriting : Job(kind, a) \in Tasks
    /\ \A a \in Accounts : \A kind \in Asking : Ask(kind, a) \in Tasks
<1> USE FeedBounds
<1>1. 0 \in Counts /\ Nobody \in MaybeAccounts
  BY DEF Counts, MaybeAccounts
<1>2. NoContacts \in Lists
  BY DEF NoContacts, Lists, Marks
<1>3. Nothing \in [Parts -> [of : MaybeAccounts, seen : Counts]]
  BY <1>1 DEF Nothing
<1>4. Free \in Works
  BY <1>1, <1>2 DEF Free, Works
<1>5. \A a \in MaybeAccounts : \A kind \in Asking \union Rewriting : Job(kind, a) \in Works
  BY <1>4 DEF Works, Job
<1>6. Free \in Tasks
  BY <1>4 DEF Tasks, Free, Asking
<1>7. \A a \in MaybeAccounts : \A kind \in Rewriting : Job(kind, a) \in Tasks
  BY <1>5 DEF Tasks, Job, Free, Asking, Rewriting
<1>8. ASSUME NEW a \in Accounts, NEW kind \in Asking
      PROVE  Ask(kind, a) \in Tasks
  <2>1. Job(kind, a) \in Works /\ Job(kind, a).kind = kind /\ Job(kind, a).who = a
        /\ Job(kind, a).at = "read"
    BY <1>5 DEF MaybeAccounts, Job, Free
  <2>2. Ask(kind, a) \in Works
    BY <2>1 DEF Ask, Works
  <2>3. Ask(kind, a).kind = kind /\ Ask(kind, a).who = a /\ Ask(kind, a).at = "read"
    BY <2>1 DEF Ask, Works
  <2>4. QED
    BY <2>2, <2>3 DEF Tasks
<1>9. QED
  BY <1>1, <1>2, <1>3, <1>6, <1>7, <1>8

\* What a job becomes is a job again.
LEMMA WorkTypes ==
    ASSUME NEW w \in Tasks
    PROVE  /\ \A p \in Parts : \A n \in Counts : w.kind \in Asking => Answered(w, p, n) \in Tasks
           /\ \A p \in Parts : Without(w, p) \in Tasks
           /\ Rewritten(w) \in Lists
           /\ w.kind \in Asking => Merging(w) \in Tasks
           /\ \A list \in Lists : w.kind \in Rewriting => HavingRead(w, list) \in Tasks
           /\ w.kind \in Rewriting => HavingSaved(w) \in Tasks
           /\ Outlived(w) \in Tasks
<1>0. w \in Works
  BY DEF Tasks
<1>1. \A p \in Parts : \A n \in Counts : w.kind \in Asking => Answered(w, p, n) \in Tasks
  BY DEF Answered, Works, Tasks
<1>2. \A p \in Parts : Without(w, p) \in Tasks
  BY FreshTypes DEF Without, Works, Tasks
<1>3. w.kind \in Asking => Merging(w) \in Tasks
  BY FreshTypes DEF Merging, Works, Tasks, Asking, Rewriting, Parts
<1>4. \A list \in Lists : w.kind \in Rewriting => HavingRead(w, list) \in Tasks
  BY DEF HavingRead, Works, Tasks, Asking, Rewriting
<1>5. Rewritten(w) \in Lists
  <2>1. \A c \in Contacts : w.list[c] \in Marks
    BY <1>0 DEF Works, Lists
  <2>2. QED
    BY <2>1 DEF Rewritten, Lists, Marks
<1>6. ASSUME w.kind \in Rewriting PROVE HavingSaved(w) \in Tasks
  <2>1. Job(w.kind, w.who) \in Tasks
    BY <1>0, <1>6, FreshTypes DEF Works
  <2>2. QED
    BY <1>0, <1>5, <1>6, <2>1 DEF HavingSaved, Works, Tasks, Asking, Rewriting, Job, Free
<1>7. Outlived(w) \in Tasks
  BY FreshTypes DEF Outlived, Works, Tasks
<1>8. QED
  BY <1>1, <1>2, <1>3, <1>4, <1>5, <1>6, <1>7

\* At the start.
LEMMA InitFeed == FeedInit => Basics
<1> SUFFICES ASSUME FeedInit PROVE Basics
  OBVIOUS
<1>1. breaks \in 0 .. MaxBreaks /\ events \in Counts /\ due \in Counts
  BY FreshTypes, FeedBounds DEF FeedInit
<1>2. paid \in [Accounts -> Counts] /\ jobs \in [Jobs -> Tasks]
  BY FreshTypes DEF FeedInit
<1>3. owner \in MaybeAccounts /\ wanted \in SUBSET Contacts /\ slips \in SUBSET Slips
  BY DEF FeedInit, MaybeAccounts
<1>4. StreamInv
  BY DEF FeedInit, StreamInv
<1>5. QED
  <2>1. jobs \in [Jobs -> Works]
    BY <1>2 DEF Tasks
  <2>2. <<opening, loaded, activated, streaming>> \in BOOLEAN \X BOOLEAN \X BOOLEAN \X BOOLEAN
    BY DEF FeedInit
  <2>3. FeedTypeOK
    BY <1>1, <1>2, <1>3, <2>1, <2>2, FreshTypes DEF FeedInit, FeedTypeOK
  <2>4. QED
    BY <1>2, <1>4, <2>3 DEF Basics

\* A failure is counted.
LEMMA BreakTypes == Basics /\ Break => breaks' \in 0 .. MaxBreaks
BY FeedBounds DEF Basics, FeedTypeOK, Break

\* A job that is replaced by a job leaves jobs.
LEMMA JobTypes ==
    ASSUME Basics, NEW j \in Jobs, NEW w \in Tasks, jobs' = [jobs EXCEPT ![j] = w]
    PROVE  jobs' \in [Jobs -> Tasks]
BY DEF Basics, FeedTypeOK

\* A refresh asks for an account.
LEMMA BeginTypes ==
    ASSUME Basics, NEW j \in Jobs, NEW a \in Accounts, BeginRefresh(j, a)
    PROVE  jobs' \in [Jobs -> Tasks] /\ due' \in Counts /\ slips' \in SUBSET Slips
<1>1. Ask("refresh", a) \in Tasks
  BY FreshTypes DEF Asking
<1>2. jobs' \in [Jobs -> Tasks]
  BY <1>1, JobTypes DEF BeginRefresh
<1>3. QED
  BY <1>2 DEF BeginRefresh, Basics, FeedTypeOK

\* What is shown is of an account, or of nobody.
LEMMA ShowTypes ==
    ASSUME Basics, NEW w \in Tasks, NEW ps \in SUBSET Parts, Show(w, ps)
    PROVE  /\ shown' \in [Parts -> [of : MaybeAccounts, seen : Counts]]
           /\ slips' \in SUBSET Slips
<1>1. \A p \in ps : [of |-> w.who, seen |-> w.view[p]] \in [of : MaybeAccounts, seen : Counts]
  BY DEF Tasks, Works
<1>2. shown' \in [Parts -> [of : MaybeAccounts, seen : Counts]]
  BY <1>1 DEF Show, Basics, FeedTypeOK
<1>3. slips' \in SUBSET Slips
  BY DEF Show, Basics, FeedTypeOK, Slips
<1>4. QED
  BY <1>2, <1>3

\* Every step of the network and of the requests keeps the types.
LEMMA AskTypes ==
    ASSUME Basics, NEW j \in Jobs,
           \/ OnPayment(j) \/ OnRefresh(j) \/ GetBalance(j) \/ GetActivity(j) \/ EndRefresh(j)
           \/ \E p \in Parts : ShowPart(j, p) \/ AskFails(j, p)
    PROVE  Basics'
<1>0. jobs[j] \in Tasks
  BY DEF Basics, FeedTypeOK
<1>1. CASE OnPayment(j)
  <2>1. /\ owner \in Accounts /\ events' \in Counts /\ due' \in Counts
        /\ events' > 0 => events' <= paid[owner]
    <3>1. events > 0 /\ events' = events - 1 /\ due' = paid[owner]
      BY <1>1 DEF OnPayment, Announced
    <3>2. owner \in Accounts /\ events <= paid[owner]
      BY <3>1 DEF Basics, StreamInv, FeedTypeOK, MaybeAccounts
    <3>3. paid[owner] \in 0 .. MaxPaid /\ events \in 0 .. MaxPaid
      BY <3>2 DEF Basics, FeedTypeOK, Counts
    <3>4. QED
      BY <3>1, <3>2, <3>3, FeedBounds DEF Counts
  <2>2. [Ask("event", owner) EXCEPT !.left = Parts] \in Tasks
    <3>1. Ask("event", owner) \in Tasks
      BY FreshTypes, <2>1 DEF Asking
    <3>2. QED
      BY <3>1 DEF Tasks, Works
  <2>3. jobs' \in [Jobs -> Tasks]
    BY <1>1, <2>2, JobTypes DEF OnPayment, Announced
  <2>4. QED
    BY <1>1, <2>1, <2>3 DEF OnPayment, Announced, Basics, FeedTypeOK, StreamInv, Tasks, book
<1>2. CASE OnRefresh(j)
  <2>1. owner \in Accounts
    BY <1>2 DEF OnRefresh, Basics, FeedTypeOK, MaybeAccounts
  <2>2. jobs' \in [Jobs -> Tasks] /\ due' \in Counts /\ slips' \in SUBSET Slips
    BY <1>2, <2>1, BeginTypes DEF OnRefresh
  <2>3. QED
    BY <1>2, <2>2 DEF OnRefresh, Basics, FeedTypeOK, StreamInv, Tasks, book, session
<1>3. ASSUME NEW p \in Parts, AnswerPart(j, p)
      PROVE  Basics'
  <2>1. paid[jobs[j].who] \in Counts /\ jobs[j].kind \in Asking
    BY <1>0, <1>3 DEF AnswerPart, Basics, FeedTypeOK, Tasks
  <2>2. jobs' \in [Jobs -> Tasks]
    BY <1>0, <1>3, <2>1, WorkTypes, JobTypes DEF AnswerPart
  <2>3. QED
    BY <1>3, <2>2 DEF AnswerPart, Basics, FeedTypeOK, StreamInv, Tasks, book, session
<1>4. CASE EndRefresh(j)
  <2>1. jobs' \in [Jobs -> Tasks]
    BY <1>0, <1>4, WorkTypes, JobTypes DEF EndRefresh, Asking
  <2>2. shown' \in [Parts -> [of : MaybeAccounts, seen : Counts]] /\ slips' \in SUBSET Slips
    BY <1>0, <1>4, ShowTypes DEF EndRefresh
  <2>3. QED
    BY <1>4, <2>1, <2>2 DEF EndRefresh, Basics, FeedTypeOK, StreamInv, Tasks, book
<1>5. ASSUME NEW p \in Parts, ShowPart(j, p)
      PROVE  Basics'
  <2>1. jobs' \in [Jobs -> Tasks]
    BY <1>0, <1>5, WorkTypes, JobTypes DEF ShowPart
  <2>2. shown' \in [Parts -> [of : MaybeAccounts, seen : Counts]] /\ slips' \in SUBSET Slips
    BY <1>0, <1>5, ShowTypes DEF ShowPart
  <2>3. QED
    BY <1>5, <2>1, <2>2 DEF ShowPart, Basics, FeedTypeOK, StreamInv, Tasks, book, session
<1>6. ASSUME NEW p \in Parts, AskFails(j, p)
      PROVE  Basics'
  <2>1. (IF jobs[j].kind = "refresh" THEN Free ELSE Without(jobs[j], p)) \in Tasks
    BY <1>0, WorkTypes, FreshTypes
  <2>2. jobs' \in [Jobs -> Tasks]
    BY <1>6, <2>1, JobTypes DEF AskFails, Failed
  <2>3. breaks' \in 0 .. MaxBreaks
    BY <1>6, BreakTypes DEF AskFails, Failed
  <2>4. QED
    BY <1>6, <2>2, <2>3 DEF AskFails, Failed, Basics, FeedTypeOK, StreamInv, Tasks, Slips, book
<1>7. QED
  BY <1>1, <1>2, <1>3, <1>4, <1>5, <1>6 DEF GetBalance, GetActivity, Parts

\* The contacts are rewritten into contacts.
LEMMA RewriteTypes ==
    ASSUME Basics, NEW j \in Jobs,
           \/ GetContacts(j) \/ SaveContacts(j) \/ ShowContacts(j)
           \/ \E c \in Contacts : TouchStar(j, c)
    PROVE  Basics'
<1>0. jobs[j] \in Tasks /\ store \in Lists
  BY DEF Basics, FeedTypeOK
<1>1. ASSUME NEW c \in Contacts, TouchStar(j, c)
      PROVE  Basics'
  <2>1. owner \in Accounts /\ owner \in MaybeAccounts
    BY <1>1 DEF TouchStar, Basics, FeedTypeOK, MaybeAccounts
  <2>2. [Job("star", owner) EXCEPT !.about = {c}] \in Tasks
    <3>1. Job("star", owner) \in Tasks
      BY FreshTypes, <2>1 DEF Rewriting
    <3>2. QED
      BY <3>1 DEF Tasks, Works
  <2>3. jobs' \in [Jobs -> Tasks]
    BY <1>1, <2>2, JobTypes DEF TouchStar
  <2>4. wanted' \in SUBSET Contacts
    BY <1>1 DEF TouchStar, Basics, FeedTypeOK
  <2>5. QED
    BY <1>1, <2>3, <2>4 DEF TouchStar, Basics, FeedTypeOK, StreamInv, Tasks, session
<1>2. CASE GetContacts(j)
  <2>1. PICK list \in {store, NoContacts} :
          /\ IF list = store THEN UNCHANGED breaks ELSE Break
          /\ jobs' = [jobs EXCEPT ![j] = HavingRead(jobs[j], list)]
          /\ slips' = slips \union {s \in {"lost"} : list # store \/ Overlapped(j)}
    BY <1>2 DEF GetContacts
  <2>2. list \in Lists
    BY <1>0, <2>1, FreshTypes
  <2>3. jobs' \in [Jobs -> Tasks]
    BY <1>0, <1>2, <2>1, <2>2, WorkTypes, JobTypes DEF GetContacts
  <2>4. breaks' \in 0 .. MaxBreaks /\ slips' \in SUBSET Slips
    BY <2>1, BreakTypes DEF Basics, FeedTypeOK, Slips
  <2>5. QED
    BY <1>2, <2>3, <2>4 DEF GetContacts, Basics, FeedTypeOK, StreamInv, Tasks, session, book
<1>3. CASE SaveContacts(j)
  <2>1. jobs[j].kind \in Rewriting
    BY <1>0, <1>3 DEF SaveContacts, Tasks
  <2>2. jobs' \in [Jobs -> Tasks]
    BY <1>0, <1>3, <2>1, WorkTypes, JobTypes DEF SaveContacts
  <2>3. store' \in Lists
    BY <1>0, <1>3, WorkTypes DEF SaveContacts
  <2>4. breaks' \in 0 .. MaxBreaks /\ slips' \in SUBSET Slips
    BY <1>3, BreakTypes DEF SaveContacts, Basics, FeedTypeOK, Slips
  <2>5. QED
    BY <1>3, <2>2, <2>3, <2>4 DEF SaveContacts, Basics, FeedTypeOK, StreamInv, Tasks, session
<1>4. CASE ShowContacts(j)
  <2>1. jobs' \in [Jobs -> Tasks]
    BY <1>4, FreshTypes, JobTypes DEF ShowContacts
  <2>2. contacts' \in Lists
    BY <1>0, <1>4 DEF ShowContacts, Tasks, Works
  <2>3. QED
    BY <1>4, <2>1, <2>2 DEF ShowContacts, Basics, FeedTypeOK, StreamInv, Tasks, Slips, session
<1>5. QED
  BY <1>1, <1>2, <1>3, <1>4

\* The account comes and goes.
LEMMA AccountTypes ==
    ASSUME Basics,
           \/ StartOpening \/ WipeAccount
           \/ \E a \in Accounts, j \in Jobs : SetPublicKey(a, j)
           \/ \E a \in MaybeAccounts, j, k \in Jobs : Restart(a, j, k)
    PROVE  Basics'
<1>1. CASE StartOpening
  BY <1>1 DEF StartOpening, Basics, FeedTypeOK, StreamInv, Tasks, book
<1>2. ASSUME NEW a \in Accounts, NEW j \in Jobs, SetPublicKey(a, j)
      PROVE  Basics'
  <2>1. jobs' \in [Jobs -> Tasks] /\ due' \in Counts /\ slips' \in SUBSET Slips
    BY <1>2, BeginTypes DEF SetPublicKey
  <2>2. owner = Nobody /\ ~(events > 0)
    BY <1>2 DEF SetPublicKey, Basics, StreamInv
  <2>3. QED
    BY <1>2, <2>1, <2>2 DEF SetPublicKey, Basics, FeedTypeOK, StreamInv, Tasks, MaybeAccounts, book
<1>3. CASE WipeAccount
  <2>1. jobs' \in [Jobs -> Tasks]
    BY <1>3, WorkTypes DEF WipeAccount, ForgetAccount, Basics
  <2>2. breaks' \in 0 .. MaxBreaks
    BY <1>3, BreakTypes DEF WipeAccount, ForgetAccount
  <2>3. owner' = Nobody /\ opening' = opening /\ opening = FALSE /\ events' = 0
    BY <1>3 DEF WipeAccount, ForgetAccount, Basics, FeedTypeOK, StreamInv
  <2>4. StreamInv'
    BY <2>3 DEF StreamInv
  <2>5. FeedTypeOK'
    BY <1>3, <2>1, <2>2, <2>3, FreshTypes
       DEF WipeAccount, ForgetAccount, Basics, FeedTypeOK, Tasks, MaybeAccounts
  <2>6. QED
    BY <2>1, <2>4, <2>5 DEF Basics
<1>4. ASSUME NEW a \in MaybeAccounts, NEW j \in Jobs, NEW k \in Jobs, Restart(a, j, k)
      PROVE  Basics'
  <2>1. Job("boot", a) \in Tasks /\ Free \in Tasks /\ (a # Nobody => Ask("refresh", a) \in Tasks)
    BY FreshTypes DEF Rewriting, Asking, MaybeAccounts
  <2>2. jobs' \in [Jobs -> Tasks]
    BY <1>4, <2>1 DEF Restart
  <2>3. breaks' \in 0 .. MaxBreaks
    BY <1>4, BreakTypes DEF Restart
  <2>4. due' \in Counts /\ slips' \in SUBSET Slips
    BY <1>4, FreshTypes DEF Restart, Basics, FeedTypeOK, MaybeAccounts, Slips
  <2>5. owner' = a /\ opening' = FALSE /\ events' = 0
    BY <1>4 DEF Restart
  <2>6. StreamInv'
    BY <2>5 DEF StreamInv
  <2>7. FeedTypeOK'
    BY <1>4, <2>2, <2>3, <2>4, <2>5, FreshTypes DEF Restart, Basics, FeedTypeOK, Tasks
  <2>8. QED
    BY <2>2, <2>6, <2>7 DEF Basics
<1>5. QED
  BY <1>1, <1>2, <1>3, <1>4

\* Every step keeps the types.
LEMMA FeedStepTypes == Basics /\ [FeedNext]_feedVars => Basics'
<1> SUFFICES ASSUME Basics, [FeedNext]_feedVars
             PROVE  Basics'
  OBVIOUS
<1>1. ASSUME NEW a \in Accounts, PaymentLands(a)
      PROVE  Basics'
  <2>1. paid[a] \in 0 .. MaxPaid /\ events \in 0 .. MaxPaid /\ paid[a] < MaxPaid
    BY <1>1 DEF PaymentLands, Basics, FeedTypeOK, Counts
  <2>2. paid' \in [Accounts -> Counts] /\ paid'[a] = paid[a] + 1
        /\ \A b \in Accounts : b # a => paid'[b] = paid[b]
    BY <1>1, <2>1, FeedBounds DEF PaymentLands, Basics, FeedTypeOK, Counts
  <2>3. CASE streaming /\ a = owner
    <3>1. events' = events + 1 /\ owner' = owner /\ opening' = opening /\ a # Nobody
      BY <1>1, <2>3, NobodyAssumption DEF PaymentLands
    <3>2. events <= paid[a]
      BY <2>1, <2>3 DEF Basics, StreamInv
    <3>3. events' \in Counts /\ StreamInv'
      BY <2>1, <2>2, <2>3, <3>1, <3>2, FeedBounds DEF Counts, Basics, StreamInv
    <3>4. QED
      BY <1>1, <2>2, <3>3 DEF PaymentLands, Basics, FeedTypeOK, Tasks, book
  <2>4. CASE ~(streaming /\ a = owner)
    <3>1. events' = events /\ owner' = owner /\ opening' = opening
      BY <1>1, <2>4 DEF PaymentLands
    <3>2. owner # Nobody => owner \in Accounts /\ paid[owner] \in Nat /\ paid'[owner] >= paid[owner]
      BY <2>1, <2>2 DEF Basics, FeedTypeOK, MaybeAccounts, Counts
    <3>3. StreamInv'
      <4>1. ASSUME events > 0
            PROVE  owner # Nobody /\ events <= paid'[owner]
        <5>1. owner # Nobody /\ events <= paid[owner]
          BY <4>1 DEF Basics, StreamInv
        <5>2. paid[owner] \in Nat /\ paid'[owner] \in Nat /\ paid'[owner] >= paid[owner]
          BY <2>2, <3>2, <5>1 DEF Basics, FeedTypeOK, MaybeAccounts, Counts
        <5>3. QED
          BY <2>1, <5>1, <5>2
      <4>2. QED
        BY <3>1, <4>1 DEF Basics, StreamInv
    <3>4. QED
      BY <1>1, <2>2, <3>1, <3>3 DEF PaymentLands, Basics, FeedTypeOK, Tasks, book
  <2>5. QED
    BY <2>3, <2>4
<1>2. CASE StreamPayments
  BY <1>2 DEF StreamPayments, Basics, FeedTypeOK, StreamInv, Tasks, book
<1>3. CASE StreamDrops
  <2>1. breaks' \in 0 .. MaxBreaks
    BY <1>3, BreakTypes DEF StreamDrops
  <2>2. StreamInv'
    BY <1>3 DEF StreamDrops, Basics, StreamInv
  <2>3. FeedTypeOK'
    BY <1>3, <2>1, FreshTypes DEF StreamDrops, Basics, FeedTypeOK, book
  <2>4. QED
    BY <1>3, <2>2, <2>3 DEF StreamDrops, Basics
<1>4. CASE UNCHANGED feedVars
  BY <1>4 DEF feedVars, session, book, Basics, FeedTypeOK, StreamInv, Tasks
<1>5. QED
  BY <1>1, <1>2, <1>3, <1>4, AskTypes, RewriteTypes, AccountTypes DEF FeedNext

\* The feed keeps its types: no balance of nobody's is asked for, and no more payments
\* are announced than were made.
THEOREM FeedTypes == FeedSpec => []FeedTypeOK
<1>1. Basics => FeedTypeOK
  BY DEF Basics
<1>2. QED
  BY <1>1, InitFeed, FeedStepTypes, PTL DEF FeedSpec

----------------------------------------------------------------------------
(* Whose balance is shown *)

\* What is made for an account is made for the one the phone holds, until a wipe.
OfOwner(w) ==
    ~w.old /\ w.kind \in Asking \union {"merge", "star"} => owner # Nobody /\ w.who = owner
Owners == \A j \in Jobs : OfOwner(jobs[j])

\* An answer is added to a job.
LEMMA AnsweredFields ==
    ASSUME NEW w \in Tasks, NEW p \in Parts, NEW n \in Counts, w.kind \in Asking
    PROVE  /\ Answered(w, p, n) \in Tasks
           /\ Answered(w, p, n).kind = w.kind /\ Answered(w, p, n).who = w.who
           /\ Answered(w, p, n).old = w.old /\ Answered(w, p, n).left = w.left
           /\ Answered(w, p, n).got = w.got \union {p} /\ Answered(w, p, n).view[p] = n
           /\ \A q \in Parts : q # p => Answered(w, p, n).view[q] = w.view[q]
<1>1. Answered(w, p, n) \in Tasks
  BY WorkTypes
<1>2. QED
  BY <1>1 DEF Answered, Works, Tasks

\* A part is done with: the job is over, or goes on with the other one.
LEMMA WithoutFields ==
    ASSUME NEW w \in Tasks, NEW p \in Parts
    PROVE  /\ Without(w, p) \in Tasks
           /\ \/ Without(w, p) = Free /\ w.left = {p}
              \/ /\ Without(w, p).kind = w.kind /\ Without(w, p).who = w.who
                 /\ Without(w, p).old = w.old /\ Without(w, p).at = w.at
                 /\ Without(w, p).left = w.left \ {p} /\ Without(w, p).got = w.got \ {p}
                 /\ \A q \in Parts : q # p => Without(w, p).view[q] = w.view[q]
<1>1. Without(w, p) \in Tasks
  BY WorkTypes
<1>2. QED
  BY <1>1 DEF Without, Works, Tasks

\* A refresh goes on as a merge.
LEMMA MergingFields ==
    ASSUME NEW w \in Tasks, w.kind \in Asking
    PROVE  /\ Merging(w) \in Tasks /\ Merging(w).kind = "merge" /\ Merging(w).who = w.who
           /\ Merging(w).old = w.old /\ Merging(w).at = w.at
<1>1. Merging(w) \in Tasks
  BY WorkTypes
<1>2. QED
  BY <1>1 DEF Merging, Works, Tasks

\* A rewriting has read a list.
LEMMA ReadFields ==
    ASSUME NEW w \in Tasks, NEW list \in Lists, w.kind \in Rewriting
    PROVE  /\ HavingRead(w, list) \in Tasks
           /\ HavingRead(w, list).kind = w.kind /\ HavingRead(w, list).who = w.who
           /\ HavingRead(w, list).old = w.old /\ HavingRead(w, list).about = w.about
           /\ HavingRead(w, list).list = list
           /\ HavingRead(w, list).at = IF w.kind = "boot" THEN "show" ELSE "save"
<1>1. HavingRead(w, list) \in Tasks
  BY WorkTypes
<1>2. QED
  BY <1>1 DEF HavingRead, Works, Tasks

\* A rewriting has saved its list.
LEMMA SavedFields ==
    ASSUME NEW w \in Tasks, w.kind \in Rewriting
    PROVE  /\ HavingSaved(w) \in Tasks
           /\ HavingSaved(w).kind = w.kind /\ HavingSaved(w).who = w.who
           /\ HavingSaved(w).old = w.old /\ HavingSaved(w).at = "show"
           /\ HavingSaved(w).list = Rewritten(w)
<1>1. HavingSaved(w) \in Tasks
  BY WorkTypes
<1>2. QED
  BY <1>1 DEF HavingSaved, Job, Free, Works, Tasks

\* A job that outlives a wipe is free or old.
LEMMA OutlivedFields ==
    ASSUME NEW w \in Tasks
    PROVE  /\ Outlived(w) \in Tasks
           /\ \/ Outlived(w) = Free /\ w = Free
              \/ /\ Outlived(w).old /\ Outlived(w).kind = w.kind
                 /\ Outlived(w).at = w.at
<1>1. Outlived(w) \in Tasks
  BY WorkTypes
<1>2. QED
  BY <1>1 DEF Outlived, Works, Tasks

\* The fields of fresh jobs.
LEMMA FreshFields ==
    /\ Free.kind = "none" /\ Free.at = "read" /\ ~Free.old /\ Free.left = {} /\ Free.got = {}
    /\ \A kind, a : LET w == Job(kind, a) IN
          w.kind = kind /\ w.who = a /\ w.at = "read" /\ ~w.old /\ w.left = {} /\ w.got = {}
    /\ \A kind, a : LET w == Ask(kind, a) IN
          w.kind = kind /\ w.who = a /\ w.at = "read" /\ ~w.old /\ w.left = Parts /\ w.got = {}
BY DEF Free, Job, Ask

\* A job that stays its account's leaves every job its account's.
LEMMA OwnersKept ==
    ASSUME Basics, Owners, owner' = owner,
           NEW j \in Jobs, NEW w \in Tasks, jobs' = [jobs EXCEPT ![j] = w], OfOwner(w)
    PROVE  Owners'
<1>1. \A i \in Jobs : jobs'[i] = IF i = j THEN w ELSE jobs[i]
  BY DEF Basics
<1>2. QED
  BY <1>1 DEF Owners, OfOwner

\* Every step leaves jobs their account's.
LEMMA OwnersStep == Basics /\ Owners /\ [FeedNext]_feedVars => Owners'
<1> SUFFICES ASSUME Basics, Owners, [FeedNext]_feedVars
             PROVE  Owners'
  OBVIOUS
<1>0. \A j \in Jobs : jobs[j] \in Tasks /\ OfOwner(jobs[j])
  BY DEF Basics, Owners
<1>1. ASSUME UNCHANGED <<owner, jobs>>
      PROVE  Owners'
  BY <1>1 DEF Owners, OfOwner
<1>2. ASSUME NEW j \in Jobs, OnPayment(j)
      PROVE  Owners'
  <2>1. owner \in Accounts /\ owner # Nobody
    BY <1>2, NobodyAssumption DEF OnPayment, Announced, Basics, StreamInv, FeedTypeOK, MaybeAccounts, Counts
  <2>2. [Ask("event", owner) EXCEPT !.left = Parts] = Ask("event", owner)
    BY DEF Ask, Job, Free
  <2>3. Ask("event", owner) \in Tasks /\ OfOwner(Ask("event", owner))
    BY <2>1, FreshTypes, FreshFields DEF Asking, OfOwner
  <2>4. QED
    BY <1>2, <2>2, <2>3, OwnersKept DEF OnPayment, Announced
<1>3. ASSUME NEW j \in Jobs, OnRefresh(j)
      PROVE  Owners'
  <2>1. owner \in Accounts /\ owner # Nobody
    BY <1>3 DEF OnRefresh, Basics, FeedTypeOK, MaybeAccounts
  <2>2. Ask("refresh", owner) \in Tasks /\ OfOwner(Ask("refresh", owner))
    BY <2>1, FreshTypes, FreshFields DEF Asking, OfOwner
  <2>3. QED
    BY <1>3, <2>2, OwnersKept DEF OnRefresh, BeginRefresh, session
<1>4. ASSUME NEW j \in Jobs, NEW p \in Parts, AnswerPart(j, p)
      PROVE  Owners'
  <2>1. paid[jobs[j].who] \in Counts /\ jobs[j].kind \in Asking
    BY <1>0, <1>4 DEF AnswerPart, Basics, FeedTypeOK, Tasks
  <2>2. /\ Answered(jobs[j], p, paid[jobs[j].who]) \in Tasks
        /\ OfOwner(Answered(jobs[j], p, paid[jobs[j].who]))
    BY <1>0, <2>1, AnsweredFields DEF OfOwner
  <2>3. QED
    BY <1>4, <2>2, OwnersKept DEF AnswerPart, session
<1>5. ASSUME NEW j \in Jobs, EndRefresh(j)
      PROVE  Owners'
  <2>1. Merging(jobs[j]) \in Tasks /\ OfOwner(Merging(jobs[j]))
    BY <1>0, <1>5, MergingFields DEF EndRefresh, Asking, OfOwner
  <2>2. QED
    BY <1>5, <2>1, OwnersKept DEF EndRefresh
<1>6. ASSUME NEW j \in Jobs, NEW p \in Parts, ShowPart(j, p) \/ AskFails(j, p)
      PROVE  Owners'
  <2>1. /\ Without(jobs[j], p) \in Tasks /\ OfOwner(Without(jobs[j], p))
        /\ Free \in Tasks /\ OfOwner(Free)
    BY <1>0, WithoutFields, FreshTypes, FreshFields DEF OfOwner, Asking
  <2>2. QED
    BY <1>6, <2>1, OwnersKept DEF ShowPart, AskFails, Failed, session
<1>7. ASSUME NEW j \in Jobs, NEW c \in Contacts, TouchStar(j, c)
      PROVE  Owners'
  <2>1. owner \in MaybeAccounts /\ owner # Nobody
    BY <1>7 DEF TouchStar, Basics, FeedTypeOK
  <2>2. Job("star", owner) \in Tasks
    BY <2>1, FreshTypes DEF Rewriting
  <2>3. /\ [Job("star", owner) EXCEPT !.about = {c}] \in Tasks
        /\ OfOwner([Job("star", owner) EXCEPT !.about = {c}])
    BY <2>1, <2>2, FreshFields DEF Tasks, Works, OfOwner
  <2>4. QED
    BY <1>7, <2>3, OwnersKept DEF TouchStar, session
<1>8. ASSUME NEW j \in Jobs, GetContacts(j)
      PROVE  Owners'
  <2>1. PICK list \in {store, NoContacts} : jobs' = [jobs EXCEPT ![j] = HavingRead(jobs[j], list)]
    BY <1>8 DEF GetContacts
  <2>2. list \in Lists
    BY FreshTypes DEF Basics, FeedTypeOK
  <2>3. HavingRead(jobs[j], list) \in Tasks /\ OfOwner(HavingRead(jobs[j], list))
    BY <1>0, <1>8, <2>2, ReadFields DEF GetContacts, OfOwner
  <2>4. QED
    BY <1>8, <2>1, <2>3, OwnersKept DEF GetContacts, session
<1>9. ASSUME NEW j \in Jobs, SaveContacts(j)
      PROVE  Owners'
  <2>1. HavingSaved(jobs[j]) \in Tasks /\ OfOwner(HavingSaved(jobs[j]))
    BY <1>0, <1>9, SavedFields DEF SaveContacts, OfOwner, Tasks
  <2>2. QED
    BY <1>9, <2>1, OwnersKept DEF SaveContacts, session
<1>10. ASSUME NEW j \in Jobs, ShowContacts(j)
       PROVE  Owners'
  <2>1. Free \in Tasks /\ OfOwner(Free)
    BY FreshTypes, FreshFields DEF OfOwner, Asking
  <2>2. QED
    BY <1>10, <2>1, OwnersKept DEF ShowContacts, session
<1>11. ASSUME NEW a \in Accounts, NEW j \in Jobs, SetPublicKey(a, j)
       PROVE  Owners'
  <2>1. owner = Nobody /\ owner' = a /\ a # Nobody
    BY <1>11, NobodyAssumption DEF SetPublicKey, Basics, StreamInv
  <2>2. \A i \in Jobs : jobs'[i] = IF i = j THEN Ask("refresh", a) ELSE jobs[i]
    BY <1>11 DEF SetPublicKey, BeginRefresh, Basics
  <2>3. \A i \in Jobs : jobs[i].old \/ jobs[i].kind \notin Asking \union {"merge", "star"}
    BY <2>1 DEF Owners, OfOwner
  <2>4. QED
    BY <2>1, <2>2, <2>3, FreshFields DEF Owners, OfOwner
<1>12. CASE WipeAccount
  <2>1. \A i \in Jobs : jobs'[i] = Outlived(jobs[i])
    BY <1>12 DEF WipeAccount, ForgetAccount
  <2>2. \A i \in Jobs : jobs'[i] = Free \/ jobs'[i].old
    BY <1>0, <2>1, OutlivedFields
  <2>3. QED
    BY <2>2, FreshFields DEF Owners, OfOwner, Asking
<1>13. ASSUME NEW a \in MaybeAccounts, NEW j \in Jobs, NEW k \in Jobs, Restart(a, j, k)
       PROVE  Owners'
  <2>1. /\ owner' = a
        /\ \A i \in Jobs : \/ jobs'[i] = Free \/ jobs'[i] = Job("boot", a)
                           \/ a # Nobody /\ jobs'[i] = Ask("refresh", a)
    BY <1>13 DEF Restart
  <2>2. QED
    BY <2>1, FreshFields DEF Owners, OfOwner, Asking
<1>14. CASE UNCHANGED feedVars
  BY <1>1, <1>14 DEF feedVars, session
<1>15. ASSUME NEW a \in Accounts, PaymentLands(a)
       PROVE  Owners'
  BY <1>1, <1>15 DEF PaymentLands
<1>16. CASE StreamPayments \/ StreamDrops \/ StartOpening
  BY <1>1, <1>16 DEF StreamPayments, StreamDrops, StartOpening
<1>17. QED
  BY <1>2, <1>3, <1>4, <1>5, <1>6, <1>7, <1>8, <1>9, <1>10, <1>11, <1>12, <1>13, <1>14, <1>15, <1>16
     DEF FeedNext, GetBalance, GetActivity, Parts

\* Showing an answer.
LEMMA ShowDoes ==
    ASSUME NEW w \in Tasks, NEW ps \in SUBSET Parts, Show(w, ps)
    PROVE  /\ \A p \in ps : shown'[p].of = w.who /\ shown'[p].seen = w.view[p]
           /\ \A p \in Parts \ ps : shown'[p] = shown[p]
           /\ slips \subseteq slips' /\ slips' \subseteq slips \union {"missed", "stray"}
           /\ w.old => "missed" \in slips' /\ "stray" \in slips'
           /\ \A p \in ps : shown[p].of = w.who /\ w.view[p] < shown[p].seen => "missed" \in slips'
BY DEF Show

\* What is shown is the owner's, or nothing; and all of it is there once it is loaded.
Mine ==
    "stray" \notin slips =>
        /\ \A p \in Parts : shown[p].of \in {Nobody, owner}
        /\ loaded => owner # Nobody /\ \A p \in Parts : shown[p].of = owner

\* Every step leaves what is shown the owner's.
LEMMA MineStep == Basics /\ Owners /\ Mine /\ [FeedNext]_feedVars => Mine'
<1> SUFFICES ASSUME Basics, Owners, Mine, [FeedNext]_feedVars
             PROVE  Mine'
  OBVIOUS
<1>0. \A j \in Jobs : jobs[j] \in Tasks /\ OfOwner(jobs[j])
  BY DEF Basics, Owners
<1>1. ASSUME UNCHANGED <<owner, loaded, shown>>, slips \subseteq slips' \union {"missed"}
      PROVE  Mine'
  BY <1>1 DEF Mine
<1>2. ASSUME NEW j \in Jobs, NEW p \in Parts, ShowPart(j, p)
      PROVE  Mine'
  <2>1. Show(jobs[j], {p}) /\ jobs[j].kind \in Asking /\ owner' = owner /\ loaded' = loaded
    BY <1>2 DEF ShowPart, session, Asking
  <2>2. /\ shown'[p].of = jobs[j].who /\ \A q \in Parts \ {p} : shown'[q] = shown[q]
        /\ slips \subseteq slips' /\ (jobs[j].old => "stray" \in slips')
    BY <1>0, <2>1, ShowDoes
  <2>3. ASSUME "stray" \notin slips'
        PROVE  owner # Nobody /\ jobs[j].who = owner
    BY <1>0, <2>1, <2>2, <2>3 DEF OfOwner
  <2>4. QED
    BY <2>1, <2>2, <2>3 DEF Mine
<1>3. ASSUME NEW j \in Jobs, EndRefresh(j)
      PROVE  Mine'
  <2>1. Show(jobs[j], Parts) /\ jobs[j].kind \in Asking /\ owner' = owner
    BY <1>3 DEF EndRefresh, Asking
  <2>2. /\ \A p \in Parts : shown'[p].of = jobs[j].who
        /\ jobs[j].old => "stray" \in slips'
    BY <1>0, <2>1, ShowDoes
  <2>3. ASSUME "stray" \notin slips'
        PROVE  owner # Nobody /\ jobs[j].who = owner
    BY <1>0, <2>1, <2>2, <2>3 DEF OfOwner
  <2>4. QED
    BY <2>1, <2>2, <2>3 DEF Mine
<1>4. ASSUME NEW a \in Accounts, NEW j \in Jobs, SetPublicKey(a, j)
      PROVE  Mine'
  <2>1. owner = Nobody /\ UNCHANGED <<loaded, shown>>
    BY <1>4 DEF SetPublicKey, Basics, StreamInv
  <2>2. slips \subseteq slips' \union {"missed"}
    BY <1>4 DEF SetPublicKey, BeginRefresh
  <2>3. QED
    BY <2>1, <2>2 DEF Mine
<1>5. CASE StartOpening
  BY <1>5 DEF StartOpening, Mine
<1>6. ASSUME shown' = Nothing, loaded' = FALSE
      PROVE  Mine'
  BY <1>6 DEF Mine, Nothing
<1>7. CASE WipeAccount
  BY <1>6, <1>7 DEF WipeAccount, ForgetAccount
<1>8. ASSUME NEW a \in MaybeAccounts, NEW j \in Jobs, NEW k \in Jobs, Restart(a, j, k)
      PROVE  Mine'
  BY <1>6, <1>8 DEF Restart
<1>9. ASSUME NEW a \in Accounts, PaymentLands(a)
      PROVE  Mine'
  BY <1>1, <1>9 DEF PaymentLands
<1>10. CASE StreamPayments \/ StreamDrops
  BY <1>1, <1>10 DEF StreamPayments, StreamDrops
<1>11. ASSUME NEW j \in Jobs, OnPayment(j) \/ OnRefresh(j) \/ GetBalance(j) \/ GetActivity(j)
       PROVE  Mine'
  BY <1>1, <1>11
     DEF OnPayment, Announced, OnRefresh, BeginRefresh, GetBalance, GetActivity, AnswerPart, session
<1>12. ASSUME NEW j \in Jobs, NEW p \in Parts, AskFails(j, p)
       PROVE  Mine'
  BY <1>1, <1>12 DEF AskFails, Failed
<1>13. ASSUME NEW j \in Jobs, NEW c \in Contacts, TouchStar(j, c)
       PROVE  Mine'
  BY <1>1, <1>13 DEF TouchStar, session
<1>14. ASSUME NEW j \in Jobs, GetContacts(j) \/ SaveContacts(j) \/ ShowContacts(j)
       PROVE  Mine'
  BY <1>1, <1>14 DEF GetContacts, SaveContacts, ShowContacts, session
<1>15. CASE UNCHANGED feedVars
  BY <1>1, <1>15 DEF feedVars, session
<1>16. QED
  BY <1>2, <1>3, <1>4, <1>5, <1>7, <1>8, <1>9, <1>10, <1>11, <1>12, <1>13, <1>14, <1>15 DEF FeedNext

\* At the start nothing is shown, and nothing is under way.
LEMMA InitMine == FeedInit => Owners /\ Mine
BY FreshFields DEF FeedInit, Owners, OfOwner, Mine, Nothing, Asking

\* A balance that is shown as loaded, and the activity under it, are those of the
\* account the phone holds, unless an answer to the account it held before came late.
THEOREM ShownMine == FeedSpec => []ShownIsMine
<1>1. Mine => ShownIsMine
  BY DEF Mine, ShownIsMine
<1>2. QED
  BY <1>1, InitFeed, FeedStepTypes, InitMine, OwnersStep, MineStep, PTL DEF FeedSpec

----------------------------------------------------------------------------
(* Whose contacts are kept *)

\* A list of contacts is an account's.
OwnList(a, list) == \A c \in Contacts : list[c] # "no" => c[1] = a

\* The lists that are kept, shown or on their way are the owner's.
OwnContacts ==
    "leak" \notin slips =>
        /\ OwnList(owner, store) /\ OwnList(owner, contacts)
        /\ \A j \in Jobs : ~jobs[j].old /\ jobs[j].at # "read" => OwnList(owner, jobs[j].list)

\* A rewriting of the owner's list is the owner's.
LEMMA RewrittenOwn ==
    ASSUME NEW w \in Tasks, OfOwner(w), ~w.old, OwnList(owner, w.list)
    PROVE  OwnList(owner, Rewritten(w))
<1> SUFFICES ASSUME NEW c \in Contacts, Rewritten(w)[c] # "no"
             PROVE  c[1] = owner
  BY DEF OwnList
<1>1. CASE w.list[c] # "no"
  BY <1>1 DEF OwnList
<1>2. CASE w.list[c] = "no"
  <2>1. w.kind = "merge" /\ c[1] = w.who
    BY <1>2 DEF Rewritten
  <2>2. QED
    BY <2>1 DEF OfOwner
<1>3. QED
  BY <1>1, <1>2

\* A job whose list is the owner's, or that has read none, leaves the lists the owner's.
LEMMA OwnContactsKept ==
    ASSUME Basics, OwnContacts, UNCHANGED <<owner, store, contacts>>, slips \subseteq slips' \union {"missed"},
           NEW j \in Jobs, NEW w \in Tasks, jobs' = [jobs EXCEPT ![j] = w],
           "leak" \in slips \/ w.at = "read" \/ w.old \/ OwnList(owner, w.list)
    PROVE  OwnContacts'
<1>1. \A i \in Jobs : jobs'[i] = IF i = j THEN w ELSE jobs[i]
  BY DEF Basics
<1>2. QED
  BY <1>1 DEF OwnContacts, OwnList

\* The requests for balance and activity leave the contacts alone: such a step makes one
\* job, that rewrites none, into another that has read none and is no star and no boot.
LEMMA AskDoes ==
    ASSUME Basics, NEW j \in Jobs,
           \/ OnPayment(j) \/ OnRefresh(j) \/ GetBalance(j) \/ GetActivity(j) \/ EndRefresh(j)
           \/ \E p \in Parts : ShowPart(j, p) \/ AskFails(j, p)
    PROVE  \E w \in Tasks :
              /\ jobs' = [jobs EXCEPT ![j] = w] /\ w.at = "read" /\ w.kind \notin {"star", "boot"}
              /\ jobs[j].kind \notin Rewriting
              /\ UNCHANGED <<owner, store, contacts, wanted>> /\ slips \subseteq slips' \union {"missed"}
<1> DEFINE Does(w) ==
              /\ jobs' = [jobs EXCEPT ![j] = w] /\ w.at = "read" /\ w.kind \notin {"star", "boot"}
              /\ jobs[j].kind \notin Rewriting
              /\ UNCHANGED <<owner, store, contacts, wanted>> /\ slips \subseteq slips' \union {"missed"}
<1>0. jobs[j] \in Tasks
  BY DEF Basics
<1>1. CASE OnPayment(j)
  <2>1. owner \in Accounts
    BY <1>1 DEF OnPayment, Announced, Basics, StreamInv, FeedTypeOK, MaybeAccounts, Counts
  <2>2. [Ask("event", owner) EXCEPT !.left = Parts] = Ask("event", owner)
    BY DEF Ask, Job, Free
  <2>3. Ask("event", owner) \in Tasks
    BY <2>1, FreshTypes DEF Asking
  <2>4. /\ jobs' = [jobs EXCEPT ![j] = Ask("event", owner)] /\ jobs[j] = Free
        /\ UNCHANGED <<owner, store, contacts, wanted, slips>>
    BY <1>1, <2>2 DEF OnPayment, Announced, book
  <2>5. Does(Ask("event", owner))
    BY <2>4, FreshFields DEF Rewriting
  <2>6. QED
    BY <2>3, <2>5
<1>2. CASE OnRefresh(j)
  <2>1. owner \in Accounts
    BY <1>2 DEF OnRefresh, Basics, FeedTypeOK, MaybeAccounts
  <2>2. Ask("refresh", owner) \in Tasks
    BY <2>1, FreshTypes DEF Asking
  <2>3. Does(Ask("refresh", owner))
    BY <1>2, FreshFields DEF OnRefresh, BeginRefresh, session, book, Rewriting
  <2>4. QED
    BY <2>2, <2>3
<1>3. ASSUME NEW p \in Parts, AnswerPart(j, p)
      PROVE  \E w \in Tasks : Does(w)
  <2>1. paid[jobs[j].who] \in Counts /\ jobs[j].kind \in Asking /\ jobs[j].at = "read"
    BY <1>0, <1>3 DEF AnswerPart, Basics, FeedTypeOK, Tasks
  <2> DEFINE w == Answered(jobs[j], p, paid[jobs[j].who])
  <2>2. w \in Tasks /\ w.kind = jobs[j].kind
    BY <1>0, <2>1, AnsweredFields
  <2>3. w.at = "read"
    BY <2>1, <2>2 DEF Tasks
  <2>4. Does(w)
    BY <1>3, <2>1, <2>2, <2>3 DEF AnswerPart, Asking, Rewriting, session, book
  <2>5. QED
    BY <2>2, <2>4
<1>4. CASE EndRefresh(j)
  <2>1. jobs[j].kind = "refresh" /\ jobs[j].kind \in Asking /\ jobs[j].at = "read"
    BY <1>0, <1>4 DEF EndRefresh, Asking, Tasks
  <2>2. Merging(jobs[j]) \in Tasks /\ Merging(jobs[j]).at = "read" /\ Merging(jobs[j]).kind = "merge"
    BY <1>0, <2>1, MergingFields
  <2>3. slips \subseteq slips'
    BY <1>0, <1>4, ShowDoes DEF EndRefresh
  <2>4. Does(Merging(jobs[j]))
    BY <1>4, <2>1, <2>2, <2>3 DEF EndRefresh, Rewriting, book
  <2>5. QED
    BY <2>2, <2>4
<1>5. ASSUME NEW p \in Parts, ShowPart(j, p) \/ AskFails(j, p)
      PROVE  \E w \in Tasks : Does(w)
  <2>1. jobs[j].kind \in Asking /\ jobs[j].at = "read"
    BY <1>0, <1>5 DEF ShowPart, AskFails, Failed, Asking, Tasks
  <2>2. slips \subseteq slips'
    BY <1>0, <1>5, ShowDoes DEF ShowPart, AskFails, Failed
  <2>3. \A w \in {Free, Without(jobs[j], p)} :
            w \in Tasks /\ w.at = "read" /\ w.kind \notin {"star", "boot"}
    BY <1>0, <2>1, WithoutFields, FreshTypes, FreshFields DEF Asking
  <2>4. PICK w \in {Free, Without(jobs[j], p)} : jobs' = [jobs EXCEPT ![j] = w]
    BY <1>5 DEF ShowPart, AskFails, Failed
  <2>5. Does(w)
    BY <1>5, <2>1, <2>2, <2>3, <2>4
       DEF ShowPart, AskFails, Failed, Asking, Rewriting, session, book
  <2>6. QED
    BY <2>3, <2>5
<1>6. QED
  BY <1>1, <1>2, <1>3, <1>4, <1>5 DEF GetBalance, GetActivity, Parts

\* Every step leaves the lists the owner's.
LEMMA OwnContactsStep == Basics /\ Owners /\ OwnContacts /\ [FeedNext]_feedVars => OwnContacts'
<1> SUFFICES ASSUME Basics, Owners, OwnContacts, [FeedNext]_feedVars
             PROVE  OwnContacts'
  OBVIOUS
<1>0. \A j \in Jobs : jobs[j] \in Tasks /\ OfOwner(jobs[j])
  BY DEF Basics, Owners
<1>1. ASSUME UNCHANGED <<owner, store, contacts, jobs, slips>>
      PROVE  OwnContacts'
  BY <1>1 DEF OwnContacts, OwnList
<1>2. ASSUME NEW j \in Jobs,
             \/ OnPayment(j) \/ OnRefresh(j) \/ GetBalance(j) \/ GetActivity(j) \/ EndRefresh(j)
             \/ \E p \in Parts : ShowPart(j, p) \/ AskFails(j, p)
      PROVE  OwnContacts'
  <2>1. PICK w \in Tasks :
            /\ jobs' = [jobs EXCEPT ![j] = w] /\ w.at = "read"
            /\ UNCHANGED <<owner, store, contacts>> /\ slips \subseteq slips' \union {"missed"}
    BY <1>2, AskDoes
  <2>2. QED
    BY <2>1, OwnContactsKept
<1>3. ASSUME NEW j \in Jobs, NEW c \in Contacts, TouchStar(j, c)
      PROVE  OwnContacts'
  <2>1. Job("star", owner) \in Tasks
    BY FreshTypes DEF Rewriting, Basics, FeedTypeOK
  <2>2. /\ [Job("star", owner) EXCEPT !.about = {c}] \in Tasks
        /\ [Job("star", owner) EXCEPT !.about = {c}].at = "read"
    BY <2>1, FreshFields DEF Tasks, Works
  <2>3. QED
    BY <1>3, <2>2, OwnContactsKept DEF TouchStar, session
<1>4. ASSUME NEW j \in Jobs, GetContacts(j)
      PROVE  OwnContacts'
  <2>1. PICK list \in {store, NoContacts} :
            /\ jobs' = [jobs EXCEPT ![j] = HavingRead(jobs[j], list)]
            /\ slips \subseteq slips'
    BY <1>4 DEF GetContacts
  <2>2. list \in Lists
    BY FreshTypes DEF Basics, FeedTypeOK
  <2>3. HavingRead(jobs[j], list) \in Tasks /\ HavingRead(jobs[j], list).list = list
    BY <1>0, <1>4, <2>2, ReadFields DEF GetContacts
  <2>4. "leak" \in slips \/ OwnList(owner, list)
    BY DEF OwnContacts, OwnList, NoContacts
  <2>5. QED
    BY <1>4, <2>1, <2>3, <2>4, OwnContactsKept DEF GetContacts, session, book
<1>5. ASSUME NEW j \in Jobs, SaveContacts(j)
      PROVE  OwnContacts'
  <2>1. jobs[j].kind \in Rewriting /\ jobs[j].at = "save"
    BY <1>0, <1>5 DEF SaveContacts, Tasks
  <2>2. /\ HavingSaved(jobs[j]) \in Tasks /\ HavingSaved(jobs[j]).old = jobs[j].old
        /\ HavingSaved(jobs[j]).list = Rewritten(jobs[j])
    BY <1>0, <2>1, SavedFields
  <2>3. /\ store' = store \/ (store' = Rewritten(jobs[j]) /\ (jobs[j].old => "leak" \in slips'))
        /\ slips \subseteq slips'
        /\ jobs' = [jobs EXCEPT ![j] = HavingSaved(jobs[j])] /\ UNCHANGED <<owner, contacts>>
    BY <1>5 DEF SaveContacts, session
  <2>4. ASSUME "leak" \notin slips', ~jobs[j].old
        PROVE  OwnList(owner, Rewritten(jobs[j]))
    BY <1>0, <2>1, <2>3, <2>4, RewrittenOwn DEF OwnContacts
  <2>5. \A i \in Jobs : jobs'[i] = IF i = j THEN HavingSaved(jobs[j]) ELSE jobs[i]
    BY <2>3 DEF Basics
  <2>6. QED
    BY <2>2, <2>3, <2>4, <2>5 DEF OwnContacts
<1>6. ASSUME NEW j \in Jobs, ShowContacts(j)
       PROVE  OwnContacts'
  <2>1. /\ contacts' = jobs[j].list /\ UNCHANGED <<owner, store>>
        /\ jobs[j].at # "read" /\ slips \subseteq slips' /\ (jobs[j].old => "leak" \in slips')
    BY <1>6 DEF ShowContacts, session
  <2>2. \A i \in Jobs : jobs'[i] = IF i = j THEN Free ELSE jobs[i]
    BY <1>6 DEF ShowContacts, Basics
  <2>3. QED
    BY <2>1, <2>2, FreshFields DEF OwnContacts
<1>7. ASSUME NEW a \in Accounts, NEW j \in Jobs, SetPublicKey(a, j)
       PROVE  OwnContacts'
  <2>1. owner = Nobody /\ UNCHANGED <<store, contacts>> /\ ("leak" \in slips => "leak" \in slips')
    BY <1>7 DEF SetPublicKey, BeginRefresh, Basics, StreamInv, book
  <2>2. \A i \in Jobs : jobs'[i] = IF i = j THEN Ask("refresh", a) ELSE jobs[i]
    BY <1>7 DEF SetPublicKey, BeginRefresh, Basics
  <2>3. \A list : OwnList(Nobody, list) => OwnList(a, list)
    BY NobodyAssumption DEF OwnList, Contacts
  <2>4. owner' = a
    BY <1>7 DEF SetPublicKey
  <2>5. QED
    BY <2>1, <2>2, <2>3, <2>4, FreshFields DEF OwnContacts
<1>8. CASE WipeAccount
  <2>1. \A i \in Jobs : jobs'[i] = Outlived(jobs[i])
    BY <1>8 DEF WipeAccount, ForgetAccount
  <2>2. \A i \in Jobs : jobs'[i] = Free \/ jobs'[i].old
    BY <1>0, <2>1, OutlivedFields
  <2>3. store' = NoContacts /\ contacts' = NoContacts
    BY <1>8 DEF WipeAccount, ForgetAccount
  <2>4. QED
    BY <2>2, <2>3, FreshFields DEF OwnContacts, OwnList, NoContacts
<1>9. ASSUME NEW a \in MaybeAccounts, NEW j \in Jobs, NEW k \in Jobs, Restart(a, j, k)
       PROVE  OwnContacts'
  <2>1. /\ owner' = a /\ store' = store /\ contacts' = NoContacts
        /\ "leak" \in slips => "leak" \in slips'
        /\ \A i \in Jobs : \/ jobs'[i] = Free \/ jobs'[i] = Job("boot", a)
                           \/ jobs'[i] = Ask("refresh", a)
    BY <1>9 DEF Restart
  <2>2. a = owner \/ owner = Nobody
    BY <1>9 DEF Restart, Basics, StreamInv
  <2>3. \A list : OwnList(Nobody, list) => OwnList(a, list)
    BY NobodyAssumption DEF OwnList, Contacts
  <2>4. OwnList(a, NoContacts)
    BY DEF OwnList, NoContacts
  <2>5. QED
    BY <2>1, <2>2, <2>3, <2>4, FreshFields DEF OwnContacts
<1>10. CASE UNCHANGED feedVars
  BY <1>1, <1>10 DEF feedVars, session, book
<1>11. ASSUME NEW a \in Accounts, PaymentLands(a)
       PROVE  OwnContacts'
  BY <1>1, <1>11 DEF PaymentLands, book
<1>12. CASE StreamPayments \/ StreamDrops \/ StartOpening
  BY <1>1, <1>12 DEF StreamPayments, StreamDrops, StartOpening, book
<1>13. QED
  BY <1>2, <1>3, <1>4, <1>5, <1>6, <1>7, <1>8, <1>9, <1>10, <1>11, <1>12 DEF FeedNext

\* At the start there are no contacts.
LEMMA InitOwnContacts == FeedInit => OwnContacts
BY FreshFields DEF FeedInit, OwnContacts, OwnList, NoContacts

\* The contacts, shown and stored, are counterparties of the account the phone holds,
\* unless a rewriting of them outlived the account before.
THEOREM ContactsMine == FeedSpec => []ContactsAreMine
<1>1. OwnContacts => ContactsAreMine
  BY DEF OwnContacts, OwnList, ContactsAreMine
<1>2. QED
  BY <1>1, InitFeed, FeedStepTypes, InitMine, OwnersStep, InitOwnContacts, OwnContactsStep, PTL
     DEF FeedSpec

----------------------------------------------------------------------------
(* What is due is shown *)

\* A job will show part p as of n payments or more.
Owes(w, p, n) ==
    w.kind \in Asking /\ ~w.old /\ p \in w.left /\ (p \in w.got => w.view[p] >= n)

Refreshing(w) == w.kind = "refresh" /\ ~w.old
ShownEnough(p) == shown[p].of = owner /\ shown[p].seen >= due

\* What is due has been paid; and unless something was missed, each part is shown as is
\* due or a job will show it, and the balance is loaded or a refresh will load it.
DueInv ==
    owner # Nobody =>
        /\ due <= paid[owner]
        /\ "missed" \notin slips =>
              /\ \A p \in Parts : ShownEnough(p) \/ \E j \in Jobs : Owes(jobs[j], p, due)
              /\ loaded \/ \E j \in Jobs : Refreshing(jobs[j])

\* A job that goes on owing what it owed leaves the rest to the others.
LEMMA DueKept ==
    ASSUME Basics, DueInv, UNCHANGED <<owner, due, shown, paid, loaded>>,
           slips \subseteq slips' \union {"lost", "leak"},
           NEW j \in Jobs, NEW w, jobs' = [jobs EXCEPT ![j] = w],
           \A p \in Parts : Owes(jobs[j], p, due) => Owes(w, p, due),
           Refreshing(jobs[j]) => Refreshing(w)
    PROVE  DueInv'
<1>1. \A i \in Jobs : jobs'[i] = IF i = j THEN w ELSE jobs[i]
  BY DEF Basics
<1>2. QED
  BY <1>1 DEF DueInv, ShownEnough

\* A request for everything there is leaves nothing out.
LEMMA DueBegun ==
    ASSUME Basics, NEW a \in Accounts, owner' = a, paid' = paid, due' = paid[a],
           NEW j \in Jobs, jobs'[j] = Ask("refresh", a)
    PROVE  DueInv'
<1>1. Refreshing(jobs'[j]) /\ \A p \in Parts : Owes(jobs'[j], p, due')
  BY FreshFields DEF Refreshing, Owes, Asking
<1>2. due' <= paid'[owner']
  BY DEF Basics, FeedTypeOK, Counts
<1>3. QED
  BY <1>1, <1>2 DEF DueInv

\* The contacts are rewritten by jobs that owe nothing.
LEMMA DueRewriting ==
    ASSUME Basics, DueInv, NEW j \in Jobs,
           \/ GetContacts(j) \/ SaveContacts(j) \/ ShowContacts(j)
           \/ \E c \in Contacts : TouchStar(j, c)
    PROVE  DueInv'
<1>0. jobs[j] \in Tasks /\ store \in Lists
  BY DEF Basics, FeedTypeOK
<1>1. ASSUME jobs[j].kind \notin Asking, NEW w, w.kind \notin Asking, jobs' = [jobs EXCEPT ![j] = w],
             UNCHANGED <<owner, due, shown, paid, loaded>>, slips \subseteq slips' \union {"lost", "leak"}
      PROVE  DueInv'
  BY <1>1, DueKept DEF Owes, Refreshing, Asking
<1>2. ASSUME NEW c \in Contacts, TouchStar(j, c)
      PROVE  DueInv'
  <2>1. [Job("star", owner) EXCEPT !.about = {c}].kind \notin Asking /\ jobs[j].kind \notin Asking
    <3>1. jobs[j] = Free /\ Free.kind = "none"
      BY <1>2, FreshFields DEF TouchStar
    <3>2. [Job("star", owner) EXCEPT !.about = {c}].kind = "star"
      BY DEF Job, Free
    <3>3. QED
      BY <3>1, <3>2 DEF Asking
  <2>2. QED
    BY <1>1, <1>2, <2>1 DEF TouchStar, session
<1>3. CASE GetContacts(j)
  <2>1. PICK list \in {store, NoContacts} : jobs' = [jobs EXCEPT ![j] = HavingRead(jobs[j], list)]
    BY <1>3 DEF GetContacts
  <2>2. jobs[j].kind \in Rewriting /\ list \in Lists
    BY <1>0, <1>3, <2>1, FreshTypes DEF GetContacts
  <2>3. HavingRead(jobs[j], list).kind \notin Asking /\ jobs[j].kind \notin Asking
    BY <1>0, <2>2, ReadFields DEF Rewriting, Asking
  <2>4. QED
    BY <1>1, <1>3, <2>1, <2>3 DEF GetContacts, session
<1>4. CASE SaveContacts(j)
  <2>1. jobs[j].kind \in Rewriting
    BY <1>0, <1>4 DEF SaveContacts, Tasks
  <2>2. HavingSaved(jobs[j]).kind \notin Asking /\ jobs[j].kind \notin Asking
    BY <1>0, <2>1, SavedFields DEF Rewriting, Asking
  <2>3. slips \subseteq slips'
    BY <1>4 DEF SaveContacts
  <2>4. QED
    BY <1>1, <1>4, <2>2, <2>3 DEF SaveContacts, session
<1>5. CASE ShowContacts(j)
  <2>1. Free.kind \notin Asking /\ jobs[j].kind \notin Asking
    BY <1>0, <1>5, FreshFields DEF ShowContacts, Tasks, Rewriting, Asking
  <2>2. QED
    BY <1>1, <1>5, <2>1 DEF ShowContacts, session
<1>6. QED
  BY <1>2, <1>3, <1>4, <1>5

\* An answer that takes nobody else's place is as new as it was owed.
LEMMA DueShown ==
    ASSUME Basics, Owners, DueInv, owner # Nobody, "missed" \notin slips', NEW j \in Jobs,
           NEW ps \in SUBSET Parts, ps \subseteq jobs[j].got, jobs[j].kind \in Asking,
           Show(jobs[j], ps), owner' = owner, due' = due,
           NEW p \in ps
    PROVE  ShownEnough(p)' \/ \E i \in Jobs \ {j} : Owes(jobs[i], p, due)
<1>1. jobs[j] \in Tasks /\ OfOwner(jobs[j])
  BY DEF Basics, Owners
<1>2. /\ shown'[p].of = jobs[j].who /\ shown'[p].seen = jobs[j].view[p]
      /\ ~jobs[j].old /\ "missed" \notin slips
      /\ ~(shown[p].of = jobs[j].who /\ jobs[j].view[p] < shown[p].seen)
  BY <1>1, ShowDoes
<1>3. jobs[j].who = owner
  BY <1>1, <1>2 DEF OfOwner
<1>4. ShownEnough(p) \/ \E i \in Jobs : Owes(jobs[i], p, due)
  BY <1>2 DEF DueInv
<1>5. /\ jobs[j].view[p] \in Int /\ shown[p].seen \in Int /\ due \in Int
  BY <1>1, FeedBounds DEF Tasks, Works, Counts, Basics, FeedTypeOK
<1>6. ASSUME ShownEnough(p) \/ Owes(jobs[j], p, due)
      PROVE  ShownEnough(p)'
  BY <1>2, <1>3, <1>5, <1>6 DEF ShownEnough, Owes
<1>7. QED
  BY <1>4, <1>6

\* A step of the requests leaves what is due shown, or owed.
LEMMA DueAsking ==
    ASSUME Basics, Owners, DueInv, NEW j \in Jobs,
           \/ OnPayment(j) \/ OnRefresh(j) \/ GetBalance(j) \/ GetActivity(j) \/ EndRefresh(j)
           \/ \E p \in Parts : ShowPart(j, p) \/ AskFails(j, p)
    PROVE  DueInv'
<1>0. jobs[j] \in Tasks /\ OfOwner(jobs[j])
  BY DEF Basics, Owners
<1>1. CASE OnPayment(j)
  <2>1. owner \in Accounts /\ owner # Nobody
    BY <1>1, NobodyAssumption DEF OnPayment, Announced, Basics, StreamInv, FeedTypeOK, MaybeAccounts, Counts
  <2>2. [Ask("event", owner) EXCEPT !.left = Parts] = Ask("event", owner)
    BY DEF Ask, Job, Free
  <2>3. /\ jobs[j] = Free /\ due' = paid[owner]
        /\ UNCHANGED <<owner, loaded, paid, slips>>
        /\ \A i \in Jobs : jobs'[i] = IF i = j THEN Ask("event", owner) ELSE jobs[i]
    BY <1>1, <2>2 DEF OnPayment, Announced, Basics
  <2>4. \A p \in Parts : Owes(jobs'[j], p, due')
    BY <2>3, FreshFields DEF Owes, Asking
  <2>5. due' <= paid'[owner']
    BY <2>1, <2>3 DEF Basics, FeedTypeOK, Counts
  <2>6. \A i \in Jobs : Refreshing(jobs[i]) => Refreshing(jobs'[i])
    BY <2>3, FreshFields DEF Refreshing
  <2>7. QED
    BY <2>1, <2>3, <2>4, <2>5, <2>6 DEF DueInv
<1>2. CASE OnRefresh(j)
  <2>1. owner \in Accounts
    BY <1>2 DEF OnRefresh, Basics, FeedTypeOK, MaybeAccounts
  <2>2. owner' = owner /\ paid' = paid /\ due' = paid[owner] /\ jobs'[j] = Ask("refresh", owner)
    BY <1>2 DEF OnRefresh, BeginRefresh, session, Basics
  <2>3. QED
    BY <2>1, <2>2, DueBegun
<1>3. ASSUME NEW p \in Parts, AnswerPart(j, p)
      PROVE  DueInv'
  <2> DEFINE w == Answered(jobs[j], p, paid[jobs[j].who])
  <2>1. paid[jobs[j].who] \in Counts /\ jobs[j].kind \in Asking
    BY <1>0, <1>3 DEF AnswerPart, Basics, FeedTypeOK, Tasks
  <2>2. /\ w.kind = jobs[j].kind /\ w.old = jobs[j].old /\ w.left = jobs[j].left
        /\ w.got = jobs[j].got \union {p} /\ w.view[p] = paid[jobs[j].who]
        /\ \A q \in Parts : q # p => w.view[q] = jobs[j].view[q]
    BY <1>0, <2>1, AnsweredFields
  <2>3. ~jobs[j].old => w.view[p] >= due
    BY <1>0, <2>1, <2>2 DEF OfOwner, DueInv, Basics, FeedTypeOK, Counts
  <2>4. \A q \in Parts : Owes(jobs[j], q, due) => Owes(w, q, due)
    BY <2>2, <2>3 DEF Owes
  <2>5. Refreshing(jobs[j]) => Refreshing(w)
    BY <2>2 DEF Refreshing
  <2>6. QED
    BY <1>3, <2>4, <2>5, DueKept DEF AnswerPart, session
<1>4. CASE EndRefresh(j)
  <2> SUFFICES ASSUME owner # Nobody
               PROVE  /\ due <= paid[owner]
                      /\ "missed" \notin slips' =>
                            \A p \in Parts : ShownEnough(p)' \/ \E i \in Jobs : Owes(jobs'[i], p, due)
    BY <1>4 DEF EndRefresh, DueInv
  <2>1. \A i \in Jobs : i # j => jobs'[i] = jobs[i]
    BY <1>4 DEF EndRefresh, Basics
  <2>2. jobs[j].kind \in Asking /\ jobs[j].got = Parts /\ Show(jobs[j], Parts)
        /\ owner' = owner /\ due' = due
    BY <1>4 DEF EndRefresh, Asking
  <2>3. QED
    BY <2>1, <2>2, DueShown DEF DueInv
<1>5. ASSUME NEW p \in Parts, ShowPart(j, p)
      PROVE  DueInv'
  <2>1. /\ jobs[j].kind = "event" /\ jobs[j].kind \in Asking /\ {p} \subseteq jobs[j].got
        /\ Show(jobs[j], {p}) /\ UNCHANGED <<owner, due, paid, loaded>>
        /\ \A i \in Jobs : jobs'[i] = IF i = j THEN Without(jobs[j], p) ELSE jobs[i]
    BY <1>5 DEF ShowPart, Asking, session, Basics
  <2> SUFFICES ASSUME owner # Nobody, "missed" \notin slips'
               PROVE  /\ \A q \in Parts : ShownEnough(q)' \/ \E i \in Jobs : Owes(jobs'[i], q, due)
                      /\ loaded \/ \E i \in Jobs : Refreshing(jobs'[i])
    BY <2>1 DEF DueInv
  <2>2. "missed" \notin slips /\ \A q \in Parts \ {p} : shown'[q] = shown[q]
    BY <1>0, <2>1, ShowDoes
  <2>3. ShownEnough(p)' \/ \E i \in Jobs : Owes(jobs'[i], p, due)
    BY <2>1, DueShown
  <2>4. ASSUME NEW q \in Parts, q # p
        PROVE  ShownEnough(q)' \/ \E i \in Jobs : Owes(jobs'[i], q, due)
    <3>1. ShownEnough(q) => ShownEnough(q)'
      BY <2>1, <2>2, <2>4 DEF ShownEnough
    <3>2. Owes(jobs[j], q, due) => Owes(Without(jobs[j], p), q, due)
      BY <1>0, <2>4, WithoutFields DEF Owes
    <3>3. QED
      BY <2>1, <2>2, <3>1, <3>2 DEF DueInv
  <2>5. \A i \in Jobs : Refreshing(jobs[i]) => Refreshing(jobs'[i])
    BY <2>1 DEF Refreshing
  <2>6. QED
    BY <2>2, <2>3, <2>4, <2>5 DEF DueInv
<1>6. ASSUME NEW p \in Parts, AskFails(j, p)
      PROVE  DueInv'
  <2>1. "missed" \in slips' /\ UNCHANGED <<owner, paid, due>>
    BY <1>6 DEF AskFails, Failed
  <2>2. QED
    BY <2>1 DEF DueInv
<1>7. QED
  BY <1>1, <1>2, <1>3, <1>4, <1>5, <1>6 DEF GetBalance, GetActivity, Parts

\* Every step leaves what is due shown, or owed.
LEMMA DueStep == Basics /\ Owners /\ DueInv /\ [FeedNext]_feedVars => DueInv'
<1> SUFFICES ASSUME Basics, Owners, DueInv, [FeedNext]_feedVars
             PROVE  DueInv'
  OBVIOUS
<1>1. ASSUME UNCHANGED <<owner, loaded, due, shown, paid, jobs, slips>>
      PROVE  DueInv'
  BY <1>1 DEF DueInv, ShownEnough
<1>2. ASSUME NEW a \in Accounts, PaymentLands(a)
      PROVE  DueInv'
  <2>1. /\ UNCHANGED <<owner, loaded, due, shown, jobs, slips>>
        /\ owner # Nobody => owner \in Accounts /\ paid[owner] \in Int /\ due \in Int
                             /\ paid'[owner] \in {paid[owner], paid[owner] + 1}
    BY <1>2, FeedBounds DEF PaymentLands, Basics, FeedTypeOK, MaybeAccounts, Counts
  <2>2. owner # Nobody => due <= paid'[owner]
    BY <2>1 DEF DueInv
  <2>3. QED
    BY <2>1, <2>2 DEF DueInv, ShownEnough
<1>3. ASSUME NEW j \in Jobs,
             \/ OnPayment(j) \/ OnRefresh(j) \/ GetBalance(j) \/ GetActivity(j) \/ EndRefresh(j)
             \/ \E p \in Parts : ShowPart(j, p) \/ AskFails(j, p)
      PROVE  DueInv'
  BY <1>3, DueAsking
<1>4. ASSUME NEW j \in Jobs,
             \/ GetContacts(j) \/ SaveContacts(j) \/ ShowContacts(j)
             \/ \E c \in Contacts : TouchStar(j, c)
      PROVE  DueInv'
  BY <1>4, DueRewriting
<1>5. ASSUME NEW a \in Accounts, NEW j \in Jobs, SetPublicKey(a, j)
      PROVE  DueInv'
  <2>1. owner' = a /\ paid' = paid /\ due' = paid[a] /\ jobs'[j] = Ask("refresh", a)
    BY <1>5 DEF SetPublicKey, BeginRefresh, Basics
  <2>2. QED
    BY <2>1, DueBegun
<1>6. CASE StartOpening
  BY <1>6 DEF StartOpening, DueInv
<1>7. CASE WipeAccount
  BY <1>7 DEF WipeAccount, ForgetAccount, DueInv
<1>8. ASSUME NEW a \in MaybeAccounts, NEW j \in Jobs, NEW k \in Jobs, Restart(a, j, k)
      PROVE  DueInv'
  <2>1. CASE a = Nobody
    BY <1>8, <2>1 DEF Restart, DueInv
  <2>2. CASE a # Nobody
    <3>1. /\ a \in Accounts /\ owner' = a /\ paid' = paid /\ due' = paid[a]
          /\ jobs'[k] = Ask("refresh", a)
      BY <1>8, <2>2 DEF Restart, MaybeAccounts
    <3>2. QED
      BY <3>1, DueBegun
  <2>3. QED
    BY <2>1, <2>2
<1>9. CASE StreamPayments \/ StreamDrops
  BY <1>1, <1>9 DEF StreamPayments, StreamDrops
<1>10. CASE UNCHANGED feedVars
  BY <1>1, <1>10 DEF feedVars, session
<1>11. QED
  BY <1>2, <1>3, <1>4, <1>5, <1>6, <1>7, <1>8, <1>9, <1>10 DEF FeedNext

\* When nothing is under way and neither a failure nor a crossing of answers has
\* come since a refresh made alone, the screen shows the balance and the activity of
\* the account, with every payment the stream has announced and every one that was
\* there when a refresh began.
THEOREM DueIsShown == FeedSpec => []ShownIsDue
<1>1. FeedInit => DueInv
  BY DEF FeedInit, DueInv
<1>2. DueInv => ShownIsDue
  <2> SUFFICES ASSUME DueInv, owner # Nobody, Calm, "missed" \notin slips
               PROVE  loaded /\ \A p \in Parts : shown[p].of = owner /\ shown[p].seen >= due
    BY DEF ShownIsDue
  <2>1. \A j \in Jobs : ~Refreshing(jobs[j]) /\ \A p \in Parts : ~Owes(jobs[j], p, due)
    BY DEF Calm, Refreshing, Owes, Asking
  <2>2. QED
    BY <2>1 DEF DueInv, ShownEnough
<1>3. QED
  BY <1>1, <1>2, InitFeed, FeedStepTypes, InitMine, OwnersStep, DueStep, PTL DEF FeedSpec

----------------------------------------------------------------------------
(* Which stars are lit *)

Odd(S) == Cardinality(S) % 2 = 1

\* The parity of a set turns with every element.
LEMMA OddTurns ==
    ASSUME NEW S, IsFiniteSet(S), NEW x
    PROVE  /\ x \notin S => (Odd(S \union {x}) <=> ~Odd(S))
           /\ x \in S => (Odd(S \ {x}) <=> ~Odd(S))
<1>1. Cardinality(S) \in Nat /\ (x \in S => Cardinality(S) # 0)
  BY FS_CardinalityType, FS_EmptySet
<1>2. /\ x \notin S => Cardinality(S \union {x}) = Cardinality(S) + 1
      /\ x \in S => Cardinality(S \ {x}) = Cardinality(S) - 1
  BY FS_AddElement, FS_RemoveElement
<1>3. \A n \in Nat : ((n + 1) % 2 = 1 <=> n % 2 # 1) /\ (n # 0 => ((n - 1) % 2 = 1 <=> n % 2 # 1))
  OBVIOUS
<1>4. QED
  BY <1>1, <1>2, <1>3 DEF Odd

\* The touches of c's star that have still to be saved.
Touches(w, c) == w.kind = "star" /\ ~w.old /\ w.at # "show" /\ c \in w.about
PendingOn(c) == {j \in Jobs : Touches(jobs[j], c)}

\* As long as no two rewritings have overlapped and none has failed: one job at most has
\* read the list, and what it has read, or saved, is the stored list ...
OneReader ==
    /\ \A i, j \in Jobs : jobs[i].at # "read" /\ jobs[j].at # "read" => i = j
    /\ \A j \in Jobs : ~jobs[j].old /\ jobs[j].at # "read" => jobs[j].list = store

\* ... which is shown, unless a job has still to show it ...
Showing(w) == ~w.old /\ (w.at = "show" \/ (w.kind = "boot" /\ w.at = "read"))
ShownStore == contacts = store \/ \E j \in Jobs : Showing(jobs[j])

\* ... and holds every contact that is shown or whose star is being turned; and each star
\* is lit as the user wants it, or will be when the pending touches have been saved.
StoredStars ==
    \A c \in Contacts :
        /\ contacts[c] # "no" \/ PendingOn(c) # {} => store[c] # "no"
        /\ c \in wanted <=> (store[c] = "star" <=> ~Odd(PendingOn(c)))

Clean == slips \cap {"lost", "leak"} = {}
StarInv == Clean => OneReader /\ ShownStore /\ StoredStars

\* How the pending touches change with one job.
LEMMA PendingStep ==
    ASSUME Basics, NEW j \in Jobs, NEW w, jobs' = [jobs EXCEPT ![j] = w], NEW c
    PROVE  /\ Touches(w, c) <=> Touches(jobs[j], c) => PendingOn(c)' = PendingOn(c)
           /\ Touches(w, c) /\ ~Touches(jobs[j], c) =>
                  PendingOn(c)' = PendingOn(c) \union {j} /\ (Odd(PendingOn(c))' <=> ~Odd(PendingOn(c)))
           /\ ~Touches(w, c) /\ Touches(jobs[j], c) =>
                  PendingOn(c)' = PendingOn(c) \ {j} /\ (Odd(PendingOn(c))' <=> ~Odd(PendingOn(c)))
<1>1. \A i \in Jobs : jobs'[i] = IF i = j THEN w ELSE jobs[i]
  BY DEF Basics
<1>2. PendingOn(c)' = {i \in Jobs : Touches(jobs'[i], c)}
  BY DEF PendingOn, Touches
<1>3. IsFiniteSet(PendingOn(c))
  BY JobsAssumption, FS_Subset DEF PendingOn
<1>4. Odd(PendingOn(c))' <=> Odd(PendingOn(c)')
  BY DEF Odd
<1>5. ASSUME Touches(w, c) <=> Touches(jobs[j], c)
      PROVE  PendingOn(c)' = PendingOn(c)
  BY <1>1, <1>2, <1>5 DEF PendingOn
<1>6. ASSUME Touches(w, c), ~Touches(jobs[j], c)
      PROVE  PendingOn(c)' = PendingOn(c) \union {j} /\ j \notin PendingOn(c)
  BY <1>1, <1>2, <1>6 DEF PendingOn
<1>7. ASSUME ~Touches(w, c), Touches(jobs[j], c)
      PROVE  PendingOn(c)' = PendingOn(c) \ {j} /\ j \in PendingOn(c)
  BY <1>1, <1>2, <1>7 DEF PendingOn
<1>8. QED
  BY <1>3, <1>4, <1>5, <1>6, <1>7, OddTurns

\* A job that rewrites no contacts, or none yet, leaves them and their stars alone.
LEMMA StarsUntouched ==
    ASSUME Basics, StarInv, UNCHANGED <<store, contacts, wanted>>, slips \subseteq slips' \union {"missed"},
           NEW j \in Jobs, NEW w, jobs' = [jobs EXCEPT ![j] = w],
           w.at = "read", w.kind \notin {"star", "boot"}, jobs[j].kind \notin Rewriting
    PROVE  StarInv'
<1> SUFFICES ASSUME Clean'
             PROVE  OneReader' /\ ShownStore' /\ StoredStars'
  BY DEF StarInv
<1>1. Clean /\ OneReader /\ ShownStore /\ StoredStars
  BY DEF StarInv, Clean
<1>2. \A i \in Jobs : jobs'[i] = IF i = j THEN w ELSE jobs[i]
  BY DEF Basics
<1>3. jobs[j] \in Tasks /\ jobs[j].at = "read"
  BY DEF Basics, Tasks
<1>4. OneReader'
  BY <1>1, <1>2 DEF OneReader
<1>5. ShownStore'
  BY <1>1, <1>2, <1>3 DEF ShownStore, Showing, Rewriting
<1>6. \A c \in Contacts : PendingOn(c)' = PendingOn(c)
  BY PendingStep DEF Touches, Rewriting
<1>7. \A c \in Contacts : Odd(PendingOn(c))' <=> Odd(PendingOn(c))
  BY <1>6 DEF Odd
<1>8. StoredStars'
  BY <1>1, <1>6, <1>7 DEF StoredStars
<1>9. QED
  BY <1>4, <1>5, <1>8

\* A touch of a star.
LEMMA TouchStars ==
    ASSUME Basics, StarInv, NEW j \in Jobs, NEW c \in Contacts, TouchStar(j, c)
    PROVE  StarInv'
<1> SUFFICES ASSUME Clean'
             PROVE  OneReader' /\ ShownStore' /\ StoredStars'
  BY DEF StarInv
<1>1. Clean /\ OneReader /\ ShownStore /\ StoredStars
  BY DEF StarInv, Clean, TouchStar
<1> DEFINE w == [Job("star", owner) EXCEPT !.about = {c}]
<1>2. \A i \in Jobs : jobs'[i] = IF i = j THEN w ELSE jobs[i]
  BY DEF Basics, TouchStar
<1>3. w.kind = "star" /\ ~w.old /\ w.at = "read" /\ w.about = {c}
  BY DEF Job, Free
<1>4. jobs[j] = Free /\ jobs[j].kind = "none" /\ jobs[j].at = "read"
  BY FreshFields DEF TouchStar
<1>5. OneReader'
  BY <1>1, <1>2, <1>3 DEF OneReader, TouchStar
<1>6. ShownStore'
  BY <1>1, <1>2, <1>4 DEF ShownStore, Showing, TouchStar
<1>7. ASSUME NEW d \in Contacts, d # c
      PROVE  PendingOn(d)' = PendingOn(d) /\ (Odd(PendingOn(d))' <=> Odd(PendingOn(d)))
  <2>1. ~Touches(w, d) /\ ~Touches(jobs[j], d)
    BY <1>3, <1>4, <1>7 DEF Touches
  <2>2. PendingOn(d)' = PendingOn(d)
    BY <2>1, PendingStep DEF TouchStar
  <2>3. QED
    BY <2>2 DEF Odd
<1>8. Odd(PendingOn(c))' <=> ~Odd(PendingOn(c))
  <2>1. Touches(w, c) /\ ~Touches(jobs[j], c)
    BY <1>3, <1>4 DEF Touches
  <2>2. QED
    BY <2>1, PendingStep DEF TouchStar
<1>9. /\ c \in wanted' <=> c \notin wanted
      /\ \A d \in Contacts \ {c} : d \in wanted' <=> d \in wanted
      /\ UNCHANGED <<store, contacts>> /\ contacts[c] # "no"
  BY DEF TouchStar
<1>10. StoredStars'
  <2>1. ASSUME NEW d \in Contacts, d # c
        PROVE  /\ contacts[d] # "no" \/ PendingOn(d)' # {} => store[d] # "no"
               /\ d \in wanted' <=> (store[d] = "star" <=> ~Odd(PendingOn(d))')
    BY <1>1, <1>7, <1>9, <2>1 DEF StoredStars
  <2>2. store[c] # "no" /\ (c \in wanted' <=> (store[c] = "star" <=> ~Odd(PendingOn(c))'))
    BY <1>1, <1>8, <1>9 DEF StoredStars
  <2>3. QED
    BY <1>9, <2>1, <2>2 DEF StoredStars
<1>11. QED
  BY <1>5, <1>6, <1>10

\* A list is read.
LEMMA ReadStars ==
    ASSUME Basics, StarInv, NEW j \in Jobs, GetContacts(j)
    PROVE  StarInv'
<1> SUFFICES ASSUME Clean'
             PROVE  OneReader' /\ ShownStore' /\ StoredStars'
  BY DEF StarInv
<1>1. PICK list \in {store, NoContacts} :
          /\ jobs' = [jobs EXCEPT ![j] = HavingRead(jobs[j], list)]
          /\ slips' = slips \union {s \in {"lost"} : list # store \/ Overlapped(j)}
  BY DEF GetContacts
<1>2. list = store /\ ~Overlapped(j) /\ Clean
  BY <1>1 DEF Clean
<1>3. OneReader /\ ShownStore /\ StoredStars
  BY <1>2 DEF StarInv
<1> DEFINE w == HavingRead(jobs[j], store)
<1>4. jobs[j] \in Tasks /\ jobs[j].kind \in Rewriting /\ store \in Lists /\ jobs[j].at = "read"
      /\ UNCHANGED <<store, contacts, wanted>>
  BY DEF Basics, FeedTypeOK, GetContacts, book
<1>5. /\ w.kind = jobs[j].kind /\ w.old = jobs[j].old /\ w.about = jobs[j].about
      /\ w.list = store /\ w.at = IF jobs[j].kind = "boot" THEN "show" ELSE "save"
  BY <1>4, ReadFields
<1>6. \A i \in Jobs : jobs'[i] = IF i = j THEN w ELSE jobs[i]
  BY <1>1, <1>2 DEF Basics
<1>7. \A i \in Jobs \ {j} : jobs[i].at = "read"
  BY <1>2 DEF Overlapped, Basics, Tasks
<1>8. OneReader'
  BY <1>4, <1>5, <1>6, <1>7 DEF OneReader
<1>9. ShownStore'
  <2>1. Showing(jobs[j]) => Showing(w)
    BY <1>4, <1>5 DEF Showing
  <2>2. QED
    BY <1>3, <1>4, <1>6, <2>1 DEF ShownStore
<1>10. ASSUME NEW c \in Contacts
       PROVE  PendingOn(c)' = PendingOn(c) /\ (Odd(PendingOn(c))' <=> Odd(PendingOn(c)))
  <2>1. Touches(w, c) <=> Touches(jobs[j], c)
    BY <1>4, <1>5 DEF Touches
  <2>2. jobs' = [jobs EXCEPT ![j] = w]
    BY <1>1, <1>2
  <2>3. PendingOn(c)' = PendingOn(c)
    BY <2>1, <2>2, PendingStep
  <2>4. QED
    BY <2>3 DEF Odd
<1>11. StoredStars'
  BY <1>3, <1>4, <1>10 DEF StoredStars
<1>12. QED
  BY <1>8, <1>9, <1>11

\* A merge leaves stars alone, a touch turns the stars it is about, and no contact is lost.
LEMMA RewrittenStars ==
    ASSUME NEW w \in Tasks, NEW c \in Contacts
    PROVE  /\ w.list[c] # "no" => Rewritten(w)[c] # "no"
           /\ ~(w.kind = "star" /\ c \in w.about) => (Rewritten(w)[c] = "star" <=> w.list[c] = "star")
           /\ w.kind = "star" /\ c \in w.about /\ w.list[c] # "no" =>
                  (Rewritten(w)[c] = "star" <=> w.list[c] # "star")
<1>1. w.list[c] \in {"no", "plain", "star"}
  BY DEF Tasks, Works, Lists, Marks
<1>2. QED
  BY <1>1 DEF Rewritten

\* A list is saved.
LEMMA SaveStars ==
    ASSUME Basics, StarInv, NEW j \in Jobs, SaveContacts(j)
    PROVE  StarInv'
<1> SUFFICES ASSUME Clean'
             PROVE  OneReader' /\ ShownStore' /\ StoredStars'
  BY DEF StarInv
<1>1. /\ jobs[j].at = "save" /\ jobs' = [jobs EXCEPT ![j] = HavingSaved(jobs[j])]
      /\ UNCHANGED <<contacts, wanted>>
      /\ store' = Rewritten(jobs[j]) /\ ~jobs[j].old /\ Clean
  BY DEF SaveContacts, Clean
<1>2. OneReader /\ ShownStore /\ StoredStars
  BY <1>1 DEF StarInv
<1> DEFINE w == HavingSaved(jobs[j])
<1>3. jobs[j] \in Tasks /\ jobs[j].kind \in Rewriting
  BY <1>1 DEF Basics, Tasks
<1>4. w.old = jobs[j].old /\ w.at = "show" /\ w.list = store' /\ w.kind = jobs[j].kind
  BY <1>1, <1>3, SavedFields
<1>5. \A i \in Jobs : jobs'[i] = IF i = j THEN w ELSE jobs[i]
  BY <1>1 DEF Basics
<1>6. jobs[j].list = store /\ \A i \in Jobs \ {j} : jobs[i].at = "read"
  BY <1>1, <1>2 DEF OneReader
<1>7. OneReader'
  BY <1>4, <1>5, <1>6 DEF OneReader
<1>8. ShownStore'
  BY <1>1, <1>4, <1>5 DEF ShownStore, Showing
<1>9. ASSUME NEW c \in Contacts
      PROVE  /\ contacts[c] # "no" \/ PendingOn(c)' # {} => store'[c] # "no"
             /\ c \in wanted <=> (store'[c] = "star" <=> ~Odd(PendingOn(c))')
  <2>1. ~Touches(w, c)
    BY <1>4 DEF Touches
  <2>2. Touches(jobs[j], c) <=> jobs[j].kind = "star" /\ c \in jobs[j].about
    BY <1>1 DEF Touches
  <2>3. CASE Touches(jobs[j], c)
    <3>1. PendingOn(c)' = PendingOn(c) \ {j} /\ (Odd(PendingOn(c))' <=> ~Odd(PendingOn(c)))
      BY <1>1, <2>1, <2>3, PendingStep
    <3>2. j \in PendingOn(c)
      BY <2>3 DEF PendingOn
    <3>3. store[c] # "no"
      BY <1>2, <3>2 DEF StoredStars
    <3>4. store'[c] # "no" /\ (store'[c] = "star" <=> store[c] # "star")
      BY <1>1, <1>3, <1>6, <2>2, <2>3, <3>3, RewrittenStars
    <3>5. QED
      BY <1>2, <3>1, <3>4 DEF StoredStars
  <2>4. CASE ~Touches(jobs[j], c)
    <3>1. PendingOn(c)' = PendingOn(c)
      BY <1>1, <2>1, <2>4, PendingStep
    <3>2. Odd(PendingOn(c))' <=> Odd(PendingOn(c))
      BY <3>1 DEF Odd
    <3>3. (store[c] # "no" => store'[c] # "no") /\ (store'[c] = "star" <=> store[c] = "star")
      BY <1>1, <1>3, <1>6, <2>2, <2>4, RewrittenStars
    <3>4. QED
      BY <1>2, <3>1, <3>2, <3>3 DEF StoredStars
  <2>5. QED
    BY <2>3, <2>4
<1>10. StoredStars'
  BY <1>1, <1>9 DEF StoredStars
<1>11. QED
  BY <1>7, <1>8, <1>10

\* A list is shown.
LEMMA ShowStars ==
    ASSUME Basics, StarInv, NEW j \in Jobs, ShowContacts(j)
    PROVE  StarInv'
<1> SUFFICES ASSUME Clean'
             PROVE  OneReader' /\ ShownStore' /\ StoredStars'
  BY DEF StarInv
<1>1. /\ jobs[j].at = "show" /\ jobs' = [jobs EXCEPT ![j] = Free] /\ contacts' = jobs[j].list
      /\ UNCHANGED <<store, wanted>> /\ ~jobs[j].old /\ Clean
  BY DEF ShowContacts, Clean
<1>2. OneReader /\ ShownStore /\ StoredStars
  BY <1>1 DEF StarInv
<1>3. \A i \in Jobs : jobs'[i] = IF i = j THEN Free ELSE jobs[i]
  BY <1>1 DEF Basics
<1>4. contacts' = store
  BY <1>1, <1>2 DEF OneReader
<1>5. OneReader'
  BY <1>1, <1>2, <1>3, FreshFields DEF OneReader
<1>6. ShownStore'
  BY <1>1, <1>4 DEF ShownStore
<1>7. ASSUME NEW c \in Contacts
      PROVE  PendingOn(c)' = PendingOn(c) /\ (Odd(PendingOn(c))' <=> Odd(PendingOn(c)))
  <2>1. ~Touches(Free, c) /\ ~Touches(jobs[j], c)
    BY <1>1, FreshFields DEF Touches
  <2>2. PendingOn(c)' = PendingOn(c)
    BY <1>1, <2>1, PendingStep
  <2>3. QED
    BY <2>2 DEF Odd
<1>8. StoredStars'
  BY <1>1, <1>2, <1>4, <1>7 DEF StoredStars
<1>9. QED
  BY <1>5, <1>6, <1>8

\* No pending touch: no star is to be turned.
LEMMA NonePending ==
    ASSUME NEW c, PendingOn(c) = {}
    PROVE  ~Odd(PendingOn(c))
BY FS_EmptySet DEF Odd

\* The phone forgets the account, or starts again: no touch is pending any more.
LEMMA AccountStars ==
    ASSUME Basics, StarInv,
           WipeAccount \/ \E a \in MaybeAccounts, j, k \in Jobs : Restart(a, j, k)
    PROVE  StarInv'
<1> SUFFICES ASSUME Clean'
             PROVE  OneReader' /\ ShownStore' /\ StoredStars'
  BY DEF StarInv
<1>0. \A j \in Jobs : jobs[j] \in Tasks
  BY DEF Basics
<1>1. ASSUME \A j \in Jobs : jobs'[j].kind # "star" \/ jobs'[j].old, NEW c
      PROVE  PendingOn(c)' = {} /\ ~(Odd(PendingOn(c))')
  <2>1. PendingOn(c)' = {}
    BY <1>1 DEF PendingOn, Touches
  <2>2. ~Odd({})
    BY FS_EmptySet DEF Odd
  <2>3. QED
    BY <2>1, <2>2 DEF Odd
<1>2. CASE WipeAccount
  <2>1. /\ store' = NoContacts /\ contacts' = NoContacts /\ wanted' = {} /\ Clean
        /\ \A j \in Jobs : jobs'[j] = Outlived(jobs[j])
    BY <1>2 DEF WipeAccount, ForgetAccount, Clean
  <2>2. \A j \in Jobs : jobs'[j].at = jobs[j].at /\ (jobs'[j] = Free \/ jobs'[j].old)
    BY <1>0, <2>1, OutlivedFields
  <2>3. OneReader
    BY <2>1 DEF StarInv
  <2>4. OneReader'
    BY <2>2, <2>3, FreshFields DEF OneReader
  <2>5. ShownStore'
    BY <2>1 DEF ShownStore
  <2>6. \A j \in Jobs : jobs'[j].kind # "star" \/ jobs'[j].old
    BY <2>2, FreshFields
  <2>7. StoredStars'
    BY <1>1, <2>1, <2>6 DEF StoredStars, NoContacts
  <2>8. QED
    BY <2>4, <2>5, <2>7
<1>3. ASSUME NEW a \in MaybeAccounts, NEW j \in Jobs, NEW k \in Jobs, Restart(a, j, k)
      PROVE  OneReader' /\ ShownStore' /\ StoredStars'
  <2>1. /\ UNCHANGED <<store, wanted>> /\ contacts' = NoContacts /\ j # k
        /\ jobs' = [i \in Jobs |-> IF i = j THEN Job("boot", a)
                                   ELSE IF i = k /\ a # Nobody THEN Ask("refresh", a) ELSE Free]
        /\ slips' = (slips \ {"missed", "stray"})
               \union {s \in {"lost"} : \E i \in Jobs : jobs[i].kind = "star" /\ jobs[i].at # "show"}
    BY <1>3 DEF Restart
  <2>2. Clean /\ \A i \in Jobs : jobs[i].kind # "star" \/ jobs[i].at = "show"
    BY <2>1 DEF Clean
  <2>3. \A i \in Jobs : /\ jobs'[i].at = "read" /\ jobs'[i].kind # "star"
                        /\ i = j => jobs'[i].kind = "boot" /\ ~jobs'[i].old
    BY <2>1, FreshFields
  <2>4. OneReader'
    BY <2>3 DEF OneReader
  <2>5. ShownStore'
    BY <2>3 DEF ShownStore, Showing
  <2>6. ASSUME NEW c \in Contacts
        PROVE  c \in wanted <=> store[c] = "star"
    <3>1. PendingOn(c) = {}
      BY <2>2 DEF PendingOn, Touches
    <3>2. QED
      BY <2>2, <3>1, NonePending DEF StarInv, StoredStars
  <2>7. StoredStars'
    BY <1>1, <2>1, <2>3, <2>6 DEF StoredStars, NoContacts
  <2>8. QED
    BY <2>4, <2>5, <2>7
<1>4. QED
  BY <1>2, <1>3

\* Every step keeps the stars.
LEMMA StarStep == Basics /\ StarInv /\ [FeedNext]_feedVars => StarInv'
<1> SUFFICES ASSUME Basics, StarInv, [FeedNext]_feedVars
             PROVE  StarInv'
  OBVIOUS
<1>1. ASSUME UNCHANGED <<book, jobs>>, slips \subseteq slips'
      PROVE  StarInv'
  <2> SUFFICES ASSUME Clean'
               PROVE  OneReader' /\ ShownStore' /\ StoredStars'
    BY DEF StarInv
  <2>1. Clean /\ OneReader /\ ShownStore /\ StoredStars
    BY <1>1 DEF StarInv, Clean
  <2>2. \A c : PendingOn(c)' = PendingOn(c)
    BY <1>1 DEF PendingOn, Touches
  <2>3. \A c : Odd(PendingOn(c))' <=> Odd(PendingOn(c))
    BY <2>2 DEF Odd
  <2>4. OneReader' /\ ShownStore'
    BY <1>1, <2>1 DEF OneReader, ShownStore, Showing, book
  <2>5. StoredStars'
    BY <1>1, <2>1, <2>2, <2>3 DEF StoredStars, book
  <2>6. QED
    BY <2>4, <2>5
<1>2. ASSUME NEW j \in Jobs,
             \/ OnPayment(j) \/ OnRefresh(j) \/ GetBalance(j) \/ GetActivity(j) \/ EndRefresh(j)
             \/ \E p \in Parts : ShowPart(j, p) \/ AskFails(j, p)
      PROVE  StarInv'
  <2>1. PICK w \in Tasks :
            /\ jobs' = [jobs EXCEPT ![j] = w] /\ w.at = "read" /\ w.kind \notin {"star", "boot"}
            /\ jobs[j].kind \notin Rewriting
            /\ UNCHANGED <<store, contacts, wanted>> /\ slips \subseteq slips' \union {"missed"}
    BY <1>2, AskDoes
  <2>2. QED
    BY <2>1, StarsUntouched
<1>3. ASSUME NEW a \in Accounts, NEW j \in Jobs, SetPublicKey(a, j)
      PROVE  StarInv'
  <2>1. /\ jobs' = [jobs EXCEPT ![j] = Ask("refresh", a)] /\ jobs[j] = Free
        /\ UNCHANGED <<store, contacts, wanted>> /\ slips \subseteq slips' \union {"missed"}
    BY <1>3 DEF SetPublicKey, BeginRefresh, book
  <2>2. /\ Ask("refresh", a).at = "read" /\ Ask("refresh", a).kind \notin {"star", "boot"}
        /\ jobs[j].kind \notin Rewriting
    BY <2>1, FreshFields DEF Rewriting
  <2>3. QED
    BY <2>1, <2>2, StarsUntouched
<1>4. ASSUME NEW j \in Jobs, GetContacts(j) \/ SaveContacts(j) \/ ShowContacts(j)
      PROVE  StarInv'
  BY <1>4, ReadStars, SaveStars, ShowStars
<1>5. ASSUME NEW j \in Jobs, NEW c \in Contacts, TouchStar(j, c)
      PROVE  StarInv'
  BY <1>5, TouchStars
<1>6. CASE WipeAccount \/ \E a \in MaybeAccounts, j, k \in Jobs : Restart(a, j, k)
  BY <1>6, AccountStars
<1>7. ASSUME NEW a \in Accounts, PaymentLands(a)
      PROVE  StarInv'
  BY <1>1, <1>7 DEF PaymentLands
<1>8. CASE StreamPayments \/ StreamDrops \/ StartOpening
  BY <1>1, <1>8 DEF StreamPayments, StreamDrops, StartOpening
<1>9. CASE UNCHANGED feedVars
  BY <1>1, <1>9 DEF feedVars
<1>10. QED
  BY <1>2, <1>3, <1>4, <1>5, <1>6, <1>7, <1>8, <1>9 DEF FeedNext

\* At the start there are no contacts and no stars.
LEMMA InitStars == FeedInit => StarInv
<1> SUFFICES ASSUME FeedInit PROVE OneReader /\ ShownStore /\ StoredStars
  BY DEF StarInv
<1>1. \A j \in Jobs : jobs[j].kind = "none" /\ jobs[j].at = "read"
  BY FreshFields DEF FeedInit
<1>2. \A c \in Contacts : PendingOn(c) = {}
  BY <1>1 DEF PendingOn, Touches
<1>3. contacts = NoContacts /\ store = NoContacts /\ wanted = {}
  BY DEF FeedInit
<1>4. OneReader /\ ShownStore
  BY <1>1, <1>3 DEF OneReader, ShownStore
<1>5. StoredStars
  BY <1>2, <1>3, NonePending DEF StoredStars, NoContacts
<1>6. QED
  BY <1>4, <1>5

\* When no rewriting of the contacts is under way, the contacts shown are the stored
\* ones and their stars those the user has lit, unless two rewritings overlapped, or
\* one could not read or save the list.
THEOREM StarsStay == FeedSpec => []StarsKept
<1>1. Basics /\ StarInv => StarsKept
  <2> SUFFICES ASSUME Basics, StarInv, Still, slips \cap {"lost", "leak"} = {}
               PROVE  contacts = store /\ Lit(store) = wanted
    BY DEF StarsKept
  <2>1. OneReader /\ ShownStore /\ StoredStars
    BY DEF StarInv, Clean
  <2>2. \A j \in Jobs : ~Showing(jobs[j]) /\ jobs[j].kind # "star"
    BY DEF Still, Basics, Tasks, Showing, Rewriting
  <2>3. \A c \in Contacts : PendingOn(c) = {}
    BY <2>2 DEF PendingOn, Touches
  <2>4. \A c \in Contacts : c \in wanted <=> store[c] = "star"
    BY <2>1, <2>3, NonePending DEF StoredStars
  <2>5. wanted \in SUBSET Contacts
    BY DEF Basics, FeedTypeOK
  <2>6. QED
    BY <2>1, <2>2, <2>4, <2>5 DEF ShownStore, Lit
<1>2. QED
  BY <1>1, InitFeed, FeedStepTypes, InitStars, StarStep, PTL DEF FeedSpec
=============================================================================
