--------------------------- MODULE PasscodeProofs ---------------------------
(***************************************************************************)
(* For any passcodes, any limit of tries and any number of locks, crashes  *)
(* and lost calls: the state stays well typed, the pad locks after         *)
(* MAX_ATTEMPTS wrong passcodes in a row, every flow that waits for the    *)
(* lock screen can be answered unless a closure came back late, and the    *)
(* passcode of the phone is the account's recovery passcode.               *)
(***************************************************************************)
EXTENDS Passcode, TLAPS

----------------------------------------------------------------------------
(* What the helpers of the screen return. *)

\* A lock that is presented is well typed, and the last one.
LEMMA PresentType ==
    ASSUME TypeOK, NEW done, NEW flow \in {"gate", "act", "change", "close", "new", "setup"},
           NEW mode \in {"unlock", "confirm", "create"}, NEW prior \in MaybePins,
           PresentAfter(done, flow, mode, prior)
    PROVE  /\ locks' \in 1 .. MaxLocks /\ active' \in Locks /\ waiting' \subseteq 1 .. locks'
           /\ first' \in MaybePins
<1>1. locks' = locks + 1 /\ locks' \in 1 .. MaxLocks
  BY PadAssumption DEF PresentAfter, TypeOK
<1>2. active' \in Locks
  BY <1>1 DEF PresentAfter, Locks
<1>3. waiting' \subseteq 1 .. locks'
  <2>1. locks \in Nat /\ waiting \subseteq 1 .. locks
    BY PadAssumption DEF TypeOK
  <2>2. 1 .. locks \subseteq 1 .. locks' /\ locks' \in 1 .. locks'
    BY <1>1, <2>1
  <2>3. waiting' \subseteq waiting \cup {locks'}
    BY DEF PresentAfter
  <2>4. QED
    BY <2>1, <2>2, <2>3
<1>4. QED
  BY <1>1, <1>2, <1>3 DEF PresentAfter, MaybePins

\* No lock is shown: a well-typed value as well.
LEMMA NoLockType == NoLock \in Locks
BY PadAssumption DEF NoLock, Locks, MaybePins

\* An answer keeps the screen and the memory well typed.
LEMMA ResolveType ==
    ASSUME TypeOK, NEW ask \in Locks, NEW ok \in BOOLEAN, NEW captured \in MaybePins,
           NEW others, Resolve(ask, ok, captured, others)
    PROVE  /\ locks' \in 0 .. MaxLocks /\ active' \in Locks /\ waiting' \subseteq 1 .. locks'
           /\ first' \in MaybePins /\ last' \in MaybePins
           /\ gate' \in {"off", "asking", "shut", "open"} /\ overtaken' \in BOOLEAN
<1>1. CASE ask.id \in waiting /\ ok /\ ask.flow = "change"
  <2>1. PresentAfter({ask.id}, "new", "create", captured)
    BY <1>1 DEF Resolve
  <2>2. /\ locks' \in 1 .. MaxLocks /\ active' \in Locks /\ waiting' \subseteq 1 .. locks'
        /\ first' \in MaybePins
    BY <2>1, PresentType
  <2>3. /\ last' \in MaybePins /\ gate' \in {"off", "asking", "shut", "open"}
        /\ overtaken' \in BOOLEAN
    BY DEF Resolve, TypeOK, MaybePins
  <2>4. QED
    BY <2>2, <2>3, PadAssumption
<1>2. CASE ~(ask.id \in waiting /\ ok /\ ask.flow = "change")
  <2>1. active' = NoLock /\ waiting' = waiting \ {ask.id} /\ UNCHANGED <<locks, first>>
    BY <1>2 DEF Resolve
  <2>2. /\ last' \in MaybePins /\ gate' \in {"off", "asking", "shut", "open"}
        /\ overtaken' \in BOOLEAN
    BY DEF Resolve, TypeOK, MaybePins
  <2>3. QED
    BY <2>1, <2>2, NoLockType DEF TypeOK
<1>3. QED
  BY <1>1, <1>2

\* A lock of ensureUnlocked is well typed.
LEMMA UnlockType ==
    ASSUME TypeOK, NEW flow \in {"gate", "act"}, EnsureUnlocked(flow)
    PROVE  /\ locks' \in 1 .. MaxLocks /\ active' \in Locks /\ waiting' \subseteq 1 .. locks'
           /\ first' \in MaybePins
BY PresentType DEF EnsureUnlocked, Present, MaybePins

----------------------------------------------------------------------------
\* The type invariant holds initially.
LEMMA InitType == Init => TypeOK
<1> SUFFICES ASSUME Init PROVE TypeOK
  OBVIOUS
<1>1. active \in Locks /\ locks \in 0 .. MaxLocks /\ waiting \subseteq 1 .. locks
  BY PadAssumption, NoLockType DEF Init
<1>2. tries \in 0 .. MaxAttempts - 1 /\ wrongs \in Nat /\ faults \in 0 .. MaxFaults
  BY PadAssumption DEF Init
<1>3. QED
  BY <1>1, <1>2 DEF Init, TypeOK, MaybePins

\* The flows that ask keep the types.
LEMMA FlowsType ==
    ASSUME TypeOK,
           \/ Onboard \/ Authenticate \/ Act \/ Confirm("change") \/ Confirm("close")
           \/ Recover
    PROVE  TypeOK'
<1> USE DEF TypeOK, store, screen, closures, memory, past
<1>1. CASE Onboard
  <2>1. /\ locks' \in 1 .. MaxLocks /\ active' \in Locks /\ waiting' \subseteq 1 .. locks'
        /\ first' \in MaybePins
    BY <1>1, PresentType DEF Onboard, Present, MaybePins
  <2>2. QED
    BY <1>1, <2>1 DEF Onboard
<1>2. CASE Authenticate
  <2>1. CASE home = "here"
    BY <1>2, <2>1, UnlockType DEF Authenticate
  <2>2. CASE home # "here"
    BY <1>2, <2>2 DEF Authenticate
  <2>3. QED
    BY <2>1, <2>2
<1>3. CASE Act
  BY <1>3, UnlockType DEF Act
<1>4. ASSUME NEW flow \in {"change", "close"}, Confirm(flow) PROVE TypeOK'
  <2>1. /\ locks' \in 1 .. MaxLocks /\ active' \in Locks /\ waiting' \subseteq 1 .. locks'
        /\ first' \in MaybePins
    <3>1. \/ PresentAfter({}, flow, "confirm", NoPin)
          \/ PresentAfter({}, "new", "create", NoPin)
      BY <1>4 DEF Confirm, Present
    <3>2. NoPin \in MaybePins
      BY DEF MaybePins
    <3>3. CASE PresentAfter({}, flow, "confirm", NoPin)
      BY <3>2, <3>3, PresentType
    <3>4. CASE PresentAfter({}, "new", "create", NoPin)
      BY <3>2, <3>4, PresentType
    <3>5. QED
      BY <3>1, <3>3, <3>4
  <2>2. QED
    BY <1>4, <2>1 DEF Confirm
<1>5. CASE Recover
  <2> PICK p \in Pins : Setup(p)
    BY <1>5 DEF Recover
  <2>1. CASE code = NoPin
    <3>1. PresentAfter({}, "setup", "create", p)
      BY <2>1 DEF Setup, Present
    <3>2. /\ locks' \in 1 .. MaxLocks /\ active' \in Locks /\ waiting' \subseteq 1 .. locks'
          /\ first' \in MaybePins
      BY <3>1, PresentType DEF MaybePins
    <3>3. slip' \in BOOLEAN
      BY <1>5 DEF Recover
    <3>4. QED
      BY <1>5, <3>2, <3>3 DEF Recover
  <2>2. CASE code # NoPin
    <3>1. slip' \in BOOLEAN
      BY <1>5 DEF Recover
    <3>2. QED
      BY <1>5, <2>2, <3>1 DEF Recover, Setup
  <2>3. QED
    BY <2>1, <2>2
<1>6. QED
  BY <1>1, <1>2, <1>3, <1>4, <1>5

\* The lock screen keeps the types.
LEMMA ScreenType ==
    ASSUME TypeOK,
           \/ BioChecked \/ AutoPass \/ PressBio \/ Cancel
           \/ \E ask \in prompts, ok \in BOOLEAN : BioAnswer(ask, ok)
           \/ \E p \in Pins : Type(p)
    PROVE  TypeOK'
<1> USE DEF TypeOK, store, screen, closures, memory, past
<1>1. CASE BioChecked
  BY <1>1 DEF BioChecked
<1>2. CASE AutoPass
  BY <1>2, ResolveType DEF AutoPass
<1>3. CASE PressBio
  BY <1>3 DEF PressBio
<1>4. CASE Cancel
  BY <1>4, ResolveType DEF Cancel
<1>5. ASSUME NEW ask \in prompts, NEW ok \in BOOLEAN, BioAnswer(ask, ok)
      PROVE  TypeOK'
  <2>1. CASE ok
    BY <1>5, <2>1, ResolveType DEF BioAnswer
  <2>2. CASE ~ok
    <3>1. /\ prompts' \subseteq prompts
          /\ UNCHANGED <<screen, memory, overtaken>>
          /\ UNCHANGED <<pin, store, typed, checks, bioKey, sent, wrongs, slip, faults>>
      BY <1>5, <2>2 DEF BioAnswer
    <3> QED
      BY <3>1
  <2>3. QED
    BY <2>1, <2>2
<1>6. ASSUME NEW p \in Pins, Type(p) PROVE TypeOK'
  <2>1. [ask |-> active, first |-> first, digits |-> p]
           \in [ask : Locks, first : MaybePins, digits : Pins]
    OBVIOUS
  <2>2. QED
    BY <1>6, <2>1 DEF Type
<1>7. QED
  BY <1>1, <1>2, <1>3, <1>4, <1>5, <1>6

\* What a complete passcode starts is well typed.
LEMMA HandleType ==
    ASSUME TypeOK, NEW t \in typed, Handle(t)
    PROVE  /\ checks' \subseteq [ask : Locks, digits : Pins, kind : {"right", "open", "wrong", "set"},
                                 fails : 0 .. MaxAttempts - 1]
           /\ first' \in MaybePins /\ salt' \in {"none", "own", "other"}
<1> USE DEF TypeOK
<1>1. t \in [ask : Locks, first : MaybePins, digits : Pins]
  OBVIOUS
<1>2. ASSUME NEW kind \in {"right", "open", "wrong", "set"}, NEW fails \in 0 .. MaxAttempts - 1
      PROVE  CheckOf(t, kind, fails)
                \in [ask : Locks, digits : Pins, kind : {"right", "open", "wrong", "set"},
                     fails : 0 .. MaxAttempts - 1]
  BY <1>1 DEF CheckOf
<1>3. CASE t.ask.mode # "create"
  <2>1. \/ checks' = checks
        \/ \E kind \in {"right", "open", "wrong"} : checks' = checks \cup {CheckOf(t, kind, tries)}
    BY <1>3 DEF Handle, Verdict
  <2>2. UNCHANGED <<first, salt>>
    BY <1>3 DEF Handle
  <2>3. \A kind \in {"right", "open", "wrong"} : CheckOf(t, kind, tries)
           \in [ask : Locks, digits : Pins, kind : {"right", "open", "wrong", "set"},
                fails : 0 .. MaxAttempts - 1]
    BY <1>2
  <2>4. QED
    BY <2>1, <2>2, <2>3
<1>4. CASE t.ask.mode = "create" /\ t.first = t.digits
  <2>1. checks' = checks \cup {CheckOf(t, "set", 0)} /\ salt' = "other" /\ UNCHANGED first
    BY <1>4 DEF Handle
  <2>2. CheckOf(t, "set", 0) \in [ask : Locks, digits : Pins, kind : {"right", "open", "wrong", "set"},
                                  fails : 0 .. MaxAttempts - 1]
    BY <1>2, PadAssumption
  <2>3. QED
    BY <2>1, <2>2
<1>5. CASE t.ask.mode = "create" /\ t.first # t.digits
  <2>1. UNCHANGED <<checks, salt>> /\ first' \in {t.digits, NoPin}
    BY <1>5 DEF Handle
  <2>2. QED
    BY <1>1, <2>1 DEF MaybePins
<1>6. QED
  BY <1>3, <1>4, <1>5

\* The closures behind the digits keep the types.
LEMMA ClosuresType ==
    ASSUME TypeOK,
           \/ \E t \in typed : OnComplete(t)
           \/ \E t \in checks : Right(t) \/ WrongTry(t) \/ SetPin(t)
    PROVE  TypeOK'
<1> USE PadAssumption DEF TypeOK, store, screen, closures, memory, past
<1>1. ASSUME NEW t \in typed, OnComplete(t) PROVE TypeOK'
  <2>1. CASE checks = {}
    BY <1>1, <2>1, HandleType DEF OnComplete
  <2>2. CASE checks # {}
    BY <1>1, <2>2 DEF OnComplete
  <2>3. QED
    BY <2>1, <2>2
<1>2. ASSUME NEW t \in checks PROVE t.ask \in Locks /\ t.digits \in Pins /\ t.digits \in MaybePins
                                    /\ t.fails \in 0 .. MaxAttempts - 1 /\ t.ask.prior \in MaybePins
  BY DEF Locks, MaybePins
<1>3. ASSUME NEW t \in checks, Right(t) PROVE TypeOK'
  <2>1. /\ locks' \in 0 .. MaxLocks /\ active' \in Locks /\ waiting' \subseteq 1 .. locks'
        /\ first' \in MaybePins /\ last' \in MaybePins
        /\ gate' \in {"off", "asking", "shut", "open"} /\ overtaken' \in BOOLEAN
    BY <1>2, <1>3, ResolveType DEF Right
  <2>2. cool' \in BOOLEAN
    BY <1>3 DEF Right
  <2>3. tries' \in 0 .. MaxAttempts - 1 /\ wrongs' \in Nat
    BY <1>3 DEF Right
  <2>4. /\ checks' = checks \ {t}
        /\ UNCHANGED <<pin, home, code, salt, typed, prompts, bioKey, sent, slip, faults>>
    BY <1>3 DEF Right, Checked
  <2>5. QED
    BY <2>1, <2>2, <2>3, <2>4
<1>4. ASSUME NEW t \in checks, WrongTry(t) PROVE TypeOK'
  <2>1. tries' \in 0 .. MaxAttempts - 1
    BY <1>2, <1>4 DEF WrongTry, CountWrong
  <2>2. cool' \in BOOLEAN
    BY <1>4 DEF WrongTry, CountWrong
  <2>3. wrongs' \in Nat
    BY <1>4 DEF WrongTry, CountWrong
  <2>4. QED
    BY <1>4, <2>1, <2>2, <2>3 DEF WrongTry, CountWrong, Checked
<1>5. ASSUME NEW t \in checks, SetPin(t) PROVE TypeOK'
  <2>1. sent' \subseteq [old : MaybePins, new : Pins]
    BY <1>2, <1>5 DEF SetPin
  <2>2. slip' \in BOOLEAN
    BY <1>5 DEF SetPin
  <2>3. /\ locks' \in 0 .. MaxLocks /\ active' \in Locks /\ waiting' \subseteq 1 .. locks'
        /\ first' \in MaybePins /\ last' \in MaybePins
        /\ gate' \in {"off", "asking", "shut", "open"} /\ overtaken' \in BOOLEAN
    BY <1>2, <1>5, ResolveType DEF SetPin
  <2>4. cool' \in BOOLEAN
    BY <1>5 DEF SetPin
  <2>5. /\ code' = t.digits /\ salt' = "own" /\ tries' = 0 /\ wrongs' = 0
        /\ checks' = checks \ {t} /\ UNCHANGED <<pin, home, typed, prompts, bioKey, faults>>
    BY <1>5 DEF SetPin, Checked
  <2>6. QED
    BY <1>2, <2>1, <2>2, <2>3, <2>4, <2>5
<1>6. QED
  BY <1>1, <1>3, <1>4, <1>5

\* Crashes, deletions, the cooldown and the sync keep the types.
LEMMA FaultsType ==
    ASSUME TypeOK,
           \/ CoolDown \/ Crash \/ Lose \/ ClearPin \/ ClearCut
           \/ \E t \in checks : SetPinCut(t)
           \/ \E m \in sent : Sync(m)
    PROVE  TypeOK'
<1> USE PadAssumption, NoLockType DEF TypeOK, store, screen, closures, memory, past
<1>1. CASE CoolDown
  BY <1>1 DEF CoolDown
<1>2. ASSUME Restart, locks' = locks
      PROVE  /\ gate' = "off" /\ last' \in MaybePins /\ active' \in Locks
             /\ waiting' \subseteq 1 .. locks' /\ first' \in MaybePins
             /\ typed' = {} /\ checks' = {} /\ prompts' = {} /\ bioKey' \in BOOLEAN
  BY <1>2 DEF Restart, MaybePins
<1>3. Fault => faults' \in 0 .. MaxFaults
  BY DEF Fault
<1>4. ASSUME Forget
       PROVE  /\ home' = "away" /\ code' \in MaybePins /\ salt' = "none" /\ tries' = 0
              /\ cool' \in BOOLEAN /\ wrongs' = 0
  <2>1. cool' \in BOOLEAN
    BY <1>4 DEF Forget
  <2>2. QED
    BY <1>4, <2>1 DEF Forget, MaybePins
<1>5. CASE Crash
  BY <1>2, <1>3, <1>5 DEF Crash
<1>6. CASE Lose
  <2>1. /\ Fault /\ Restart /\ UNCHANGED <<pin, locks, sent, slip, overtaken>>
        /\ Forget
    BY <1>6 DEF Lose
  <2>2. QED
    BY <1>2, <1>3, <1>4, <2>1
<1>7. CASE ClearPin
  <2>1. /\ Forget /\ UNCHANGED <<pin, screen, closures, memory, sent, slip, overtaken, faults>>
    BY <1>7 DEF ClearPin
  <2>2. QED
    BY <1>4, <2>1
<1>8. CASE ClearCut
  <2>1. home' \in {"here", "away"} /\ code' \in MaybePins /\ salt' \in {"none", "own", "other"}
    BY <1>8 DEF ClearCut, MaybePins
  <2>2. QED
    BY <1>2, <1>3, <1>8, <2>1 DEF ClearCut
<1>9. ASSUME NEW m \in sent, Sync(m) PROVE TypeOK'
  <2>1. pin' \in MaybePins
    BY <1>9 DEF Sync, MaybePins
  <2>2. slip' \in BOOLEAN /\ faults' \in 0 .. MaxFaults
    BY <1>3, <1>9 DEF Sync
  <2>3. QED
    BY <1>9, <2>1, <2>2 DEF Sync
<1>10. ASSUME NEW t \in checks, SetPinCut(t) PROVE TypeOK'
  <2>1. /\ code' = t.digits /\ salt' = "own"
        /\ Restart /\ Fault /\ UNCHANGED <<pin, home, locks, sent, overtaken>>
    BY <1>10 DEF SetPinCut
  <2>2. code' \in MaybePins
    BY <2>1 DEF MaybePins
  <2>3. slip' \in BOOLEAN
    BY <1>10 DEF SetPinCut
  <2>4. tries' \in 0 .. MaxAttempts - 1 /\ wrongs' \in Nat
    BY <1>10 DEF SetPinCut
  <2>5. cool' \in BOOLEAN
    BY <1>10 DEF SetPinCut
  <2>6. QED
    BY <1>2, <1>3, <2>1, <2>2, <2>3, <2>4, <2>5
<1>11. QED
  BY <1>1, <1>5, <1>6, <1>7, <1>8, <1>9, <1>10

\* Every part of the phone's state is well typed in every reachable state.
THEOREM TypeCorrect == Spec => []TypeOK
<1>1. TypeOK /\ [Next]_vars => TypeOK'
  <2> SUFFICES ASSUME TypeOK, [Next]_vars PROVE TypeOK'
    OBVIOUS
  <2>1. CASE UNCHANGED vars
    BY <2>1 DEF TypeOK, vars, store, screen, closures, memory, past
  <2>2. CASE Next
    BY <2>2, FlowsType, ScreenType, ClosuresType, FaultsType DEF Next
  <2>3. QED
    BY <2>1, <2>2
<1>2. QED
  BY InitType, <1>1, PTL DEF Spec

----------------------------------------------------------------------------
(***************************************************************************)
(* The pad.  One check runs at a time, a wrong one has read a counter that *)
(* can only have been reset since, and but for a cooldown the counter is   *)
(* not behind the wrong passcodes there were.                              *)
(***************************************************************************)
OneCheck == \A t, o \in checks : t = o

ReadsCounter == \A t \in checks : t.kind = "wrong" => t.fails >= tries

CountsAll == ~cool => wrongs <= tries

PadInv == OneCheck /\ ReadsCounter /\ CountsAll

\* A check is started alone, and reads the counter.
LEMMA CheckStarts ==
    ASSUME TypeOK, PadInv, NEW t \in typed, OnComplete(t)
    PROVE  PadInv'
<1> USE DEF PadInv, OneCheck, ReadsCounter, CountsAll
<1>1. UNCHANGED <<tries, cool, wrongs>>
  BY DEF OnComplete, past
<1>2. CASE checks # {}
  BY <1>1, <1>2 DEF OnComplete
<1>3. CASE checks = {}
  <2>1. Handle(t)
    BY <1>3 DEF OnComplete
  <2>2. \/ checks' = {}
        \/ \E kind \in {"right", "open", "wrong"} : checks' = {CheckOf(t, kind, tries)}
        \/ checks' = {CheckOf(t, "set", 0)}
    BY <1>3, <2>1 DEF Handle, Verdict, TypeOK
  <2>3. \A c \in checks' : c.kind = "wrong" => c.fails >= tries
    BY <2>2 DEF CheckOf, TypeOK
  <2>4. \A c, o \in checks' : c = o
    BY <2>2
  <2>5. QED
    BY <1>1, <2>3, <2>4
<1>4. QED
  BY <1>2, <1>3

\* A check that ends leaves the counter as many tries on, the pad locked, or
\* nothing to count.
LEMMA CheckEnds ==
    ASSUME TypeOK, PadInv, NEW t \in checks, Right(t) \/ WrongTry(t) \/ SetPin(t)
    PROVE  PadInv'
<1> USE PadAssumption DEF PadInv, OneCheck, ReadsCounter, CountsAll
<1>1. checks' = {}
  BY DEF Right, WrongTry, CountWrong, SetPin, Checked
<1>2. CASE Right(t) \/ SetPin(t)
  <2>1. (wrongs' = 0 /\ tries' = 0) \/ UNCHANGED <<tries, cool, wrongs>>
    BY <1>2 DEF Right, SetPin
  <2>2. QED
    BY <1>1, <2>1
<1>3. CASE WrongTry(t)
  <2>1. t.fails \in Nat /\ t.fails >= tries /\ wrongs \in Nat /\ tries \in Nat
    BY <1>3 DEF WrongTry, CountWrong, Checked, TypeOK
  <2>2. wrongs' = wrongs + 1
    BY <1>3 DEF WrongTry, CountWrong
  <2>3. CASE cool \/ t.fails + 1 >= MaxAttempts
    <3>1. cool'
      BY <1>3, <2>3 DEF WrongTry, CountWrong
    <3>2. QED
      BY <1>1, <3>1
  <2>4. CASE ~cool /\ ~(t.fails + 1 >= MaxAttempts)
    <3>1. tries' = t.fails + 1
      BY <1>3, <2>4 DEF WrongTry, CountWrong
    <3>2. wrongs <= tries
      BY <2>4
    <3>3. QED
      BY <1>1, <2>1, <2>2, <3>1, <3>2
  <2>5. QED
    BY <2>3, <2>4
<1>4. QED
  BY <1>2, <1>3

\* Nothing else counts: a step that forgets the passcode forgets the tries.
LEMMA PadStep == TypeOK /\ PadInv /\ [Next]_vars => PadInv'
<1> SUFFICES ASSUME TypeOK, PadInv, [Next]_vars PROVE PadInv'
  OBVIOUS
<1> USE PadAssumption DEF PadInv, OneCheck, ReadsCounter, CountsAll
<1>1. CASE UNCHANGED vars
  BY <1>1 DEF vars, store, closures, past
<1>2. CASE Onboard \/ Authenticate \/ Act \/ Confirm("change") \/ Confirm("close") \/ Recover
  BY <1>2 DEF Onboard, Authenticate, Act, Confirm, Recover, store, closures, past
<1>3. CASE BioChecked \/ AutoPass \/ PressBio \/ Cancel
  <2>1. UNCHANGED <<checks, tries, cool, wrongs>>
    BY <1>3 DEF BioChecked, AutoPass, PressBio, Cancel, store, closures, past
  <2>2. QED
    BY <2>1
<1>4. ASSUME NEW ask \in prompts, NEW ok \in BOOLEAN, BioAnswer(ask, ok) PROVE PadInv'
  BY <1>4 DEF BioAnswer, store
<1>5. ASSUME NEW p \in Pins, Type(p) PROVE PadInv'
  BY <1>5 DEF Type, store, past
<1>6. CASE (\E t \in typed : OnComplete(t))
           \/ (\E t \in checks : Right(t) \/ WrongTry(t) \/ SetPin(t))
  BY <1>6, CheckStarts, CheckEnds
<1>7. CASE CoolDown
  BY <1>7 DEF CoolDown, TypeOK, closures
<1>8. CASE Crash \/ ClearCut
  BY <1>8 DEF Crash, ClearCut, Restart, store
<1>9. CASE Lose
  BY <1>9 DEF Lose, Forget, Restart
<1>10. CASE ClearPin
  <2>1. tries' = 0 /\ wrongs' = 0 /\ checks' = checks
    BY <1>10 DEF ClearPin, Forget, closures
  <2>2. \A t \in checks : t.fails \in Nat
    BY DEF TypeOK
  <2>3. QED
    BY <2>1, <2>2
<1>11. ASSUME NEW m \in sent, Sync(m) PROVE PadInv'
  BY <1>11 DEF Sync, store, closures
<1>12. ASSUME NEW t \in checks, SetPinCut(t) PROVE PadInv'
  <2>1. checks' = {} /\ ((wrongs' = 0 /\ tries' = 0) \/ UNCHANGED <<tries, cool, wrongs>>)
    BY <1>12 DEF SetPinCut, Restart
  <2>2. QED
    BY <2>1
<1>13. QED
  BY <1>1, <1>2, <1>3, <1>4, <1>5, <1>6, <1>7, <1>8, <1>9, <1>10, <1>11, <1>12 DEF Next

\* After MAX_ATTEMPTS wrong passcodes in a row the pad is locked: no order of
\* checks, locks, crashes and deletions takes a try back.
THEOREM PadLocksCorrect == Spec => []PadLocks
<1>1. Init => PadInv
  BY DEF Init, PadInv, OneCheck, ReadsCounter, CountsAll
<1>2. TypeOK /\ PadInv => PadLocks
  BY PadAssumption DEF TypeOK, PadInv, CountsAll, PadLocks
<1>3. QED
  BY <1>1, <1>2, PadStep, TypeCorrect, PTL DEF Spec

----------------------------------------------------------------------------
(***************************************************************************)
(* The screen.  Until a closure comes back late, every closure belongs to  *)
(* the lock that is shown, and that is the only one anybody waits for.     *)
(***************************************************************************)
ScreenInv ==
    ~overtaken => Pending \subseteq {active} \ {NoLock} /\ waiting \subseteq {active.id}

\* Before the account is created nothing is shown.
NewIsBlank == home = "new" => ~Shown /\ Pending = {}

\* A lock is shown over an empty screen.
LEMMA PresentAnswers ==
    ASSUME TypeOK, ScreenInv, ~Shown, overtaken' = overtaken, Pending' = Pending,
           NEW flow, NEW mode, NEW prior, Present(flow, mode, prior)
    PROVE  ScreenInv'
<1>1. overtaken \/ (waiting = {} /\ Pending = {})
  BY DEF ScreenInv, Shown, NoLock, TypeOK
<1>2. waiting' = waiting \cup {locks'} /\ active'.id = locks'
  BY DEF Present, PresentAfter
<1>3. QED
  BY <1>1, <1>2 DEF ScreenInv

\* A closure that answers leaves nothing behind, unless it, or another, is late.
LEMMA ResolveAnswers ==
    ASSUME TypeOK, ScreenInv, NEW ask, NEW ok, NEW captured, NEW others,
           Resolve(ask, ok, captured, others),
           Pending' = others, others \subseteq Pending,
           ask \in Pending \cup {active}
    PROVE  ScreenInv'
<1> SUFFICES ASSUME ~overtaken' PROVE Pending' = {} /\ waiting' \subseteq {active'.id}
  BY DEF ScreenInv
<1>1. ~overtaken /\ ask \notin others
  BY DEF Resolve
<1>2. ask = active /\ waiting \subseteq {ask.id} /\ others = {}
  BY <1>1 DEF ScreenInv
<1>3. CASE ask.id \in waiting /\ ok /\ ask.flow = "change"
  <2>1. waiting' = (waiting \ {ask.id}) \cup {locks'} /\ active'.id = locks'
    BY <1>3 DEF Resolve, PresentAfter
  <2>2. QED
    BY <1>2, <2>1
<1>4. CASE ~(ask.id \in waiting /\ ok /\ ask.flow = "change")
  <2>1. waiting' = waiting \ {ask.id}
    BY <1>4 DEF Resolve
  <2>2. QED
    BY <1>2, <2>1
<1>5. QED
  BY <1>3, <1>4

\* The flows that ask find the screen empty, and leave the closures alone.
LEMMA FlowsAnswer ==
    ASSUME TypeOK, ScreenInv, NewIsBlank,
           \/ Onboard \/ Authenticate \/ Act \/ Confirm("change") \/ Confirm("close")
           \/ Recover
    PROVE  ScreenInv'
<1>1. Pending' = Pending /\ overtaken' = overtaken
  BY DEF Onboard, Authenticate, Act, Confirm, Recover, Pending, closures, past
<1>2. CASE UNCHANGED screen
  BY <1>1, <1>2 DEF ScreenInv, screen
<1>3. CASE Onboard
  BY <1>1, <1>3, PresentAnswers DEF Onboard, NewIsBlank
<1>4. CASE Authenticate
  BY <1>1, <1>2, <1>4, PresentAnswers DEF Authenticate, EnsureUnlocked
<1>5. CASE Act \/ Confirm("change") \/ Confirm("close")
  BY <1>1, <1>5, PresentAnswers DEF Act, Confirm, Inside, EnsureUnlocked
<1>6. CASE Recover
  BY <1>1, <1>2, <1>6, PresentAnswers DEF Recover, Setup
<1>7. QED
  BY <1>3, <1>4, <1>5, <1>6

\* The closures: each goes from Pending as it answers, is started by the lock
\* that is shown, or becomes another one of its lock.
LEMMA ClosuresAnswer ==
    ASSUME TypeOK, ScreenInv,
           \/ BioChecked \/ AutoPass \/ PressBio \/ Cancel
           \/ \E ask \in prompts, ok \in BOOLEAN : BioAnswer(ask, ok)
           \/ \E p \in Pins : Type(p)
           \/ \E t \in typed : OnComplete(t)
           \/ \E t \in checks : Right(t) \/ WrongTry(t) \/ SetPin(t)
    PROVE  ScreenInv'
<1>1. CASE BioChecked
  BY <1>1 DEF BioChecked, ScreenInv, Pending, screen, past
<1>2. CASE AutoPass \/ Cancel
  <2>1. PICK ok \in BOOLEAN : Resolve(active, ok, last, Pending)
    BY <1>2 DEF AutoPass, Cancel
  <2>2. Pending' = Pending
    BY <1>2 DEF AutoPass, Cancel, Pending, closures
  <2>3. QED
    BY <2>1, <2>2, ResolveAnswers
<1>3. CASE PressBio
  <2>1. Pending' = Pending \cup {active} /\ Shown /\ UNCHANGED <<active, waiting, overtaken>>
    BY <1>3 DEF PressBio, Pending, screen, past
  <2>2. QED
    BY <2>1 DEF ScreenInv, Shown
<1>4. ASSUME NEW ask \in prompts, NEW ok \in BOOLEAN, BioAnswer(ask, ok)
      PROVE  ScreenInv'
  <2>1. /\ Pending' = {t.ask : t \in typed \cup checks} \cup (prompts \ {ask})
        /\ ask \in Pending
    BY <1>4 DEF BioAnswer, Pending
  <2>2. CASE ok
    <3>1. Resolve(ask, TRUE, last, {t.ask : t \in typed \cup checks})
      BY <1>4, <2>2 DEF BioAnswer
    <3>2. CASE overtaken
      BY <3>1, <3>2 DEF Resolve, ScreenInv
    <3>3. CASE ~overtaken
      <4>1. Pending' = {t.ask : t \in typed \cup checks}
        BY <2>1, <3>3 DEF ScreenInv, Pending
      <4>2. QED
        BY <2>1, <3>1, <4>1, ResolveAnswers DEF Pending
    <3>4. QED
      BY <3>2, <3>3
  <2>3. CASE ~ok
    <3>1. UNCHANGED <<active, waiting, overtaken>>
      BY <1>4, <2>3 DEF BioAnswer, screen
    <3>2. QED
      BY <2>1, <3>1 DEF ScreenInv, Pending
  <2>4. QED
    BY <2>2, <2>3
<1>5. ASSUME NEW p \in Pins, Type(p) PROVE ScreenInv'
  <2>1. Pending' \subseteq Pending \cup {active} /\ Shown /\ UNCHANGED <<active, waiting, overtaken>>
    BY <1>5 DEF Type, Pending, screen, past
  <2>2. QED
    BY <2>1 DEF ScreenInv, Shown
<1>6. ASSUME NEW t \in typed, OnComplete(t) PROVE ScreenInv'
  <2>1. UNCHANGED <<active, waiting, overtaken, prompts>> /\ typed' = typed \ {t}
    BY <1>6 DEF OnComplete, past
  <2>2. \A c \in checks' : c \in checks \/ c.ask = t.ask
    BY <1>6 DEF OnComplete, Handle, CheckOf
  <2>3. Pending' \subseteq Pending
    BY <2>1, <2>2 DEF Pending
  <2>4. QED
    BY <2>1, <2>3 DEF ScreenInv
<1>7. ASSUME NEW t \in checks, Right(t) \/ SetPin(t) PROVE ScreenInv'
  <2>1. PICK captured : Resolve(t.ask, TRUE, captured, Others(t))
    BY <1>7 DEF Right, SetPin
  <2>2. Pending' = Others(t) /\ Others(t) \subseteq Pending /\ t.ask \in Pending
    BY <1>7 DEF Right, SetPin, Checked, Others, Pending
  <2>3. QED
    BY <2>1, <2>2, ResolveAnswers
<1>8. ASSUME NEW t \in checks, WrongTry(t) PROVE ScreenInv'
  <2>1. Pending' \subseteq Pending /\ UNCHANGED <<active, waiting, overtaken>>
    BY <1>8 DEF WrongTry, CountWrong, Checked, Pending, screen
  <2>2. QED
    BY <2>1 DEF ScreenInv
<1>9. QED
  BY <1>1, <1>2, <1>3, <1>4, <1>5, <1>6, <1>7, <1>8

\* The screen keeps its locks, or is blank, through crashes and deletions.
LEMMA FaultsAnswer ==
    ASSUME TypeOK, ScreenInv,
           \/ CoolDown \/ Crash \/ Lose \/ ClearPin \/ ClearCut
           \/ \E t \in checks : SetPinCut(t)
           \/ \E m \in sent : Sync(m)
    PROVE  ScreenInv'
<1>1. CASE CoolDown \/ ClearPin \/ \E m \in sent : Sync(m)
  <2>1. UNCHANGED <<Pending, active, waiting, overtaken>>
    BY <1>1 DEF CoolDown, ClearPin, Sync, Pending, screen, closures
  <2>2. QED
    BY <2>1 DEF ScreenInv
<1>2. CASE Crash \/ Lose \/ ClearCut \/ \E t \in checks : SetPinCut(t)
  <2>1. Pending' = {} /\ waiting' = {}
    BY <1>2 DEF Crash, Lose, ClearCut, SetPinCut, Restart, Pending
  <2>2. QED
    BY <2>1 DEF ScreenInv
<1>3. QED
  BY <1>1, <1>2

\* Nothing is shown before the first account: every flow asks for one, and there
\* is no closure to come back.
LEMMA BlankStep == TypeOK /\ NewIsBlank /\ [Next]_vars => NewIsBlank'
<1> SUFFICES ASSUME TypeOK, NewIsBlank, [Next]_vars, home' = "new"
             PROVE  ~Shown' /\ Pending' = {}
  BY DEF NewIsBlank
<1>1. CASE UNCHANGED vars
  BY <1>1 DEF NewIsBlank, vars, store, screen, closures, Shown, Pending
<1>2. CASE Next
  <2>1. home = "new"
    BY <1>2 DEF Next, Onboard, Authenticate, Act, Confirm, BioChecked, AutoPass, PressBio,
       Cancel, BioAnswer, Type, OnComplete, Right, WrongTry, CountWrong, SetPin, SetPinCut, CoolDown,
       Crash, Lose, ClearPin, ClearCut, Forget, Recover, Sync, store
  <2>2. ~Shown /\ typed = {} /\ checks = {} /\ prompts = {}
    BY <2>1 DEF NewIsBlank, Pending
  <2>3. Authenticate \/ CoolDown \/ Crash \/ ClearCut \/ \E m \in sent : Sync(m)
    BY <1>2, <2>1, <2>2 DEF Next, Onboard, Act, Confirm, Inside, BioChecked, AutoPass,
       PressBio, Cancel, Type, Lose, ClearPin, Forget, Recover
  <2>4. /\ active' \in {active, NoLock} /\ typed' = {} /\ checks' = {} /\ prompts' = {}
    BY <2>1, <2>2, <2>3 DEF Authenticate, CoolDown, Crash, ClearCut, Restart, Sync, screen,
       closures
  <2>5. QED
    BY <2>2, <2>4 DEF Shown, Pending
<1>3. QED
  BY <1>1, <1>2

\* The screen stays in order, step by step.
LEMMA ScreenIsKept ==
    TypeOK /\ ScreenInv /\ NewIsBlank /\ [Next]_vars => ScreenInv' /\ NewIsBlank'
<1> SUFFICES ASSUME TypeOK, ScreenInv, NewIsBlank, [Next]_vars
             PROVE  ScreenInv' /\ NewIsBlank'
  OBVIOUS
<1>1. CASE UNCHANGED vars
  BY <1>1, BlankStep DEF vars, screen, closures, past, ScreenInv, Pending
<1>2. CASE Next
  BY <1>2, FlowsAnswer, ClosuresAnswer, FaultsAnswer, BlankStep DEF Next
<1>3. QED
  BY <1>1, <1>2

\* Every flow that waits for the lock screen can still be answered, unless a
\* closure came back after its lock had gone: whatever the user cancels, however
\* checks, prompts and the locks they were started for fall.
THEOREM PadAnswersCorrect == Spec => []PadAnswers
<1>1. Init => ScreenInv /\ NewIsBlank
  BY DEF Init, ScreenInv, NewIsBlank, Shown, Pending
<1>2. ScreenInv => PadAnswers
  BY DEF ScreenInv, PadAnswers
<1>3. QED
  BY <1>1, <1>2, ScreenIsKept, TypeCorrect, PTL DEF Spec

----------------------------------------------------------------------------
(***************************************************************************)
(* Phone and server.  One sync is on its way at most, it carries the       *)
(* passcode of the phone, and the server will take it; with none on its    *)
(* way the server has that passcode.  A lock of a setup finds the server   *)
(* without a passcode, or with the one the lock can prove.                 *)
(***************************************************************************)
Known == home = "here" /\ code # NoPin /\ salt = "own"

NothingYet == home = "new" => code = NoPin /\ pin = NoPin /\ sent = {}

OneSync == \A m, o \in sent : m = o

SetupProves == active.flow = "setup" => sent = {} /\ pin \in {NoPin, active.prior}

SyncBrings ==
    Known => /\ sent = {} => pin = code
             /\ \A m \in sent : m.new = code /\ pin \in {NoPin, m.old}

AgreeInv == ~slip /\ ~overtaken => NothingYet /\ OneSync /\ SetupProves /\ SyncBrings

\* An answer takes the lock of a setup away, and shows none.
LEMMA ResolveEndsSetup ==
    ASSUME NEW ask, NEW ok, NEW captured, NEW others, Resolve(ask, ok, captured, others)
    PROVE  active'.flow # "setup" /\ (~overtaken' => ~overtaken)
<1>1. active' = NoLock \/ active'.flow = "new"
  BY DEF Resolve, PresentAfter
<1>2. active'.flow # "setup"
  BY <1>1 DEF NoLock
<1>3. ~overtaken' => ~overtaken
  BY DEF Resolve
<1>4. QED
  BY <1>2, <1>3

\* A flow that asks knows nothing of the server, but for a setup: the account is
\* new, or the passcode of the recovery goes along.
LEMMA FlowsAgree ==
    ASSUME TypeOK, AgreeInv, ~slip', ~overtaken',
           \/ Onboard \/ Authenticate \/ Act \/ Confirm("change") \/ Confirm("close")
           \/ Recover
    PROVE  AgreeInv'
<1> USE DEF AgreeInv, NothingYet, OneSync, SetupProves, SyncBrings, Known
<1>1. ~slip /\ ~overtaken
  <2>1. CASE Recover
    BY <2>1 DEF Recover
  <2>2. CASE ~Recover
    BY <2>2 DEF Onboard, Authenticate, Act, Confirm, past
  <2>3. QED
    BY <2>1, <2>2
<1>2. UNCHANGED <<pin, sent, code, salt>>
  BY DEF Onboard, Authenticate, Act, Confirm, Recover, store
<1>3. CASE Onboard
  <2>1. home = "new" /\ home' = "here"
    BY <1>3 DEF Onboard
  <2>2. QED
    BY <1>1, <1>2, <2>1
<1>4. CASE Authenticate \/ Act \/ Confirm("change") \/ Confirm("close")
  <2>1. home' = home /\ (active' = active \/ active'.flow # "setup")
    BY <1>4 DEF Authenticate, Act, Confirm, EnsureUnlocked, Present, PresentAfter, store, screen
  <2>2. QED
    BY <1>1, <1>2, <2>1
<1>5. CASE Recover
  <2>1. home = "away" /\ home' = "here"
    BY <1>5 DEF Recover
  <2>2. sent = {} /\ code = NoPin
    BY <1>5 DEF Recover
  <2>3. PICK p \in Pins : pin \in {NoPin, p} /\ Setup(p)
    BY <1>5 DEF Recover
  <2>4. active'.prior = p
    BY <2>2, <2>3 DEF Setup, Present, PresentAfter
  <2>5. QED
    BY <1>1, <1>2, <2>1, <2>2, <2>3, <2>4
<1>6. QED
  BY <1>3, <1>4, <1>5

\* A passcode that is set leaves the server with a sync it will take.
LEMMA SetAgrees ==
    ASSUME TypeOK, AgreeInv, ScreenInv, NewIsBlank, ~slip', ~overtaken',
           NEW t \in checks, SetPin(t)
    PROVE  AgreeInv'
<1> USE DEF AgreeInv, NothingYet, OneSync, SetupProves, SyncBrings, Known
<1>1. Resolve(t.ask, TRUE, last, Others(t))
  BY DEF SetPin
<1>2. ~slip /\ ~overtaken /\ sent = {} /\ active'.flow # "setup"
  BY <1>1, ResolveEndsSetup DEF SetPin
<1>3. t.ask \in Pending
  BY DEF Pending
<1>4. t.ask = active /\ home # "new"
  BY <1>2, <1>3 DEF ScreenInv, NewIsBlank
<1>5. pin \in {NoPin, t.ask.prior}
  BY <1>2, <1>4 DEF SetPin
<1>6. /\ code' = t.digits /\ UNCHANGED <<pin, home>>
      /\ sent' = IF home = "here" THEN {[old |-> t.ask.prior, new |-> t.digits]} ELSE {}
  BY <1>2 DEF SetPin
<1>7. sent' # {} <=> home = "here"
  BY <1>6
<1>8. /\ \A m \in sent' : m.new = t.digits /\ m.old = t.ask.prior
      /\ \A m, o \in sent' : m = o
  BY <1>6
<1>9. NothingYet' /\ OneSync' /\ SetupProves'
  BY <1>2, <1>4, <1>6, <1>8
<1>10. SyncBrings'
  BY <1>5, <1>6, <1>7, <1>8
<1>11. QED
  BY <1>9, <1>10

\* Nothing else on the pad stores a passcode.
LEMMA PadAgrees ==
    ASSUME TypeOK, AgreeInv, ~slip', ~overtaken',
           \/ BioChecked \/ AutoPass \/ PressBio \/ Cancel
           \/ \E ask \in prompts, ok \in BOOLEAN : BioAnswer(ask, ok)
           \/ \E p \in Pins : Type(p)
           \/ \E t \in typed : OnComplete(t)
           \/ \E t \in checks : Right(t) \/ WrongTry(t)
    PROVE  AgreeInv'
<1> USE DEF AgreeInv, NothingYet, OneSync, SetupProves, SyncBrings, Known
<1>1. UNCHANGED <<pin, home, code, sent>> /\ ~slip
  <2>1. UNCHANGED <<pin, home, code, sent>>
    BY DEF BioChecked, AutoPass, PressBio, Cancel, BioAnswer, Type, OnComplete, Right, WrongTry,
       CountWrong, store
  <2>2. ~slip
    BY DEF BioChecked, AutoPass, PressBio, Cancel, BioAnswer, Type, OnComplete, Right, WrongTry,
       CountWrong, past
  <2>3. QED
    BY <2>1, <2>2
<1>2. salt' \in {salt, "other"}
  BY DEF BioChecked, AutoPass, PressBio, Cancel, BioAnswer, Type, OnComplete, Handle, Right,
     WrongTry, CountWrong, store
<1>3. active' = active \/ active'.flow # "setup"
  BY ResolveEndsSetup DEF BioChecked, AutoPass, PressBio, Cancel, BioAnswer, Type, OnComplete,
     Right, WrongTry, CountWrong, screen
<1>4. ~overtaken
  BY Zenon, ResolveEndsSetup DEF BioChecked, AutoPass, PressBio, Cancel, BioAnswer, Type,
     OnComplete, Right, WrongTry, CountWrong, past
<1>5. QED
  BY <1>1, <1>2, <1>3, <1>4

\* Crashes, deletions, the cooldown and a sync that arrives.
LEMMA FaultsAgree ==
    ASSUME TypeOK, AgreeInv, ScreenInv, ~slip', ~overtaken',
           \/ CoolDown \/ Crash \/ Lose \/ ClearPin \/ ClearCut
           \/ \E t \in checks : SetPinCut(t)
           \/ \E m \in sent : Sync(m)
    PROVE  AgreeInv'
<1> USE DEF AgreeInv, NothingYet, OneSync, SetupProves, SyncBrings, Known
<1>1. ~slip /\ ~overtaken
  BY DEF CoolDown, Crash, Lose, ClearPin, ClearCut, SetPinCut, Sync, past
<1>2. CASE CoolDown
  BY <1>1, <1>2 DEF CoolDown, screen
<1>3. CASE Crash
  <2>1. active'.flow # "setup" /\ UNCHANGED <<pin, home, code, salt, sent>>
    BY <1>3 DEF Crash, Restart, NoLock, store
  <2>2. QED
    BY <1>1, <2>1
<1>4. CASE Lose \/ ClearPin
  <2>1. home' = "away"
    BY <1>4 DEF Lose, ClearPin, Forget
  <2>2. UNCHANGED <<pin, sent>> /\ active'.flow # "setup"
    BY <1>4 DEF Lose, ClearPin, Inside, Shown, Restart, NoLock, screen
  <2>3. QED
    BY <1>1, <2>1, <2>2
<1>5. CASE ClearCut
  <2>1. home = "here" /\ home' \in {"here", "away"} /\ UNCHANGED <<pin, sent>>
    BY <1>5 DEF ClearCut, Inside
  <2>2. code' \in {code, NoPin} /\ salt' \in {salt, "none"} /\ active'.flow # "setup"
    BY <1>5 DEF ClearCut, Restart, NoLock
  <2>3. QED
    BY <1>1, <2>1, <2>2
<1>6. ASSUME NEW m \in sent, Sync(m) PROVE AgreeInv'
  <2>1. /\ UNCHANGED <<home, code, salt, active>> /\ sent' = {}
        /\ pin' = IF pin \in {NoPin, m.old} THEN m.new ELSE pin
    BY <1>1, <1>6 DEF Sync, store, screen
  <2>2. home # "new" /\ active.flow # "setup" /\ (Known => pin' = code)
    BY <1>1, <1>6, <2>1
  <2>3. QED
    BY <2>1, <2>2
<1>7. ASSUME NEW t \in checks, SetPinCut(t) PROVE AgreeInv'
  BY <1>7 DEF SetPinCut
<1>8. QED
  BY <1>2, <1>3, <1>4, <1>5, <1>6, <1>7

\* Once its sync has arrived, the passcode of the phone is the recovery passcode
\* of the account: after any changes, resets, recoveries and crashes, unless a
\* sync was lost, never sent, overtaken or unproven, or a closure came back late.
THEOREM PasscodesAgreeCorrect == Spec => []PasscodesAgree
<1>1. Init => ScreenInv /\ NewIsBlank /\ AgreeInv
  BY DEF Init, ScreenInv, NewIsBlank, Shown, Pending, AgreeInv, NothingYet, OneSync,
     SetupProves, SyncBrings, Known, NoLock
<1>2. TypeOK /\ AgreeInv /\ ScreenInv /\ NewIsBlank /\ [Next]_vars => AgreeInv'
  <2> SUFFICES ASSUME TypeOK, AgreeInv, ScreenInv, NewIsBlank, [Next]_vars, ~slip', ~overtaken'
               PROVE  AgreeInv'
    BY DEF AgreeInv
  <2>1. CASE UNCHANGED vars
    BY <2>1 DEF vars, store, screen, past, AgreeInv, NothingYet, OneSync, SetupProves,
       SyncBrings, Known
  <2>2. CASE Next
    BY <2>2, FlowsAgree, SetAgrees, PadAgrees, FaultsAgree DEF Next
  <2>3. QED
    BY <2>1, <2>2
<1>3. AgreeInv => PasscodesAgree
  BY DEF AgreeInv, SyncBrings, Known, PasscodesAgree
<1>4. QED
  BY <1>1, <1>2, <1>3, ScreenIsKept, TypeCorrect, PTL DEF Spec

=============================================================================
