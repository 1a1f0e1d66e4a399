------------------------------ MODULE Passcode ------------------------------
(***************************************************************************)
(* The passcode of an account on its owner's phone: the salted hash and    *)
(* the counter of wrong tries in storage, the lock screen that asks for    *)
(* it, the flows that wait for the screen's answer, and the sync that      *)
(* makes it the account's recovery passcode on the server.  A call of the  *)
(* server is one step here; RecoveryPin is about what it does inside.      *)
(*                                                                         *)
(* The screen's handlers are closures: the timer behind the last digit, a  *)
(* check and a biometric prompt go on with the lock they were started for, *)
(* and find the screen as it is when they come back.                       *)
(***************************************************************************)
EXTENDS Integers

CONSTANTS
    Pins,         \* passcodes
    NoPin,        \* no passcode
    MaxAttempts,  \* MAX_ATTEMPTS: 5 wrong passcodes
    MaxLocks,     \* bound: locks presented
    MaxFaults     \* bound: crashes, lost phones and lost calls

ASSUME PinsAssumption == NoPin \notin Pins
ASSUME PadAssumption == MaxAttempts \in Nat \ {0} /\ MaxLocks \in Nat /\ MaxFaults \in Nat

VARIABLES
    pin,        \* the passcode in recovery_pins
    home,       \* the account: not created yet, on this phone, or not
    code,       \* the passcode whose hash is stored
    salt,       \* the stored salt: the one of the hash, another, or none
    tries,      \* remitt.pin.fails
    cool,       \* remitt.pin.lockedUntil has not passed
    gate,       \* the Gate: "asking", "shut" or "open"; "off" when the app is not running
    locks,      \* number of locks presented so far
    active,     \* the lock that is shown
    waiting,    \* locks whose promise is not resolved
    first,      \* firstPin, NoPin in the phase "enter"
    bioKey,     \* bioAvailable: the pad shows the biometric key
    typed,      \* timers behind the last digit
    checks,     \* passcodes being checked or set
    prompts,    \* locks whose biometric key was pressed
    last,       \* lastUnlockedPin
    sent,       \* syncs on their way
    wrongs,     \* history: wrong passcodes since a right one or the last cooldown
    slip,       \* history: a sync was lost or never sent, or sent in a way that can be refused
    overtaken,  \* history: a lock went away while a closure of its own was pending
    faults      \* number of faults so far

store == <<home, code, salt, tries, cool>>
screen == <<locks, active, waiting, first>>
closures == <<typed, checks, prompts, bioKey>>
memory == <<gate, last>>
past == <<wrongs, slip, overtaken, faults>>
vars == <<pin, store, screen, closures, memory, sent, past>>

MaybePins == Pins \cup {NoPin}
NoLock == [id |-> 0, flow |-> "none", mode |-> "none", prior |-> NoPin]
Shown == active # NoLock
Pending == {t.ask : t \in typed \cup checks} \cup prompts

Init ==
    /\ pin = NoPin
    /\ home = "new" /\ code = NoPin /\ salt = "none" /\ tries = 0 /\ cool = FALSE
    /\ gate = "open" /\ last = NoPin
    /\ locks = 0 /\ active = NoLock /\ waiting = {} /\ first = NoPin
    /\ typed = {} /\ checks = {} /\ prompts = {} /\ bioKey = FALSE
    /\ sent = {}
    /\ wrongs = 0 /\ slip = FALSE /\ overtaken = FALSE /\ faults = 0

Fault == faults < MaxFaults /\ faults' = faults + 1

----------------------------------------------------------------------------
(* presentLock, and the answer *)

\* The promises in done are resolved, and the next lock is shown.
PresentAfter(done, flow, mode, prior) ==
    /\ locks < MaxLocks /\ locks' = locks + 1
    /\ active' = [id |-> locks', flow |-> flow, mode |-> mode, prior |-> prior]
    /\ waiting' = (waiting \ done) \cup {locks'}
    /\ first' = NoPin

Present(flow, mode, prior) == PresentAfter({}, flow, mode, prior)

EnsureUnlocked(flow) == Present(flow, IF code = NoPin THEN "create" ELSE "unlock", NoPin)

\* finish, by a closure of a lock: the promise is resolved if it was not, and
\* whatever is active goes away.  changePasscode then asks for the new passcode,
\* with the captured one as its proof.  others: the locks with closures left.
Resolve(ask, ok, captured, others) ==
    LET open == ask.id \in waiting IN
    /\ IF open /\ ok /\ ask.flow = "change"
       THEN PresentAfter({ask.id}, "new", "create", captured)
       ELSE /\ active' = NoLock /\ waiting' = waiting \ {ask.id}
            /\ UNCHANGED <<locks, first>>
    /\ gate' = IF open /\ ask.flow = "gate" THEN (IF ok THEN "open" ELSE "shut") ELSE gate
    /\ last' = IF open /\ ok /\ ask.flow \in {"change", "close"} THEN NoPin ELSE captured
    /\ overtaken' = (overtaken \/ ask \in others)

----------------------------------------------------------------------------
(* The flows that ask.  The lock covers the screen: a user starts none while *)
(* one is shown.                                                             *)

\* A new account gets its first passcode.
Onboard ==
    /\ home = "new" /\ home' = "here"
    /\ Present("setup", "create", NoPin)
    /\ UNCHANGED <<pin, code, salt, tries, cool, closures, memory, sent, past>>

\* The Gate: at the start of the app, and again after a refusal.
Authenticate ==
    /\ gate \in {"off", "shut"} /\ ~Shown
    /\ IF home = "here"
       THEN EnsureUnlocked("gate") /\ gate' = "asking"
       ELSE gate' = "open" /\ UNCHANGED screen
    /\ UNCHANGED <<pin, store, closures, last, sent, past>>

Inside == gate = "open" /\ home = "here" /\ ~Shown

\* Send, cash out, and moves in and out of Earn.
Act ==
    /\ Inside
    /\ EnsureUnlocked("act")
    /\ UNCHANGED <<pin, store, closures, memory, sent, past>>

\* changePasscode, and confirmPasscode before an account is closed.
Confirm(flow) ==
    /\ Inside
    /\ IF code # NoPin
       THEN Present(flow, "confirm", NoPin)
       ELSE flow = "change" /\ Present("new", "create", NoPin)
    /\ UNCHANGED <<pin, store, closures, memory, sent, past>>

----------------------------------------------------------------------------
(* The lock screen *)

\* The effect of a lock: whether the pad has a biometric key, once it is known.
BioChecked ==
    /\ Shown /\ bioKey # (active.mode = "unlock")
    /\ bioKey' = ~bioKey
    /\ UNCHANGED <<pin, store, screen, typed, checks, prompts, memory, sent, past>>

\* And a prompt of its own, that is dropped when the lock is not shown any more.
AutoPass ==
    /\ Shown /\ active.mode = "unlock"
    /\ Resolve(active, TRUE, last, Pending)
    /\ UNCHANGED <<pin, store, closures, sent, wrongs, slip, faults>>

\* The system shows one prompt at a time.
PressBio ==
    /\ Shown /\ bioKey /\ prompts = {}
    /\ prompts' = {active}
    /\ UNCHANGED <<pin, store, screen, typed, checks, bioKey, memory, sent, past>>

BioAnswer(ask, ok) ==
    /\ ask \in prompts /\ prompts' = prompts \ {ask}
    /\ IF ok
       THEN Resolve(ask, TRUE, last, {t.ask : t \in typed \cup checks})
       ELSE UNCHANGED <<screen, memory, overtaken>>
    /\ UNCHANGED <<pin, store, typed, checks, bioKey, sent, wrongs, slip, faults>>

\* The lock is taken down and nobody told.
CancelSilently ==
    /\ Shown /\ active.flow # "setup"
    /\ active' = NoLock
    /\ UNCHANGED <<pin, store, closures, locks, waiting, first, memory, sent, past>>

Cancel ==
    /\ Shown /\ active.flow # "setup"
    /\ Resolve(active, FALSE, last, Pending)
    /\ UNCHANGED <<pin, store, closures, sent, wrongs, slip, faults>>

\* The last digit starts a timer, with the phase and firstPin of this render.
Type(p) ==
    /\ Shown /\ typed = {}
    /\ typed' = {[ask |-> active, first |-> first, digits |-> p]}
    /\ UNCHANGED <<pin, store, screen, checks, prompts, bioKey, memory, sent, past>>

\* verifyPin: without a hash or a salt anything passes.
Verdict(p) == CASE code = NoPin \/ salt = "none" -> "open"
                [] code = p /\ salt = "own" -> "right"
                [] OTHER -> "wrong"

CheckOf(t, kind, fails) == [ask |-> t.ask, digits |-> t.digits, kind |-> kind, fails |-> fails]

Handle(t) ==
    IF t.ask.mode # "create"
    THEN /\ checks' = IF cool THEN checks
                      ELSE checks \cup {CheckOf(t, Verdict(t.digits), tries)}
         /\ UNCHANGED <<first, salt>>
    ELSE IF t.first = t.digits
         THEN /\ checks' = checks \cup {CheckOf(t, "set", 0)}
              /\ salt' = "other"
              /\ UNCHANGED first
         ELSE /\ first' = IF t.first = NoPin THEN t.digits ELSE NoPin
              /\ UNCHANGED <<checks, salt>>

\* Two checks may run at a time.
OnCompleteAgain(t) ==
    /\ t \in typed /\ typed' = typed \ {t}
    /\ Handle(t)
    /\ UNCHANGED <<pin, home, code, tries, cool, locks, active, waiting, prompts, bioKey, memory, sent, past>>

\* onComplete: the digits are dropped while others are being checked.
OnComplete(t) ==
    /\ t \in typed /\ typed' = typed \ {t}
    /\ IF checks = {} THEN Handle(t) ELSE UNCHANGED <<checks, first, salt>>
    /\ UNCHANGED <<pin, home, code, tries, cool, locks, active, waiting, prompts, bioKey, memory, sent, past>>

Checked(t, kind) == t \in checks /\ t.kind = kind /\ checks' = checks \ {t}
Others(t) == {o.ask : o \in typed \cup (checks \ {t})} \cup prompts

\* Passed: the counter is reset when there was a hash to check against.
Right(t) ==
    /\ \/ Checked(t, "right") /\ tries' = 0 /\ cool' = FALSE /\ wrongs' = 0
       \/ Checked(t, "open") /\ UNCHANGED <<tries, cool, wrongs>>
    /\ Resolve(t.ask, TRUE, t.digits, Others(t))
    /\ UNCHANGED <<pin, home, code, salt, typed, prompts, bioKey, sent, slip, faults>>

CountWrong(t, reset) ==
    /\ Checked(t, "wrong")
    /\ tries' = IF t.fails + 1 >= MaxAttempts THEN reset ELSE t.fails + 1
    /\ cool' = (cool \/ t.fails + 1 >= MaxAttempts)
    /\ wrongs' = wrongs + 1
    /\ UNCHANGED <<pin, home, code, salt, screen, typed, prompts, bioKey, memory, sent,
                   slip, overtaken, faults>>

\* The count stays where it was when the pad locks.
WrongTryKept(t) == CountWrong(t, MaxAttempts)

\* The counter is written back as it was read, plus one.
WrongTry(t) == CountWrong(t, 0)

\* The end of setPin, and the sync nobody waits for.  It can be refused when
\* another is on its way, or when it is sent without the server's passcode as
\* proof: the pad had none to capture.
SetPin(t) ==
    /\ Checked(t, "set")
    /\ code' = t.digits /\ salt' = "own" /\ tries' = 0 /\ cool' = FALSE /\ wrongs' = 0
    /\ sent' = IF home = "here" THEN sent \cup {[old |-> t.ask.prior, new |-> t.digits]} ELSE sent
    /\ slip' = (slip \/ sent # {} \/ (t.ask.flow # "setup" /\ t.ask.prior # pin))
    /\ Resolve(t.ask, TRUE, last, Others(t))
    /\ UNCHANGED <<pin, home, typed, prompts, bioKey, faults>>

CoolDown ==
    /\ cool /\ cool' = FALSE /\ wrongs' = 0
    /\ UNCHANGED <<pin, home, code, salt, tries, screen, closures, memory, sent, slip, overtaken, faults>>

----------------------------------------------------------------------------
(* Crash, reset and recovery *)

Restart ==
    /\ gate' = "off" /\ last' = NoPin
    /\ active' = NoLock /\ waiting' = {} /\ first' = NoPin
    /\ typed' = {} /\ checks' = {} /\ prompts' = {} /\ bioKey' = FALSE

Crash ==
    /\ Fault
    /\ Restart
    /\ UNCHANGED <<pin, locks, store, sent, wrongs, slip, overtaken>>

Forget ==
    /\ home' = "away"
    /\ code' = NoPin /\ salt' = "none" /\ tries' = 0 /\ cool' = FALSE /\ wrongs' = 0

\* A crash inside setPin once the hash is written: the counter may still stand, and
\* nothing is synced.
SetPinCut(t) ==
    /\ t \in checks /\ t.kind = "set" /\ Fault
    /\ code' = t.digits /\ salt' = "own" /\ slip' = TRUE
    /\ \/ tries' = 0 /\ cool' = FALSE /\ wrongs' = 0
       \/ UNCHANGED <<tries, cool, wrongs>>
    /\ Restart
    /\ UNCHANGED <<pin, home, locks, sent, overtaken>>

\* The phone is lost; its owner has a new one.
Lose ==
    /\ home # "new" /\ Fault
    /\ Forget
    /\ Restart
    /\ UNCHANGED <<pin, locks, sent, slip, overtaken>>

\* clearPin, as the account leaves the phone.
ClearPin ==
    /\ Inside
    /\ Forget
    /\ UNCHANGED <<pin, screen, closures, memory, sent, slip, overtaken, faults>>

\* A crash among the deletions.
ClearCut ==
    /\ Inside /\ Fault
    /\ home' \in {"here", "away"}
    /\ code' \in {code, NoPin} /\ salt' \in {salt, "none"}
    /\ Restart
    /\ UNCHANGED <<pin, locks, tries, cool, sent, wrongs, slip, overtaken>>

\* Nothing is forwarded from the recovery.
SetupUnproven(p) ==
    IF code = NoPin THEN Present("setup", "create", NoPin) ELSE UNCHANGED screen

\* ensurePinSetup: a new passcode, and the one just proven goes along.
Setup(p) ==
    IF code = NoPin THEN Present("setup", "create", p) ELSE UNCHANGED screen

\* recover_profile takes the right passcode, or any if there is none.
Recover ==
    /\ home = "away" /\ gate = "open" /\ ~Shown
    /\ home' = "here"
    /\ \E p \in Pins : pin \in {NoPin, p} /\ Setup(p)
    /\ slip' = (slip \/ sent # {} \/ code # NoPin)
    /\ UNCHANGED <<pin, code, salt, tries, cool, closures, memory, sent, wrongs, overtaken, faults>>

\* syncRecoveryPin: it arrives, in any order, and may be refused, or it is lost.
Sync(m) ==
    /\ m \in sent /\ sent' = sent \ {m}
    /\ \/ pin' = (IF pin \in {NoPin, m.old} THEN m.new ELSE pin) /\ UNCHANGED <<slip, faults>>
       \/ Fault /\ slip' = TRUE /\ UNCHANGED pin
    /\ UNCHANGED <<store, screen, closures, memory, wrongs, overtaken>>

Next ==
    \/ Onboard \/ Authenticate \/ Act \/ Confirm("change") \/ Confirm("close")
    \/ BioChecked \/ AutoPass \/ PressBio \/ Cancel
    \/ \E ask \in prompts, ok \in BOOLEAN : BioAnswer(ask, ok)
    \/ \E p \in Pins : Type(p)
    \/ \E t \in typed : OnComplete(t)
    \/ \E t \in checks : Right(t) \/ WrongTry(t) \/ SetPin(t)
    \/ \E t \in checks : SetPinCut(t)
    \/ CoolDown \/ Crash \/ Lose \/ ClearPin \/ ClearCut \/ Recover
    \/ \E m \in sent : Sync(m)

Spec == Init /\ [][Next]_vars

----------------------------------------------------------------------------
(* Properties *)

Locks == [id : 0 .. MaxLocks, flow : {"none", "gate", "act", "change", "close", "new", "setup"},
          mode : {"none", "unlock", "confirm", "create"}, prior : MaybePins]

TypeOK ==
    /\ pin \in MaybePins
    /\ home \in {"new", "here", "away"}
    /\ code \in MaybePins /\ salt \in {"none", "own", "other"}
    /\ tries \in 0 .. MaxAttempts - 1 /\ cool \in BOOLEAN
    /\ gate \in {"off", "asking", "shut", "open"} /\ last \in MaybePins
    /\ locks \in 0 .. MaxLocks /\ active \in Locks /\ waiting \subseteq 1 .. locks
    /\ first \in MaybePins /\ bioKey \in BOOLEAN
    /\ typed \subseteq [ask : Locks, first : MaybePins, digits : Pins]
    /\ checks \subseteq [ask : Locks, digits : Pins, kind : {"right", "open", "wrong", "set"},
                         fails : 0 .. MaxAttempts - 1]
    /\ prompts \subseteq Locks
    /\ sent \subseteq [old : MaybePins, new : Pins]
    /\ wrongs \in Nat /\ slip \in BOOLEAN /\ overtaken \in BOOLEAN
    /\ faults \in 0 .. MaxFaults

\* Every flow that waits for the lock screen can still be answered: its lock is
\* the one that is shown.  The exception is a lock that went away, and then
\* another one taken down, by a closure that came back late.
PadAnswers == \A id \in waiting : id = active.id \/ overtaken

\* After MAX_ATTEMPTS wrong passcodes in a row the pad is locked, whichever
\* locks they were typed into, and however checks and restarts fell between.
PadLocks == wrongs >= MaxAttempts => cool

\* The passcode of the phone is the account's recovery passcode, once its sync
\* has arrived: after any number of changes, resets and recoveries, unless a sync
\* was lost, overtaken, or sent without the proof the server asks for.
PasscodesAgree ==
    home = "here" /\ code # NoPin /\ salt = "own" /\ sent = {} /\ ~slip /\ ~overtaken
        => pin = code
=============================================================================
