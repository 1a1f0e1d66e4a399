----------------------------- MODULE RecoveryPin -----------------------------
(***************************************************************************)
(* The recovery passcode of one address: its row of recovery_pins and the  *)
(* three SQL functions that use it, set_recovery_pin, verify_recovery_pin  *)
(* (for close-account) and recover_profile (for recovery).                 *)
(*                                                                         *)
(* Each function is a transaction that SELECTs the row, decides, and then  *)
(* writes what it computed from its snapshot.  Under READ COMMITTED other  *)
(* calls may commit in between, so a call is two steps.  An exception      *)
(* rolls the whole call back, what it wrote before raising included.       *)
(*                                                                         *)
(* A call takes no time: the clock moves between calls.  lock is the time  *)
(* left of locked_until, 0 for NULL and for the past.                      *)
(***************************************************************************)
EXTENDS Integers

CONSTANTS
    Callers,   \* sessions, each running one call at a time
    Pins,      \* passcodes
    NoPin,     \* no row in recovery_pins
    MaxTries,  \* 5 wrong tries
    LockTime,  \* interval '15 minutes'
    MaxCalls   \* bound: how many calls are made

ASSUME PinsAssumption == NoPin \notin Pins
ASSUME LimitsAssumption ==
    MaxTries \in Nat \ {0} /\ LockTime \in Nat \ {0} /\ MaxCalls \in Nat

VARIABLES
    pin,      \* pin_hash, or NoPin
    failed,   \* failed
    lock,     \* locked_until
    doing,    \* what a session is about to write, or "idle"
    entered,  \* the passcode its caller entered
    read,     \* v_pin: the pin and failed it has read
    calls,    \* number of calls so far
    misses,   \* history: wrong passcodes since the row was last clean, per function
    age,      \* history: time since the last of them, per function, up to LockTime
    alone     \* history: no two calls have overlapped

row == <<pin, failed, lock>>
tally == <<misses, age>>
pinVars == <<row, doing, entered, read, calls, tally, alone>>

Locked == lock > 0
Guarded == {"verify", "recover"}
NoMisses == [f \in Guarded |-> 0]
LongAgo == [f \in Guarded |-> LockTime]

PinInit ==
    /\ pin = NoPin /\ failed = 0 /\ lock = 0
    /\ doing = [c \in Callers |-> "idle"]
    /\ entered = [c \in Callers |-> NoPin]
    /\ read = [c \in Callers |-> [pin |-> NoPin, failed |-> 0]]
    /\ calls = 0
    /\ misses = NoMisses /\ age = LongAgo
    /\ alone = TRUE

----------------------------------------------------------------------------
(* First statement of a call: read the row, and go on or not *)

Select(c, function, p) ==
    /\ doing[c] = "idle" /\ calls < MaxCalls
    /\ calls' = calls + 1
    /\ doing' = [doing EXCEPT ![c] = function]
    /\ entered' = [entered EXCEPT ![c] = p]
    /\ read' = [read EXCEPT ![c] = [pin |-> pin, failed |-> failed]]
    /\ alone' = (alone /\ \A d \in Callers : doing[d] = "idle")
    /\ UNCHANGED <<row, tally>>

\* Without a row verify_recovery_pin returns true and recover_profile returns
\* the profile; while locked both raise.  Neither then writes.
GuardUnlocked(c, function, p) == pin # NoPin /\ Select(c, function, p)
Guard(c, function, p) == pin # NoPin /\ ~Locked /\ Select(c, function, p)

\* set_recovery_pin asks for the old passcode if there is one, locked or not.
SetSelect(c, old, new) ==
    /\ pin = NoPin \/ pin = old
    /\ Select(c, "set", new)

----------------------------------------------------------------------------
(* Last statement: write, and commit *)

Finish(c) ==
    /\ doing' = [doing EXCEPT ![c] = "idle"]
    /\ UNCHANGED <<entered, read, calls, alone>>

Wrong(c) == entered[c] # read[c].pin
Missed(function) ==
    /\ misses' = [misses EXCEPT ![function] = @ + 1]
    /\ age' = [age EXCEPT ![function] = 0]
CleanRow ==
    /\ failed' = 0 /\ lock' = 0
    /\ misses' = NoMisses /\ age' = LongAgo

\* A right passcode, in either function.
Accept(c) ==
    /\ doing[c] \in Guarded /\ ~Wrong(c)
    /\ CleanRow
    /\ UNCHANGED pin
    /\ Finish(c)

CountMiss(c, limit, duration) ==
    /\ doing[c] = "verify" /\ Wrong(c)
    /\ failed' = read[c].failed + 1
    /\ lock' = IF read[c].failed + 1 >= limit THEN duration ELSE 0
    /\ UNCHANGED pin
    /\ Missed("verify")
    /\ Finish(c)

\* One try too many.
VerifyWrongLate(c) == CountMiss(c, MaxTries + 1, LockTime)

\* verify_recovery_pin: a wrong passcode is counted from the count it read, and
\* locked_until is set to a time or to NULL.
VerifyWrong(c) == CountMiss(c, MaxTries, LockTime)

\* recover_profile: the same UPDATE, undone by the exception raised after it.
RecoverWrong(c) ==
    /\ doing[c] = "recover" /\ Wrong(c)
    /\ UNCHANGED row
    /\ Missed("recover")
    /\ Finish(c)

\* INSERT ... ON CONFLICT DO UPDATE
SetWrite(c) ==
    /\ doing[c] = "set"
    /\ pin' = entered[c]
    /\ CleanRow
    /\ Finish(c)

Tick ==
    /\ \A c \in Callers : doing[c] = "idle"
    /\ Locked \/ age # LongAgo
    /\ lock' = IF Locked THEN lock - 1 ELSE 0
    /\ age' = [f \in Guarded |-> IF age[f] < LockTime THEN age[f] + 1 ELSE LockTime]
    /\ UNCHANGED <<pin, failed, doing, entered, read, calls, misses, alone>>

Call(c) ==
    \/ \E p \in Pins : Guard(c, "verify", p) \/ Guard(c, "recover", p)
    \/ \E old, new \in Pins : SetSelect(c, old, new)
    \/ Accept(c) \/ VerifyWrong(c) \/ RecoverWrong(c) \/ SetWrite(c)

PinNext == Tick \/ \E c \in Callers : Call(c)

PinSpec == PinInit /\ [][PinNext]_pinVars

----------------------------------------------------------------------------
(* Properties *)

PinTypeOK ==
    /\ pin \in Pins \cup {NoPin} /\ failed \in Nat /\ lock \in 0 .. LockTime
    /\ doing \in [Callers -> Guarded \cup {"set", "idle"}]
    /\ entered \in [Callers -> Pins \cup {NoPin}]
    /\ read \in [Callers -> [pin : Pins \cup {NoPin}, failed : Nat]]
    /\ calls \in 0 .. MaxCalls
    /\ misses \in [Guarded -> Nat] /\ age \in [Guarded -> 0 .. LockTime]
    /\ alone \in BOOLEAN

\* verify_recovery_pin, its calls one after another: after five wrong passcodes
\* the address is locked for fifteen minutes from the last of them, wrong tries
\* at recovery and expired locks in between notwithstanding.
LockoutWhileAlone ==
    alone /\ misses["verify"] >= MaxTries /\ age["verify"] < LockTime => Locked

\* While locked even the right passcode is refused: calls that do not overlap
\* leave a lock to the clock, or to the owner who changes the passcode.
LockHolds ==
    [][alone /\ Locked =>
          \/ Locked'
          \/ lock = 1 /\ Tick
          \/ \E c \in Callers : doing[c] = "set" /\ doing'[c] = "idle"]_pinVars

\* What the schema says of recover_profile: five wrong tries lock recovery for
\* fifteen minutes, counted on the server.
RecoveryLocks ==
    misses["recover"] >= MaxTries /\ age["recover"] < LockTime => Locked
=============================================================================
