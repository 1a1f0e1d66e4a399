------------------------------- MODULE Wallet -------------------------------
(***************************************************************************)
(* The accounts of one inbox and the phones its owner uses: what a phone   *)
(* keeps in secure storage, what its app has in memory, the row of the     *)
(* directory that recovery starts from, and the key that controls the      *)
(* account on the ledger.  Opening, recovering, closing and resetting are  *)
(* sequences of awaits that a crash, an error or a lost answer cuts short. *)
(*                                                                         *)
(* A key pair is a number, and so is the account its public key names.     *)
(* Passcodes and one-time codes are those of the inbox's owner; what the   *)
(* Edge Functions do inside is Custody's, here a call of theirs is a step. *)
(***************************************************************************)
EXTENDS Integers

CONSTANTS
    Devices,
    MaxKeys,     \* bound: key pairs ever created
    MaxFaults    \* bound: crashes, lost phones, lost calls and lost answers

ASSUME BoundsAssumption == MaxKeys \in Nat /\ MaxFaults \in Nat
ASSUME DevicesAssumption == 0 \notin Devices

None == 0
Keys == 1 .. MaxKeys
MaybeKeys == 0 .. MaxKeys

VARIABLES
    ledger,   \* the device key that controls an account, None when it is not open
    rows,     \* profiles: "none", "plain", or "verified" with email_verified
    marking,  \* a mark_email_verified call is on its way
    disk,     \* a phone's storage
    app,      \* the app's memory: publicKey and activated
    asked,    \* the answer to refresh that is on its way, if any: does the account exist
    pc,       \* the await an app is at
    job,      \* the locals of createAccount or recoverExistingAccount
    maker,    \* history: the device that created a key pair
    faults,   \* number of faults so far
    slip,     \* history: a call to the directory was lost, or matched no row or one
              \* that had been registered anew, or what a phone says of its email
              \* outlived the account it was said of
    spoiled,  \* history: phones left with half a key pair, or whose recovery was
              \* overtaken: the account has been opened, or another one found, since
    moved     \* history: accounts whose row a recovery has moved away

phone == <<disk, app, asked, pc, job>>
world == <<ledger, rows, marking>>
history == <<maker, slip, spoiled, moved>>
vars == <<phone, world, history, faults>>

Blank == [secret |-> None, public |-> None, named |-> FALSE, told |-> FALSE]
\* The public key starts undefined.
SignedOutUndefined == [me |-> -1, activated |-> FALSE]

SignedOut == [me |-> None, activated |-> FALSE]
NoJob == [key |-> None, target |-> None, recovering |-> FALSE]
PCs == {"off", "home", "public", "activate", "locals", "register", "confirm",
        "check", "rekey", "move", "secret", "wipe", "discard", "reset"}
Wiping == {"wipe", "discard", "reset"}

Storage == [secret : MaybeKeys, public : MaybeKeys, named : BOOLEAN, told : BOOLEAN]
Memory == [me : MaybeKeys, activated : BOOLEAN]
Locals == [key : MaybeKeys, target : MaybeKeys, recovering : BOOLEAN]

Live(a) == ledger[a] # None
Verified == {a \in Keys : rows[a] = "verified"}
Made == {k \in Keys : maker[k] \in Devices}

Init ==
    /\ ledger = [a \in Keys |-> None]
    /\ rows = [a \in Keys |-> "none"]
    /\ marking = FALSE
    /\ disk = [d \in Devices |-> Blank]
    /\ app = [d \in Devices |-> SignedOut]
    /\ asked = [d \in Devices |-> {}]
    /\ pc = [d \in Devices |-> "off"]
    /\ job = [d \in Devices |-> NoJob]
    /\ maker = [k \in Keys |-> None]
    /\ faults = 0
    /\ slip = FALSE /\ spoiled = {} /\ moved = {}

----------------------------------------------------------------------------
(* Faults, and the two ways a call to a server goes wrong *)

Fault == faults < MaxFaults /\ faults' = faults + 1
FaultUnless(fine) == IF fine THEN UNCHANGED faults ELSE Fault

At(d, here) == pc[d] = here
Goto(d, there) == pc' = [pc EXCEPT ![d] = there]
SignedIn(d) == At(d, "home") /\ app[d].me # None
Welcome(d) == At(d, "home") /\ app[d].me = None

Forget(d) ==
    /\ app' = [app EXCEPT ![d] = SignedOut]
    /\ asked' = [asked EXCEPT ![d] = {}]
    /\ job' = [job EXCEPT ![d] = NoJob]
    /\ Goto(d, "off")

\* Between the two writes of a key pair a crash leaves one of each.
Crash(d) ==
    /\ ~At(d, "off") /\ Fault
    /\ Forget(d)
    /\ spoiled' = IF At(d, "public") THEN spoiled \cup {d} ELSE spoiled
    /\ UNCHANGED <<disk, world, maker, slip, moved>>

\* The phone is lost; its owner goes on with a new one.
Lose(d) ==
    /\ Fault
    /\ Forget(d)
    /\ disk' = [disk EXCEPT ![d] = Blank]
    /\ spoiled' = spoiled \ {d}
    /\ UNCHANGED <<world, maker, slip, moved>>

----------------------------------------------------------------------------
(* The directory *)

\* Every column is sent, email_verified with its default.
UpsertAll(a) == [rows EXCEPT ![a] = "plain"]

Upsert(a) == IF rows[a] = "none" THEN [rows EXCEPT ![a] = "plain"] ELSE rows

\* registerUser swallows its errors, and does not look at the status: a row
\* refused for its username is as lost as one that was never sent.
RegisterUser(a, sent) ==
    /\ rows' = IF sent THEN Upsert(a) ELSE rows
    /\ slip' = (slip \/ ~sent)
    /\ FaultUnless(sent)

\* mark_email_verified: every row of the inbox.
MarkEmailVerified ==
    /\ marking /\ marking' = FALSE
    /\ \/ /\ rows' = [a \in Keys |-> IF rows[a] = "none" THEN "none" ELSE "verified"]
          /\ UNCHANGED <<slip, faults>>
       \/ /\ Fault
          /\ slip' = TRUE
          /\ UNCHANGED rows
    /\ UNCHANGED <<phone, ledger, maker, spoiled, moved>>

----------------------------------------------------------------------------
(* Start of the app *)

\* A phone with an account is signed in, and registers it once more.
Boot(d) ==
    /\ At(d, "off")
    /\ Goto(d, "home")
    /\ app' = [app EXCEPT ![d].me = disk[d].public]
    /\ IF disk[d].public # None /\ disk[d].named
       THEN \E sent \in BOOLEAN : RegisterUser(disk[d].public, sent)
       ELSE UNCHANGED <<rows, slip, faults>>
    /\ UNCHANGED <<disk, asked, job, ledger, marking, maker, spoiled, moved>>

\* refresh: the answer is shown whenever it comes, whoever is signed in then.  One
\* answer at a time is on its way.
Refresh(d) ==
    /\ SignedIn(d) /\ asked[d] = {}
    /\ asked' = [asked EXCEPT ![d] = {Live(app[d].me)}]
    /\ UNCHANGED <<disk, app, pc, job, world, history, faults>>

Refreshed(d, exists) ==
    /\ exists \in asked[d]
    /\ asked' = [asked EXCEPT ![d] = {}]
    /\ app' = [app EXCEPT ![d].activated = exists]
    /\ UNCHANGED <<disk, pc, job, world, history, faults>>

----------------------------------------------------------------------------
(* createAccount, from the verify step of onboarding.  An error leaves the   *)
(* user there, with what has been stored, and the next try has a new key.    *)

NewKey(d, k) ==
    /\ k \in Keys /\ Made = 1 .. k - 1
    /\ maker' = [maker EXCEPT ![k] = d]
    /\ spoiled' = spoiled \ {d}

CreateAccount(d) ==
    /\ Welcome(d)
    /\ \E k \in Keys :
          /\ NewKey(d, k)
          /\ job' = [job EXCEPT ![d] = [key |-> k, target |-> k, recovering |-> FALSE]]
          /\ disk' = [disk EXCEPT ![d].secret = k]
    /\ Goto(d, "public")
    /\ UNCHANGED <<app, asked, world, faults, slip, moved>>

\* The new key is taken for the account's address.
StorePublicOfKey(d) ==
    /\ At(d, "public")
    /\ disk' = [disk EXCEPT ![d].public = job[d].key]
    /\ Goto(d, IF job[d].recovering THEN "locals" ELSE "activate")
    /\ UNCHANGED <<app, asked, job, world, faults, history>>

StorePublic(d) ==
    /\ At(d, "public")
    /\ disk' = [disk EXCEPT ![d].public = job[d].target]
    /\ Goto(d, IF job[d].recovering THEN "locals" ELSE "activate")
    /\ UNCHANGED <<app, asked, job, world, faults, history>>

\* activateAccount: done, done but not answered, or refused.
Activate(d) ==
    /\ At(d, "activate")
    /\ \E applied, answered \in BOOLEAN :
          /\ answered => applied
          /\ ledger' = IF applied THEN [ledger EXCEPT ![job[d].key] = job[d].key] ELSE ledger
          /\ Goto(d, IF answered THEN "locals" ELSE "home")
          /\ FaultUnless(answered)
    /\ UNCHANGED <<disk, app, asked, job, rows, marking, history>>

\* The profile, and of a recovered account that its email is verified.
StoreProfile(d) ==
    /\ At(d, "locals")
    /\ disk' = [disk EXCEPT ![d].named = TRUE, ![d].told = @ \/ job[d].recovering]
    /\ IF job[d].recovering
       THEN app' = [app EXCEPT ![d].me = job[d].target] /\ Goto(d, "home")
       ELSE UNCHANGED app /\ Goto(d, "register")
    /\ UNCHANGED <<asked, job, world, faults, history>>

Register(d) ==
    /\ At(d, "register")
    /\ \E sent \in BOOLEAN : RegisterUser(job[d].key, sent)
    /\ app' = [app EXCEPT ![d].me = job[d].key]
    /\ Goto(d, "confirm")
    /\ UNCHANGED <<disk, asked, job, ledger, marking, maker, spoiled, moved>>

\* The screen of the settings for an email that the phone has not verified.
VerifyEmail(d) == SignedIn(d) /\ disk[d].named /\ ~disk[d].told

\* At the end of onboarding, or later: the phone says so, and the server is told
\* without waiting for it.
ConfirmEmailVerified(d) ==
    /\ At(d, "confirm") \/ VerifyEmail(d)
    /\ disk' = [disk EXCEPT ![d].told = TRUE]
    /\ marking' = TRUE
    /\ Goto(d, "home")
    /\ UNCHANGED <<app, asked, job, ledger, rows, faults, history>>

----------------------------------------------------------------------------
(* recoverExistingAccount *)

\* recover_profile: any one of the rows with this email, if it is verified.
RecoverProfile(d) ==
    /\ Welcome(d)
    /\ \E a \in Verified, k \in Keys :
          /\ NewKey(d, k)
          /\ job' = [job EXCEPT ![d] = [key |-> k, target |-> a, recovering |-> TRUE]]
    /\ Goto(d, "check")
    /\ UNCHANGED <<disk, app, asked, world, faults, slip, moved>>

\* Every row is moved, as if no account of the directory were on the ledger.
AccountNeverExists(d) ==
    /\ At(d, "check")
    /\ Goto(d, "move")
    /\ UNCHANGED <<disk, app, asked, job, world, faults, history>>

AccountExists(d) ==
    /\ At(d, "check")
    /\ Goto(d, IF Live(job[d].target) THEN "rekey" ELSE "move")
    /\ UNCHANGED <<disk, app, asked, job, world, faults, history>>

\* An error of the call ends the recovery; it can be tried again.
CallEnds(d, done, answered) ==
    /\ answered => done
    /\ Goto(d, IF answered THEN "secret" ELSE "home")
    /\ FaultUnless(answered)

\* recover-account finds the account by the email once more, for itself.
Rekey(d) ==
    /\ At(d, "rekey")
    /\ \/ \E a \in {b \in Verified : Live(b)}, done, answered \in BOOLEAN :
             /\ ledger' = IF done THEN [ledger EXCEPT ![a] = job[d].key] ELSE ledger
             /\ spoiled' = IF done /\ a # job[d].target THEN spoiled \cup {d} ELSE spoiled
             /\ CallEnds(d, done, answered)
       \/ /\ Verified = {} \/ \E a \in Verified : ~Live(a)
          /\ Goto(d, "home")
          /\ UNCHANGED <<ledger, faults, spoiled>>
    /\ UNCHANGED <<disk, app, asked, job, rows, marking, maker, slip, moved>>

\* updateAddress: if the row is gone, nothing is moved and nothing said.
Move(d) ==
    /\ At(d, "move")
    /\ \E done, answered \in BOOLEAN :
          /\ rows' = IF done
                     THEN [rows EXCEPT ![job[d].target] = "none",
                                       ![job[d].key] = rows[job[d].target]]
                     ELSE rows
          /\ job' = [job EXCEPT ![d].target = job[d].key]
          /\ moved' = IF done THEN moved \cup {job[d].target} ELSE moved
          /\ slip' = (slip \/ (done /\ rows[job[d].target] # "verified"))
          /\ CallEnds(d, done, answered)
    /\ UNCHANGED <<disk, app, asked, ledger, marking, maker, spoiled>>

StoreSecret(d) ==
    /\ At(d, "secret")
    /\ disk' = [disk EXCEPT ![d].secret = job[d].key]
    /\ Goto(d, "public")
    /\ UNCHANGED <<app, asked, job, world, faults, history>>

----------------------------------------------------------------------------
(* Cash-in, and the two ways out *)

\* addCash looks for the account of the address, and if it is gone opens the one
\* of the stored key: another one, when the account had been recovered.
AddCash(d) ==
    /\ SignedIn(d) /\ ~Live(app[d].me)
    /\ disk[d].secret # None /\ ~Live(disk[d].secret)
    /\ ledger' = [ledger EXCEPT ![disk[d].secret] = disk[d].secret]
    /\ app' = [app EXCEPT ![d].activated = (app[d].me = disk[d].secret)]
    /\ spoiled' = spoiled \cup {e \in Devices :
           \/ At(e, "move") /\ job[e].target = disk[d].secret
           \/ e = d /\ app[d].me # disk[d].secret}
    /\ UNCHANGED <<disk, asked, pc, job, rows, marking, maker, slip, moved, faults>>

\* closeAccount calls the server if this app knows that the account is open.
CloseAccount(d) ==
    /\ SignedIn(d)
    /\ IF app[d].activated
       THEN /\ Live(app[d].me)
            /\ ledger' = [ledger EXCEPT ![app[d].me] = None]
            /\ \E answered \in BOOLEAN :
                  /\ Goto(d, IF answered THEN "wipe" ELSE "home")
                  /\ FaultUnless(answered)
       ELSE Goto(d, "discard") /\ UNCHANGED <<ledger, faults>>
    /\ UNCHANGED <<disk, app, asked, job, rows, marking, history>>

\* reset: the phone forgets an account that stays where it is.
Reset(d) ==
    /\ SignedIn(d)
    /\ Goto(d, "reset")
    /\ UNCHANGED <<disk, app, asked, job, world, history, faults>>

\* The keys of the storage are deleted together, then the memory is cleared; an
\* answer to refresh may still come.
Wipe(d) ==
    /\ pc[d] \in Wiping
    /\ disk' = [disk EXCEPT ![d] = Blank]
    /\ app' = [app EXCEPT ![d] = SignedOut]
    /\ Goto(d, "home")
    /\ spoiled' = spoiled \ {d}
    /\ UNCHANGED <<asked, job, world, maker, slip, moved, faults>>

\* A crash among the deletions.
WipeCut(d) ==
    /\ pc[d] \in Wiping /\ Fault
    /\ Forget(d)
    /\ \E left \in SUBSET {"secret", "public", "locals"} :
          disk' = [disk EXCEPT ![d] =
              [secret |-> IF "secret" \in left THEN @.secret ELSE None,
               public |-> IF "public" \in left THEN @.public ELSE None,
               named |-> @.named /\ "locals" \in left,
               told |-> @.told /\ "locals" \in left]]
    /\ spoiled' = spoiled \cup {d}
    /\ slip' = (slip \/ disk'[d].told)
    /\ UNCHANGED <<world, maker, moved>>

Step(d) ==
    \/ Boot(d) \/ Refresh(d) \/ \E exists \in BOOLEAN : Refreshed(d, exists)
    \/ CreateAccount(d) \/ StorePublic(d) \/ Activate(d) \/ StoreProfile(d)
    \/ Register(d) \/ ConfirmEmailVerified(d)
    \/ RecoverProfile(d) \/ AccountExists(d) \/ Rekey(d) \/ Move(d) \/ StoreSecret(d)
    \/ AddCash(d) \/ CloseAccount(d) \/ Reset(d) \/ Wipe(d)
    \/ WipeCut(d) \/ Crash(d) \/ Lose(d)

Next == MarkEmailVerified \/ \E d \in Devices : Step(d)

Spec == Init /\ [][Next]_vars

----------------------------------------------------------------------------
(* Properties *)

TypeOK ==
    /\ ledger \in [Keys -> MaybeKeys]
    /\ rows \in [Keys -> {"none", "plain", "verified"}]
    /\ marking \in BOOLEAN
    /\ disk \in [Devices -> Storage]
    /\ app \in [Devices -> Memory]
    /\ asked \in [Devices -> SUBSET BOOLEAN]
    /\ pc \in [Devices -> PCs]
    /\ job \in [Devices -> Locals]
    /\ maker \in [Keys -> Devices \cup {None}]
    /\ faults \in 0 .. MaxFaults
    /\ slip \in BOOLEAN /\ spoiled \subseteq Devices /\ moved \subseteq Keys

\* An app that is signed in holds the key of its account, unless another phone
\* has recovered it since: of the keys created on this phone the account obeys
\* the stored one, and that one controls no other account.  A phone left with half a
\* key pair, and a recovery overtaken by another change, are the exceptions.
KeyFits ==
    \A d \in Devices : SignedIn(d) /\ d \notin spoiled =>
        \A a \in Keys : Live(a) /\ maker[ledger[a]] = d =>
            (ledger[a] = disk[d].secret <=> a = app[d].me)

\* What a phone says of its email holds on the server, so that the account can
\* be recovered, as long as no call to the directory was lost, no crash left the
\* word of a closed account on the phone, and no other phone has recovered it since.
WordKept ==
    \A d \in Devices :
        SignedIn(d) /\ Live(app[d].me) /\ disk[d].told /\ ~slip /\ ~marking =>
            app[d].me \in Verified \cup moved

\* Within reach: some phone has the account and its key, or is about to store
\* them, or the directory leads there.
Reach(a) ==
    \/ a \in Verified
    \/ \E d \in Devices :
          \/ disk[d].secret = ledger[a] /\ disk[d].public = a
          \/ pc[d] \in {"secret", "public", "activate"} /\ job[d].key = ledger[a] /\ job[d].target = a

\* Whoever gives an account up by hand, or loses the phone; and two recoveries
\* that cross: one finds the account closed and moves its row away although it has
\* been opened again, and another one crashes after that.
GivesUp(d, a) ==
    \/ Lose(d)
    \/ pc[d] \in {"reset", "discard"} /\ pc'[d] # pc[d]
    \/ At(d, "move") /\ d \in spoiled /\ pc'[d] # "move"
    \/ pc[d] \in {"secret", "public"} /\ a \in moved /\ pc'[d] = "off"
    \/ disk'[d].secret # disk[d].secret /\ Goto(d, "public")

\* An open account never gets out of reach by what the code does on its way: a
\* crash, a lost answer or another phone's recovery included.  What its owner
\* gives up, or an opening whose answer was lost and that is tried again, does.
OnlyGivenUp ==
    [][\A a \in Keys : Live(a) /\ Reach(a) /\ Live(a)' /\ ~Reach(a)' =>
           \E d \in Devices : GivesUp(d, a)]_vars
=============================================================================
