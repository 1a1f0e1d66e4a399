-------------------------------- MODULE Feed --------------------------------
(***************************************************************************)
(* What the wallet of one phone shows of the account it holds: the balance *)
(* and the activity, asked for by refreshes and by the events of Horizon's *)
(* payment stream, and the contacts, kept in the phone's storage and       *)
(* rewritten by merges and by the star of a contact.  Requests overlap,    *)
(* and they outlive the account they were made for.                        *)
(*                                                                         *)
(* The balance and the activity of an account are what its payments made   *)
(* them, so both are the number of payments the answer has seen.  Each     *)
(* payment has a counterparty of its own: the contact it becomes is the    *)
(* account's, and the payment's number.                                    *)
(***************************************************************************)
EXTENDS Integers, FiniteSets

CONSTANTS
    Accounts,
    Jobs,      \* bound: requests and rewritings of the contacts in flight
    MaxPaid,   \* bound: payments of an account
    MaxBreaks, \* bound: requests, streams, readings and savings that
               \* fail, wipes and restarts
    Nobody     \* no account

ASSUME FeedBounds == MaxPaid \in Nat /\ MaxBreaks \in Nat
ASSUME JobsAssumption == IsFiniteSet(Jobs)
ASSUME NobodyAssumption == Nobody \notin Accounts

MaybeAccounts == Accounts \union {Nobody}
Counts == 0 .. MaxPaid
Parts == {"balance", "activity"}
Contacts == Accounts \X (1 .. MaxPaid)
Marks == {"no", "plain", "star"}
Lists == [Contacts -> Marks]

VARIABLES
    \* the wallet
    owner,      \* publicKey, in the state and in storage
    opening,    \* createAccount or recoverExistingAccount is under way
    loaded,     \* balanceLoaded
    activated,
    shown,      \* balance and activity: whose payments, and how many of them
    contacts,   \* the contacts in the state
    store,      \* the contacts in storage
    \* the network
    paid,       \* payments of each account
    streaming,  \* the payment stream is open
    events,     \* payments the stream has still to announce
    \* what is under way
    jobs,       \* refreshes, and the two requests of a stream's event; a boot's
                \* reading of the contacts, merges and stars
    \* history
    due,        \* the payments a refresh or an event has promised to show
    wanted,     \* the contacts whose star the user has lit
    slips,      \* what has gone wrong
    breaks      \* failures, wipes and restarts so far

session == <<owner, opening, loaded, activated, streaming, events>>
book == <<contacts, store, wanted>>
feedVars == <<session, shown, paid, jobs, due, book, slips, breaks>>

Nothing == [p \in Parts |-> [of |-> Nobody, seen |-> 0]]
NoContacts == [c \in Contacts |-> "no"]
Free == [kind |-> "none", who |-> Nobody, left |-> {}, got |-> {},
         view |-> [p \in Parts |-> 0], about |-> {}, list |-> NoContacts, at |-> "read",
         old |-> FALSE]

Job(kind, a) == [Free EXCEPT !.kind = kind, !.who = a]
Ask(kind, a) == [Job(kind, a) EXCEPT !.left = Parts]

Asking == {"event", "refresh"}
Rewriting == {"boot", "merge", "star"}

Works == [kind : {"none"} \union Asking \union Rewriting,
          who : MaybeAccounts, left : SUBSET Parts, got : SUBSET Parts, view : [Parts -> Counts],
          about : SUBSET Contacts, list : Lists, at : {"read", "save", "show"}, old : BOOLEAN]

Slips == {
    "missed",  \* a request failed, or an answer took the place of a newer one or of
               \* another account's
    "stray",   \* an answer to a request made before a wipe was shown
    "lost",    \* the contacts were read while another rewriting of them was under way,
               \* or a reading or a saving of them failed
    "leak"}    \* a rewriting of the contacts made before a wipe was saved or shown

Calm == \A j \in Jobs : jobs[j].kind \notin Asking
Still == \A j \in Jobs : jobs[j].kind \notin Rewriting

FeedInit ==
    /\ owner = Nobody /\ opening = FALSE /\ loaded = FALSE /\ activated = FALSE
    /\ shown = Nothing /\ contacts = NoContacts /\ store = NoContacts
    /\ paid = [a \in Accounts |-> 0] /\ streaming = FALSE /\ events = 0
    /\ jobs = [j \in Jobs |-> Free]
    /\ due = 0 /\ wanted = {} /\ slips = {} /\ breaks = 0

Break == breaks < MaxBreaks /\ breaks' = breaks + 1

(***************************************************************************)
(* The network                                                             *)
(***************************************************************************)
\* A payment of an account, sent or received, is applied.
PaymentLands(a) ==
    /\ paid[a] < MaxPaid
    /\ paid' = [paid EXCEPT ![a] = @ + 1]
    /\ events' = IF streaming /\ a = owner THEN events + 1 ELSE events
    /\ UNCHANGED <<owner, opening, loaded, activated, streaming, shown, jobs, due, book, slips, breaks>>

\* The effect on publicKey and activated opens the stream, from now on.
StreamPayments ==
    /\ owner # Nobody /\ activated /\ ~streaming
    /\ streaming' = TRUE
    /\ UNCHANGED <<owner, opening, loaded, activated, events, shown, paid, jobs, due, book, slips, breaks>>

\* The connection is lost; what happens until it is back is not announced.
StreamDrops ==
    /\ streaming
    /\ streaming' = FALSE /\ events' = 0
    /\ Break
    /\ UNCHANGED <<owner, opening, loaded, activated, shown, paid, jobs, due, book, slips>>

(***************************************************************************)
(* The balance and the activity                                            *)
(***************************************************************************)
\* The parts ps are asked for, each to be shown when its answer comes.
Announced(j, ps) ==
    /\ events > 0 /\ jobs[j] = Free
    /\ events' = events - 1
    /\ jobs' = [jobs EXCEPT ![j] = [Ask("event", owner) EXCEPT !.left = ps]]
    /\ due' = paid[owner]
    /\ UNCHANGED <<owner, opening, loaded, activated, streaming, shown, paid, book, slips, breaks>>

\* The activity is left to the next refresh.
OnPaymentOfBalance(j) == Announced(j, {"balance"})

\* An event of the stream.
OnPayment(j) == Announced(j, Parts)

\* A refresh made while no other request is under way makes up for what was missed.
BeginRefresh(j, a) ==
    /\ jobs[j] = Free
    /\ jobs' = [jobs EXCEPT ![j] = Ask("refresh", a)]
    /\ due' = paid[a]
    /\ slips' = IF Calm THEN slips \ {"missed"} ELSE slips

\* A screen pulled down, or the end of a payment, starts a refresh.
OnRefresh(j) ==
    /\ owner # Nobody
    /\ BeginRefresh(j, owner)
    /\ UNCHANGED <<session, shown, paid, book, breaks>>

Answered(w, p, n) == [w EXCEPT !.got = @ \union {p}, !.view = [@ EXCEPT ![p] = n]]

\* Horizon answers one of the parts: every payment applied so far is in it.
AnswerPart(j, p) ==
    /\ jobs[j].kind \in Asking /\ p \in jobs[j].left \ jobs[j].got
    /\ jobs' = [jobs EXCEPT ![j] = Answered(jobs[j], p, paid[jobs[j].who])]
    /\ UNCHANGED <<session, shown, paid, due, book, slips, breaks>>

GetBalance(j) == AnswerPart(j, "balance")
GetActivity(j) == AnswerPart(j, "activity")

\* The parts ps of a job's answer are shown.
Show(w, ps) ==
    /\ shown' = [p \in Parts |->
                    IF p \in ps THEN [of |-> w.who, seen |-> w.view[p]] ELSE shown[p]]
    /\ slips' = slips
        \union {s \in {"missed"} : w.old \/ \E p \in ps : shown[p].of = w.who
                                                         /\ w.view[p] < shown[p].seen}
        \union {s \in {"stray"} : w.old}

Without(w, p) ==
    IF w.left = {p} THEN Free
    ELSE [w EXCEPT !.left = @ \ {p}, !.got = @ \ {p}, !.view = [@ EXCEPT ![p] = 0]]

\* A part of an event's answer is shown.
ShowPart(j, p) ==
    /\ jobs[j].kind = "event" /\ p \in jobs[j].left \cap jobs[j].got
    /\ Show(jobs[j], {p})
    /\ jobs' = [jobs EXCEPT ![j] = Without(jobs[j], p)]
    /\ UNCHANGED <<session, paid, due, book, breaks>>

Merging(w) ==
    [w EXCEPT !.kind = "merge", !.left = {}, !.got = {}, !.view = [@ EXCEPT !["balance"] = 0]]

\* A refresh has all of its answers: it shows them, the account is known to be open,
\* and its counterparties are merged into the contacts.
EndRefresh(j) ==
    /\ jobs[j].kind = "refresh" /\ jobs[j].got = Parts
    /\ Show(jobs[j], Parts)
    /\ loaded' = TRUE /\ activated' = TRUE
    /\ jobs' = [jobs EXCEPT ![j] = Merging(jobs[j])]
    /\ UNCHANGED <<owner, opening, streaming, events, paid, due, book, breaks>>

\* A refresh fails as a whole, and nothing of it is shown; a part of an event fails
\* alone.
Failed(j, p) ==
    /\ jobs[j].kind \in Asking /\ p \in jobs[j].left
    /\ jobs' = [jobs EXCEPT ![j] =
                   IF jobs[j].kind = "refresh" THEN Free ELSE Without(jobs[j], p)]
    /\ slips' = slips \union {"missed"}
    /\ Break
    /\ UNCHANGED <<owner, opening, activated, streaming, events, shown, paid, due, book>>

\* The balance is called loaded whatever became of the refresh.
AskFailsLoaded(j, p) == Failed(j, p) /\ loaded' = (loaded \/ jobs[j].kind = "refresh")

AskFails(j, p) == Failed(j, p) /\ UNCHANGED loaded

(***************************************************************************)
(* The contacts: read the stored list, rewrite it, show it                 *)
(***************************************************************************)
\* The user touches the star of a contact that is shown.
TouchStar(j, c) ==
    /\ owner # Nobody /\ contacts[c] # "no" /\ jobs[j] = Free
    /\ jobs' = [jobs EXCEPT ![j] = [Job("star", owner) EXCEPT !.about = {c}]]
    /\ wanted' = (wanted \ {c}) \union ({c} \ wanted)
    /\ UNCHANGED <<session, shown, paid, due, contacts, store, slips, breaks>>

\* Another rewriting has read the list and is not done with it.
Overlapped(j) == \E k \in Jobs \ {j} : jobs[k].kind \in Rewriting /\ jobs[k].at # "read"

HavingRead(w, list) ==
    [w EXCEPT !.at = IF w.kind = "boot" THEN "show" ELSE "save", !.list = list]

\* getContacts: a reading that fails, like no list at all, is an empty list.
GetContacts(j) ==
    /\ jobs[j].kind \in Rewriting /\ jobs[j].at = "read"
    /\ \E list \in {store, NoContacts} :
          /\ IF list = store THEN UNCHANGED breaks ELSE Break
          /\ jobs' = [jobs EXCEPT ![j] = HavingRead(jobs[j], list)]
          /\ slips' = slips \union {s \in {"lost"} : list # store \/ Overlapped(j)}
    /\ UNCHANGED <<session, shown, paid, due, book>>

\* A counterparty that is seen again is a contact like any other.
RewrittenPlain(w) ==
    [c \in Contacts |->
        CASE w.kind = "merge" /\ c[1] = w.who /\ c[2] <= w.view["activity"] -> "plain"
          [] w.kind = "star" /\ c \in w.about /\ w.list[c] = "plain" -> "star"
          [] w.kind = "star" /\ c \in w.about /\ w.list[c] = "star" -> "plain"
          [] OTHER -> w.list[c]]

\* mergeContacts adds the counterparties of the payments seen and leaves every star as
\* it is; toggleFavorite turns one.
Rewritten(w) ==
    [c \in Contacts |->
        CASE w.kind = "merge" /\ w.list[c] = "no"
                /\ c[1] = w.who /\ c[2] <= w.view["activity"] -> "plain"
          [] w.kind = "star" /\ c \in w.about /\ w.list[c] = "plain" -> "star"
          [] w.kind = "star" /\ c \in w.about /\ w.list[c] = "star" -> "plain"
          [] OTHER -> w.list[c]]

HavingSaved(w) ==
    [Job(w.kind, w.who) EXCEPT !.at = "show", !.list = Rewritten(w), !.old = w.old]

\* The list is saved, or the saving fails and the list is shown all the same.
SaveContacts(j) ==
    /\ jobs[j].at = "save"
    /\ jobs' = [jobs EXCEPT ![j] = HavingSaved(jobs[j])]
    /\ \/ /\ store' = Rewritten(jobs[j])
          /\ slips' = slips \union {s \in {"leak"} : jobs[j].old}
          /\ UNCHANGED breaks
       \/ /\ store' = store
          /\ slips' = slips \union {"lost"}
          /\ Break
    /\ UNCHANGED <<session, shown, paid, due, contacts, wanted>>

ShowContacts(j) ==
    /\ jobs[j].at = "show"
    /\ contacts' = jobs[j].list
    /\ jobs' = [jobs EXCEPT ![j] = Free]
    /\ slips' = slips \union {s \in {"leak"} : jobs[j].old}
    /\ UNCHANGED <<session, shown, paid, due, store, wanted, breaks>>

(***************************************************************************)
(* The account: opened or recovered, wiped, and the app started again      *)
(***************************************************************************)
StartOpening ==
    /\ owner = Nobody
    /\ opening' = TRUE /\ loaded' = FALSE
    /\ UNCHANGED <<owner, activated, streaming, events, shown, paid, jobs, due, book, slips, breaks>>

\* setPublicKey signs in: the first refresh is an effect of it.
SetPublicKey(a, j) ==
    /\ opening
    /\ owner' = a /\ opening' = FALSE
    /\ BeginRefresh(j, a)
    /\ UNCHANGED <<loaded, activated, streaming, events, shown, paid, book, breaks>>

Outlived(w) == IF w = Free THEN Free ELSE [w EXCEPT !.old = TRUE]

\* The phone forgets the account; what is under way is not stopped.
ForgetAccount ==
    /\ owner # Nobody
    /\ owner' = Nobody /\ loaded' = FALSE /\ activated' = FALSE
    /\ streaming' = FALSE /\ events' = 0
    /\ shown' = Nothing /\ contacts' = NoContacts
    /\ jobs' = [j \in Jobs |-> Outlived(jobs[j])]
    /\ due' = 0 /\ wanted' = {}
    /\ Break
    /\ UNCHANGED <<opening, paid, slips>>

\* The stored contacts are left behind.
WipeOfState == ForgetAccount /\ UNCHANGED store

\* reset, and the end of closeAccount: the stored contacts go as well.
WipeAccount == ForgetAccount /\ store' = NoContacts

\* The app dies and starts again: what was under way is gone.  The account is the one
\* in storage, where an opening may have put one already; it is refreshed, and the
\* boot reads the contacts.
Restart(a, j, k) ==
    /\ j # k /\ (a = owner \/ opening)
    /\ owner' = a /\ opening' = FALSE /\ loaded' = FALSE /\ activated' = FALSE
    /\ streaming' = FALSE /\ events' = 0
    /\ shown' = Nothing /\ contacts' = NoContacts
    /\ jobs' = [i \in Jobs |-> IF i = j THEN Job("boot", a)
                              ELSE IF i = k /\ a # Nobody THEN Ask("refresh", a) ELSE Free]
    /\ due' = IF a = Nobody THEN 0 ELSE paid[a]
    /\ slips' = (slips \ {"missed", "stray"})
                \union {s \in {"lost"} : \E i \in Jobs : jobs[i].kind = "star" /\ jobs[i].at # "show"}
    /\ Break
    /\ UNCHANGED <<paid, store, wanted>>

FeedNext ==
    \/ \E a \in Accounts : PaymentLands(a)
    \/ StreamPayments
    \/ StreamDrops
    \/ \E j \in Jobs : OnPayment(j) \/ OnRefresh(j)
    \/ \E j \in Jobs : GetBalance(j) \/ GetActivity(j) \/ EndRefresh(j)
    \/ \E j \in Jobs, p \in Parts : ShowPart(j, p) \/ AskFails(j, p)
    \/ \E j \in Jobs, c \in Contacts : TouchStar(j, c)
    \/ \E j \in Jobs : GetContacts(j) \/ SaveContacts(j) \/ ShowContacts(j)
    \/ StartOpening
    \/ \E a \in Accounts, j \in Jobs : SetPublicKey(a, j)
    \/ WipeAccount
    \/ \E a \in MaybeAccounts, j, k \in Jobs : Restart(a, j, k)

FeedSpec == FeedInit /\ [][FeedNext]_feedVars

(***************************************************************************)
(* Properties                                                              *)
(***************************************************************************)
\* Types of the variables.
FeedTypeOK ==
    /\ owner \in MaybeAccounts
    /\ <<opening, loaded, activated, streaming>> \in BOOLEAN \X BOOLEAN \X BOOLEAN \X BOOLEAN
    /\ shown \in [Parts -> [of : MaybeAccounts, seen : Counts]]
    /\ contacts \in Lists /\ store \in Lists
    /\ paid \in [Accounts -> Counts] /\ events \in Counts
    /\ jobs \in [Jobs -> Works]
    /\ due \in Counts /\ wanted \in SUBSET Contacts /\ slips \in SUBSET Slips
    /\ breaks \in 0 .. MaxBreaks

\* When nothing is under way and neither a failure nor a crossing of answers has
\* come since a refresh made alone, the screen shows the balance and the activity of
\* the account, with every payment the stream has announced and every one that was
\* there when a refresh began.
ShownIsDue ==
    owner # Nobody /\ Calm /\ "missed" \notin slips
        => loaded /\ \A p \in Parts : shown[p].of = owner /\ shown[p].seen >= due

\* A balance that is shown as loaded, and the activity under it, are those of the
\* account the phone holds, unless an answer to the account it held before came late.
ShownIsMine ==
    owner # Nobody /\ loaded /\ "stray" \notin slips
        => \A p \in Parts : shown[p].of = owner

Lit(list) == {c \in Contacts : list[c] = "star"}

\* When no rewriting of the contacts is under way, the contacts shown are the stored
\* ones and their stars those the user has lit, unless two rewritings overlapped, or
\* one could not read or save the list.
StarsKept ==
    Still /\ slips \cap {"lost", "leak"} = {}
        => contacts = store /\ Lit(store) = wanted

\* The contacts, shown and stored, are counterparties of the account the phone holds,
\* unless a rewriting of them outlived the account before.
ContactsAreMine ==
    "leak" \notin slips
        => \A c \in Contacts : store[c] # "no" \/ contacts[c] # "no" => c[1] = owner
=============================================================================
