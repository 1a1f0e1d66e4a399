------------------------------ MODULE Payments ------------------------------
(***************************************************************************)
(* People paying each other: requests for money and the screens that pay   *)
(* them, the payments on the ledger, and the usernames they are typed by.  *)
(*                                                                         *)
(* A send screen is opened blank, from the list of requests or from a      *)
(* notification, and each onSend is a chain of awaits: the name is looked  *)
(* up, the passcode asked, the sequence number loaded, the transaction     *)
(* sent and answered.  Nothing ties a request to its payment but the       *)
(* screen, whose PATCH of the status nobody waits for.                     *)
(***************************************************************************)
EXTENDS Integers, Sequences, FiniteSets

CONSTANTS
    Users,         \* accounts, each with its phone
    Names,         \* usernames
    FirstName(_),  \* the username an account was opened with
    Amounts,       \* amounts that are asked for or sent
    Fund,          \* what an account starts with
    MaxWork,       \* bound: requests made, screens opened, names changed, and profiles
                   \* that are being edited at once
    MaxFaults      \* bound: calls and answers lost

NoRequest == 0
NoAmount == 0
NoName == "none"

ASSUME NamesAssumption ==
    /\ NoName \notin Names
    /\ Names \cap Users = {}
    /\ \A u \in Users : FirstName(u) \in Names
    /\ \A u, v \in Users : FirstName(u) = FirstName(v) => u = v

ASSUME AmountsAssumption ==
    Fund \in Nat /\ Amounts \subseteq Nat /\ MaxFaults \in Nat

VARIABLES
    table,     \* requests: from (who gets paid), to (who is asked), amount, status
    list,      \* the requests an Activity screen shows
    patches,   \* status updates on their way
    screens,   \* send screens, in the order they were opened
    txs,       \* transactions on their way to the ledger
    seq,       \* sequence number of an account
    balance,
    payments,  \* the payments on the ledger
    row,       \* the username of an account in the directory
    name,      \* the username its phone shows
    naming,    \* the change of username a phone is at: its name, or none
    stored,    \* that name has been stored on the phone
    slip,      \* history: an answer of the ledger was lost
    syncing,   \* the username an edit of the profile will send along, or none
    astray,    \* history: accounts whose new name may not have reached the directory,
               \* because the look-up failed that would have found its owner, another
               \* account was after it too, the registration was lost, or an edit that
               \* had begun before put the old name back
    faults     \* number of faults so far

requests == <<table, list, patches>>
ledger == <<txs, seq, balance, payments>>
directory == <<row, name, naming, stored, syncing, astray>>
vars == <<requests, screens, ledger, directory, slip, faults>>

Statuses == {"pending", "paid", "declined"}
Steps == {"form", "asked", "sending", "landed", "failed", "done"}

Init ==
    /\ table = <<>> /\ patches = {}
    /\ list = [u \in Users |-> {}]
    /\ screens = <<>>
    /\ txs = {} /\ payments = {}
    /\ seq = [u \in Users |-> 0] /\ balance = [u \in Users |-> Fund]
    /\ row = [u \in Users |-> FirstName(u)] /\ name = row
    /\ naming = [u \in Users |-> NoName] /\ stored = [u \in Users |-> FALSE]
    /\ syncing = [u \in Users |-> NoName]
    /\ slip = FALSE /\ astray = {} /\ faults = 0

Renamed == {u \in Users : stored[u] \/ naming[u] # NoName}
Editing == {u \in Users : syncing[u] # NoName}
Work == Len(table) + Len(screens) + Cardinality(Renamed) + Cardinality(Editing) < MaxWork

Fault == faults < MaxFaults /\ faults' = faults + 1

----------------------------------------------------------------------------
(* Requests *)

\* The address itself, or the account that has the name at this moment.
Destinations(to) == IF to \in Users THEN {to} ELSE {v \in Users : row[v] = to}

\* createRequest, and the function behind it: the row, and the notification.
CreateRequest(u, v, amount) ==
    /\ u # v /\ Work
    /\ table' = Append(table, [from |-> u, to |-> v, amount |-> amount, status |-> "pending"])
    /\ UNCHANGED <<list, patches, screens, ledger, directory, slip, faults>>

OnAsk(u, to, amount) == \E v \in Destinations(to) : CreateRequest(u, v, amount)

LoadRequests(u) ==
    /\ list' = [list EXCEPT ![u] =
           {r \in DOMAIN table : table[r].to = u /\ table[r].status = "pending"}]
    /\ list' # list
    /\ UNCHANGED <<table, patches, screens, ledger, directory, slip, faults>>

OnDecline(u, r) ==
    /\ r \in list[u]
    /\ list' = [list EXCEPT ![u] = @ \ {r}]
    /\ patches' = patches \cup {[req |-> r, status |-> "declined"]}
    /\ UNCHANGED <<table, screens, ledger, directory, slip, faults>>

\* markPaid and declineRequest: in any order, whatever the status is, or lost.
Patch(p) ==
    /\ p \in patches /\ patches' = patches \ {p}
    /\ \/ table' = [table EXCEPT ![p.req].status = p.status] /\ UNCHANGED faults
       \/ Fault /\ UNCHANGED table
    /\ UNCHANGED <<list, screens, ledger, directory, slip>>

----------------------------------------------------------------------------
(* The send screen *)

Open(u, r) ==
    /\ Work
    /\ screens' = Append(screens, [user |-> u, req |-> r, to |-> u, amount |-> NoAmount,
                                   edited |-> FALSE, step |-> "form"])
    /\ UNCHANGED <<requests, ledger, directory, slip, faults>>

OpenSend(u) == Open(u, NoRequest)
PayCard(u, r) == r \in list[u] /\ Open(u, r)

\* A notification stays in the inbox, whatever has become of its request.
OnPressRow(u, r) == table[r].to = u /\ Open(u, r)

At(s, step) == s \in DOMAIN screens /\ screens[s].step = step
Goto(s, step) == screens' = [screens EXCEPT ![s].step = step]

\* What a request has filled in can be typed over.
TypedOver(r, v, amount) ==
    r # NoRequest /\ (v # table[r].from \/ amount # table[r].amount)

OnSendAt(s, steps, to, amount) ==
    /\ s \in DOMAIN screens /\ screens[s].step \in steps
    /\ \E v \in Destinations(to) \ {screens[s].user} :
          screens' = [screens EXCEPT ![s] =
              [@ EXCEPT !.to = v, !.amount = amount, !.step = "asked",
                        !.edited = TypedOver(screens[s].req, v, amount)]]
    /\ UNCHANGED <<requests, ledger, directory, slip, faults>>

\* The button stays enabled while the payment is on its way.
OnSendAgain(s, to, amount) == OnSendAt(s, {"form", "sending", "landed"}, to, amount)

\* onSend, up to the passcode.
OnSend(s, to, amount) == OnSendAt(s, {"form"}, to, amount)

\* The screen marks a request it was not opened for.
MarkedAlways(s) == patches \cup {[req |-> screens[s].req, status |-> "paid"]}

Marked(s) ==
    IF screens[s].req = NoRequest THEN patches
    ELSE patches \cup {[req |-> screens[s].req, status |-> "paid"]}

Submit(s) ==
    LET u == screens[s].user IN
    /\ At(s, "asked")
    /\ Goto(s, "sending")
    /\ txs' = txs \cup {[screen |-> s, from |-> u, to |-> screens[s].to,
                         amount |-> screens[s].amount, seq |-> seq[u], awaited |-> TRUE]}

\* The request is marked as the payment leaves.
SendMoneyMarked(s) ==
    /\ Submit(s)
    /\ patches' = Marked(s)
    /\ UNCHANGED <<table, list, seq, balance, payments, directory, slip, faults>>

\* The passcode is right: the sequence number is loaded, the payment built with
\* it and handed to fee-bump.
SendMoney(s) ==
    /\ Submit(s)
    /\ UNCHANGED <<requests, seq, balance, payments, directory, slip, faults>>

Refuse(s) ==
    /\ At(s, "asked") /\ Goto(s, "form")
    /\ UNCHANGED <<requests, ledger, directory, slip, faults>>

Hear(tx, outcome) ==
    screens' = IF tx.awaited THEN [screens EXCEPT ![tx.screen].step = outcome] ELSE screens

Valid(tx) == tx.seq = seq[tx.from] /\ tx.amount <= balance[tx.from]

Land(tx) ==
    /\ tx \in txs /\ Valid(tx) /\ txs' = txs \ {tx}
    /\ seq' = [seq EXCEPT ![tx.from] = @ + 1]
    /\ balance' = [balance EXCEPT ![tx.from] = @ - tx.amount, ![tx.to] = @ + tx.amount]
    /\ payments' = payments \cup {tx}
    /\ Hear(tx, "landed")
    /\ UNCHANGED <<requests, directory, slip, faults>>

\* Refused, by fee-bump or by the ledger, or too late.
Drop(tx) ==
    /\ tx \in txs /\ txs' = txs \ {tx}
    /\ Hear(tx, "failed")
    /\ UNCHANGED <<requests, seq, balance, payments, directory, slip, faults>>

\* Paid: the request is marked, and the screen goes.
Sent(s) ==
    /\ At(s, "landed") /\ Goto(s, "done")
    /\ patches' = Marked(s)
    /\ UNCHANGED <<table, list, ledger, directory, slip, faults>>

NotSent(s) ==
    /\ At(s, "failed") /\ Goto(s, "form")
    /\ UNCHANGED <<requests, ledger, directory, slip, faults>>

\* The call fails without an answer, and the user may try again.
Lost(s) ==
    /\ At(s, "sending") \/ At(s, "landed")
    /\ Fault /\ Goto(s, "form")
    /\ slip' = TRUE
    /\ txs' = {IF tx.screen = s THEN [tx EXCEPT !.awaited = FALSE] ELSE tx : tx \in txs}
    /\ UNCHANGED <<requests, seq, balance, payments, directory>>

----------------------------------------------------------------------------
(* Usernames *)

Free(u, n) == \A v \in Users \ {u} : row[v] # n

Owners(u, n) == {v \in Users \ {u} : row[v] = n}

\* Accounts after a name that the directory does not have them under.
Rivals(u, n) ==
    {v \in Users \ {u} : row[v] # n /\ n \in {naming[v], name[v], syncing[v]}}

\* u goes for a name that the others have or are after.
Naming(u, n, others) ==
    /\ u \notin Renamed /\ n # name[u] /\ Work
    /\ naming' = [naming EXCEPT ![u] = n]
    /\ astray' = astray \cup {v \in others : naming[v] = n}
                        \cup {v \in {u} : others # {}}
    /\ UNCHANGED <<requests, screens, ledger, row, name, stored, syncing, slip>>

\* The name is not looked up first.
ChangeUsernameUnasked(u, n) == Naming(u, n, Rivals(u, n)) /\ UNCHANGED faults

\* changeUsername: once a month, and if nobody has the name, which is also what a
\* look-up that failed says.
ChangeUsername(u, n) ==
    \/ /\ \A v \in Users : row[v] # n
       /\ Naming(u, n, Rivals(u, n))
       /\ UNCHANGED faults
    \/ Fault /\ Naming(u, n, Owners(u, n) \cup Rivals(u, n))

\* The phone has the new name before the directory does.
StoreName(u) ==
    /\ naming[u] # NoName /\ ~stored[u]
    /\ name' = [name EXCEPT ![u] = naming[u]] /\ stored' = [stored EXCEPT ![u] = TRUE]
    /\ UNCHANGED <<requests, screens, ledger, row, naming, syncing, astray, slip, faults>>

\* registerUser: the unique index refuses a name that is taken, and nobody hears.
RegisterUser(u) ==
    /\ naming[u] # NoName /\ stored[u]
    /\ naming' = [naming EXCEPT ![u] = NoName]
    /\ \/ /\ Free(u, name[u])
          /\ row' = [row EXCEPT ![u] = name[u]] /\ astray' = astray \ {u}
          /\ UNCHANGED faults
       \/ ~Free(u, name[u]) /\ UNCHANGED <<row, astray, faults>>
       \/ Fault /\ astray' = astray \cup {u} /\ UNCHANGED row
    /\ UNCHANGED <<requests, screens, ledger, name, stored, syncing, slip>>

\* updateName, setCountry and changeAvatar send the whole profile, with the username
\* of the render they were called from: the save of an edited profile is one of them,
\* after a change of username that was called from the same render.
UpdateProfile(u) ==
    /\ naming[u] = NoName /\ syncing[u] = NoName /\ Work
    /\ syncing' = [syncing EXCEPT ![u] = name[u]]
    /\ UNCHANGED <<requests, screens, ledger, row, name, naming, stored, astray, slip, faults>>

\* syncProfile: the row is overwritten, or nobody hears that it was not.
SyncProfile(u) ==
    /\ syncing[u] # NoName
    /\ syncing' = [syncing EXCEPT ![u] = NoName]
    /\ \/ UNCHANGED <<row, astray>>
       \/ /\ row[u] # syncing[u] /\ Free(u, syncing[u])
          /\ row' = [row EXCEPT ![u] = syncing[u]]
          /\ astray' = IF naming[u] = NoName /\ syncing[u] = name[u]
                       THEN astray \ {u} ELSE astray \cup {u}
    /\ UNCHANGED <<requests, screens, ledger, name, naming, stored, slip, faults>>

\* At the start of the app the profile is registered once more.
Boot(u) ==
    /\ row[u] # name[u] /\ naming[u] = NoName /\ Free(u, name[u])
    /\ row' = [row EXCEPT ![u] = name[u]] /\ astray' = astray \ {u}
    /\ UNCHANGED <<requests, screens, ledger, name, naming, stored, syncing, slip, faults>>

----------------------------------------------------------------------------

Next ==
    \/ \E u \in Users, to \in Users \cup Names, amount \in Amounts : OnAsk(u, to, amount)
    \/ \E u \in Users : LoadRequests(u) \/ OpenSend(u) \/ StoreName(u) \/ RegisterUser(u) \/ Boot(u)
    \/ \E u \in Users : UpdateProfile(u) \/ SyncProfile(u)
    \/ \E u \in Users, r \in DOMAIN table : OnDecline(u, r) \/ PayCard(u, r) \/ OnPressRow(u, r)
    \/ \E u \in Users, n \in Names : ChangeUsername(u, n)
    \/ \E p \in patches : Patch(p)
    \/ \E s \in DOMAIN screens :
          \/ \E to \in Users \cup Names, amount \in Amounts : OnSend(s, to, amount)
          \/ SendMoney(s) \/ Refuse(s) \/ Sent(s) \/ NotSent(s) \/ Lost(s)
    \/ \E tx \in txs : Land(tx) \/ Drop(tx)

Spec == Init /\ [][Next]_vars

----------------------------------------------------------------------------
(* Properties *)

TypeOK ==
    /\ table \in Seq([from : Users, to : Users, amount : Amounts, status : Statuses])
    /\ list \in [Users -> SUBSET (DOMAIN table)]
    /\ patches \subseteq [req : DOMAIN table, status : Statuses]
    /\ screens \in Seq([user : Users, req : {NoRequest} \cup DOMAIN table, to : Users,
                        amount : {NoAmount} \cup Amounts, edited : BOOLEAN, step : Steps])
    /\ txs \cup payments
           \subseteq [screen : DOMAIN screens, from : Users, to : Users, amount : Amounts, seq : Nat,
                   awaited : BOOLEAN]
    /\ seq \in [Users -> Nat] /\ balance \in [Users -> Nat]
    /\ row \in [Users -> Names] /\ name \in [Users -> Names]
    /\ naming \in [Users -> Names \cup {NoName}] /\ stored \in [Users -> BOOLEAN]
    /\ syncing \in [Users -> Names \cup {NoName}]
    /\ slip \in BOOLEAN /\ astray \subseteq Users /\ faults \in 0 .. MaxFaults

PaymentsOf(s) == {tx \in payments : tx.screen = s}

\* A request that says it is paid has been: the one who was asked has sent the
\* one who asked, from a screen opened for it, what was asked for, unless the
\* recipient or the amount was typed over there.
PaidIsPaid ==
    \A r \in DOMAIN table : table[r].status = "paid" =>
        \E s \in DOMAIN screens :
            /\ screens[s].req = r
            /\ \E tx \in PaymentsOf(s) :
                  /\ tx.from = table[r].to
                  /\ screens[s].edited \/ (tx.to = table[r].from /\ tx.amount = table[r].amount)

\* However often its button is pressed, a send screen pays once; a retry after an
\* answer that was lost is the exception.
PaysOnce == slip \/ \A s \in DOMAIN screens : Cardinality(PaymentsOf(s)) <= 1

\* The username a phone shows leads to its account and to no other: money sent to it
\* arrives.  The exceptions are the accounts whose own change met another's: the
\* look-up failed that would have found the name's owner, or another account was
\* after the name too; and those whose registration was lost, or undone by an older
\* edit of the same phone.  They end when the name is registered after all.
NameLeadsHome ==
    \A u \in Users :
        naming[u] = NoName /\ u \notin astray => Destinations(name[u]) = {u}
=============================================================================
