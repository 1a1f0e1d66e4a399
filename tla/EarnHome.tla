------------------------------ MODULE EarnHome ------------------------------
(***************************************************************************)
(* What the Earn screen makes of the savings of one user: the earned line, *)
(* and the chart, a series of points (balance, principal) that the         *)
(* database keeps and bucketize turns into bars.                           *)
(*                                                                         *)
(* A point pairs a balance read from the chain with a principal read from  *)
(* the database, by two requests side by side.  Two readers take points:   *)
(* a load of the screen, which shows the pair first and logs it when the   *)
(* last point is old, and the end of every call that moved money           *)
(* (chartMovementNow), which logs it always.                               *)
(*                                                                         *)
(* The transaction of a call is EarnClient's matter: here money moves in   *)
(* one step, whether the call sees it or not.  The rate, the copy cached   *)
(* on the phone that is painted before the first load, and the closing of  *)
(* the account are left out.                                               *)
(***************************************************************************)
EXTENDS Integers, Sequences, FiniteSets, FiniteSetsExt

CONSTANTS
    Deposits,     \* calls of earnDeposit(amount)
    Withdrawals,  \* calls of earnWithdraw(amount)
    Exits,        \* calls of earnWithdraw()
    amount,       \* what each of the first two is for
    Loads,        \* loads of the screen: a focus, or a pull to refresh
    Unread,       \* a request that has not answered
    Unknown,      \* null: the principal could not be read
    MaxInterest,  \* bound: interest the vault ever pays
    MaxOpen,      \* bound: calls and readers under way at once
    MaxAsked,     \* bound: calls ever made
    MaxFaults     \* bound: errors and lost answers

Calls == Deposits \cup Withdrawals \cup Exits
Readers == Calls \cup Loads

ASSUME KindsAssumption ==
    /\ Deposits \cap Withdrawals = {} /\ Exits \cap (Deposits \cup Withdrawals) = {}
    /\ Loads \cap Calls = {}
ASSUME AmountsAssumption == amount \in [Deposits \cup Withdrawals -> Nat]
ASSUME LimitsAssumption == MaxInterest \in Nat /\ MaxFaults \in Nat
ASSUME NullsAssumption == Unread # Unknown /\ Unread \notin Nat /\ Unknown \notin Nat

VARIABLES
    position,   \* value of the user's vault shares
    interest,   \* history: interest paid so far
    principal,  \* earn_positions.net_deposited, 0 for no row
    pc,         \* where a call is
    read,       \* the principal a call has read
    rpc,        \* where a reader is
    balance,    \* the balance it has read
    net,        \* the principal it has read
    shown,      \* what the screen shows, as [v, net]
    points,     \* earn_snapshots, oldest first, as [v, net]
    fresh,      \* the last point is younger than SNAPSHOT_MIN_INTERVAL_MS
    faults,     \* how many errors there were
    orderly,    \* history: calls came one after another, and none ended unsure
                \* of its money, unrecorded, or with its read failed
    steady,     \* history: no other call was under way while a pair was read
    apart       \* history: readers came one after another and knew the principal

fund == <<position, interest>>
callVars == <<principal, pc, read, orderly>>
readVars == <<balance, net>>
screenVars == <<shown, points, fresh>>
homeVars == <<rpc, readVars, screenVars, steady, apart>>
allHome == <<fund, callVars, homeVars, faults>>

PCs == {"idle", "moving", "record", "writing", "done"}
ReaderPCs == {"idle", "reading", "checking", "logging", "done"}

HomeInit ==
    /\ position = 0 /\ interest = 0 /\ principal = 0
    /\ pc = [c \in Calls |-> "idle"]
    /\ read = [c \in Calls |-> 0]
    /\ rpc = [r \in Readers |-> "idle"]
    /\ balance = [r \in Readers |-> Unread]
    /\ net = [r \in Readers |-> Unread]
    /\ shown = [v |-> 0, net |-> Unknown]
    /\ points = <<>> /\ fresh = FALSE
    /\ faults = 0 /\ orderly = TRUE /\ steady = TRUE /\ apart = TRUE

Ended(c) == pc[c] \in {"idle", "done"}
Active(r) == rpc[r] \notin {"idle", "done"}
Underway == {c \in Calls : ~Ended(c)} \cup {r \in Readers : Active(r)}

Goto(c, from, to) == pc[c] = from /\ pc' = [pc EXCEPT ![c] = to]
Reads(r, from, to) == rpc[r] = from /\ rpc' = [rpc EXCEPT ![r] = to]

----------------------------------------------------------------------------
(* The readers *)

Less(n, m) == IF n > m THEN n - m ELSE 0

\* Promise.all of getSupplied and getNetDeposited.
StartReading(r) ==
    /\ Reads(r, "idle", "reading")
    /\ apart' = (apart /\ \A q \in Readers : ~Active(q))
    /\ UNCHANGED <<readVars, screenVars>>

Undisturbed(r) == \A c \in Calls \ {r} : Ended(c)

ReadBalance(r) ==
    /\ rpc[r] = "reading" /\ balance[r] = Unread
    /\ balance' = [balance EXCEPT ![r] = position]
    /\ steady' = (steady /\ Undisturbed(r))
    /\ UNCHANGED <<fund, callVars, rpc, net, screenVars, apart>>

ReadNet(r) ==
    /\ rpc[r] = "reading" /\ net[r] = Unread
    /\ net' = [net EXCEPT ![r] = principal]
    /\ steady' = (steady /\ Undisturbed(r))
    /\ UNCHANGED <<fund, callVars, rpc, balance, screenVars, apart>>

\* getNetDeposited answers null for an error; the point will say 0.
NetUnknown(r) ==
    /\ rpc[r] = "reading" /\ net[r] = Unread
    /\ net' = [net EXCEPT ![r] = Unknown]
    /\ apart' = FALSE
    /\ UNCHANGED <<fund, callVars, rpc, balance, screenVars, steady>>

BothRead(r) == balance[r] # Unread /\ net[r] # Unread

\* A reader that has ended keeps nothing.
Forget(r) ==
    /\ balance' = [balance EXCEPT ![r] = Unread]
    /\ net' = [net EXCEPT ![r] = Unread]

\* The balance cannot be read, the insert fails, or the app dies.
ReaderStops(r) ==
    /\ Active(r)
    /\ Reads(r, rpc[r], "done")
    /\ Forget(r)
    /\ UNCHANGED <<fund, callVars, screenVars, steady, apart>>

\* The insert of recordSnapshotNow and of maybeRecordSnapshot.
InsertPoint(r, v, n) ==
    /\ points' = Append(points, [v |-> v, net |-> n])
    /\ fresh' = TRUE
    /\ Forget(r)
    /\ UNCHANGED <<fund, callVars, shown, steady, apart>>

Known(n) == IF n = Unknown THEN 0 ELSE n

----------------------------------------------------------------------------
(* The Earn screen: load *)

OnFocus(l) ==
    /\ StartReading(l)
    /\ Cardinality(Underway) < MaxOpen
    /\ UNCHANGED <<fund, callVars, steady>>

ShowAs(l, n) ==
    /\ BothRead(l)
    /\ Reads(l, "reading", "checking")
    /\ shown' = [v |-> balance[l], net |-> n]
    /\ UNCHANGED <<fund, callVars, readVars, points, fresh, steady, apart>>

\* A principal that could not be read shown as none.
ShowKnown(l) == ShowAs(l, Known(net[l]))

Show(l) == ShowAs(l, net[l])

\* maybeRecordSnapshot goes on to its insert.
CheckAge(l) ==
    /\ Reads(l, "checking", "logging")
    /\ balance[l] > 0 /\ ~fresh
    /\ UNCHANGED <<fund, callVars, readVars, screenVars, steady, apart>>

\* Nothing to chart, or a point of the last 15 minutes.
NoPoint(l) ==
    /\ Reads(l, "checking", "done")
    /\ balance[l] = 0 \/ fresh
    /\ Forget(l)
    /\ UNCHANGED <<fund, callVars, screenVars, steady, apart>>

\* The age of the last point cannot be read, and the insert follows.
AgeUnread(l) ==
    /\ Reads(l, "checking", "logging")
    /\ balance[l] > 0
    /\ UNCHANGED <<fund, callVars, readVars, screenVars, steady, apart>>

LogPoint(l) ==
    /\ Reads(l, "logging", "done")
    /\ InsertPoint(l, balance[l], Known(net[l]))

\* Fifteen minutes go by.
Ages ==
    /\ fresh /\ fresh' = FALSE
    /\ UNCHANGED <<fund, callVars, rpc, readVars, shown, points, steady, apart>>

----------------------------------------------------------------------------
(* The calls: earnDeposit, earnWithdraw *)

Ask(c) ==
    /\ Goto(c, "idle", "moving")
    /\ Cardinality(Underway) < MaxOpen
    /\ Cardinality({d \in Calls : pc[d] # "idle"}) < MaxAsked
    /\ orderly' = (orderly /\ \A d \in Calls : Ended(d))
    /\ steady' = (steady /\ \A r \in Readers : rpc[r] # "reading")
    /\ UNCHANGED <<fund, principal, read, rpc, readVars, screenVars, apart>>

\* What the position is once the vault has done what the call asks.
Moved(c) ==
    CASE c \in Deposits    -> position + amount[c]
      [] c \in Withdrawals -> Less(position, amount[c])
      [] OTHER             -> 0

\* Where a call goes on once the money has moved: resetDeposits reads nothing.
Recording(c) == IF c \in Exits THEN "writing" ELSE "record"

Moves(c) ==
    /\ Goto(c, "moving", Recording(c))
    /\ position' = Moved(c)
    /\ UNCHANGED <<interest, principal, read, orderly, homeVars>>

\* The money moves, and the call does not learn of it.
MovesUnseen(c) ==
    /\ Goto(c, "moving", "done")
    /\ position' = Moved(c)
    /\ orderly' = FALSE
    /\ UNCHANGED <<interest, principal, read, homeVars>>

\* The call fails, or the app dies; what it had still to record is lost.
Throw(c) ==
    /\ ~Ended(c)
    /\ pc' = [pc EXCEPT ![c] = "done"]
    /\ orderly' = (orderly /\ pc[c] = "moving")
    /\ UNCHANGED <<fund, principal, read, homeVars>>

ReadPrincipal(c) ==
    /\ Goto(c, "record", "writing")
    /\ read' = [read EXCEPT ![c] = principal]
    /\ UNCHANGED <<fund, principal, orderly, homeVars>>

\* A read that fails is null, and null is taken for 0.
ReadFails(c) ==
    /\ Goto(c, "record", "writing")
    /\ read' = [read EXCEPT ![c] = 0]
    /\ orderly' = FALSE
    /\ UNCHANGED <<fund, principal, homeVars>>

Recorded(c) ==
    CASE c \in Deposits    -> read[c] + amount[c]
      [] c \in Withdrawals -> Less(read[c], amount[c])
      [] OTHER             -> 0

\* recordDeposit, recordWithdrawal, resetDeposits.
Write(c) ==
    /\ Goto(c, "writing", "done")
    /\ principal' = Recorded(c)
    /\ read' = [read EXCEPT ![c] = 0]
    /\ UNCHANGED <<fund, orderly>>

\* They swallow their errors.
WriteLost(c) ==
    /\ pc[c] \in {"record", "writing"}
    /\ pc' = [pc EXCEPT ![c] = "done"]
    /\ orderly' = FALSE
    /\ UNCHANGED <<fund, principal, read>>

\* The chart's point taken while the record is still to be written.
FinishChartFirst(c) ==
    \/ /\ Goto(c, "moving", Recording(c))
       /\ position' = Moved(c)
       /\ StartReading(c)
       /\ UNCHANGED <<interest, principal, read, orderly, steady>>
    \/ Write(c) /\ UNCHANGED homeVars

\* "After real money movement": chartMovementNow follows the record.
Finish(c) == Write(c) /\ StartReading(c) /\ UNCHANGED steady
FinishUnrecorded(c) == WriteLost(c) /\ StartReading(c) /\ UNCHANGED steady

\* A point with the principal as it was read.
ChartMovementNull(c) ==
    /\ BothRead(c)
    /\ Reads(c, "reading", "done")
    /\ InsertPoint(c, balance[c], net[c])

ChartMovement(c) ==
    /\ BothRead(c)
    /\ Reads(c, "reading", "done")
    /\ InsertPoint(c, balance[c], Known(net[c]))

Interest ==
    /\ position > 0 /\ interest < MaxInterest
    /\ position' = position + 1 /\ interest' = interest + 1
    /\ UNCHANGED <<callVars, homeVars>>

Fault ==
    \/ \E c \in Calls :
          MovesUnseen(c) \/ Throw(c) \/ ReadFails(c) \/ FinishUnrecorded(c)
    \/ \E r \in Readers : NetUnknown(r) \/ ReaderStops(r)
    \/ \E l \in Loads : AgeUnread(l)

Step ==
    \/ \E c \in Calls :
          Ask(c) \/ Moves(c) \/ ReadPrincipal(c) \/ Finish(c) \/ ChartMovement(c)
    \/ \E l \in Loads : OnFocus(l) \/ Show(l) \/ CheckAge(l) \/ NoPoint(l) \/ LogPoint(l)
    \/ \E r \in Readers : ReadBalance(r) \/ ReadNet(r)
    \/ Ages \/ Interest

HomeNext ==
    \/ Step /\ UNCHANGED faults
    \/ Fault /\ faults < MaxFaults /\ faults' = faults + 1

HomeSpec == HomeInit /\ [][HomeNext]_allHome

----------------------------------------------------------------------------
(* The chart: bucketize *)

\* Balance less principal at a point; the values carried in start at 0.
Gain(k) == IF k = 0 THEN 0 ELSE points[k].v - points[k].net

\* A bucket from after point j up to point k: the change of the balance that the
\* change of the principal does not explain.
BarEarned(j, k) == Less(Gain(k), Gain(j))

\* The earnings of all bars together.  An edge is the last point before the start
\* of a bar or the end of the window, and the first of them seeds the values that
\* are carried forward.
ChartEarned(edges) ==
    MapThenSumSet(LAMBDA k : BarEarned(Max({j \in edges : j < k}), k),
                  {k \in edges : \E j \in edges : j < k})

----------------------------------------------------------------------------
(* Properties *)

HomeTypeOK ==
    /\ position \in Nat /\ interest \in 0 .. MaxInterest /\ principal \in Nat
    /\ pc \in [Calls -> PCs] /\ read \in [Calls -> Nat] /\ orderly \in BOOLEAN
    /\ faults \in 0 .. MaxFaults
    /\ rpc \in [Readers -> ReaderPCs]
    /\ balance \in [Readers -> Nat \cup {Unread}]
    /\ net \in [Readers -> Nat \cup {Unread, Unknown}]
    /\ shown \in [v : Nat, net : Nat \cup {Unknown}]
    /\ points \in Seq([v : Nat, net : Nat])
    /\ fresh \in BOOLEAN /\ steady \in BOOLEAN /\ apart \in BOOLEAN

\* The earned line of the screen, hidden when the principal is not known.
Earned == IF shown.net = Unknown \/ shown.v = 0 THEN 0 ELSE Less(shown.v, shown.net)

\* What the screen shows as earned is interest that was paid: the balance and the
\* principal it subtracts come from two requests, but none of a moment at which
\* money has moved and is not recorded, and a principal that is not known is not 0.
ShownIsInterest == orderly /\ steady => Earned <= interest

\* What the bars of the chart say was earned is, all together and over whatever
\* range, no more than the interest paid, through deposits, withdrawals of
\* interest and exits: no point is taken between a movement and its record.
ChartIsInterest ==
    orderly /\ steady /\ apart =>
       \A edges \in SUBSET (0 .. Len(points)) : ChartEarned(edges) <= interest
=============================================================================
