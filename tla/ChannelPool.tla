---------------------------- MODULE ChannelPool ----------------------------
(***************************************************************************)
(* The pool of Stellar channel accounts that supplies a sequence number to *)
(* every transaction the treasury co-signs: the two SQL functions over     *)
(* channel_accounts (claim_channel_account, release_channel_account), the  *)
(* edge functions that use a channel for one request each, and as much of  *)
(* the ledger as they depend on, a sequence number per channel.            *)
(*                                                                         *)
(* Two kinds of request run here.  A server request (recover-account,      *)
(* close-account, deliver-cash-in) claims, loads the sequence, submits and *)
(* releases in one invocation.  An activation is split: reserve-channel    *)
(* claims and loads, the client builds and signs, and activate-account     *)
(* looks the row up again, submits and releases.                           *)
(*                                                                         *)
(* Time is the time that is left: lease[c] is locked_until - now() and     *)
(* ttl[r] is maxTime - now, each stopping at -1, "in the past".            *)
(***************************************************************************)
EXTENDS Integers

CONSTANTS
    Channels,     \* public keys of the pool, as integers: claims order by key
    Servers,      \* requests that run in a single invocation
    Activations,  \* requests of the reserve-channel / activate-account pair
    LeaseSecs,    \* p_lease_seconds
    TxSecs,       \* setTimeout(60): validity of a built transaction
    NoLease,      \* SQL NULL in locked_until
    NoOne         \* no transaction holds the row lock

Requests == Servers \cup Activations

ASSUME ChannelsAssumption == Channels \subseteq Int /\ Channels # {}
ASSUME KindsAssumption == Servers \cap Activations = {}
ASSUME TimesAssumption == LeaseSecs \in Nat /\ TxSecs \in Nat
ASSUME NullsAssumption == NoLease \notin Int /\ NoOne \notin Requests

VARIABLES
    busy,      \* channel_accounts.busy
    lease,     \* channel_accounts.locked_until, as time left or NoLease
    rowLock,   \* the claim whose FOR UPDATE holds the row
    seqNum,    \* the channel's sequence number on the ledger
    pc,        \* where a request is
    ch,        \* the channel the request was given
    seq,       \* the sequence number its transaction carries
    ttl,       \* time left of its transaction's time bound
    tx,        \* what became of its transaction
    clean      \* history: no lease has ended before the work done under it

rowVars == <<busy, lease, rowLock>>
reqVars == <<pc, ch, seq, ttl>>
vars == <<rowVars, seqNum, reqVars, tx, clean>>

PCs == {"idle", "selecting", "claimed", "built", "approved", "awaiting",
        "finally", "done"}
Txs == {"none", "inflight", "landed", "bad_seq", "failed"}

(***************************************************************************)
(* A channel the WHERE clause of the claim accepts.  NULL < now() is not   *)
(* true, so a busy row without a lease is never accepted.                  *)
(***************************************************************************)
Expired(c) == lease[c] # NoLease /\ lease[c] < 0
Claimable(c) == ~busy[c] \/ Expired(c)

\* A request that has picked a channel and not yet left it.
Working(r) == pc[r] \notin {"idle", "done"}
\* The request, or the transaction it left behind, still needs the channel.
Using(r) == Working(r) \/ tx[r] = "inflight"

\* What ch holds before a request is given a channel; never used.
SomeChannel == CHOOSE c \in Channels : TRUE

Init ==
    /\ busy = [c \in Channels |-> FALSE]
    /\ lease = [c \in Channels |-> NoLease]
    /\ rowLock = [c \in Channels |-> NoOne]
    /\ seqNum = [c \in Channels |-> 0]
    /\ pc = [r \in Requests |-> "idle"]
    /\ ch = [r \in Requests |-> SomeChannel]
    /\ seq = [r \in Requests |-> 0]
    /\ ttl = [r \in Requests |-> -1]
    /\ tx = [r \in Requests |-> "none"]
    /\ clean = TRUE

----------------------------------------------------------------------------
(* claim_channel_account *)

\* Select without SKIP LOCKED: a row another claim is about to take is seen.
ClaimSelectUnlocked(r) ==
    /\ pc[r] = "idle"
    /\ \E c \in {d \in Channels : Claimable(d)} :
          /\ rowLock' = [rowLock EXCEPT ![c] = r]
          /\ ch' = [ch EXCEPT ![r] = c]
    /\ pc' = [pc EXCEPT ![r] = "selecting"]
    /\ UNCHANGED <<busy, lease, seqNum, seq, ttl, tx, clean>>

\* SELECT ... ORDER BY public_key LIMIT 1 FOR UPDATE SKIP LOCKED.
ClaimSelect(r) ==
    LET free == {c \in Channels : Claimable(c) /\ rowLock[c] = NoOne} IN
    /\ pc[r] = "idle"
    /\ \E c \in free :
          /\ \A d \in free : c <= d
          /\ rowLock' = [rowLock EXCEPT ![c] = r]
          /\ ch' = [ch EXCEPT ![r] = c]
    /\ pc' = [pc EXCEPT ![r] = "selecting"]
    /\ UNCHANGED <<busy, lease, seqNum, seq, ttl, tx, clean>>

\* RAISE EXCEPTION 'no channel accounts available'.
ClaimNone(r) ==
    /\ pc[r] = "idle"
    /\ \A c \in Channels : ~Claimable(c) \/ rowLock[c] # NoOne
    /\ pc' = [pc EXCEPT ![r] = "done"]
    /\ UNCHANGED <<rowVars, seqNum, ch, seq, ttl, tx, clean>>

\* A lease in the wrong unit.
ClaimCommitMillis(r) ==
    /\ pc[r] = "selecting"
    /\ busy' = [busy EXCEPT ![ch[r]] = TRUE]
    /\ lease' = [lease EXCEPT ![ch[r]] = 1000 * LeaseSecs]
    /\ rowLock' = [rowLock EXCEPT ![ch[r]] = NoOne]
    /\ pc' = [pc EXCEPT ![r] = "claimed"]
    /\ UNCHANGED <<seqNum, ch, seq, ttl, tx, clean>>

\* The claim that forgets to set locked_until.
ClaimCommitNoLease(r) ==
    /\ pc[r] = "selecting"
    /\ busy' = [busy EXCEPT ![ch[r]] = TRUE]
    /\ lease' = [lease EXCEPT ![ch[r]] = NoLease]
    /\ rowLock' = [rowLock EXCEPT ![ch[r]] = NoOne]
    /\ pc' = [pc EXCEPT ![r] = "claimed"]
    /\ UNCHANGED <<seqNum, ch, seq, ttl, tx, clean>>

\* UPDATE ... SET busy, locked_until; the commit drops the row lock.
ClaimCommit(r) ==
    /\ pc[r] = "selecting"
    /\ busy' = [busy EXCEPT ![ch[r]] = TRUE]
    /\ lease' = [lease EXCEPT ![ch[r]] = LeaseSecs]
    /\ rowLock' = [rowLock EXCEPT ![ch[r]] = NoOne]
    /\ pc' = [pc EXCEPT ![r] = "claimed"]
    /\ UNCHANGED <<seqNum, ch, seq, ttl, tx, clean>>

----------------------------------------------------------------------------
(* The work done under a claim *)

\* The channel's sequence number read once, at deployment.
BuildCached(r) ==
    /\ pc[r] = "claimed"
    /\ seq' = [seq EXCEPT ![r] = 1]
    /\ ttl' = [ttl EXCEPT ![r] = TxSecs]
    /\ pc' = [pc EXCEPT ![r] = "built"]
    /\ UNCHANGED <<rowVars, seqNum, ch, tx, clean>>

\* loadAccount(channel), then a transaction on the next sequence number.
Build(r) ==
    /\ pc[r] = "claimed"
    /\ seq' = [seq EXCEPT ![r] = seqNum[ch[r]] + 1]
    /\ ttl' = [ttl EXCEPT ![r] = TxSecs]
    /\ pc' = [pc EXCEPT ![r] = "built"]
    /\ UNCHANGED <<rowVars, seqNum, ch, tx, clean>>

\* activate-account: loadReservedChannelSecret asks only whether the row is
\* busy; a row that is not ends the invocation through its finally block.
CheckReserved(r) ==
    /\ r \in Activations
    /\ pc[r] = "built"
    /\ pc' = [pc EXCEPT ![r] = IF busy[ch[r]] THEN "approved" ELSE "finally"]
    /\ UNCHANGED <<rowVars, seqNum, ch, seq, ttl, tx, clean>>

Submit(r) ==
    /\ pc[r] = IF r \in Servers THEN "built" ELSE "approved"
    /\ tx' = [tx EXCEPT ![r] = "inflight"]
    /\ pc' = [pc EXCEPT ![r] = "awaiting"]
    /\ UNCHANGED <<rowVars, seqNum, ch, seq, ttl, clean>>

\* Horizon answers with the transaction's fate.
Answer(r) ==
    /\ pc[r] = "awaiting"
    /\ tx[r] # "inflight"
    /\ pc' = [pc EXCEPT ![r] = "finally"]
    /\ UNCHANGED <<rowVars, seqNum, ch, seq, ttl, tx, clean>>

\* Any error on the way, a submission that times out while its transaction is
\* still pending included.  A client that fails calls nothing more, so an
\* activation that is built reaches no finally block (see Crash).
Throw(r) ==
    /\ \/ pc[r] \in {"claimed", "approved", "awaiting"}
       \/ pc[r] = "built" /\ r \in Servers
    /\ pc' = [pc EXCEPT ![r] = "finally"]
    /\ UNCHANGED <<rowVars, seqNum, ch, seq, ttl, tx, clean>>

\* finally: release_channel_account(public_key).  It names a channel and no
\* claim.  It waits for the row lock, and the best-effort call may be lost.
Release(r) ==
    /\ pc[r] = "finally"
    /\ rowLock[ch[r]] = NoOne
    /\ busy' = [busy EXCEPT ![ch[r]] = FALSE]
    /\ lease' = [lease EXCEPT ![ch[r]] = NoLease]
    /\ pc' = [pc EXCEPT ![r] = "done"]
    /\ clean' = (clean /\ tx[r] # "inflight")
    /\ UNCHANGED <<rowLock, seqNum, ch, seq, ttl, tx>>

ReleaseLost(r) ==
    /\ pc[r] = "finally"
    /\ pc' = [pc EXCEPT ![r] = "done"]
    /\ UNCHANGED <<rowVars, seqNum, ch, seq, ttl, tx, clean>>

\* The invocation, or the client between its two calls, dies.  An open claim
\* is rolled back, which drops its row lock.
Crash(r) ==
    /\ Working(r)
    /\ pc' = [pc EXCEPT ![r] = "done"]
    /\ rowLock' = [c \in Channels |-> IF rowLock[c] = r THEN NoOne ELSE rowLock[c]]
    /\ UNCHANGED <<busy, lease, seqNum, ch, seq, ttl, tx, clean>>

----------------------------------------------------------------------------
(* The ledger, and time *)

\* A valid transaction is applied and consumes the sequence number, whether
\* or not its operations succeed.
Land(r) ==
    /\ tx[r] = "inflight"
    /\ seq[r] = seqNum[ch[r]] + 1
    /\ ttl[r] >= 0
    /\ seqNum' = [seqNum EXCEPT ![ch[r]] = @ + 1]
    /\ tx' = [tx EXCEPT ![r] = "landed"]
    /\ UNCHANGED <<rowVars, reqVars, clean>>

\* tx_bad_seq: its sequence number has been used.
BadSeq(r) ==
    /\ tx[r] = "inflight"
    /\ seq[r] # seqNum[ch[r]] + 1
    /\ tx' = [tx EXCEPT ![r] = "bad_seq"]
    /\ UNCHANGED <<rowVars, seqNum, reqVars, clean>>

\* Any other refusal: too late, fee, a full queue.
Refuse(r) ==
    /\ tx[r] = "inflight"
    /\ tx' = [tx EXCEPT ![r] = "failed"]
    /\ UNCHANGED <<rowVars, seqNum, reqVars, clean>>

Older(t) == IF t = -1 THEN -1 ELSE t - 1

\* The two statements of a claim fall within one tick, so now() is the same for
\* both.  The lease of a request that still needs its channel must not run out.
Tick ==
    /\ \A c \in Channels : rowLock[c] = NoOne
    /\ lease' = [c \in Channels |->
                    IF lease[c] = NoLease THEN NoLease ELSE Older(lease[c])]
    /\ ttl' = [r \in Requests |-> IF Using(r) THEN Older(ttl[r]) ELSE -1]
    /\ clean' = (clean /\ \A r \in Requests : Using(r) => lease[ch[r]] # 0)
    /\ UNCHANGED <<busy, rowLock, seqNum, pc, ch, seq, tx>>

Step(r) ==
    \/ ClaimSelect(r) \/ ClaimNone(r) \/ ClaimCommit(r)
    \/ Build(r) \/ CheckReserved(r) \/ Submit(r) \/ Answer(r) \/ Throw(r)
    \/ Release(r) \/ ReleaseLost(r) \/ Crash(r)
    \/ Land(r) \/ BadSeq(r) \/ Refuse(r)

Next == Tick \/ \E r \in Requests : Step(r)

\* Time passes, and an open claim is a database transaction that ends.  Nothing
\* else is sure to happen: a request may stop anywhere.
Fairness ==
    /\ WF_vars(Tick)
    /\ \A r \in Requests : WF_vars(ClaimCommit(r))

Spec == Init /\ [][Next]_vars /\ Fairness

----------------------------------------------------------------------------
(* Properties *)

TypeOK ==
    /\ busy \in [Channels -> BOOLEAN]
    /\ lease \in [Channels -> {NoLease} \cup (-1 .. LeaseSecs)]
    /\ rowLock \in [Channels -> Requests \cup {NoOne}]
    /\ seqNum \in [Channels -> Nat]
    /\ pc \in [Requests -> PCs]
    /\ ch \in [Requests -> Channels]
    /\ seq \in [Requests -> Nat]
    /\ ttl \in [Requests -> -1 .. TxSecs]
    /\ tx \in [Requests -> Txs]
    /\ clean \in BOOLEAN

\* While no lease has ended before the work done under it, no two requests (or
\* the transactions they left in flight) use one channel.
ExclusiveWhileClean ==
    clean => \A r, s \in Requests :
                r # s /\ Using(r) /\ Using(s) => ch[r] # ch[s]

\* The purpose of the pool: as long as every lease outlives the work done
\* under it, the ledger answers tx_bad_seq to nobody.
NoBadSeqWhileClean ==
    clean => \A r \in Requests : tx[r] # "bad_seq"

\* Who uses a channel, and whose transaction was applied.
Users == [c \in Channels |-> {r \in Requests : Using(r) /\ ch[r] = c}]
Served == {r \in Requests : tx[r] = "landed"}

Promise == INSTANCE SequencePool
               WITH users <- Users, number <- seqNum, served <- Served,
                    broken <- ~clean

\* The pool keeps its promise: through claims, crashes, lost releases and
\* answers that never come, and as long as every lease outlives the work done
\* under it, a channel changes hands only when nobody uses it, and each number of
\* its sequence is used up by the one request that holds it, and once.
KeepsPromise == Promise!Spec

\* A claim commits only on a row that is still free or stale: between its
\* SELECT and its UPDATE nobody else took the row.
ClaimTakesClaimableRow ==
    [][\A r \in Requests :
          pc[r] = "selecting" /\ pc'[r] = "claimed" => Claimable(ch[r])]_vars

\* A channel left busy by a crash or a lost release heals: from any state the
\* row becomes claimable again, whatever the requests do.
LeaseSelfHeals ==
    \A c \in Channels : busy[c] ~> Claimable(c)
=============================================================================
