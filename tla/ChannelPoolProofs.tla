------------------------- MODULE ChannelPoolProofs -------------------------
(***************************************************************************)
(* For every number of channels and requests, every lease and every time   *)
(* bound: the pool's rows stay well typed, and while no lease has ended    *)
(* before the work done under it no two requests share a channel and the   *)
(* ledger answers tx_bad_seq to nobody.                                    *)
(***************************************************************************)
EXTENDS ChannelPool, TLAPS

(***************************************************************************)
(* The strengthening.  A row lock belongs to the one open claim on a row   *)
(* that is still claimable; a transaction in flight belongs to a request   *)
(* past its submission; and, while clean, a request that holds its channel *)
(* holds it under a running lease, alone, with the next sequence number.   *)
(***************************************************************************)
LocksOpenClaims ==
    \A r \in Requests :
        pc[r] = "selecting" => rowLock[ch[r]] = r

LockedRowsClaimable ==
    \A c \in Channels : rowLock[c] # NoOne =>
        /\ Claimable(c)
        /\ pc[rowLock[c]] = "selecting"
        /\ ch[rowLock[c]] = c

SubmittedOnly ==
    \A r \in Requests :
        tx[r] = "inflight" => pc[r] \in {"awaiting", "finally", "done"}

UnderLease ==
    \A r \in Requests :
        Using(r) /\ pc[r] # "selecting" =>
            busy[ch[r]] /\ lease[ch[r]] # NoLease /\ lease[ch[r]] >= 0

Exclusive ==
    \A r, s \in Requests : r # s /\ Using(r) /\ Using(s) => ch[r] # ch[s]

NextSeq ==
    \A r \in Requests :
        pc[r] \in {"built", "approved"} \/ tx[r] = "inflight" =>
            seq[r] = seqNum[ch[r]] + 1

NoneRefused == \A r \in Requests : tx[r] # "bad_seq"

CleanInv == UnderLease /\ Exclusive /\ NextSeq /\ NoneRefused

IInv ==
    /\ TypeOK
    /\ LocksOpenClaims
    /\ LockedRowsClaimable
    /\ SubmittedOnly
    /\ clean => CleanInv

----------------------------------------------------------------------------
\* The type invariant holds initially: every row free, every request idle.
LEMMA InitType == Init => TypeOK
<1>1. SomeChannel \in Channels
  BY ChannelsAssumption, Zenon DEF SomeChannel
<1>2. QED
  BY <1>1, TimesAssumption DEF Init, TypeOK, PCs, Txs

\* No step of a request leaves the types.
LEMMA StepType ==
    ASSUME TypeOK, NEW r \in Requests, Step(r)
    PROVE  TypeOK'
<1> USE TimesAssumption, NullsAssumption DEF TypeOK, PCs, Txs, rowVars, reqVars
<1>1. CASE ClaimSelect(r)
  BY <1>1 DEF ClaimSelect
<1>2. CASE ClaimNone(r)
  BY <1>2 DEF ClaimNone
<1>3. CASE ClaimCommit(r)
  BY <1>3 DEF ClaimCommit
<1>4. CASE Build(r)
  BY <1>4 DEF Build
<1>5. CASE CheckReserved(r)
  BY <1>5 DEF CheckReserved
<1>6. CASE Submit(r)
  BY <1>6 DEF Submit
<1>7. CASE Answer(r) \/ Throw(r) \/ ReleaseLost(r)
  BY <1>7 DEF Answer, Throw, ReleaseLost
<1>8. CASE Release(r)
  BY <1>8 DEF Release
<1>9. CASE Crash(r)
  BY <1>9 DEF Crash
<1>10. CASE Land(r)
  BY <1>10 DEF Land
<1>11. CASE BadSeq(r) \/ Refuse(r)
  BY <1>11 DEF BadSeq, Refuse
<1>12. QED
  BY <1>1, <1>2, <1>3, <1>4, <1>5, <1>6, <1>7, <1>8, <1>9, <1>10, <1>11
     DEF Step

\* Time only brings leases and time bounds nearer to the past.
LEMMA TickType == TypeOK /\ Tick => TypeOK'
<1> SUFFICES ASSUME TypeOK, Tick PROVE TypeOK'
  OBVIOUS
<1>1. ASSUME NEW n \in Nat, NEW t \in -1 .. n PROVE Older(t) \in -1 .. n
  BY DEF Older
<1>2. lease' \in [Channels -> {NoLease} \cup (-1 .. LeaseSecs)]
  BY <1>1, TimesAssumption, NullsAssumption DEF Tick, TypeOK
<1>3. ttl' \in [Requests -> -1 .. TxSecs]
  BY <1>1, TimesAssumption DEF Tick, TypeOK
<1>4. QED
  BY <1>2, <1>3 DEF Tick, TypeOK

\* Every row and every request is well typed in every reachable state.
THEOREM TypeCorrect == Spec => []TypeOK
<1>1. TypeOK /\ [Next]_vars => TypeOK'
  <2> SUFFICES ASSUME TypeOK, [Next]_vars PROVE TypeOK'
    OBVIOUS
  <2>1. CASE UNCHANGED vars
    BY <2>1 DEF TypeOK, vars, rowVars, reqVars
  <2>2. CASE Next
    BY <2>2, StepType, TickType DEF Next
  <2>3. QED
    BY <2>1, <2>2
<1>2. QED
  BY InitType, <1>1, PTL DEF Spec
----------------------------------------------------------------------------
\* The strengthening holds initially.
LEMMA InitInv == Init => IInv
<1> SUFFICES ASSUME Init PROVE IInv
  OBVIOUS
<1>1. TypeOK
  BY InitType
<1>2. \A r \in Requests : ~Using(r) /\ pc[r] = "idle" /\ tx[r] = "none"
  BY DEF Init, Using, Working
<1>3. LocksOpenClaims /\ LockedRowsClaimable /\ SubmittedOnly
  BY <1>2 DEF LocksOpenClaims, LockedRowsClaimable, SubmittedOnly, Init
<1>4. CleanInv
  BY <1>2 DEF CleanInv, UnderLease, Exclusive, NextSeq, NoneRefused
<1>5. QED
  BY <1>1, <1>3, <1>4 DEF IInv

\* Taking the row lock of a claimable row: nobody else uses that channel, for a
\* user either holds the lock itself or keeps the row busy under a lease.
LEMMA SelectInv ==
    ASSUME IInv, TypeOK', NEW r \in Requests, ClaimSelect(r)
    PROVE  IInv'
<1> USE NullsAssumption DEF TypeOK
<1> PICK c \in Channels :
        /\ Claimable(c) /\ rowLock[c] = NoOne
        /\ rowLock' = [rowLock EXCEPT ![c] = r]
        /\ ch' = [ch EXCEPT ![r] = c]
  BY DEF ClaimSelect
<1>1. /\ TypeOK
      /\ pc[r] = "idle" /\ pc' = [pc EXCEPT ![r] = "selecting"]
      /\ UNCHANGED <<busy, lease, seqNum, seq, ttl, tx, clean>>
  BY DEF ClaimSelect, IInv
<1>2. tx[r] # "inflight"
  BY <1>1 DEF IInv, SubmittedOnly
<1>3. \A d \in Channels : Claimable(d)' = Claimable(d)
  BY <1>1 DEF Claimable, Expired
<1>4. LocksOpenClaims' /\ LockedRowsClaimable'
  BY <1>1, <1>3 DEF IInv, LocksOpenClaims, LockedRowsClaimable
<1>5. SubmittedOnly'
  BY <1>1, <1>2 DEF IInv, SubmittedOnly
<1>6. ASSUME clean' PROVE CleanInv'
  <2>1. CleanInv
    BY <1>1, <1>6 DEF IInv
  <2>2. \A s \in Requests : s # r => Using(s)' = Using(s) /\ ch'[s] = ch[s]
    BY <1>1 DEF Using, Working
  <2>3. \A s \in Requests : s # r /\ Using(s) => ch[s] # c
    BY <1>1, <2>1 DEF IInv, LocksOpenClaims, CleanInv, UnderLease, Claimable, Expired
  <2>4. UnderLease' /\ Exclusive'
    BY <1>1, <2>1, <2>2, <2>3 DEF CleanInv, UnderLease, Exclusive
  <2>5. NextSeq' /\ NoneRefused'
    BY <1>1, <1>2, <2>1 DEF CleanInv, NextSeq, NoneRefused
  <2>6. QED
    BY <2>4, <2>5 DEF CleanInv
<1>7. QED
  BY <1>4, <1>5, <1>6 DEF IInv

\* The commit turns the row lock into a running lease.
LEMMA CommitInv ==
    ASSUME IInv, TypeOK', NEW r \in Requests, ClaimCommit(r)
    PROVE  IInv'
<1> USE NullsAssumption, TimesAssumption DEF TypeOK
<1>1. /\ TypeOK /\ rowLock[ch[r]] = r
      /\ pc[r] = "selecting" /\ pc' = [pc EXCEPT ![r] = "claimed"]
      /\ rowLock' = [rowLock EXCEPT ![ch[r]] = NoOne]
      /\ UNCHANGED <<ch, seqNum, seq, ttl, tx, clean>>
  BY DEF ClaimCommit, IInv, LocksOpenClaims
<1>2. \A d \in Channels : d # ch[r] => Claimable(d)' = Claimable(d)
  BY <1>1 DEF ClaimCommit, Claimable, Expired
<1>3. LocksOpenClaims' /\ LockedRowsClaimable'
  BY <1>1, <1>2 DEF IInv, LocksOpenClaims, LockedRowsClaimable
<1>4. SubmittedOnly'
  BY <1>1 DEF IInv, SubmittedOnly
<1>5. ASSUME clean' PROVE CleanInv'
  <2>1. CleanInv
    BY <1>1, <1>5 DEF IInv
  <2>2. \A s \in Requests : Using(s)' = Using(s)
    BY <1>1 DEF Using, Working
  <2>3. UnderLease' /\ Exclusive'
    BY <1>1, <2>1, <2>2 DEF ClaimCommit, CleanInv, UnderLease, Exclusive, Using, Working
  <2>4. NextSeq' /\ NoneRefused'
    BY <1>1, <2>1 DEF CleanInv, NextSeq, NoneRefused
  <2>5. QED
    BY <2>3, <2>4 DEF CleanInv
<1>6. QED
  BY <1>3, <1>4, <1>5 DEF IInv
\* A step that leaves the rows alone and moves one request, not out of an open
\* claim, keeps what concerns locks.
LEMMA LocksKept ==
    ASSUME IInv, TypeOK', NEW r \in Requests, pc[r] # "selecting",
           UNCHANGED <<rowVars, ch>>,
           pc' = pc \/ \E q \in PCs \ {"selecting"} : pc' = [pc EXCEPT ![r] = q]
    PROVE  LocksOpenClaims' /\ LockedRowsClaimable'
<1>1. \A s \in Requests : pc'[s] = "selecting" <=> pc[s] = "selecting"
  BY DEF IInv, TypeOK
<1>2. \A c \in Channels : Claimable(c)' = Claimable(c)
  BY DEF Claimable, Expired, rowVars
<1>3. QED
  BY <1>1, <1>2, NullsAssumption
     DEF IInv, TypeOK, LocksOpenClaims, LockedRowsClaimable, rowVars

\* The work under a claim, up to the moment the channel is given back.
LEMMA WorkInv ==
    ASSUME IInv, TypeOK', NEW r \in Requests,
           \/ ClaimNone(r) \/ Build(r) \/ CheckReserved(r) \/ Submit(r)
           \/ Answer(r) \/ Throw(r) \/ ReleaseLost(r)
    PROVE  IInv'
<1> USE DEF TypeOK, ClaimNone, Build, CheckReserved, Submit, Answer, Throw,
            ReleaseLost
<1>1. /\ TypeOK /\ UNCHANGED <<rowVars, ch, seqNum, clean>>
      /\ pc[r] \in PCs \ {"selecting", "done"}
      /\ \E q \in PCs \ {"idle", "selecting"} : pc' = [pc EXCEPT ![r] = q]
  BY DEF IInv, PCs
<1>2. LocksOpenClaims' /\ LockedRowsClaimable'
  BY <1>1, LocksKept
<1>3. SubmittedOnly'
  BY DEF IInv, SubmittedOnly
<1>4. ASSUME clean' PROVE CleanInv'
  <2>1. CleanInv
    BY <1>1, <1>4 DEF IInv
  <2>2. \A s \in Requests : Using(s)' => Using(s)
    BY <1>1 DEF Using, Working
  <2>3. UnderLease'
    BY <1>1, <2>1, <2>2 DEF CleanInv, UnderLease, rowVars
  <2>4. Exclusive'
    BY <1>1, <2>1, <2>2 DEF CleanInv, Exclusive
  <2>5. NextSeq'
    BY <2>1 DEF CleanInv, NextSeq
  <2>6. NoneRefused'
    BY <2>1 DEF CleanInv, NoneRefused
  <2>7. QED
    BY <2>3, <2>4, <2>5, <2>6 DEF CleanInv
<1>5. QED
  BY <1>2, <1>3, <1>4 DEF IInv

\* The release ends the lease, which while clean nobody else relies on: the
\* channel has no other user, and one left in flight makes the state unclean.
LEMMA ReleaseInv ==
    ASSUME IInv, TypeOK', NEW r \in Requests, Release(r)
    PROVE  IInv'
<1> USE NullsAssumption DEF TypeOK
<1>1. /\ TypeOK /\ pc[r] = "finally" /\ rowLock[ch[r]] = NoOne
      /\ pc' = [pc EXCEPT ![r] = "done"]
      /\ busy' = [busy EXCEPT ![ch[r]] = FALSE]
      /\ lease' = [lease EXCEPT ![ch[r]] = NoLease]
      /\ clean' = (clean /\ tx[r] # "inflight")
      /\ UNCHANGED <<rowLock, seqNum, ch, seq, ttl, tx>>
  BY DEF Release, IInv
<1>2. \A d \in Channels : d # ch[r] => Claimable(d)' = Claimable(d)
  BY <1>1 DEF Claimable, Expired
<1>3. LocksOpenClaims' /\ LockedRowsClaimable'
  BY <1>1, <1>2 DEF IInv, LocksOpenClaims, LockedRowsClaimable
<1>4. SubmittedOnly'
  BY <1>1 DEF IInv, SubmittedOnly
<1>5. ASSUME clean' PROVE CleanInv'
  <2>1. CleanInv /\ tx[r] # "inflight"
    BY <1>1, <1>5 DEF IInv
  <2>2. /\ Using(r) /\ ~Using(r)'
        /\ \A s \in Requests : s # r => Using(s)' = Using(s)
    BY <1>1, <2>1 DEF Using, Working
  <2>3. UnderLease' /\ Exclusive'
    BY <1>1, <2>1, <2>2 DEF CleanInv, UnderLease, Exclusive
  <2>4. NextSeq' /\ NoneRefused'
    BY <1>1, <2>1 DEF CleanInv, NextSeq, NoneRefused
  <2>5. QED
    BY <2>3, <2>4 DEF CleanInv
<1>6. QED
  BY <1>3, <1>4, <1>5 DEF IInv

\* A crash gives back no lease; it only rolls back the crashed claim's lock.
LEMMA CrashInv ==
    ASSUME IInv, TypeOK', NEW r \in Requests, Crash(r)
    PROVE  IInv'
<1> USE NullsAssumption DEF TypeOK
<1>1. /\ TypeOK /\ Working(r)
      /\ pc' = [pc EXCEPT ![r] = "done"]
      /\ rowLock' = [c \in Channels |->
                        IF rowLock[c] = r THEN NoOne ELSE rowLock[c]]
      /\ UNCHANGED <<busy, lease, seqNum, ch, seq, ttl, tx, clean>>
  BY DEF Crash, IInv
<1>2. \A d \in Channels : Claimable(d)' = Claimable(d)
  BY <1>1 DEF Claimable, Expired
<1>3. LocksOpenClaims' /\ LockedRowsClaimable'
  BY <1>1, <1>2 DEF IInv, LocksOpenClaims, LockedRowsClaimable
<1>4. SubmittedOnly'
  BY <1>1 DEF IInv, SubmittedOnly
<1>5. ASSUME clean' PROVE CleanInv'
  <2>1. CleanInv
    BY <1>1, <1>5 DEF IInv
  <2>2. \A s \in Requests :
           Using(s)' => Using(s) /\ (pc[s] = "selecting" => s # r)
    BY <1>1 DEF Using, Working, IInv, SubmittedOnly
  <2>3. UnderLease' /\ Exclusive'
    BY <1>1, <2>1, <2>2 DEF CleanInv, UnderLease, Exclusive
  <2>4. NextSeq' /\ NoneRefused'
    BY <1>1, <2>1 DEF CleanInv, NextSeq, NoneRefused
  <2>5. QED
    BY <2>3, <2>4 DEF CleanInv
<1>6. QED
  BY <1>3, <1>4, <1>5 DEF IInv

\* The ledger: a transaction that lands uses up its own channel's number, and
\* while clean no other request counts on that channel.
LEMMA LedgerInv ==
    ASSUME IInv, TypeOK', NEW r \in Requests, Land(r) \/ BadSeq(r) \/ Refuse(r)
    PROVE  IInv'
<1> USE DEF TypeOK, Land, BadSeq, Refuse, reqVars
<1>1. /\ TypeOK /\ UNCHANGED <<rowVars, pc, ch, seq, clean>>
      /\ tx[r] = "inflight" /\ pc[r] \in {"awaiting", "finally", "done"}
      /\ \E f \in {"landed", "bad_seq", "failed"} : tx' = [tx EXCEPT ![r] = f]
  BY DEF IInv, SubmittedOnly
<1>2. LocksOpenClaims' /\ LockedRowsClaimable'
  BY <1>1, LocksKept
<1>3. SubmittedOnly'
  BY <1>1 DEF IInv, SubmittedOnly
<1>4. ASSUME clean' PROVE CleanInv'
  <2>1. CleanInv
    BY <1>1, <1>4 DEF IInv
  <2>2. \A s \in Requests : Using(s)' => Using(s)
    BY <1>1 DEF Using, Working
  <2>3. UnderLease' /\ Exclusive'
    BY <1>1, <2>1, <2>2 DEF CleanInv, UnderLease, Exclusive, rowVars
  <2>4. ~BadSeq(r)
    BY <2>1 DEF CleanInv, NextSeq
  <2>5. NextSeq'
    <3> SUFFICES ASSUME NEW s \in Requests,
                        pc'[s] \in {"built", "approved"} \/ tx'[s] = "inflight"
                 PROVE  seq'[s] = seqNum'[ch'[s]] + 1
      BY DEF NextSeq
    <3>1. s # r /\ Using(r) /\ Using(s)
      BY <1>1 DEF Using, Working
    <3>2. ch[s] # ch[r] /\ seq[s] = seqNum[ch[s]] + 1
      BY <1>1, <2>1, <3>1 DEF CleanInv, Exclusive, NextSeq
    <3>3. QED
      BY <1>1, <3>2
  <2>6. NoneRefused'
    BY <1>1, <2>1, <2>4 DEF CleanInv, NoneRefused
  <2>7. QED
    BY <2>3, <2>5, <2>6 DEF CleanInv
<1>5. QED
  BY <1>2, <1>3, <1>4 DEF IInv

\* A tick leaves the state clean only if no lease in use runs out with it.
LEMMA TickInv == IInv /\ TypeOK' /\ Tick => IInv'
<1> SUFFICES ASSUME IInv, TypeOK', Tick PROVE IInv'
  OBVIOUS
<1> USE NullsAssumption, TimesAssumption DEF TypeOK
<1>1. /\ TypeOK /\ UNCHANGED <<busy, rowLock, pc, ch, seqNum, seq, tx>>
      /\ \A c \in Channels : rowLock[c] = NoOne
      /\ lease' = [c \in Channels |->
                      IF lease[c] = NoLease THEN NoLease ELSE Older(lease[c])]
      /\ clean' = (clean /\ \A r \in Requests : Using(r) => lease[ch[r]] # 0)
  BY DEF Tick, IInv
<1>2. LocksOpenClaims' /\ LockedRowsClaimable' /\ SubmittedOnly'
  BY <1>1 DEF IInv, LocksOpenClaims, LockedRowsClaimable, SubmittedOnly
<1>3. ASSUME clean' PROVE CleanInv'
  <2>1. CleanInv
    BY <1>1, <1>3 DEF IInv
  <2>2. \A r \in Requests : Using(r)' = Using(r)
    BY <1>1 DEF Using, Working
  <2>3. UnderLease'
    <3> SUFFICES ASSUME NEW r \in Requests, Using(r)', pc'[r] # "selecting"
                 PROVE  (busy[ch[r]] /\ lease[ch[r]] # NoLease /\ lease[ch[r]] >= 0)'
      BY DEF UnderLease
    <3>1. busy[ch[r]] /\ lease[ch[r]] # NoLease /\ lease[ch[r]] >= 0
      BY <1>1, <2>1, <2>2 DEF CleanInv, UnderLease
    <3>2. lease[ch[r]] # 0
      BY <1>1, <1>3, <2>2
    <3>3. lease[ch[r]] \in 1 .. LeaseSecs
      BY <1>1, <3>1, <3>2
    <3>4. QED
      BY <1>1, <3>1, <3>3 DEF Older
  <2>4. Exclusive' /\ NextSeq' /\ NoneRefused'
    BY <1>1, <2>1, <2>2 DEF CleanInv, Exclusive, NextSeq, NoneRefused
  <2>5. QED
    BY <2>3, <2>4 DEF CleanInv
<1>4. QED
  BY <1>2, <1>3 DEF IInv

\* The strengthening is inductive, so it holds in every reachable state.
LEMMA Inductive == Spec => []IInv
<1>1. IInv /\ [Next]_vars => IInv'
  <2> SUFFICES ASSUME IInv, [Next]_vars PROVE IInv'
    OBVIOUS
  <2>1. CASE UNCHANGED vars
    BY <2>1 DEF vars, rowVars, reqVars, IInv, TypeOK, LocksOpenClaims,
                LockedRowsClaimable, SubmittedOnly, CleanInv, UnderLease,
                Exclusive, NextSeq, NoneRefused, Claimable, Expired, Using,
                Working
  <2>2. CASE Tick
    BY <2>2, TickInv, TickType DEF IInv
  <2>3. ASSUME NEW r \in Requests, Step(r) PROVE IInv'
    <3>1. TypeOK'
      BY <2>3, StepType DEF IInv
    <3>2. QED
      BY <2>3, <3>1, SelectInv, CommitInv, WorkInv, ReleaseInv, CrashInv,
         LedgerInv DEF Step
  <2>4. QED
    BY <2>1, <2>2, <2>3 DEF Next
<1>2. QED
  BY InitInv, <1>1, PTL DEF Spec

----------------------------------------------------------------------------
\* While no lease has ended before the work done under it, no two requests,
\* nor the transactions they left in flight, use one channel.
THEOREM PoolIsExclusive == Spec => []ExclusiveWhileClean
<1>1. IInv => ExclusiveWhileClean
  BY DEF IInv, CleanInv, Exclusive, ExclusiveWhileClean
<1>2. QED
  BY <1>1, Inductive, PTL

\* While no lease has ended before the work done under it, no transaction is
\* refused for its sequence number.
THEOREM PoolPreventsBadSeq == Spec => []NoBadSeqWhileClean
<1>1. IInv => NoBadSeqWhileClean
  BY DEF IInv, CleanInv, NoneRefused, NoBadSeqWhileClean
<1>2. QED
  BY <1>1, Inductive, PTL

\* A claim commits only on a row that is still free or stale, in every
\* reachable state, clean or not.
THEOREM ClaimsAreSafe == Spec => ClaimTakesClaimableRow
<1>1. IInv /\ [Next]_vars =>
        [\A r \in Requests : pc[r] = "selecting" /\ pc'[r] = "claimed"
                              => Claimable(ch[r])]_vars
  BY NullsAssumption
     DEF IInv, TypeOK, LocksOpenClaims, LockedRowsClaimable
<1>2. QED
  BY <1>1, Inductive, PTL DEF Spec, ClaimTakesClaimableRow

----------------------------------------------------------------------------
(* The refinement.  A step that leaves the lease of some user behind breaks  *)
(* the promise; every other step changes the users of one channel at most.   *)

\* No request has a channel, and no number has been used up, at first.
LEMMA InitPromise == Init => Promise!Init
<1> SUFFICES ASSUME Init PROVE Promise!Init
  OBVIOUS
<1>1. \A r \in Requests : ~Using(r) /\ tx[r] # "landed"
  BY DEF Init, Using, Working
<1>2. Users = [c \in Channels |-> {}] /\ Served = {}
  BY <1>1 DEF Users, Served
<1>3. QED
  BY <1>2 DEF Init, Promise!Init

\* A step after which the promise is broken is one the abstract pool may take.
LEMMA BrokenSteps == ~clean' => Promise!Next
BY DEF Promise!Next, Promise!Break

\* While the promise stands a channel has one user, if any.
LEMMA OneUser ==
    ASSUME IInv, clean, NEW r \in Requests, Using(r)
    PROVE  ch[r] \in Channels /\ Users[ch[r]] = {r}
<1>1. ch[r] \in Channels
  BY DEF IInv, TypeOK
<1>2. \A s \in Requests : Using(s) /\ ch[s] = ch[r] => s = r
  BY DEF IInv, CleanInv, Exclusive
<1>3. QED
  BY <1>1, <1>2 DEF Users

\* A step in which a request goes on using its channel, or starts nothing, is
\* not seen.
LEMMA SameUsers ==
    ASSUME UNCHANGED <<ch, seqNum, clean>>,
           \A r \in Requests : Using(r)' = Using(r),
           \A r \in Requests : tx'[r] = "landed" <=> tx[r] = "landed"
    PROVE  UNCHANGED <<Users, seqNum, Served, ~clean>>
BY DEF Users, Served

\* A request that stops using its channel leaves it to nobody.
LEMMA UserLeaves ==
    ASSUME IInv, clean, NEW r \in Requests, Using(r), ~Using(r)', ch' = ch,
           \A s \in Requests \ {r} : Using(s)' = Using(s)
    PROVE  Users' = [Users EXCEPT ![ch[r]] = {}]
<1>1. Users[ch[r]] = {r}
  BY OneUser
<1>2. \A c \in Channels : Users'[c] = IF c = ch[r] THEN {} ELSE Users[c]
  <2> SUFFICES ASSUME NEW c \in Channels
               PROVE  Users'[c] = IF c = ch[r] THEN {} ELSE Users[c]
    OBVIOUS
  <2>1. Users'[c] = {s \in Requests : Using(s)' /\ ch[s] = c}
    BY DEF Users
  <2>2. Users[c] = {s \in Requests : Using(s) /\ ch[s] = c}
    BY DEF Users
  <2>3. CASE c = ch[r]
    BY <1>1, <2>1, <2>2, <2>3
  <2>4. CASE c # ch[r]
    BY <2>1, <2>2, <2>4
  <2>5. QED
    BY <2>3, <2>4
<1>3. QED
  BY <1>2 DEF Users

\* A request that has not submitted has no transaction.
SubmitsOnce ==
    \A r \in Requests :
        pc[r] \in {"idle", "selecting", "claimed", "built", "approved"} => tx[r] = "none"

\* It submits at one place, from which it never comes back.
LEMMA OneSubmission == Spec => []SubmitsOnce
<1>1. Init => SubmitsOnce
  BY DEF Init, SubmitsOnce
<1>2. TypeOK /\ SubmitsOnce /\ [Next]_vars => SubmitsOnce'
  <2> SUFFICES ASSUME TypeOK, SubmitsOnce, [Next]_vars PROVE SubmitsOnce'
    OBVIOUS
  <2>1. CASE UNCHANGED vars \/ Tick
    BY <2>1 DEF SubmitsOnce, vars, reqVars, Tick
  <2>2. ASSUME NEW r \in Requests, Step(r) PROVE SubmitsOnce'
    <3> USE DEF SubmitsOnce, TypeOK, reqVars
    <3>1. CASE ClaimSelect(r) \/ ClaimNone(r) \/ ClaimCommit(r) \/ Build(r)
      BY <3>1 DEF ClaimSelect, ClaimNone, ClaimCommit, Build
    <3>2. CASE CheckReserved(r) \/ Submit(r) \/ Answer(r) \/ Throw(r)
      BY <3>2 DEF CheckReserved, Submit, Answer, Throw
    <3>3. CASE Release(r) \/ ReleaseLost(r) \/ Crash(r)
      BY <3>3 DEF Release, ReleaseLost, Crash
    <3>4. CASE Land(r) \/ BadSeq(r) \/ Refuse(r)
      BY <3>4 DEF Land, BadSeq, Refuse
    <3>5. QED
      BY <2>2, <3>1, <3>2, <3>3, <3>4 DEF Step
  <2>3. QED
    BY <2>1, <2>2 DEF Next
<1>3. QED
  BY <1>1, <1>2, TypeCorrect, PTL DEF Spec

\* A claim takes a channel that nobody uses.
LEMMA ClaimTakes ==
    ASSUME IInv, SubmitsOnce, clean, NEW r \in Requests, ClaimSelect(r)
    PROVE  Promise!Next
<1> PICK c \in Channels :
        /\ Claimable(c) /\ rowLock[c] = NoOne
        /\ ch' = [ch EXCEPT ![r] = c]
  BY DEF ClaimSelect
<1>1. /\ pc[r] = "idle" /\ pc' = [pc EXCEPT ![r] = "selecting"]
      /\ tx[r] = "none" /\ UNCHANGED <<seqNum, tx, clean>>
  BY DEF ClaimSelect, SubmitsOnce
<1>2. \A s \in Requests : Using(s) => ch[s] # c
  <2> SUFFICES ASSUME NEW s \in Requests, Using(s), ch[s] = c PROVE FALSE
    OBVIOUS
  <2>1. CASE pc[s] = "selecting"
    BY <2>1, NullsAssumption DEF IInv, LocksOpenClaims
  <2>2. CASE pc[s] # "selecting"
    <3>1. busy[c] /\ lease[c] # NoLease /\ lease[c] >= 0
      BY <2>2 DEF IInv, CleanInv, UnderLease
    <3>2. lease[c] \in Int
      BY <3>1 DEF IInv, TypeOK
    <3>3. QED
      BY <3>1, <3>2 DEF Claimable, Expired
  <2>3. QED
    BY <2>1, <2>2
<1>3. Users[c] = {}
  BY <1>2 DEF Users
<1>4. ~Using(r) /\ \A d \in Channels : r \notin Users[d]
  BY <1>1 DEF Using, Working, Users
<1>5. /\ Using(r)' /\ ch'[r] = c
      /\ \A s \in Requests \ {r} : Using(s)' = Using(s) /\ ch'[s] = ch[s]
  BY <1>1 DEF IInv, TypeOK, Using, Working
<1>6. Users' = [Users EXCEPT ![c] = {r}]
  <2>1. \A d \in Channels : Users'[d] = IF d = c THEN {r} ELSE Users[d]
    <3> SUFFICES ASSUME NEW d \in Channels
                 PROVE  Users'[d] = IF d = c THEN {r} ELSE Users[d]
      OBVIOUS
    <3>1. Users'[d] = {s \in Requests : Using(s)' /\ ch'[s] = d}
      BY DEF Users
    <3>2. Users[d] = {s \in Requests : Using(s) /\ ch[s] = d}
      BY DEF Users
    <3>3. CASE d = c
      BY <1>2, <1>5, <3>1, <3>3
    <3>4. CASE d # c
      BY <1>4, <1>5, <3>1, <3>2, <3>4
    <3>5. QED
      BY <3>3, <3>4
  <2>2. QED
    BY <2>1 DEF Users
<1>7. Served' = Served
  BY <1>1 DEF Served
<1>8. Promise!Take(r, c)
  BY <1>1, <1>3, <1>4, <1>6, <1>7 DEF Promise!Take
<1>9. QED
  BY <1>8 DEF Promise!Next

\* The work under a claim, and a claim that finds nothing, are not seen.
LEMMA WorkUnseen ==
    ASSUME IInv, SubmitsOnce, NEW r \in Requests,
           \/ ClaimNone(r) \/ ClaimCommit(r) \/ Build(r) \/ CheckReserved(r)
           \/ Submit(r) \/ Answer(r) \/ Throw(r)
    PROVE  UNCHANGED <<Users, seqNum, Served, ~clean>>
<1> USE DEF ClaimNone, ClaimCommit, Build, CheckReserved, Submit, Answer, Throw
<1>1. /\ UNCHANGED <<ch, seqNum, clean>>
      /\ \A s \in Requests \ {r} : pc'[s] = pc[s] /\ tx'[s] = tx[s]
  BY DEF IInv, TypeOK
<1>2. Using(r)' = Using(r)
  BY DEF IInv, TypeOK, SubmitsOnce, Using, Working
<1>3. tx'[r] = "landed" <=> tx[r] = "landed"
  BY DEF IInv, TypeOK, SubmitsOnce
<1>4. \A s \in Requests : Using(s)' = Using(s)
  BY <1>1, <1>2 DEF Using, Working
<1>5. QED
  BY <1>1, <1>3, <1>4, SameUsers

\* The ways out: a release, a crash, and a transaction that is refused after its
\* request has gone.  The request leaves, or its transaction keeps the channel.
LEMMA WaysOut ==
    ASSUME IInv, SubmitsOnce, clean, clean', NEW r \in Requests,
           \/ Release(r) \/ ReleaseLost(r) \/ Crash(r) \/ BadSeq(r) \/ Refuse(r)
    PROVE  Promise!Next \/ UNCHANGED <<Users, seqNum, Served, ~clean>>
<1> USE DEF Release, ReleaseLost, Crash, BadSeq, Refuse, reqVars
<1>1. /\ UNCHANGED <<ch, seqNum>> /\ clean' = clean
      /\ \A s \in Requests \ {r} : pc'[s] = pc[s] /\ tx'[s] = tx[s]
  BY DEF IInv, TypeOK
<1>2. Using(r)
  BY DEF Using, Working
<1>3. tx'[r] = "landed" <=> tx[r] = "landed"
  BY DEF IInv, TypeOK
<1>4. Served' = Served
  BY <1>1, <1>3 DEF Served
<1>5. \A s \in Requests \ {r} : Using(s)' = Using(s)
  BY <1>1 DEF Using, Working
<1>6. CASE Using(r)'
  <2>1. \A s \in Requests : Using(s)' = Using(s)
    BY <1>2, <1>5, <1>6 DEF Using, Working
  <2>2. \A s \in Requests : tx'[s] = "landed" <=> tx[s] = "landed"
    BY <1>1, <1>3
  <2>3. QED
    BY <1>1, <2>1, <2>2, SameUsers
<1>7. CASE ~Using(r)'
  <2>1. Users' = [Users EXCEPT ![ch[r]] = {}]
    BY <1>1, <1>2, <1>5, <1>7, UserLeaves
  <2>2. ch[r] \in Channels /\ Users[ch[r]] = {r}
    BY <1>2, OneUser
  <2>3. Promise!Leave(r, ch[r])
    BY <1>1, <1>4, <2>1, <2>2 DEF Promise!Leave
  <2>4. QED
    BY <2>2, <2>3 DEF Promise!Next
<1>8. QED
  BY <1>6, <1>7

\* A transaction that is applied uses up the number its request was served.
LEMMA LandServes ==
    ASSUME IInv, clean, NEW r \in Requests, Land(r)
    PROVE  Promise!Next
<1>1. /\ tx[r] = "inflight" /\ tx' = [tx EXCEPT ![r] = "landed"]
      /\ seqNum' = [seqNum EXCEPT ![ch[r]] = @ + 1]
      /\ UNCHANGED <<pc, ch, clean>>
  BY DEF Land, reqVars
<1>2. Using(r) /\ \A s \in Requests \ {r} : Using(s)' = Using(s)
  BY <1>1 DEF Using, Working, IInv, TypeOK
<1>3. ch[r] \in Channels /\ Users[ch[r]] = {r}
  BY <1>2, OneUser
<1>4. r \notin Served /\ Served' = Served \cup {r}
  BY <1>1 DEF Served, IInv, TypeOK
<1>5. Users' \in {Users, [Users EXCEPT ![ch[r]] = {}]}
  <2>1. CASE Using(r)'
    <3>1. \A s \in Requests : Using(s)' = Using(s)
      BY <1>2, <2>1 DEF Using, Working
    <3>2. QED
      BY <1>1, <3>1 DEF Users
  <2>2. CASE ~Using(r)'
    BY <1>1, <1>2, <2>2, UserLeaves
  <2>3. QED
    BY <2>1, <2>2
<1>6. Promise!Serve(r, ch[r])
  BY <1>1, <1>3, <1>4, <1>5 DEF Promise!Serve
<1>7. QED
  BY <1>3, <1>6 DEF Promise!Next

\* Every step of the pool is a step of the promise, or is not seen.
LEMMA StepPromise ==
    ASSUME IInv, SubmitsOnce, [Next]_vars
    PROVE  Promise!Next \/ UNCHANGED <<Users, seqNum, Served, ~clean>>
<1>1. CASE UNCHANGED vars
  BY <1>1, SameUsers DEF vars, reqVars, Using, Working
<1>2. CASE Next /\ ~clean'
  BY <1>2, BrokenSteps
<1>3. CASE Next /\ clean'
  <2>1. CASE Tick
    <3>1. UNCHANGED <<pc, ch, tx, seqNum>> /\ clean' = clean
      BY <1>3, <2>1 DEF Tick
    <3>2. QED
      BY <3>1, SameUsers DEF Using, Working
  <2>2. ASSUME NEW r \in Requests, Step(r)
        PROVE  Promise!Next \/ UNCHANGED <<Users, seqNum, Served, ~clean>>
    <3>1. clean
      BY <1>3, <2>2 DEF Step, ClaimSelect, ClaimNone, ClaimCommit, Build,
         CheckReserved, Submit, Answer, Throw, Release, ReleaseLost, Crash,
         Land, BadSeq, Refuse
    <3>2. QED
      BY <1>3, <2>2, <3>1, ClaimTakes, WorkUnseen, WaysOut, LandServes DEF Step
  <2>3. QED
    BY <1>3, <2>1, <2>2 DEF Next
<1>4. QED
  BY <1>1, <1>2, <1>3

\* The pool implements the promise: while every lease outlives the work done
\* under it, a channel changes hands only when nobody uses it, and each number of
\* its sequence goes to the one request that holds it, and once.
THEOREM PoolKeepsPromise == Spec => KeepsPromise
<1>1. IInv /\ SubmitsOnce /\ [Next]_vars => [Promise!Next]_(Promise!promise)
  BY StepPromise DEF Promise!promise
<1>2. QED
  BY InitPromise, <1>1, Inductive, OneSubmission, PTL
     DEF Spec, KeepsPromise, Promise!Spec
=============================================================================
