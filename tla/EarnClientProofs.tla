-------------------------- MODULE EarnClientProofs --------------------------
(***************************************************************************)
(* What holds of the savings of a user for any calls, amounts and bounds:  *)
(* a call that is tried again moves money once, and what is shown as       *)
(* earned is interest.                                                     *)
(***************************************************************************)
EXTENDS EarnClient, TLAPS

\* A transaction is built on a number the account has not passed, and has
\* landed only when the account has.
Numbers ==
    \A c \in Calls, t \in Tries :
       /\ seq[c][t] <= seqNum + 1
       /\ tx[c][t] = "landed" => seq[c][t] <= seqNum

\* The second attempt has a transaction.
Second(c) == try[c] = 2 /\ (pc[c] = "built" \/ tx[c][2] # "none")

\* Where a call is tells which of its transactions exist, and a second one has
\* no smaller number than the first, which only slips through before it.
Stages ==
    \A c \in Calls :
       /\ pc[c] = "idle" => try[c] = 1
       /\ try[c] = 1 => tx[c][2] = "none"
       /\ pc[c] \in {"idle", "load", "built"} => tx[c][try[c]] = "none"
       /\ try[c] = 2 /\ pc[c] = "load" => slipped \/ tx[c][1] # "landed"
       /\ Second(c) => /\ seq[c][1] <= seq[c][2]
                       /\ slipped \/ tx[c][1] # "landed" \/ seq[c][2] <= seqNum

\* The money of a call that is not over has moved, and it is to be recorded.
Owing(c) == pc[c] \in {"polling", "record", "writing"} /\ tx[c][try[c]] = "landed"

\* n as the principal tells interest from deposits.
Explains(n) == n <= position /\ position <= n + interest

\* A call that is under way alone: what it has read, and what it will write.
Underway(c) ==
    /\ c \in Withdrawals /\ empties[c] => principal <= amount[c]
    /\ pc[c] = "writing" => c \in Exits \/ read[c] = principal
    /\ Owing(c) => Explains(Recorded(c, principal))
    /\ ~Owing(c) => Explains(principal)
    /\ pc[c] \in {"record", "writing"} /\ ~Owing(c) => c \notin Deposits /\ position = 0

\* While calls are orderly, one is under way at most, and when none is, the
\* principal is explained.
Books ==
    orderly =>
       /\ \A c, d \in Calls : ~Ended(c) /\ ~Ended(d) => c = d
       /\ \A c \in Calls : ~Ended(c) => Underway(c)
       /\ (\A c \in Calls : Ended(c)) => Explains(principal)

ExitsEmpty == \A c \in Exits : empties[c]

IInv == TypeOK /\ Numbers /\ Stages /\ OnceUnlessSlipped /\ ExitsEmpty /\ Books

----------------------------------------------------------------------------
(* The transactions of a call *)

\* What the sequence numbers give: the invariant without the books.
SeqInv == TypeOK /\ Numbers /\ Stages /\ OnceUnlessSlipped /\ ExitsEmpty

\* The invariant holds initially.
LEMMA InitInv == Init => IInv
<1> SUFFICES ASSUME Init PROVE IInv
  OBVIOUS
<1> USE AmountsAssumption
<1>1. \A c \in Calls : pc[c] = "idle" /\ try[c] = 1 /\ tx[c] = [t \in Tries |-> "none"]
                       /\ seq[c] = [t \in Tries |-> 0] /\ tx[c][1] = "none" /\ tx[c][2] = "none"
  BY DEF Init, Tries
<1>2. TypeOK
  <2>1. wallet \in Nat /\ position \in Nat /\ interest \in 0 .. MaxInterest
    BY DEF Init
  <2>2. pc \in [Calls -> PCs] /\ empties \in [Calls -> BOOLEAN] /\ try \in [Calls -> Tries]
    BY DEF Init, PCs, Tries
  <2>3. seq \in [Calls -> [Tries -> Nat]] /\ tx \in [Calls -> [Tries -> Txs]]
    BY DEF Init, Txs
  <2> QED
    BY <2>1, <2>2, <2>3 DEF Init, TypeOK
<1>3. Numbers
  BY <1>1 DEF Init, Numbers
<1>4. Stages /\ OnceUnlessSlipped
  BY <1>1 DEF Init, Stages, Second, OnceUnlessSlipped, Tries
<1>5. ExitsEmpty
  BY DEF Init, ExitsEmpty, Calls
<1>6. Books
  BY <1>1 DEF Init, Books, Ended, Explains
<1> QED
  BY <1>2, <1>3, <1>4, <1>5, <1>6 DEF IInv

\* What the app does touches no number of the account and lands nothing.
LEMMA AppSeq ==
    ASSUME SeqInv, NEW c \in Calls,
           \/ Ask(c) \/ Send(c) \/ PollSuccess(c) \/ PollFailure(c) \/ Throw(c)
           \/ ReadPrincipal(c) \/ ReadFails(c)
    PROVE  SeqInv'
<1> USE DEF SeqInv, TypeOK, Tries
<1>1. CASE Ask(c)
  <2>1. TypeOK'
    BY <1>1 DEF Ask, Goto, Recording, ledger, PCs
  <2>2. Numbers' /\ OnceUnlessSlipped'
    BY <1>1 DEF Ask, ledger, Numbers, OnceUnlessSlipped
  <2>3. Stages'
    BY <1>1 DEF Ask, Goto, Recording, ledger, Stages, Second
  <2>4. ExitsEmpty'
    BY <1>1 DEF Ask, ExitsEmpty, Calls
  <2> QED
    BY <2>1, <2>2, <2>3, <2>4
<1>2. CASE Send(c)
  <2>1. TypeOK'
    BY <1>2 DEF Send, Goto, ledger, history, PCs, Txs
  <2>2. Numbers' /\ OnceUnlessSlipped'
    BY <1>2 DEF Send, Goto, ledger, history, Numbers, OnceUnlessSlipped
  <2>3. Stages'
    BY <1>2 DEF Send, Goto, ledger, history, Stages, Second
  <2>4. ExitsEmpty'
    BY <1>2 DEF Send, ExitsEmpty
  <2> QED
    BY <2>1, <2>2, <2>3, <2>4
<1>3. CASE PollFailure(c)
  <2>1. TypeOK'
    BY <1>3 DEF PollFailure, Goto, ledger, PCs
  <2>2. Numbers' /\ OnceUnlessSlipped'
    BY <1>3 DEF PollFailure, ledger, Numbers, OnceUnlessSlipped
  <2>3. Stages'
    BY <1>3 DEF PollFailure, Goto, ledger, Stages, Second
  <2>4. ExitsEmpty'
    BY <1>3 DEF PollFailure, ExitsEmpty
  <2> QED
    BY <2>1, <2>2, <2>3, <2>4
<1>4. CASE PollSuccess(c) \/ Throw(c) \/ ReadPrincipal(c) \/ ReadFails(c)
  <2> USE DEF PollSuccess, Throw, ReadPrincipal, ReadFails, Goto, ledger, attempts, history, Recording
  <2>1. TypeOK'
    <3>1. pc' \in [Calls -> PCs] /\ read' \in [Calls -> Nat]
      BY <1>4 DEF PCs
    <3>2. orderly' \in BOOLEAN
      BY <1>4
    <3> QED
      BY <1>4, <3>1, <3>2
  <2>2. Numbers' /\ OnceUnlessSlipped'
    BY <1>4 DEF Numbers, OnceUnlessSlipped
  <2>3. Stages'
    BY <1>4 DEF Stages, Second, Ended
  <2>4. ExitsEmpty'
    BY <1>4 DEF ExitsEmpty
  <2> QED
    BY <2>1, <2>2, <2>3, <2>4
<1> QED
  BY <1>1, <1>2, <1>3, <1>4

\* A second transaction is built on a number no smaller than the first one's,
\* which has not landed unless it slipped through.
LEMMA LoadSeq ==
    ASSUME SeqInv, NEW c \in Calls, Load(c)
    PROVE  SeqInv'
<1> USE DEF SeqInv, TypeOK, Tries, Load, LoadNumber, Goto, ledger, history
<1>1. TypeOK'
  BY DEF PCs
<1>2. Numbers' /\ OnceUnlessSlipped'
  BY DEF Numbers, OnceUnlessSlipped, Stages
<1>3. Stages'
  BY DEF Stages, Second, Numbers
<1>4. ExitsEmpty'
  BY DEF ExitsEmpty
<1> QED
  BY <1>1, <1>2, <1>3, <1>4

\* What the call will write is a natural number.
LEMMA RecordedType ==
    ASSUME NEW c \in Calls, NEW n \in Nat
    PROVE  Recorded(c, n) \in Nat
  BY AmountsAssumption DEF Recorded, Less, Parts, Calls

\* The record is a natural number, and nothing else of it matters here.
LEMMA WriteSeq ==
    ASSUME SeqInv, NEW c \in Calls, SetNetDeposited(c)
    PROVE  SeqInv'
<1> USE DEF SetNetDeposited, WriteRecord, Goto, ledger, attempts, history, SeqInv
<1>1. TypeOK'
  BY RecordedType DEF TypeOK, PCs
<1>2. Numbers' /\ OnceUnlessSlipped' /\ ExitsEmpty'
  BY DEF Numbers, OnceUnlessSlipped, ExitsEmpty
<1>3. Stages'
  BY DEF Stages, Second, TypeOK
<1> QED
  BY <1>1, <1>2, <1>3

\* What moves fits the account and the vault.
LEMMA MovedFits ==
    ASSUME TypeOK, NEW c \in Calls, Executes(c), ExitsEmpty
    PROVE  wallet - Moved(c) \in Nat /\ position + Moved(c) \in Nat
<1> USE AmountsAssumption, KindsAssumption
<1>1. CASE c \in Deposits
  BY <1>1 DEF TypeOK, Executes, Moved, Parts
<1>2. CASE c \notin Deposits /\ empties[c]
  BY <1>2 DEF TypeOK, Executes, Moved
<1>3. CASE c \notin Deposits /\ ~empties[c]
  <2>1. c \in Withdrawals
    BY <1>3 DEF ExitsEmpty, Calls
  <2> QED
    BY <1>3, <2>1 DEF TypeOK, Executes, Moved, Parts
<1> QED
  BY <1>1, <1>2, <1>3

\* A transaction that has its turn uses up its number, so the other attempt of
\* its call cannot have landed, nor land later.
LEMMA TurnSeq ==
    ASSUME SeqInv, NEW c \in Calls, NEW t \in Tries, NEW fate \in {"landed", "failed"},
           Turn(c, t, fate), TypeOK',
           slipped' = (slipped \/ (fate = "landed" /\ t = 1 /\ try[c] = 2 /\ pc[c] = "load"))
    PROVE  SeqInv'
<1> USE DEF SeqInv, Turn, Tries
<1>1. /\ seqNum \in Nat /\ seqNum' = seqNum + 1 /\ slipped \in BOOLEAN
      /\ \A d \in Calls : /\ seq[d][1] \in Nat /\ seq[d][2] \in Nat /\ try[d] \in {1, 2}
                          /\ d # c => tx'[d][1] = tx[d][1] /\ tx'[d][2] = tx[d][2]
      /\ \A u \in Tries : tx'[c][u] = IF u = t THEN fate ELSE tx[c][u]
  BY DEF TypeOK
<1>2. Numbers'
  BY <1>1 DEF Numbers
<1>3. Stages'
  <2> SUFFICES ASSUME NEW d \in Calls
               PROVE  /\ pc[d] = "idle" => try[d] = 1
                      /\ try[d] = 1 => tx'[d][2] = "none"
                      /\ pc[d] \in {"idle", "load", "built"} => tx'[d][try[d]] = "none"
                      /\ try[d] = 2 /\ pc[d] = "load" => slipped' \/ tx'[d][1] # "landed"
                      /\ Second(d)' => /\ seq[d][1] <= seq[d][2]
                                       /\ slipped' \/ tx'[d][1] # "landed" \/ seq[d][2] <= seqNum'
    BY DEF Stages
  <2>1. CASE d # c
    BY <1>1, <2>1 DEF Stages, Second
  <2>2. CASE d = c
    <3>1. /\ pc[d] = "idle" => try[d] = 1
          /\ try[d] = 1 => tx'[d][2] = "none"
          /\ pc[d] \in {"idle", "load", "built"} => tx'[d][try[d]] = "none"
      BY <1>1, <2>2 DEF Stages
    <3>2. try[d] = 2 /\ pc[d] = "load" => slipped' \/ tx'[d][1] # "landed"
      BY <1>1, <2>2 DEF Stages
    <3>3. Second(d)' => /\ seq[d][1] <= seq[d][2]
                        /\ slipped' \/ tx'[d][1] # "landed" \/ seq[d][2] <= seqNum'
      BY <1>1, <2>2 DEF Stages, Second, Numbers
    <3> QED
      BY <3>1, <3>2, <3>3
  <2> QED
    BY <2>1, <2>2
<1>4. OnceUnlessSlipped'
  BY <1>1 DEF OnceUnlessSlipped, Stages, Second, Numbers
<1>5. ExitsEmpty'
  BY DEF ExitsEmpty
<1> QED
  BY <1>2, <1>3, <1>4, <1>5

\* The ledger and the vault.
LEMMA LedgerSeq ==
    ASSUME SeqInv, NEW c \in Calls, NEW t \in Tries, Lands(c, t) \/ Traps(c, t) \/ Expires(c, t)
    PROVE  SeqInv'
<1>1. CASE Lands(c, t)
  <2>1. wallet' \in Nat /\ position' \in Nat
    BY <1>1, MovedFits DEF Lands, SeqInv
  <2>2. TypeOK'
    BY <1>1, <2>1 DEF Lands, Turn, SeqInv, TypeOK, Txs, Tries
  <2> QED
    BY <1>1, <2>2, TurnSeq DEF Lands
<1>2. CASE Traps(c, t)
  <2>1. TypeOK'
    BY <1>2 DEF Traps, Turn, history, SeqInv, TypeOK, Txs, Tries
  <2>2. slipped' = (slipped \/ ("failed" = "landed" /\ t = 1 /\ try[c] = 2 /\ pc[c] = "load"))
    BY <1>2 DEF Traps, history, SeqInv, TypeOK
  <2> QED
    BY <1>2, <2>1, <2>2, TurnSeq DEF Traps
<1>3. CASE Expires(c, t)
  <2> USE DEF Expires, ledger, history, SeqInv, TypeOK, Tries
  <2>1. TypeOK'
    BY <1>3 DEF Txs
  <2>2. Numbers' /\ OnceUnlessSlipped' /\ ExitsEmpty'
    BY <1>3 DEF Numbers, OnceUnlessSlipped, ExitsEmpty
  <2>3. Stages'
    BY <1>3 DEF Stages, Second
  <2> QED
    BY <2>1, <2>2, <2>3
<1> QED
  BY <1>1, <1>2, <1>3

\* Every step keeps what the sequence numbers give.
LEMMA NextSeq == ASSUME SeqInv, [Next]_vars PROVE SeqInv'
<1>1. CASE Interest
  <2>1. TypeOK'
    BY <1>1, AmountsAssumption DEF Interest, attempts, history, SeqInv, TypeOK
  <2> QED
    BY <1>1, <2>1 DEF Interest, attempts, history, SeqInv, Numbers, Stages, Second, OnceUnlessSlipped, ExitsEmpty
<1>2. CASE UNCHANGED vars
  BY <1>2 DEF vars, ledger, attempts, history, SeqInv, TypeOK, Numbers, Stages, Second,
              OnceUnlessSlipped, ExitsEmpty
<1> QED
  <2>1. CASE \E c \in Calls : \E t \in Tries : Lands(c, t) \/ Traps(c, t) \/ Expires(c, t)
    BY <2>1, LedgerSeq
  <2>2. CASE \E c \in Calls :
               \/ Ask(c) \/ Load(c) \/ Send(c) \/ PollSuccess(c) \/ PollFailure(c) \/ Throw(c)
               \/ ReadPrincipal(c) \/ ReadFails(c) \/ SetNetDeposited(c)
    BY <2>2, AppSeq, LoadSeq, WriteSeq
  <2> QED
    BY <1>1, <1>2, <2>1, <2>2 DEF Next

\* The first transaction of a call and its second never both land, unless the
\* first slips through before the second is built (OnceUnlessSlipped): the
\* account's sequence number makes the retry of invokeEarn safe.
THEOREM Once == Spec => []OnceUnlessSlipped
<1>1. Init => SeqInv
  BY InitInv DEF IInv, SeqInv
<1>2. SeqInv /\ [Next]_vars => SeqInv'
  BY NextSeq
<1>3. SeqInv => OnceUnlessSlipped
  BY DEF SeqInv
<1> QED
  BY <1>1, <1>2, <1>3, PTL DEF Spec

\* The account, the calls and the ledger keep their types (TypeOK): the
\* principal never goes below zero, and no balance does.
THEOREM TypeCorrect == Spec => []TypeOK
<1>1. Init => SeqInv
  BY InitInv DEF IInv, SeqInv
<1>2. SeqInv /\ [Next]_vars => SeqInv'
  BY NextSeq
<1>3. SeqInv => TypeOK
  BY DEF SeqInv
<1> QED
  BY <1>1, <1>2, <1>3, PTL DEF Spec

----------------------------------------------------------------------------
(* The books *)

\* What a call writes explains the position when the principal did before the
\* call's money moved.
LEMMA LandsExplains ==
    ASSUME TypeOK, NEW c \in Calls, NEW t \in Tries, Lands(c, t), ExitsEmpty,
           Explains(principal), Underway(c)
    PROVE  position' >= Recorded(c, principal) /\ position' <= Recorded(c, principal) + interest
<1>a. /\ position' = position + Moved(c) /\ Executes(c) /\ interest \in Nat
      /\ position \in Nat /\ principal \in Nat /\ Explains(principal)
  BY AmountsAssumption DEF TypeOK, Lands
<1> USE <1>a, AmountsAssumption, KindsAssumption DEF Executes, Moved, Explains, Recorded
<1>1. CASE c \in Deposits
  BY <1>1 DEF Parts
<1>2. CASE c \in Exits
  BY <1>2 DEF ExitsEmpty
<1>3. CASE c \in Withdrawals /\ empties[c]
  BY <1>3 DEF Underway, Less, Parts
<1>4. CASE c \in Withdrawals /\ ~empties[c]
  BY <1>4 DEF Less, Parts
<1>5. c \in Deposits \/ c \in Exits \/ c \in Withdrawals
  BY DEF Calls
<1> HIDE <1>a, AmountsAssumption, KindsAssumption DEF Executes, Moved, Explains, Recorded
<1> QED
  BY <1>1, <1>2, <1>3, <1>4, <1>5

\* A call that begins while no other is under way.
LEMMA AskBooks == ASSUME IInv, NEW c \in Calls, Ask(c) PROVE Books'
<1> USE DEF Ask, Goto, ledger
<1> SUFFICES ASSUME orderly'
             PROVE  /\ \A d, e \in Calls : ~Ended(d)' /\ ~Ended(e)' => d = e
                    /\ \A d \in Calls : ~Ended(d)' => Underway(d)'
                    /\ (\A d \in Calls : Ended(d)') => Explains(principal)'
  BY DEF Books
<1>1. orderly /\ \A d \in Calls : Ended(d)
  BY DEF IInv, TypeOK
<1>2. Explains(principal)
  BY <1>1 DEF IInv, Books
<1>3. \A d \in Calls : ~Ended(d)' => d = c
  BY <1>1 DEF Ended, IInv, TypeOK
<1>4. Explains(principal)' /\ principal \in Nat /\ position \in Nat
  BY <1>2 DEF Explains, IInv, TypeOK
<1>5. tx'[c][try'[c]] = "none"
  BY DEF IInv, Stages
<1>6. pc'[c] = IF c \notin Deposits /\ position = 0 THEN Recording(c) ELSE "load"
  BY DEF IInv, TypeOK
<1>7. c \in Withdrawals /\ empties'[c] => principal' <= amount[c]
  <2>1. c \in Withdrawals /\ empties'[c] => amount[c] >= position /\ amount[c] \in Nat
    BY KindsAssumption, AmountsAssumption DEF IInv, TypeOK, Parts
  <2> QED
    BY <1>2, <1>4, <2>1 DEF Explains
<1>8. pc'[c] = "writing" => c \in Exits
  BY <1>6 DEF Recording
<1>9. Underway(c)'
  BY <1>4, <1>5, <1>6, <1>7, <1>8 DEF Underway, Owing, Recording
<1> QED
  BY <1>3, <1>4, <1>9

\* Of the calls, only the one that moves changes its standing.
LEMMA Alone ==
    ASSUME Books, NEW c \in Calls, ~Ended(c), orderly', orderly,
           \A d \in Calls : d # c => pc'[d] = pc[d],
           ~Ended(c)' => Underway(c)', Ended(c)' => Explains(principal)'
    PROVE  Books'
<1>1. \A d \in Calls : ~Ended(d)' => d = c
  BY DEF Books, Ended
<1> QED
  BY <1>1 DEF Books

\* What the app does with a call between its beginning and its record.
LEMMA AppBooks ==
    ASSUME IInv, NEW c \in Calls,
           Load(c) \/ Send(c) \/ PollSuccess(c) \/ PollFailure(c) \/ Throw(c)
    PROVE  Books'
<1> USE DEF Goto, ledger, attempts, history
<1> SUFFICES ASSUME orderly' PROVE Books'
  BY DEF Books
<1>1. ~Ended(c) /\ pc \in [Calls -> PCs] /\ try[c] \in Tries /\ tx \in [Calls -> [Tries -> Txs]]
      /\ try \in [Calls -> Tries] /\ orderly \in BOOLEAN
  BY DEF Load, LoadNumber, Send, PollSuccess, PollFailure, Throw, Ended, IInv, TypeOK
<1>2. orderly /\ \A d \in Calls : d # c => pc'[d] = pc[d]
  BY <1>1 DEF Load, LoadNumber, Send, PollSuccess, PollFailure, Throw
<1>3. Underway(c)
  BY <1>1, <1>2 DEF IInv, Books
<1>4. /\ UNCHANGED <<position, interest, principal, empties, read>>
      /\ Explains(principal)' = Explains(principal)
      /\ Explains(Recorded(c, principal))' = Explains(Recorded(c, principal))
  BY DEF Load, LoadNumber, Send, PollSuccess, PollFailure, Throw, Explains, Recorded
<1>5. CASE Load(c)
  <2>1. ~Owing(c) /\ ~Owing(c)' /\ pc'[c] = "built"
    BY <1>1, <1>5 DEF Load, LoadNumber, Owing
  <2> QED
    BY <1>1, <1>2, <1>3, <1>4, <2>1, Alone DEF Underway, Ended, IInv
<1>6. CASE Send(c)
  <2>1. ~Owing(c) /\ ~Owing(c)' /\ pc'[c] = "polling"
    BY <1>1, <1>6 DEF Send, Owing
  <2> QED
    BY <1>1, <1>2, <1>3, <1>4, <2>1, Alone DEF Underway, Ended, IInv
<1>7. CASE PollSuccess(c)
  <2>1. Owing(c) /\ Owing(c)' /\ pc'[c] = Recording(c)
    BY <1>1, <1>7 DEF PollSuccess, Owing, Recording
  <2>2. Underway(c)'
    BY <1>3, <1>4, <2>1 DEF Underway, Recording
  <2>3. ~Ended(c)'
    BY <2>1 DEF Ended, Recording
  <2> QED
    BY <1>1, <1>2, <2>2, <2>3, Alone DEF IInv
<1>8. CASE PollFailure(c)
  <2>1. ~Owing(c)
    BY <1>8 DEF PollFailure, Owing
  <2>2. pc'[c] \in {"load", "done"}
    BY <1>1, <1>8 DEF PollFailure
  <2>3. ~Owing(c)'
    BY <2>2 DEF Owing
  <2>4. Underway(c)' /\ Explains(principal)'
    BY <1>3, <1>4, <2>1, <2>2, <2>3 DEF Underway
  <2> QED
    BY <1>1, <1>2, <2>4, Alone DEF IInv
<1>9. CASE Throw(c)
  <2>1. ~Owing(c) /\ Ended(c)'
    BY <1>1, <1>9 DEF Throw, Owing, Traceless, Ended
  <2> QED
    BY <1>1, <1>2, <1>3, <1>4, <2>1, Alone DEF Underway, IInv
<1> QED
  BY <1>5, <1>6, <1>7, <1>8, <1>9

\* The record.
LEMMA RecordBooks ==
    ASSUME IInv, NEW c \in Calls, ReadPrincipal(c) \/ ReadFails(c) \/ SetNetDeposited(c)
    PROVE  Books'
<1> USE DEF Goto, ledger, attempts, history
<1> SUFFICES ASSUME orderly' PROVE Books'
  BY DEF Books
<1>1. CASE ReadFails(c)
  BY <1>1 DEF ReadFails
<1>2. CASE ReadPrincipal(c)
  <2>1. /\ ~Ended(c) /\ ~Ended(c)' /\ orderly /\ \A d \in Calls : d # c => pc'[d] = pc[d]
        /\ pc'[c] = "writing" /\ pc[c] = "record" /\ read'[c] = principal
    BY <1>2 DEF ReadPrincipal, IInv, TypeOK, Ended
  <2>2. Underway(c) /\ (Owing(c)' <=> Owing(c))
    BY <1>2, <2>1 DEF ReadPrincipal, IInv, Books, Owing
  <2>3. Underway(c)'
    BY <1>2, <2>1, <2>2 DEF ReadPrincipal, Underway, Explains, Recorded
  <2> QED
    BY <2>1, <2>3, Alone DEF IInv
<1>3. CASE SetNetDeposited(c)
  <2> USE DEF SetNetDeposited, WriteRecord
  <2>1. /\ ~Ended(c) /\ Ended(c)' /\ orderly /\ \A d \in Calls : d # c => pc'[d] = pc[d]
        /\ pc[c] = "writing"
    BY <1>3 DEF IInv, TypeOK, Ended
  <2>2. Underway(c)
    BY <2>1 DEF IInv, Books
  <2>3. Recorded(c, read[c]) = Recorded(c, principal)
    BY <2>1, <2>2, KindsAssumption DEF Underway, Recorded
  <2>4. Explains(principal)'
    <3>1. CASE Owing(c)
      BY <1>3, <2>2, <2>3, <3>1 DEF Underway, Explains
    <3>2. CASE ~Owing(c)
      <4>1. c \notin Deposits /\ position = 0 /\ principal = 0
        BY <2>1, <2>2, <3>2 DEF Underway, Explains, IInv, TypeOK
      <4>2. Recorded(c, 0) = 0
        BY <4>1, AmountsAssumption DEF Recorded, Less, Parts
      <4> QED
        BY <1>3, <2>3, <4>1, <4>2 DEF Explains, IInv, TypeOK
    <3> QED
      BY <3>1, <3>2
  <2> QED
    BY <2>1, <2>4, Alone DEF IInv
<1> QED
  BY <1>1, <1>2, <1>3

\* The ledger and the vault.
LEMMA LedgerBooks ==
    ASSUME IInv, NEW c \in Calls, NEW t \in Tries, Lands(c, t) \/ Traps(c, t) \/ Expires(c, t)
    PROVE  Books'
<1> USE DEF ledger, history
<1> SUFFICES ASSUME orderly' PROVE Books'
  BY DEF Books
<1>1. CASE Lands(c, t)
  <2>1. orderly /\ t = try[c] /\ pc[c] = "polling" /\ UNCHANGED <<pc, principal, empties, read, try, interest>>
    BY <1>1 DEF Lands, Turn, IInv, TypeOK
  <2>2. ~Ended(c) /\ ~Ended(c)'
    BY <2>1 DEF Ended
  <2>3. Underway(c) /\ ~Owing(c)
    BY <1>1, <2>1, <2>2 DEF IInv, Books, Owing, Lands, Turn
  <2>4. Owing(c)'
    BY <1>1, <2>1 DEF Owing, Lands, Turn, IInv, TypeOK
  <2>5. Explains(principal)
    BY <2>3 DEF Underway
  <2>6. Explains(Recorded(c, principal))'
    <3>1. position' >= Recorded(c, principal) /\ position' <= Recorded(c, principal) + interest
      BY <1>1, <2>3, <2>5, LandsExplains DEF IInv
    <3>2. position \in Nat /\ position' \in Nat /\ interest \in Nat /\ Recorded(c, principal) \in Nat
      BY <1>1, MovedFits, RecordedType, AmountsAssumption DEF Lands, IInv, TypeOK
    <3>3. Recorded(c, principal)' = Recorded(c, principal)
      BY <2>1 DEF Recorded
    <3> QED
      BY <2>1, <3>1, <3>2, <3>3 DEF Explains
  <2>7. Underway(c)'
    BY <2>1, <2>3, <2>4, <2>6 DEF Underway
  <2> QED
    BY <2>1, <2>2, <2>7, Alone DEF IInv
<1>2. CASE Traps(c, t) \/ Expires(c, t)
  <2>1. UNCHANGED <<position, interest, principal, empties, read, pc, try, orderly>>
    BY <1>2 DEF Traps, Expires, Turn
  <2>2. tx' = [tx EXCEPT ![c] = [@ EXCEPT ![t] = "failed"]] /\ tx[c][t] = "inflight"
    BY <1>2 DEF Traps, Expires, Turn
  <2>3. \A d \in Calls : tx'[d][try[d]] = "landed" <=> tx[d][try[d]] = "landed"
    BY <2>2 DEF IInv, TypeOK
  <2>4. \A d \in Calls : Owing(d)' <=> Owing(d)
    BY <2>1, <2>3 DEF Owing
  <2> QED
    BY <2>1, <2>4 DEF IInv, Books, Underway, Ended, Explains, Recorded
<1> QED
  BY <1>1, <1>2

\* Interest leaves the principal explained.
LEMMA InterestBooks == ASSUME IInv, Interest PROVE Books'
<1> USE DEF attempts, history, Interest
<1> SUFFICES ASSUME orderly' PROVE Books'
  BY DEF Books
<1>1. orderly /\ position \in Nat /\ interest \in Nat /\ principal \in Nat
  BY AmountsAssumption DEF IInv, TypeOK
<1>2. \A n \in Nat : Explains(n) => Explains(n)'
  BY <1>1 DEF Explains
<1>3. ASSUME NEW c \in Calls, Underway(c) PROVE Underway(c)'
  <2>1. Recorded(c, principal) \in Nat /\ Recorded(c, principal)' = Recorded(c, principal)
    BY <1>1, RecordedType DEF Recorded
  <2>2. Owing(c)' <=> Owing(c)
    BY DEF Owing
  <2>3. Explains(Recorded(c, principal)) => Explains(Recorded(c, principal))'
    BY <1>1, <2>1 DEF Explains
  <2> QED
    BY <1>1, <1>2, <1>3, <2>1, <2>2, <2>3 DEF Underway, Explains
<1> QED
  BY <1>1, <1>2, <1>3 DEF IInv, Books, Ended, Explains

\* Every step keeps the invariant.
LEMMA NextInv == ASSUME IInv, [Next]_vars PROVE IInv'
<1>1. SeqInv'
  BY NextSeq DEF IInv, SeqInv
<1>2. Books'
  <2>1. CASE UNCHANGED vars
    BY <2>1 DEF vars, ledger, attempts, history, IInv, Books, Ended, Underway, Owing, Explains, Recorded
  <2>2. CASE \E c \in Calls : \E t \in Tries : Lands(c, t) \/ Traps(c, t) \/ Expires(c, t)
    BY <2>2, LedgerBooks
  <2>3. CASE \E c \in Calls :
               \/ Ask(c) \/ Load(c) \/ Send(c) \/ PollSuccess(c) \/ PollFailure(c) \/ Throw(c)
               \/ ReadPrincipal(c) \/ ReadFails(c) \/ SetNetDeposited(c)
    BY <2>3, AskBooks, AppBooks, RecordBooks
  <2> QED
    BY <2>1, <2>2, <2>3, InterestBooks DEF Next
<1> QED
  BY <1>1, <1>2 DEF IInv, SeqInv

\* What the Earn screen shows as earned is interest (EarnedIsInterest), for any
\* calls made one after another that end sure and recorded.
THEOREM Earned == Spec => []EarnedIsInterest
<1>1. Init => IInv
  BY InitInv
<1>2. IInv /\ [Next]_vars => IInv'
  BY NextInv
<1>3. IInv => EarnedIsInterest
  BY AmountsAssumption DEF IInv, Books, EarnedIsInterest, Explains, TypeOK
<1> QED
  BY <1>1, <1>2, <1>3, PTL DEF Spec
=============================================================================
