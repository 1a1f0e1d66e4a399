--------------------------- MODULE SavingsProofs ---------------------------
(***************************************************************************)
(* What holds of the Earn vault and of the Earn screen for every number of *)
(* holders, calls and loads, every scale and every history of prices.      *)
(*                                                                         *)
(* The books are the difficulty: a withdrawal subtracts shares from the    *)
(* total, so that even the sign of TotalShares rests on TotalShares being  *)
(* the sum of the balances.  SumsTo says so without a fold: some measure   *)
(* of the sets of holders adds up the balances and gives the set of all    *)
(* holders the total.  A step carries the measure along, which takes the   *)
(* place of an induction over the holders; what the folds compute is that  *)
(* measure (SumMeasured, by a smallest set for which it is not).           *)
(*                                                                         *)
(* Principal is covered, not present: between calls the shares of a holder *)
(* are counted at the price the fund had before the profit that no fee has *)
(* been taken from yet (Covered), which charging the fee can only raise.   *)
(*                                                                         *)
(* The screen is about what a pair of readings can still turn out to be    *)
(* worth: HomeInv follows the principal as the calls under way will have   *)
(* recorded it, and stamps every point of the chart with the interest paid *)
(* when it was read.                                                       *)
(***************************************************************************)
EXTENDS Treasury, EarnHome, FiniteSetTheorems, WellFoundedInduction, TLAPS

Measures(D, p, f) ==
    /\ p \in [SUBSET D -> Nat]
    /\ p[{}] = 0
    /\ \A S \in SUBSET D : \A x \in S : p[S] = p[S \ {x}] + f[x]

SumsTo(f, n) == \E p \in [SUBSET Holders -> Nat] : Measures(Holders, p, f) /\ p[Holders] = n

IInv == TypeOK /\ SumsTo(shares, totalShares)

\* A step of the vault, alone or with the treasury as its fee recipient, whose
\* one operation outside the vault moves USDC it has claimed out to the operators.
VaultStep == Next \/ \E n \in 1 .. wallet[Fund] : Sweep(n)

----------------------------------------------------------------------------
(* Arithmetic *)

\* Division of naturals stays in the naturals.
LEMMA DivNat ==
    ASSUME NEW a \in Nat, NEW d \in Nat \ {0}
    PROVE  (a \div d) \in Nat
  OBVIOUS

\* Division rounds down.
LEMMA DivFloor ==
    ASSUME NEW a \in Int, NEW d \in Nat \ {0}
    PROVE  /\ (a \div d) \in Int
           /\ d * (a \div d) <= a
  OBVIOUS

\* By less than one.
LEMMA DivRounds ==
    ASSUME NEW a \in Int, NEW d \in Nat \ {0}
    PROVE  /\ (a \div d) \in Int
           /\ d * (a \div d) <= a
           /\ a < d * (a \div d) + d
  OBVIOUS

\* Around a multiple, from either side.
LEMMA Around ==
    ASSUME NEW d \in Nat \ {0}, NEW n \in Int, NEW w \in Int, d * n <= w, w < d * n + d
    PROVE  /\ w - d < n * d /\ n * d < w + d
           /\ -w - d < (-n) * d /\ (-n) * d < -w + d
<1> DEFINE m == n * d
<1>1. m \in Int /\ d * n = m /\ (-n) * d = -m
  OBVIOUS
<1> HIDE DEF m
<1>2. m <= w /\ w < m + d
  BY <1>1
<1> QED
  BY <1>1, <1>2 DEF m

\* A product of naturals is a natural.
LEMMA TimesNat ==
    ASSUME NEW a \in Nat, NEW b \in Nat
    PROVE  (a * b) \in Nat
  OBVIOUS

\* Multiplying by a natural keeps the order.
LEMMA TimesMonotone ==
    ASSUME NEW a \in Nat, NEW b \in Int, NEW c \in Int, b <= c
    PROVE  a * b <= a * c
  OBVIOUS

\* And what is less when multiplied is less.
LEMMA TimesStrict ==
    ASSUME NEW a \in Nat, NEW b \in Int, NEW c \in Int, a * b < a * c
    PROVE  b < c
<1>1. CASE c <= b
  <2>1. a * c <= a * b
    BY <1>1, TimesMonotone
  <2>2. a * b \in Int /\ a * c \in Int
    OBVIOUS
  <2> QED
    BY <2>1, <2>2
<1> QED
  BY <1>1

----------------------------------------------------------------------------
(* Sums *)

\* Changing one balance changes the sum by as much, and it stays a natural.
LEMMA SumMoves ==
    ASSUME NEW f \in [Holders -> Nat], NEW n \in Nat, SumsTo(f, n),
           NEW u \in Holders, NEW d \in Int, f[u] + d \in Nat
    PROVE  /\ n + d \in Nat
           /\ SumsTo([f EXCEPT ![u] = f[u] + d], n + d)
<1> DEFINE g == [f EXCEPT ![u] = f[u] + d]
<1>1. PICK p \in [SUBSET Holders -> Nat] : Measures(Holders, p, f) /\ p[Holders] = n
  BY DEF SumsTo
<1> DEFINE q == [S \in SUBSET Holders |-> IF u \in S THEN p[S] + d ELSE p[S]]
<1>2. ASSUME NEW S \in SUBSET Holders
      PROVE  q[S] \in Nat
  <2>1. CASE u \notin S
    BY <2>1
  <2>2. CASE u \in S
    <3>1. p[S] = p[S \ {u}] + f[u] /\ p[S \ {u}] \in Nat
      BY <1>1, <2>2 DEF Measures
    <3>2. p[S] + d = p[S \ {u}] + (f[u] + d)
      BY <3>1
    <3> QED
      BY <2>2, <3>1, <3>2
  <2> QED
    BY <2>1, <2>2
<1>3. q \in [SUBSET Holders -> Nat]
  BY <1>2
<1>4. q[{}] = 0
  BY <1>1 DEF Measures
<1>5. ASSUME NEW S \in SUBSET Holders, NEW x \in S
      PROVE  q[S] = q[S \ {x}] + g[x]
  <2>1. p[S] = p[S \ {x}] + f[x] /\ p[S \ {x}] \in Nat
    BY <1>1 DEF Measures
  <2>2. CASE x = u
    BY <2>1, <2>2
  <2>3. CASE x # u
    BY <2>1, <2>3
  <2> QED
    BY <2>2, <2>3
<1>6. Measures(Holders, q, g)
  BY <1>3, <1>4, <1>5 DEF Measures
<1>7. q[Holders] = n + d
  BY <1>1
<1>8. SumsTo(g, n + d)
  BY <1>3, <1>6, <1>7 DEF SumsTo
<1> QED
  BY <1>2, <1>7, <1>8

\* What SumFunction computes of f: the elements are taken one after another.
Takes(q, f) ==
    q = [S \in SUBSET DOMAIN f |->
            IF S = {} THEN 0 ELSE f[CHOOSE x \in S : TRUE] + q[S \ {CHOOSE x \in S : TRUE}]]

\* If there is one function that does, SumFunction is its value.
LEMMA SumTaken ==
    ASSUME NEW f, NEW q, Takes(q, f), \A r : Takes(r, f) => r = q
    PROVE  SumFunction(f) = q[DOMAIN f]
  BY DEF SumFunction, SumFunctionOnSet, FoldFunctionOnSet, MapThenFoldSet, Takes

\* A property of finite sets that fails fails of a smallest one.
LEMMA Smallest ==
    ASSUME NEW D, IsFiniteSet(D), NEW Bad \in SUBSET (SUBSET D), Bad # {}
    PROVE  \E S \in Bad : \A x \in S : S \ {x} \notin Bad
<1>1. FiniteSubsetsOf(D) = SUBSET D
  BY FS_FiniteSubsetsOfFinite
<1>2. IsWellFoundedOn(StrictSubsetOrdering(D), SUBSET D)
  BY <1>1, FS_StrictSubsetOrderingWellFounded
<1>3. PICK S \in Bad : \A R \in Bad : ~(<<R, S>> \in StrictSubsetOrdering(D))
  BY <1>2, WFMin
<1>4. ASSUME NEW x \in S, S \ {x} \in Bad PROVE FALSE
  <2>1. <<S \ {x}, S>> \in StrictSubsetOrdering(D)
    BY <1>4 DEF StrictSubsetOrdering
  <2> QED
    BY <1>3, <1>4, <2>1
<1> QED
  BY <1>4

\* The elements of a set taken one after another, in the order of CHOOSE.
First(S) == CHOOSE x \in S : TRUE
OneByOne(D, r, f) ==
    /\ r = [S \in SUBSET D |-> r[S]]
    /\ \A S \in SUBSET D : r[S] = IF S = {} THEN 0 ELSE f[First(S)] + r[S \ {First(S)}]

\* A measure takes them so.
LEMMA MeasureTaken ==
    ASSUME NEW D, NEW f \in [D -> Nat], NEW p \in [SUBSET D -> Nat], Measures(D, p, f)
    PROVE  OneByOne(D, p, f)
<1>1. ASSUME NEW S \in SUBSET D, S # {}
      PROVE  p[S] = f[First(S)] + p[S \ {First(S)}]
  <2>1. First(S) \in S
    BY <1>1 DEF First
  <2>2. p[S] = p[S \ {First(S)}] + f[First(S)]
    BY <2>1 DEF Measures
  <2>3. p[S \ {First(S)}] \in Nat /\ f[First(S)] \in Nat
    BY <2>1
  <2> QED
    BY <2>2, <2>3
<1>2. p[{}] = 0
  BY DEF Measures
<1>3. p = [S \in SUBSET D |-> p[S]]
  OBVIOUS
<1> QED
  BY <1>1, <1>2, <1>3 DEF OneByOne

\* And nothing but the measure does.
LEMMA TakenOnce ==
    ASSUME NEW D, IsFiniteSet(D), NEW f \in [D -> Nat], NEW p \in [SUBSET D -> Nat],
           Measures(D, p, f), NEW r, OneByOne(D, r, f)
    PROVE  r = p
<1>1. OneByOne(D, p, f)
  BY MeasureTaken
<1> DEFINE Bad == {S \in SUBSET D : r[S] # p[S]}
<1>2. ASSUME Bad # {} PROVE FALSE
  <2>1. PICK S \in Bad : \A x \in S : S \ {x} \notin Bad
    BY <1>2, Smallest
  <2>2. S # {}
    BY <1>1, <2>1 DEF OneByOne
  <2>3. First(S) \in S
    BY <2>2 DEF First
  <2>4. r[S \ {First(S)}] = p[S \ {First(S)}]
    BY <2>1, <2>3
  <2>5. /\ r[S] = f[First(S)] + r[S \ {First(S)}]
        /\ p[S] = f[First(S)] + p[S \ {First(S)}]
    BY <1>1, <2>1, <2>2 DEF OneByOne
  <2> QED
    BY <2>1, <2>4, <2>5
<1>3. ASSUME NEW S \in SUBSET D PROVE r[S] = p[S]
  BY <1>2
<1>4. r = [S \in SUBSET D |-> r[S]]
  BY DEF OneByOne
<1> QED
  BY <1>3, <1>4

\* A measure is what SumFunction computes.
LEMMA SumMeasured ==
    ASSUME NEW D, IsFiniteSet(D), NEW f \in [D -> Nat], NEW p \in [SUBSET D -> Nat],
           Measures(D, p, f)
    PROVE  SumFunction(f) = p[D]
<1>1. DOMAIN f = D
  OBVIOUS
<1>2. Takes(p, f)
  <2>1. OneByOne(D, p, f)
    BY MeasureTaken
  <2> QED
    BY <1>1, <2>1 DEF OneByOne, Takes, First
<1>3. ASSUME NEW r, Takes(r, f) PROVE r = p
  <2>1. OneByOne(D, r, f)
    BY <1>1, <1>3 DEF OneByOne, Takes, First
  <2> QED
    BY <2>1, TakenOnce
<1> QED
  BY <1>1, <1>2, <1>3, SumTaken

\* One more element can be measured.
LEMMA OneMore ==
    ASSUME NEW D, NEW f \in [D -> Nat], NEW S \in SUBSET D, NEW y \in S, NEW p,
           Measures(S \ {y}, p, f)
    PROVE  \E q : Measures(S, q, f)
<1> DEFINE q == [R \in SUBSET S |-> IF y \in R THEN p[R \ {y}] + f[y] ELSE p[R]]
<1>1. /\ p \in [SUBSET (S \ {y}) -> Nat] /\ p[{}] = 0
      /\ \A R \in SUBSET (S \ {y}) : \A x \in R : p[R] = p[R \ {x}] + f[x]
  BY DEF Measures
<1>2. \A x \in S : f[x] \in Nat
  OBVIOUS
<1>3. ASSUME NEW R \in SUBSET S PROVE p[R \ {y}] \in Nat
  <2>1. R \ {y} \in SUBSET (S \ {y})
    OBVIOUS
  <2> QED
    BY <1>1, <2>1
<1>4. ASSUME NEW R \in SUBSET S, y \notin R PROVE R \ {y} = R
  BY <1>4
<1>5. ASSUME NEW R \in SUBSET S PROVE q[R] \in Nat
  <2>1. CASE y \in R
    <3>1. q[R] = p[R \ {y}] + f[y]
      BY <2>1
    <3>2. p[R \ {y}] \in Nat /\ f[y] \in Nat
      BY <1>2, <1>3
    <3> QED
      BY <3>1, <3>2
  <2>2. CASE y \notin R
    <3>1. q[R] = p[R] /\ p[R] = p[R \ {y}]
      BY <1>4, <2>2
    <3> QED
      BY <1>3, <3>1
  <2> QED
    BY <2>1, <2>2
<1>6. q \in [SUBSET S -> Nat]
  BY <1>5
<1>7. q[{}] = 0
  BY <1>1
<1>8. ASSUME NEW R \in SUBSET S, NEW x \in R PROVE q[R] = q[R \ {x}] + f[x]
  <2>1. R \ {x} \in SUBSET S
    OBVIOUS
  <2>2. CASE x = y
    <3>1. q[R] = p[R \ {y}] + f[y]
      BY <2>2
    <3>2. q[R \ {x}] = p[R \ {y}]
      BY <2>1, <2>2
    <3> QED
      BY <2>2, <3>1, <3>2
  <2>3. CASE x # y /\ y \in R
    <3>1. R \ {y} \in SUBSET (S \ {y}) /\ x \in R \ {y}
      BY <2>3
    <3>2. p[R \ {y}] = p[(R \ {y}) \ {x}] + f[x]
      BY <1>1, <3>1
    <3>3. (R \ {y}) \ {x} = (R \ {x}) \ {y}
      OBVIOUS
    <3>4. q[R] = p[R \ {y}] + f[y]
      BY <2>3
    <3>5. q[R \ {x}] = p[(R \ {x}) \ {y}] + f[y]
      BY <2>1, <2>3
    <3>6. p[(R \ {x}) \ {y}] \in Nat /\ f[x] \in Nat /\ f[y] \in Nat
      BY <1>2, <1>3, <2>1
    <3> DEFINE m == p[(R \ {x}) \ {y}]
    <3>7. p[R \ {y}] = m + f[x]
      BY <3>2, <3>3
    <3>8. m + f[x] + f[y] = m + f[y] + f[x]
      <4> HIDE DEF m
      <4> QED
        BY <3>6 DEF m
    <3> QED
      BY <3>4, <3>5, <3>7, <3>8
  <2>4. CASE x # y /\ y \notin R
    <3>1. R \in SUBSET (S \ {y})
      BY <2>4
    <3>2. p[R] = p[R \ {x}] + f[x]
      BY <1>1, <3>1
    <3>3. q[R] = p[R] /\ q[R \ {x}] = p[R \ {x}]
      BY <2>1, <2>4
    <3> QED
      BY <3>2, <3>3
  <2> QED
    BY <2>2, <2>3, <2>4
<1>9. Measures(S, q, f)
  <2> HIDE DEF q
  <2> QED
    BY <1>6, <1>7, <1>8 DEF Measures
<1> QED
  BY <1>9

\* A function to the naturals can be measured.
LEMMA SumExists ==
    ASSUME NEW D, IsFiniteSet(D), NEW f \in [D -> Nat]
    PROVE  \E p \in [SUBSET D -> Nat] : Measures(D, p, f)
<1> DEFINE Bad == {S \in SUBSET D : ~\E p : Measures(S, p, f)}
<1>1. ASSUME Bad # {} PROVE FALSE
  <2>1. PICK S \in Bad : \A x \in S : S \ {x} \notin Bad
    BY <1>1, Smallest
  <2>2. S \in SUBSET D /\ ~\E p : Measures(S, p, f)
    BY <2>1
  <2>3. ASSUME NEW y \in S PROVE FALSE
    <3>1. S \ {y} \in SUBSET D /\ S \ {y} \notin Bad
      BY <2>1, <2>2
    <3>2. PICK p : Measures(S \ {y}, p, f)
      BY <3>1
    <3>3. \E q : Measures(S, q, f)
      BY <2>2, <3>2, OneMore
    <3> QED
      BY <2>2, <3>3
  <2>4. S = {}
    BY <2>3
  <2>5. Measures({}, [R \in SUBSET {} |-> 0], f)
    BY DEF Measures
  <2> QED
    BY <2>2, <2>4, <2>5
<1>2. D \in SUBSET D /\ D \notin Bad
  BY <1>1
<1>3. PICK p : Measures(D, p, f)
  BY <1>2
<1>4. p \in [SUBSET D -> Nat] /\ Measures(D, p, f)
  BY <1>3 DEF Measures
<1> QED
  BY <1>4

----------------------------------------------------------------------------
(* Accrual and prices *)

\* The scales and the price are positive.
LEMMA Scales ==
    ASSUME TypeOK
    PROVE  /\ rate \in Nat \ {0} /\ Scalar \in Nat \ {0} /\ BpsDenom \in Nat \ {0}
           /\ VirtualShares \in Nat \ {0} /\ VirtualAssets \in Nat \ {0}
           /\ feeBps \in Nat /\ MaxFeeBps \in Nat /\ feeBps <= MaxFeeBps
  BY ScalesAssumption DEF TypeOK

\* What accrual computes is a natural, the retained profit aside.
LEMMA AccrualTypes ==
    ASSUME TypeOK
    PROVE  /\ Assets \in Nat /\ Retained \in Int /\ NewProfit \in Nat
           /\ FeeAssets \in Nat /\ FeeShares \in Nat /\ Charge \in Nat
           /\ AccruedMark \in Nat /\ AccruedTotal \in Nat
           /\ AccruedMark = highWaterMark + NewProfit
<1> USE Scales
<1>1. Assets \in Nat
  <2>1. (bTokens * rate) \in Nat
    BY TimesNat DEF TypeOK
  <2> QED
    BY <2>1, DivNat DEF Assets
<1>2. Retained \in Int /\ NewProfit \in Nat
  BY <1>1 DEF TypeOK, Retained, NewProfit
<1>3. FeeAssets \in Nat
  <2>1. (NewProfit * feeBps) \in Nat
    BY <1>2, TimesNat
  <2> QED
    BY <2>1, DivNat DEF FeeAssets
<1>4. FeeShares \in Nat
  <2>1. (FeeAssets * totalShares) \in Nat
    BY <1>3, TimesNat DEF TypeOK
  <2>2. CASE Assets - FeeAssets > 0
    <3>1. Assets - FeeAssets \in Nat \ {0}
      BY <1>1, <1>3, <2>2
    <3> QED
      BY <2>1, <3>1, DivNat DEF FeeShares
  <2>3. CASE ~(Assets - FeeAssets > 0)
    BY <2>3 DEF FeeShares
  <2> QED
    BY <2>2, <2>3
<1>5. AccruedMark \in Nat /\ AccruedMark = highWaterMark + NewProfit
  BY <1>2 DEF AccruedMark, NewProfit, TypeOK
<1> QED
  BY <1>1, <1>2, <1>3, <1>4, <1>5 DEF Charge, AccruedTotal, TypeOK

\* Prices are naturals, and Blend never burns more than there is.
LEMMA PriceTypes ==
    ASSUME TypeOK, NEW a \in Nat
    PROVE  /\ Minted(a) \in Nat /\ Payout(a) \in Nat /\ Supplied(a) \in Nat
           /\ \A n \in Burned(a) : bTokens - n \in Nat
<1> USE Scales, AccrualTypes
<1>1. /\ AccruedTotal + VirtualShares \in Nat \ {0}
      /\ Assets + VirtualAssets \in Nat \ {0}
  OBVIOUS
<1>2. Minted(a) \in Nat
  <2>1. (a * (AccruedTotal + VirtualShares)) \in Nat
    BY <1>1, TimesNat
  <2> QED
    BY <1>1, <2>1, DivNat DEF Minted
<1>3. Payout(a) \in Nat
  <2>1. (a * (Assets + VirtualAssets)) \in Nat
    BY <1>1, TimesNat
  <2> QED
    BY <1>1, <2>1, DivNat DEF Payout
<1>4. Supplied(a) \in Nat
  <2>1. (a * Scalar) \in Nat
    BY TimesNat
  <2> QED
    BY <2>1, DivNat DEF Supplied
<1>5. ASSUME NEW n \in Burned(a)
      PROVE  bTokens - n \in Nat
  <2>1. (a * Scalar) \in Int /\ -(a * Scalar) \in Int
    BY TimesNat
  <2>2. ((a * Scalar) \div rate) \in Int /\ ((-(a * Scalar)) \div rate) \in Int
    BY <2>1, DivFloor
  <2>3. n \in Int /\ n <= bTokens
    BY <1>5, <2>2 DEF Burned
  <2> QED
    BY <2>3 DEF TypeOK
<1> QED
  BY <1>2, <1>3, <1>4, <1>5

\* Accrual keeps the books: what it credits is what it adds to the total.
LEMMA AccrualKeepsBooks ==
    ASSUME IInv
    PROVE  /\ [h \in Holders |-> Credited(h)] \in [Holders -> Nat]
           /\ SumsTo([h \in Holders |-> Credited(h)], AccruedTotal)
<1> USE DEF IInv
<1>1. FeeShares \in Nat /\ shares \in [Holders -> Nat] /\ totalShares \in Nat
      /\ feeRecipient \in Holders
  BY AccrualTypes DEF TypeOK
<1>2. [h \in Holders |-> Credited(h)]
         = [shares EXCEPT ![feeRecipient] = shares[feeRecipient] + FeeShares]
  <2>1. ASSUME NEW h \in Holders
        PROVE  Credited(h) = [shares EXCEPT ![feeRecipient] =
                                 shares[feeRecipient] + FeeShares][h]
    <3>1. shares[h] \in Nat
      BY <1>1
    <3> QED
      BY <1>1, <3>1 DEF Credited
  <2> QED
    BY <1>1, <2>1
<1>3. SumsTo([h \in Holders |-> Credited(h)], totalShares + FeeShares)
  BY <1>1, <1>2, SumMoves
<1> QED
  BY <1>1, <1>3 DEF Credited, AccruedTotal

----------------------------------------------------------------------------
(* The invariant is inductive *)

\* The empty vault.
LEMMA InitInv == Init => IInv
<1> SUFFICES ASSUME Init PROVE IInv
  OBVIOUS
<1>1. TypeOK
  BY PartiesAssumption, ScalesAssumption, MoneyAssumption, BoundsAssumption
     DEF Init, TypeOK
<1>2. SumsTo(shares, totalShares)
  <2> DEFINE p == [S \in SUBSET Holders |-> 0]
  <2>1. p \in [SUBSET Holders -> Nat]
    OBVIOUS
  <2>2. Measures(Holders, p, shares)
    BY <2>1 DEF Init, Measures
  <2>3. p[Holders] = totalShares
    BY DEF Init
  <2> QED
    BY <2>1, <2>2, <2>3 DEF SumsTo
<1> QED
  BY <1>1, <1>2 DEF IInv

\* A deposit.
LEMMA DepositInv ==
    ASSUME IInv, NEW u \in Holders, NEW n \in Nat, Deposit(u, n)
    PROVE  IInv'
<1> DEFINE credited == [h \in Holders |-> Credited(h)]
<1>1. TypeOK
  BY DEF IInv
<1>2. Minted(n) \in Nat /\ Supplied(n) \in Nat
  BY <1>1, PriceTypes
<1>3. credited \in [Holders -> Nat] /\ SumsTo(credited, AccruedTotal)
  BY AccrualKeepsBooks
<1>4. shares' = [credited EXCEPT ![u] = credited[u] + Minted(n)]
  BY <1>2, <1>3 DEF Deposit
<1>5. AccruedTotal \in Nat /\ AccruedMark \in Nat /\ Charge \in Nat
  BY <1>1, AccrualTypes
<1>6. /\ totalShares' \in Nat
      /\ SumsTo(shares', totalShares')
  <2>1. credited[u] + Minted(n) \in Nat
    BY <1>2, <1>3
  <2>2. totalShares' = AccruedTotal + Minted(n)
    BY DEF Deposit
  <2> QED
    BY <1>2, <1>3, <1>4, <1>5, <2>1, <2>2, SumMoves
<1>7. shares' \in [Holders -> Nat]
  BY <1>2, <1>3, <1>4
<1>8. wallet' \in [Holders -> Nat]
  BY <1>1 DEF TypeOK, Deposit
<1>9. /\ netDeposits' \in Int /\ highWaterMark' \in Nat
      /\ feesCharged' \in Nat /\ bTokens' \in Nat
  BY <1>1, <1>2, <1>5 DEF TypeOK, Deposit
<1>10. calls' \in 0 .. MaxCalls
  BY <1>1, BoundsAssumption DEF TypeOK, Deposit, CallCounted
<1>11. TypeOK'
  BY <1>1, <1>6, <1>7, <1>8, <1>9, <1>10 DEF TypeOK, Deposit, settings
<1> QED
  BY <1>6, <1>11 DEF IInv

\* A withdrawal.
LEMMA WithdrawInv ==
    ASSUME IInv, NEW u \in Holders, NEW s \in Nat, Withdraw(u, s)
    PROVE  IInv'
<1> DEFINE credited == [h \in Holders |-> Credited(h)]
<1>1. TypeOK
  BY DEF IInv
<1>2. Payout(s) \in Nat /\ \A n \in Burned(Payout(s)) : bTokens - n \in Nat
  BY <1>1, PriceTypes
<1>3. credited \in [Holders -> Nat] /\ SumsTo(credited, AccruedTotal)
  BY AccrualKeepsBooks
<1>4. shares' = [credited EXCEPT ![u] = credited[u] + (-s)]
  BY <1>3 DEF Withdraw
<1>5. AccruedTotal \in Nat /\ AccruedMark \in Nat /\ Charge \in Nat
  BY <1>1, AccrualTypes
<1>6. credited[u] + (-s) \in Nat
  BY <1>3 DEF Withdraw
<1>7. /\ totalShares' \in Nat
      /\ SumsTo(shares', totalShares')
  <2>1. totalShares' = AccruedTotal + (-s)
    BY <1>5 DEF Withdraw
  <2> QED
    BY <1>3, <1>4, <1>5, <1>6, <2>1, SumMoves
<1>8. shares' \in [Holders -> Nat]
  BY <1>3, <1>4, <1>6
<1>9. wallet' \in [Holders -> Nat]
  BY <1>1, <1>2 DEF TypeOK, Withdraw
<1>10. /\ netDeposits' \in Int /\ highWaterMark' \in Nat
       /\ feesCharged' \in Nat /\ bTokens' \in Nat
  BY <1>1, <1>2, <1>5 DEF TypeOK, Withdraw
<1>11. calls' \in 0 .. MaxCalls
  BY <1>1, BoundsAssumption DEF TypeOK, Withdraw, CallCounted
<1>12. TypeOK'
  BY <1>1, <1>7, <1>8, <1>9, <1>10, <1>11 DEF TypeOK, Withdraw, settings
<1> QED
  BY <1>7, <1>12 DEF IInv

\* Calls of the administrator, and changes of the price.
LEMMA OutsideInv ==
    ASSUME IInv,
           \/ \E u \in Holders : SetFeeRecipient(u)
           \/ \E a \in Admins : ProposeAdmin(a)
           \/ AcceptAdmin
           \/ \E bps \in 0 .. MaxFeeBps + 1 : SetFeeBps(bps)
           \/ RateChange
    PROVE  IInv'
<1>1. UNCHANGED book /\ UNCHANGED <<bTokens, wallet, calls>>
  BY DEF SetFeeRecipient, ProposeAdmin, AcceptAdmin, SetFeeBps, RateChange
<1>2. feeBps' \in 0 .. MaxFeeBps
  BY Scales DEF IInv, TypeOK, SetFeeRecipient, ProposeAdmin, AcceptAdmin, SetFeeBps,
       RateChange, settings
<1>3. /\ feeRecipient' \in Holders /\ admin' \in Admins
      /\ pendingAdmin' \in Admins \cup {Nobody}
  BY DEF IInv, TypeOK, SetFeeRecipient, ProposeAdmin, AcceptAdmin, SetFeeBps,
       RateChange, settings
<1>4. rate' \in Rates /\ epoch' \in 0 .. MaxEpochs
  BY BoundsAssumption DEF IInv, TypeOK, SetFeeRecipient, ProposeAdmin, AcceptAdmin,
       SetFeeBps, RateChange
<1>5. TypeOK'
  BY <1>1, <1>2, <1>3, <1>4 DEF IInv, TypeOK, book
<1>6. SumsTo(shares, totalShares)'
  BY <1>1 DEF IInv, book
<1> QED
  BY <1>5, <1>6 DEF IInv

\* The treasury moves USDC out.
LEMMA SweepInv ==
    ASSUME IInv, NEW n \in Nat, Sweep(n)
    PROVE  IInv'
<1>1. Fund \in Holders /\ wallet[Fund] \in Nat /\ n <= wallet[Fund]
  BY FundAssumption DEF IInv, TypeOK, Sweep
<1>2. wallet' \in [Holders -> Nat]
  <2>1. wallet[Fund] - n \in Nat
    BY <1>1
  <2> QED
    BY <2>1 DEF IInv, TypeOK, Sweep
<1>3. UNCHANGED <<book, settings, bTokens, rate, epoch, calls>>
  BY DEF Sweep
<1>4. TypeOK'
  BY <1>2, <1>3 DEF IInv, TypeOK, book, settings
<1>5. SumsTo(shares, totalShares)'
  BY <1>3 DEF IInv, book
<1> QED
  BY <1>4, <1>5 DEF IInv

\* Every step is one of four kinds.
LEMMA Kinds ==
    ASSUME IInv, [VaultStep]_vars
    PROVE  \/ \E u \in Holders, a \in Nat : Deposit(u, a)
           \/ \E u \in Holders, s \in Nat : Withdraw(u, s)
           \/ \E u \in Holders : SetFeeRecipient(u)
           \/ \E a \in Admins : ProposeAdmin(a)
           \/ AcceptAdmin
           \/ \E bps \in 0 .. MaxFeeBps + 1 : SetFeeBps(bps)
           \/ RateChange
           \/ \E a \in Nat : Sweep(a)
           \/ UNCHANGED vars
<1>1. \A u \in Holders : Credited(u) \in Nat
  BY AccrualKeepsBooks
<1>2. ASSUME NEW u \in Holders, NEW a \in 1 .. wallet[u]
      PROVE  a \in Nat
  BY DEF IInv, TypeOK
<1>3. ASSUME NEW u \in Holders, NEW s \in 1 .. Credited(u)
      PROVE  s \in Nat
  BY <1>1
<1>4. ASSUME NEW a \in 1 .. wallet[Fund]
      PROVE  a \in Nat
  BY <1>2, FundAssumption
<1> QED
  BY <1>1, <1>2, <1>3, <1>4 DEF VaultStep, Next, WithdrawAll

\* Every step keeps it.
LEMMA Inductive == IInv /\ [VaultStep]_vars => IInv'
<1> SUFFICES ASSUME IInv, [VaultStep]_vars PROVE IInv'
  OBVIOUS
<1>1. CASE UNCHANGED vars
  BY <1>1 DEF IInv, TypeOK, vars, book, settings
<1> QED
  BY <1>1, Kinds, DepositInv, WithdrawInv, OutsideInv, SweepInv

\* The treasury claims what a holder could withdraw.
LEMMA FundMoves == IInv /\ [FundNext]_allVars => [VaultStep]_vars
<1> SUFFICES ASSUME IInv, [FundNext]_allVars PROVE [VaultStep]_vars
  OBVIOUS
<1>1. /\ Fund \in Holders /\ shares[Fund] \in Nat
      /\ Credited(Fund) \in Nat
  BY FundAssumption, AccrualKeepsBooks DEF IInv, TypeOK
<1>2. CASE UNCHANGED allVars
  BY <1>2 DEF allVars
<1>3. CASE \E s \in 1 .. Credited(Fund) : ClaimFees(s)
  BY <1>1, <1>3 DEF ClaimFees, VaultStep, Next
<1>4. CASE ClaimAllFees
  <2>1. shares[Fund] \in 1 .. Credited(Fund)
    BY <1>1, <1>4 DEF ClaimAllFees, Withdraw
  <2> QED
    BY <1>1, <1>4, <2>1 DEF ClaimAllFees, VaultStep, Next
<1>5. CASE Govern
  BY <1>5 DEF Govern, VaultStep, Next
<1>6. CASE \E u \in Depositors :
              \/ \E n \in 1 .. wallet[u] : Deposit(u, n)
              \/ \E s \in 1 .. Credited(u) : Withdraw(u, s)
              \/ WithdrawAll(u)
  BY <1>6 DEF Depositors, VaultStep, Next
<1>7. CASE \E n \in 1 .. wallet[Fund] : Sweep(n)
  BY <1>7 DEF VaultStep
<1>8. CASE RateChange
  BY <1>8 DEF VaultStep, Next
<1> QED
  BY <1>2, <1>3, <1>4, <1>5, <1>6, <1>7, <1>8 DEF FundNext

\* The vault alone makes such steps.
LEMMA VaultMoves == [Next]_vars => [VaultStep]_vars
  BY DEF VaultStep

\* So both are behaviours of these steps, and the books balance in all their
\* states.
LEMMA Always == Spec \/ FundSpec => Init /\ [][VaultStep]_vars /\ []IInv
<1>1. FundInit => Init
  BY DEF FundInit
<1>2. Spec => [][VaultStep]_vars
  BY VaultMoves, PTL DEF Spec
<1>3. FundSpec => []IInv
  BY <1>1, InitInv, FundMoves, Inductive, PTL DEF FundSpec
<1>4. FundSpec => [][VaultStep]_vars
  BY <1>3, FundMoves, PTL DEF FundSpec
<1> QED
  BY <1>1, <1>2, <1>4, InitInv, Inductive, PTL DEF Spec, FundSpec

\* Every variable keeps its type; in particular balances, total shares and the
\* Blend position never become negative.
THEOREM TypeCorrect == Spec \/ FundSpec => []TypeOK
<1>1. IInv => TypeOK
  BY DEF IInv
<1> QED
  BY <1>1, Always, PTL

\* TotalShares is the sum of the balances, in the words of the runs: accrual,
\* deposit and withdrawal move both by the same number of shares, also when the
\* caller is the fee recipient.
THEOREM BooksBalance == Spec \/ FundSpec => []SharesAccounted
<1>1. ASSUME IInv PROVE SharesAccounted
  <2>1. PICK p \in [SUBSET Holders -> Nat] : Measures(Holders, p, shares) /\ p[Holders] = totalShares
    BY <1>1 DEF IInv, SumsTo
  <2>2. shares \in [Holders -> Nat]
    BY <1>1 DEF IInv, TypeOK
  <2> QED
    BY <2>1, <2>2, PartiesAssumption, SumMeasured DEF SharesAccounted
<1> QED
  BY <1>1, Always, PTL

----------------------------------------------------------------------------
(* Solvency *)

\* What is owed is priced over all shares and rounded down, holder by holder:
\* together the parts are no more than the whole.
LEMMA PartsOfTheWhole ==
    ASSUME NEW f \in [Holders -> Nat], NEW g \in [Holders -> Nat],
           NEW p \in [SUBSET Holders -> Nat], NEW q \in [SUBSET Holders -> Nat],
           Measures(Holders, p, f), Measures(Holders, q, g),
           NEW t \in Nat, NEW a \in Nat,
           \A u \in Holders : t * g[u] <= a * f[u]
    PROVE  t * q[Holders] <= a * p[Holders]
<1> DEFINE Bad == {S \in SUBSET Holders : ~(t * q[S] <= a * p[S])}
<1>1. ASSUME Bad # {} PROVE FALSE
  <2>1. PICK S \in Bad : \A x \in S : S \ {x} \notin Bad
    BY <1>1, PartiesAssumption, Smallest
  <2>2. S \in SUBSET Holders /\ ~(t * q[S] <= a * p[S])
    BY <2>1
  <2>3. CASE S = {}
    <3>1. q[S] = 0 /\ p[S] = 0
      BY <2>3 DEF Measures
    <3>2. t * 0 <= a * 0
      OBVIOUS
    <3> QED
      BY <2>2, <3>1, <3>2
  <2>4. ASSUME NEW x \in S PROVE FALSE
    <3> DEFINE R == S \ {x}
    <3>1. R \in SUBSET Holders /\ x \in Holders
      BY <2>2
    <3>2. t * q[R] <= a * p[R]
      BY <2>1, <3>1
    <3>3. q[S] = q[R] + g[x] /\ p[S] = p[R] + f[x]
      BY <2>2 DEF Measures
    <3>4. t * g[x] <= a * f[x]
      BY <3>1
    <3>5. q[R] \in Nat /\ p[R] \in Nat /\ g[x] \in Nat /\ f[x] \in Nat
      BY <3>1
    <3> HIDE DEF R
    <3>6. t * (q[R] + g[x]) = t * q[R] + t * g[x]
      BY <3>5
    <3>7. a * (p[R] + f[x]) = a * p[R] + a * f[x]
      BY <3>5
    <3> DEFINE i == t * q[R]
               j == t * g[x]
               k == a * p[R]
               l == a * f[x]
    <3>8. i \in Nat /\ j \in Nat /\ k \in Nat /\ l \in Nat
      BY <3>5, TimesNat
    <3>9. i + j <= k + l
      <4> HIDE DEF i, j, k, l
      <4> QED
        BY <3>2, <3>4, <3>8 DEF i, j, k, l
    <3> QED
      BY <2>2, <3>3, <3>6, <3>7, <3>9
  <2> QED
    BY <2>3, <2>4
<1>2. Holders \in SUBSET Holders /\ Holders \notin Bad
  BY <1>1
<1> QED
  BY <1>2

\* The values of all holders together stay below the assets and the virtual
\* assets.
LEMMA Owed ==
    ASSUME IInv
    PROVE  /\ [u \in Holders |-> Value(u)] \in [Holders -> Nat]
           /\ SumFunction([u \in Holders |-> Value(u)]) \in Nat
           /\ SumFunction([u \in Holders |-> Value(u)]) < Assets + VirtualAssets
           /\ \A u \in Holders : Value(u) < Assets + VirtualAssets
<1> DEFINE g == [u \in Holders |-> Value(u)]
           t == totalShares + VirtualShares
           a == Assets + VirtualAssets
<1>1. TypeOK
  BY DEF IInv
<1>2. t \in Nat \ {0} /\ a \in Nat \ {0} /\ totalShares \in Nat /\ totalShares < t
  BY <1>1, Scales, AccrualTypes DEF TypeOK
<1>3. shares \in [Holders -> Nat]
  BY <1>1 DEF TypeOK
<1>4. PICK p \in [SUBSET Holders -> Nat] : Measures(Holders, p, shares) /\ p[Holders] = totalShares
  BY DEF IInv, SumsTo
<1>5. ASSUME NEW u \in Holders
      PROVE  Value(u) \in Nat /\ t * Value(u) <= a * shares[u]
  <2>1. (shares[u] * a) \in Nat
    BY <1>2, <1>3, TimesNat
  <2>2. Value(u) = (shares[u] * a) \div t
    BY DEF Value
  <2> HIDE DEF a, t
  <2>3. Value(u) \in Nat
    BY <1>2, <2>1, <2>2, DivNat
  <2>4. t * Value(u) <= shares[u] * a
    BY <1>2, <2>1, <2>2, DivFloor
  <2>5. shares[u] * a = a * shares[u]
    BY <1>2, <1>3
  <2> QED
    BY <2>3, <2>4, <2>5
<1>6. g \in [Holders -> Nat]
  BY <1>5
<1>7. PICK q \in [SUBSET Holders -> Nat] : Measures(Holders, q, g)
  BY <1>6, PartiesAssumption, SumExists
<1>8. SumFunction(g) = q[Holders]
  BY <1>6, <1>7, PartiesAssumption, SumMeasured
<1>9. \A u \in Holders : t * g[u] <= a * shares[u]
  BY <1>5
<1>10. q[Holders] \in Nat
  BY <1>7
<1> HIDE DEF a, t, g
<1>11. t * q[Holders] <= a * totalShares
  BY <1>2, <1>3, <1>4, <1>6, <1>7, <1>9, PartsOfTheWhole
<1>12. ASSUME NEW v \in Nat, NEW s \in Nat, s <= totalShares, t * v <= a * s
       PROVE  v < a
  <2>1. s < t
    BY <1>2, <1>12
  <2>2. a * s < a * t
    BY <1>2, <1>12, <2>1
  <2>3. a * t = t * a
    BY <1>2
  <2> DEFINE x == t * v
             y == a * s
             z == t * a
  <2>4. x \in Nat /\ y \in Nat /\ z \in Nat
    BY <1>2, <1>12, TimesNat
  <2>5. x < z
    <3>1. x <= y /\ y < z
      BY <1>12, <2>2, <2>3
    <3> HIDE DEF x, y, z
    <3> QED
      BY <2>4, <3>1
  <2> QED
    BY <1>2, <1>12, <2>5, TimesStrict
<1>13. q[Holders] < a
  BY <1>2, <1>10, <1>11, <1>12
<1>14. ASSUME NEW u \in Holders PROVE Value(u) < a
  <2>1. p[Holders] = p[Holders \ {u}] + shares[u] /\ p[Holders \ {u}] \in Nat
    BY <1>4 DEF Measures
  <2>2. shares[u] \in Nat /\ shares[u] <= totalShares
    BY <1>2, <1>3, <1>4, <2>1
  <2> QED
    BY <1>5, <1>12, <2>2
<1> QED
  BY <1>6, <1>8, <1>10, <1>13, <1>14 DEF a, g

\* What is worth no more than the assets burns no more b-tokens than there are,
\* even rounded up.
LEMMA BurnFits ==
    ASSUME TypeOK, NEW v \in Nat, v <= Assets
    PROVE  -((-(v * Scalar)) \div rate) <= bTokens
<1> DEFINE x == v * Scalar
           y == bTokens * rate
           d == (-x) \div rate
<1>1. /\ rate \in Nat \ {0} /\ Scalar \in Nat \ {0} /\ bTokens \in Nat /\ Assets \in Nat
  BY Scales, AccrualTypes DEF TypeOK
<1>2. x \in Nat /\ y \in Nat
  BY <1>1, TimesNat
<1>3. x <= y
  <2>1. Scalar * v <= Scalar * Assets
    BY <1>1, TimesMonotone
  <2>2. Scalar * Assets <= y
    BY <1>1, <1>2, DivFloor DEF Assets
  <2>3. Scalar * v = x
    BY <1>1
  <2>4. (Scalar * Assets) \in Nat
    BY <1>1, TimesNat
  <2> DEFINE z == Scalar * Assets
  <2> HIDE DEF x, y, z
  <2> QED
    BY <1>2, <2>1, <2>2, <2>3, <2>4 DEF z
<1>4. d \in Int /\ -x < rate * d + rate
  <2> HIDE DEF x
  <2>1. -x \in Int
    BY <1>2
  <2> QED
    BY <1>1, <2>1, DivRounds
<1> HIDE DEF x, d
<1>5. rate * (-bTokens) = -y
  BY <1>1
<1>6. rate * (d + 1) = rate * d + rate
  BY <1>1, <1>4
<1>7. (rate * d) \in Int
  BY <1>1, <1>4
<1>8. rate * (-bTokens) < rate * (d + 1)
  <2> DEFINE z == rate * d
  <2>1. -y < z + rate
    <3> HIDE DEF y, z
    <3> QED
      BY <1>1, <1>2, <1>3, <1>4, <1>7 DEF z
  <2> QED
    BY <1>5, <1>6, <2>1
<1>9. -bTokens < d + 1
  BY <1>1, <1>4, <1>8, TimesStrict
<1> QED
  BY <1>1, <1>4, <1>9 DEF d, x

\* With the one virtual asset of the contract the fund can pay everybody: what
\* value_of promises all holders together is there, and whoever leaves first, the
\* vault has the b-tokens to burn.  With more virtual assets the promises could
\* exceed the assets, by less than those.
THEOREM StaysSolvent == VirtualAssets = 1 => (Spec \/ FundSpec => []Solvent)
<1> SUFFICES ASSUME VirtualAssets = 1 PROVE Spec \/ FundSpec => []Solvent
  OBVIOUS
<1>1. ASSUME IInv PROVE Solvent
  <2>1. TypeOK /\ Assets \in Nat
    BY <1>1, AccrualTypes DEF IInv
  <2>2. SumFunction([u \in Holders |-> Value(u)]) <= Assets
    BY <1>1, <2>1, Owed
  <2>3. ASSUME NEW u \in Holders PROVE Value(u) \in Nat /\ Value(u) <= Assets
    <3>1. Value(u) < Assets + VirtualAssets
      BY <1>1, Owed
    <3>2. Value(u) \in Nat
      <4>1. [v \in Holders |-> Value(v)][u] \in Nat
        BY <1>1, Owed
      <4> QED
        BY <4>1
    <3> QED
      BY <2>1, <3>1, <3>2
  <2>4. ASSUME NEW u \in Holders PROVE -((-(Value(u) * Scalar)) \div rate) <= bTokens
    BY <2>1, <2>3, BurnFits
  <2> QED
    BY <2>2, <2>4 DEF Solvent
<1> QED
  BY <1>1, Always, PTL

----------------------------------------------------------------------------
(* Fees *)

\* The fee in assets is at most the rate of the new profit.
LEMMA FeeAssetsBound ==
    ASSUME TypeOK
    PROVE  BpsDenom * FeeAssets <= NewProfit * feeBps
<1>1. NewProfit \in Nat /\ feeBps \in Nat /\ BpsDenom \in Nat \ {0}
  BY AccrualTypes, Scales
<1>2. (NewProfit * feeBps) \in Int
  BY <1>1, TimesNat
<1> QED
  BY <1>1, <1>2, DivFloor DEF FeeAssets

\* One accrual charges at most the capped rate of what it adds to the mark.
LEMMA ChargeBound ==
    ASSUME TypeOK
    PROVE  BpsDenom * Charge <= MaxFeeBps * NewProfit
<1> USE AccrualTypes, Scales
<1>1. BpsDenom * Charge <= BpsDenom * FeeAssets
  <2>1. Charge <= FeeAssets
    BY DEF Charge
  <2> QED
    BY <2>1, TimesMonotone
<1>2. NewProfit * feeBps <= NewProfit * MaxFeeBps
  BY TimesMonotone
<1>3. BpsDenom * FeeAssets <= NewProfit * feeBps
  BY FeeAssetsBound
<1> DEFINE a == BpsDenom * Charge
           b == BpsDenom * FeeAssets
           c == NewProfit * feeBps
           d == NewProfit * MaxFeeBps
<1>4. a \in Int /\ b \in Int /\ c \in Int /\ d \in Int
  BY TimesNat
<1>5. a <= d
  <2> HIDE DEF a, b, c, d
  <2> QED
    BY <1>1, <1>2, <1>3, <1>4 DEF a, b, c, d
<1> QED
  BY <1>5

\* What an accruing call adds to the fees it adds to the mark.
LEMMA AccrualTaxesOnce ==
    ASSUME TypeOK, NeverTaxedTwice,
           feesCharged' = feesCharged + Charge,
           highWaterMark' = AccruedMark
    PROVE  NeverTaxedTwice'
<1> USE AccrualTypes, Scales
<1>1. feesCharged \in Nat /\ highWaterMark \in Nat
  BY DEF TypeOK
<1>2. BpsDenom * (feesCharged + Charge) = BpsDenom * feesCharged + BpsDenom * Charge
  BY <1>1
<1>3. MaxFeeBps * (highWaterMark + NewProfit)
         = MaxFeeBps * highWaterMark + MaxFeeBps * NewProfit
  BY <1>1
<1>4. BpsDenom * feesCharged <= MaxFeeBps * highWaterMark
  BY DEF NeverTaxedTwice
<1>5. BpsDenom * Charge <= MaxFeeBps * NewProfit
  BY ChargeBound
<1> DEFINE a == BpsDenom * feesCharged
           b == BpsDenom * Charge
           c == MaxFeeBps * highWaterMark
           d == MaxFeeBps * NewProfit
<1>6. a \in Int /\ b \in Int /\ c \in Int /\ d \in Int
  BY <1>1, TimesNat
<1>7. a + b <= c + d
  <2> HIDE DEF a, b, c, d
  <2> QED
    BY <1>4, <1>5, <1>6 DEF a, b, c, d
<1>8. BpsDenom' = BpsDenom /\ MaxFeeBps' = MaxFeeBps
  OBVIOUS
<1> QED
  BY <1>2, <1>3, <1>7 DEF NeverTaxedTwice

\* Profit is charged once: all fees ever charged stay within the capped rate of
\* the highest profit ever retained, whatever prices and callers do.
THEOREM TaxedOnce == Spec \/ FundSpec => []NeverTaxedTwice
<1>1. Init => NeverTaxedTwice
  BY ScalesAssumption DEF Init, NeverTaxedTwice
<1>2. IInv /\ NeverTaxedTwice /\ [VaultStep]_vars => NeverTaxedTwice'
  <2> SUFFICES ASSUME IInv, NeverTaxedTwice, [VaultStep]_vars PROVE NeverTaxedTwice'
    OBVIOUS
  <2>1. TypeOK
    BY DEF IInv
  <2>2. \/ feesCharged' = feesCharged + Charge /\ highWaterMark' = AccruedMark
        \/ UNCHANGED <<feesCharged, highWaterMark>>
    BY Kinds DEF Deposit, Withdraw, SetFeeRecipient, ProposeAdmin, AcceptAdmin,
         SetFeeBps, RateChange, Sweep, book, vars
  <2>3. CASE UNCHANGED <<feesCharged, highWaterMark>>
    BY <2>3 DEF NeverTaxedTwice
  <2> QED
    BY <2>1, <2>2, <2>3, AccrualTaxesOnce
<1> QED
  BY <1>1, <1>2, Always, PTL DEF Spec

\* The fee minted by the next accrual is at most the rate of the new profit.
THEOREM FeeIsFair == Spec \/ FundSpec => []FeeIsWorthItsRate
<1>1. ASSUME TypeOK
      PROVE  FeeIsWorthItsRate
  <2> USE <1>1, AccrualTypes, Scales
  <2>1. totalShares \in Nat
    BY DEF TypeOK
  <2>2. BpsDenom * FeeAssets <= NewProfit * feeBps
    BY FeeAssetsBound
  <2>3. FeeShares * Assets <= FeeAssets * AccruedTotal
    <3>1. CASE FeeShares = 0
      <4>1. (FeeAssets * AccruedTotal) \in Nat
        BY TimesNat
      <4> QED
        BY <3>1, <4>1
    <3>2. CASE FeeShares # 0
      <4>1. Assets - FeeAssets \in Nat \ {0}
        BY <3>2 DEF FeeShares
      <4>2. (FeeAssets * totalShares) \in Int
        BY <2>1, TimesNat
      <4>3. FeeShares = (FeeAssets * totalShares) \div (Assets - FeeAssets)
        BY <3>2 DEF FeeShares
      <4>4. (Assets - FeeAssets) * FeeShares <= FeeAssets * totalShares
        BY <4>1, <4>2, <4>3, DivFloor
      <4>5. (Assets - FeeAssets) * FeeShares = FeeShares * Assets - FeeAssets * FeeShares
        OBVIOUS
      <4>6. FeeAssets * AccruedTotal = FeeAssets * totalShares + FeeAssets * FeeShares
        BY <2>1 DEF AccruedTotal
      <4> DEFINE a == FeeShares * Assets
                 b == FeeAssets * FeeShares
                 c == FeeAssets * totalShares
      <4>7. a \in Int /\ b \in Int /\ c \in Int
        BY <2>1, TimesNat
      <4>8. a <= c + b
        <5>1. a - b <= c
          BY <4>4, <4>5
        <5> HIDE DEF a, b, c
        <5> QED
          BY <4>7, <5>1
      <4> QED
        BY <4>6, <4>8
    <3> QED
      BY <3>1, <3>2
  <2>4. BpsDenom * (FeeShares * Assets) <= BpsDenom * (FeeAssets * AccruedTotal)
    BY <2>3, TimesNat, TimesMonotone
  <2>5. AccruedTotal * (BpsDenom * FeeAssets) <= AccruedTotal * (NewProfit * feeBps)
    BY <2>2, TimesNat, TimesMonotone
  <2>6. BpsDenom * (FeeAssets * AccruedTotal) = AccruedTotal * (BpsDenom * FeeAssets)
    OBVIOUS
  <2>7. AccruedTotal * (NewProfit * feeBps) = feeBps * NewProfit * AccruedTotal
    OBVIOUS
  <2>8. BpsDenom * (FeeShares * Assets) = BpsDenom * FeeShares * Assets
    OBVIOUS
  <2> DEFINE a == BpsDenom * (FeeShares * Assets)
             b == AccruedTotal * (BpsDenom * FeeAssets)
             c == AccruedTotal * (NewProfit * feeBps)
  <2>9. a \in Int /\ b \in Int /\ c \in Int
    BY TimesNat
  <2>10. a <= c
    <3>1. a <= b /\ b <= c
      BY <2>4, <2>5, <2>6
    <3> HIDE DEF a, b, c
    <3> QED
      BY <2>9, <3>1
  <2> QED
    BY <2>7, <2>8, <2>10 DEF FeeIsWorthItsRate
<1> QED
  BY <1>1, TypeCorrect, PTL

----------------------------------------------------------------------------
(* Prices *)

\* Shares are not sold under the price after accrual.
LEMMA MintedBound ==
    ASSUME TypeOK, NEW a \in Nat
    PROVE  Minted(a) * (Assets + VirtualAssets) <= a * (AccruedTotal + VirtualShares)
<1> USE Scales, AccrualTypes
<1>1. /\ AccruedTotal + VirtualShares \in Nat
      /\ Assets + VirtualAssets \in Nat \ {0}
  OBVIOUS
<1>2. (a * (AccruedTotal + VirtualShares)) \in Int
  BY <1>1, TimesNat
<1>3. (Assets + VirtualAssets) * Minted(a) <= a * (AccruedTotal + VirtualShares)
  BY <1>1, <1>2, DivFloor DEF Minted
<1> QED
  BY <1>1, <1>3, PriceTypes

\* Shares are not bought back over it.
LEMMA PayoutBound ==
    ASSUME TypeOK, NEW s \in Nat
    PROVE  Payout(s) * (AccruedTotal + VirtualShares) <= s * (Assets + VirtualAssets)
<1> USE Scales, AccrualTypes
<1>1. /\ AccruedTotal + VirtualShares \in Nat \ {0}
      /\ Assets + VirtualAssets \in Nat
  OBVIOUS
<1>2. (s * (Assets + VirtualAssets)) \in Int
  BY <1>1, TimesNat
<1>3. (AccruedTotal + VirtualShares) * Payout(s) <= s * (Assets + VirtualAssets)
  BY <1>1, <1>2, DivFloor DEF Payout
<1> QED
  BY <1>1, <1>3, PriceTypes

\* A trade of m shares for a assets at no less than the price keeps the price.
LEMMA FairTrade ==
    ASSUME NEW A \in Int, NEW T \in Int, NEW a \in Int, NEW m \in Int,
           m * A <= a * T
    PROVE  (A + a) * T >= A * (T + m)
<1>1. (A + a) * T = A * T + a * T /\ A * (T + m) = A * T + m * A
  OBVIOUS
<1> DEFINE x == A * T
           y == a * T
           z == m * A
<1>2. x \in Int /\ y \in Int /\ z \in Int
  OBVIOUS
<1>3. z <= y
  OBVIOUS
<1>4. x + y >= x + z
  <2> HIDE DEF x, y, z
  <2> QED
    BY <1>2, <1>3
<1> QED
  BY <1>1, <1>4

\* No call ever lowers the share price left by its accrual: no holder is diluted
\* by another's deposit or withdrawal, and no round trip pays.
THEOREM PriceIsKept == Spec \/ FundSpec => PriceNeverFalls
<1> DEFINE A == Assets + VirtualAssets
           T == AccruedTotal + VirtualShares
           Kept == \A u \in Holders :
                      (\A v \in Holders \ {u} : wallet'[v] = wallet[v]) =>
                         (Assets + wallet[u] - wallet'[u] + VirtualAssets)
                               * (AccruedTotal + VirtualShares)
                            >= (Assets + VirtualAssets) * (totalShares' + VirtualShares)
<1>1. IInv /\ [VaultStep]_vars => Kept
  <2> SUFFICES ASSUME IInv, [VaultStep]_vars,
                      NEW u \in Holders,
                      \A v \in Holders \ {u} : wallet'[v] = wallet[v]
               PROVE  (Assets + wallet[u] - wallet'[u] + VirtualAssets) * T
                         >= A * (totalShares' + VirtualShares)
    OBVIOUS
  <2>1. TypeOK
    BY DEF IInv
  <2>2. /\ A \in Nat /\ T \in Nat
        /\ Assets \in Nat /\ VirtualAssets \in Nat
        /\ AccruedTotal \in Nat /\ VirtualShares \in Nat
        /\ wallet \in [Holders -> Nat] /\ totalShares \in Nat
    BY <2>1, AccrualTypes, Scales DEF TypeOK
  <2> HIDE DEF A, T
  <2>3. ASSUME NEW a \in Int, NEW m \in Int, m * A <= a * T,
               wallet[u] - wallet'[u] = a, wallet'[u] \in Int,
               totalShares' = AccruedTotal + m
        PROVE  (Assets + wallet[u] - wallet'[u] + VirtualAssets) * T
                  >= A * (totalShares' + VirtualShares)
    <3>1. (A + a) * T >= A * (T + m)
      BY <2>2, <2>3, FairTrade
    <3>2. Assets + wallet[u] - wallet'[u] + VirtualAssets = A + a
      BY <2>2, <2>3 DEF A
    <3>3. totalShares' + VirtualShares = T + m
      BY <2>2, <2>3 DEF T
    <3> QED
      BY <3>1, <3>2, <3>3
  <2>4. ASSUME NEW v \in Holders, NEW a \in Nat, Deposit(v, a)
        PROVE  (Assets + wallet[u] - wallet'[u] + VirtualAssets) * T
                  >= A * (totalShares' + VirtualShares)
    <3>1. wallet'[v] = wallet[v] - a /\ a > 0
      BY <2>2, <2>4 DEF Deposit
    <3>2. v = u
      BY <2>2, <3>1
    <3>3. Minted(a) \in Nat /\ Minted(a) * A <= a * T
      BY <2>1, PriceTypes, MintedBound DEF A, T
    <3>4. totalShares' = AccruedTotal + Minted(a)
      BY <2>4 DEF Deposit
    <3>5. wallet[u] - wallet'[u] = a /\ wallet'[u] \in Int
      BY <2>2, <3>1, <3>2
    <3> QED
      BY <2>3, <3>3, <3>4, <3>5
  <2>5. ASSUME NEW v \in Holders, NEW s \in Nat, Withdraw(v, s)
        PROVE  (Assets + wallet[u] - wallet'[u] + VirtualAssets) * T
                  >= A * (totalShares' + VirtualShares)
    <3> DEFINE p == Payout(s)
    <3>1. p \in Nat /\ p * T <= s * A
      BY <2>1, PriceTypes, PayoutBound DEF A, T
    <3>2. wallet'[v] = wallet[v] + p /\ p > 0 /\ totalShares' = AccruedTotal - s
      BY <2>2, <2>5 DEF Withdraw
    <3> HIDE DEF p
    <3>3. v = u
      BY <2>2, <3>1, <3>2
    <3>4. wallet[u] - wallet'[u] = -p /\ wallet'[u] \in Int
      BY <2>2, <3>1, <3>2, <3>3
    <3>5. (-s) * A <= (-p) * T
      <4>1. (-s) * A = -(s * A) /\ (-p) * T = -(p * T)
        BY <2>2, <3>1
      <4> DEFINE x == s * A
                 y == p * T
      <4>2. x \in Int /\ y \in Int /\ y <= x
        BY <2>2, <3>1
      <4>3. -x <= -y
        <5> HIDE DEF x, y
        <5> QED
          BY <4>2
      <4> QED
        BY <4>1, <4>3
    <3>6. totalShares' = AccruedTotal + (-s)
      BY <2>2, <3>2
    <3>7. -s \in Int /\ -p \in Int
      BY <3>1
    <3> QED
      BY <2>3, <3>4, <3>5, <3>6, <3>7
  <2>6. ASSUME NEW a \in Nat, totalShares' = totalShares,
               wallet[u] - wallet'[u] = a, wallet'[u] \in Int
        PROVE  (Assets + wallet[u] - wallet'[u] + VirtualAssets) * T
                  >= A * (totalShares' + VirtualShares)
    <3>1. FeeShares \in Nat /\ AccruedTotal = totalShares + FeeShares
      BY <2>1, AccrualTypes DEF AccruedTotal
    <3>2. (-FeeShares) * A <= a * T
      <4>1. (FeeShares * A) \in Nat /\ (a * T) \in Nat
        BY <2>2, <2>6, <3>1, TimesNat
      <4>2. (-FeeShares) * A = -(FeeShares * A)
        BY <2>2, <3>1
      <4> DEFINE x == FeeShares * A
                 y == a * T
      <4>3. -x <= y
        <5> HIDE DEF x, y
        <5> QED
          BY <4>1 DEF x, y
      <4> QED
        BY <4>2, <4>3
    <3>3. totalShares' = AccruedTotal + (-FeeShares)
      BY <2>2, <2>6, <3>1
    <3>4. -FeeShares \in Int /\ a \in Int
      BY <2>6, <3>1
    <3> QED
      BY <2>3, <2>6, <3>2, <3>3, <3>4
  <2>7. ASSUME UNCHANGED <<totalShares, wallet>>
        PROVE  (Assets + wallet[u] - wallet'[u] + VirtualAssets) * T
                  >= A * (totalShares' + VirtualShares)
    <3>1. wallet[u] - wallet'[u] = 0 /\ wallet'[u] \in Int
      BY <2>2, <2>7
    <3> QED
      BY <2>6, <2>7, <3>1
  <2>8. ASSUME NEW a \in Nat, Sweep(a)
        PROVE  (Assets + wallet[u] - wallet'[u] + VirtualAssets) * T
                  >= A * (totalShares' + VirtualShares)
    <3>1. Fund \in Holders /\ a > 0 /\ wallet'[Fund] = wallet[Fund] - a
      BY <2>2, <2>8, FundAssumption DEF Sweep
    <3>2. Fund = u
      BY <2>2, <3>1
    <3>3. totalShares' = totalShares
      BY <2>8 DEF Sweep, book
    <3>4. wallet[u] - wallet'[u] = a /\ wallet'[u] \in Int
      BY <2>2, <2>8, <3>1, <3>2
    <3> QED
      BY <2>6, <2>8, <3>3, <3>4
  <2>9. \/ \E v \in Holders, a \in Nat : Deposit(v, a)
        \/ \E v \in Holders, s \in Nat : Withdraw(v, s)
        \/ \E a \in Nat : Sweep(a)
        \/ UNCHANGED <<totalShares, wallet>>
    BY Kinds DEF SetFeeRecipient, ProposeAdmin, AcceptAdmin, SetFeeBps, RateChange,
         book, vars
  <2> QED
    BY <2>4, <2>5, <2>7, <2>8, <2>9
<1>2. IInv /\ [VaultStep]_vars => [Kept]_vars
  BY <1>1
<1> QED
  BY <1>2, Always, PTL DEF Spec, PriceNeverFalls

\* What Blend moves for an amount is that amount, up to the worth of one b-token
\* and a unit: the position is a whole number of b-tokens, and so are the assets.
LEMMA BlendMoves ==
    ASSUME NEW S \in Nat \ {0}, NEW r \in Nat \ {0}, NEW b \in Int, NEW n \in Int, NEW a \in Int,
           a * S - r < n * r, n * r < a * S + r
    PROVE  ((b + n) * r) \div S - (b * r) \div S - a \in -(r \div S + 2) .. r \div S + 2
<1> DEFINE x == b * r
           y == n * r
           p == x \div S
           q == (x + y) \div S
           t == r \div S
<1>1. (b + n) * r = x + y
  OBVIOUS
<1>2. x \in Int /\ y \in Int /\ a * S = S * a
  OBVIOUS
<1>3. /\ p \in Int /\ S * p <= x /\ x < S * p + S
      /\ q \in Int /\ S * q <= x + y /\ x + y < S * q + S
      /\ t \in Int /\ S * t <= r /\ r < S * t + S
  <2> HIDE DEF x, y
  <2>1. x + y \in Int /\ r \in Int
    BY <1>2
  <2>2. \A w \in Int : w \div S \in Int /\ S * (w \div S) <= w /\ w < S * (w \div S) + S
    BY DivRounds
  <2> QED
    BY <1>2, <2>1, <2>2
<1>4. S * a - r < y /\ y < S * a + r
  BY <1>2
<1> HIDE DEF x, y, p, q, t
<1>5. /\ S * (p + a - t - 2) = S * p + S * a - S * t - 2 * S
      /\ S * (p + a + t + 2) = S * p + S * a + S * t + 2 * S
  BY <1>3
<1>6. /\ S * p \in Int /\ S * a \in Int /\ S * t \in Int /\ S * q \in Int
      /\ p + a - t - 2 \in Int /\ p + a + t + 2 \in Int
  BY <1>3
<1>7. S * (p + a - t - 2) < S * q /\ S * q < S * (p + a + t + 2)
  <2> DEFINE sp == S * p
             sa == S * a
             st == S * t
             sq == S * q
             lo == S * (p + a - t - 2)
             hi == S * (p + a + t + 2)
  <2>1. /\ sp \in Int /\ sa \in Int /\ st \in Int /\ sq \in Int /\ S \in Int /\ r \in Int
        /\ lo = sp + sa - st - 2 * S /\ hi = sp + sa + st + 2 * S
        /\ sp <= x /\ x < sp + S /\ sq <= x + y /\ x + y < sq + S /\ st <= r /\ r < st + S
        /\ sa - r < y /\ y < sa + r
    BY <1>3, <1>4, <1>5, <1>6
  <2> HIDE DEF sp, sa, st, sq, lo, hi
  <2>2. lo < sq /\ sq < hi
    BY <1>2, <2>1
  <2> QED
    BY <2>2 DEF sq, lo, hi
<1>8. p + a - t - 2 < q /\ q < p + a + t + 2
  BY <1>3, <1>6, <1>7, TimesStrict
<1>9. q - p - a \in -(t + 2) .. t + 2
  BY <1>3, <1>8
<1> QED
  BY <1>1, <1>9 DEF p, q, t, x

\* Deposits and withdrawals move the assets and the cost basis together: what the
\* fee is taken from changes with the price of a b-token only.
THEOREM YieldIsYield == Spec \/ FundSpec => PrincipalIsNotYield
<1> DEFINE Steady == rate' = rate => (Retained' - Retained) \in -Dust .. Dust
<1>1. IInv /\ [VaultStep]_vars => Steady
  <2> SUFFICES ASSUME IInv, [VaultStep]_vars, rate' = rate
               PROVE  (Retained' - Retained) \in -Dust .. Dust
    OBVIOUS
  <2>1. TypeOK /\ bTokens \in Int /\ netDeposits \in Int
    BY DEF IInv, TypeOK
  <2>2. rate \in Nat \ {0} /\ Scalar \in Nat \ {0}
    BY <2>1, Scales
  <2>3. ASSUME NEW n \in Int, NEW a \in Int, a * Scalar - rate < n * rate,
               n * rate < a * Scalar + rate, bTokens' = bTokens + n, netDeposits' = netDeposits + a
        PROVE  (Retained' - Retained) \in -Dust .. Dust
    <3>1. Assets' = ((bTokens + n) * rate) \div Scalar
      BY <2>3 DEF Assets
    <3>2. Assets' - Assets - a \in -Dust .. Dust
      BY <2>1, <2>2, <2>3, <3>1, BlendMoves DEF Assets, Dust
    <3>3. /\ (bTokens * rate) \in Int /\ ((bTokens + n) * rate) \in Int
      BY <2>1, <2>2
    <3>4. Assets \in Int /\ Assets' \in Int
      BY <2>2, <3>1, <3>3, DivFloor DEF Assets
    <3>5. Retained' - Retained = Assets' - Assets - a
      BY <2>1, <2>3, <3>4 DEF Retained
    <3> QED
      BY <3>2, <3>5
  <2>4. ASSUME NEW u \in Holders, NEW a \in Nat, Deposit(u, a)
        PROVE  (Retained' - Retained) \in -Dust .. Dust
    <3> DEFINE n == (a * Scalar) \div rate
    <3>1. bTokens' = bTokens + n /\ netDeposits' = netDeposits + a
      BY <2>4 DEF Deposit, Supplied
    <3>2. (a * Scalar) \in Int
      BY <2>2
    <3>3. n \in Int /\ rate * n <= a * Scalar /\ a * Scalar < rate * n + rate
      BY <2>2, <3>2, DivRounds
    <3> HIDE DEF n
    <3>4. a * Scalar - rate < n * rate /\ n * rate < a * Scalar + rate
      BY <2>2, <3>2, <3>3, Around
    <3> QED
      BY <2>3, <3>1, <3>3, <3>4
  <2>5. ASSUME NEW u \in Holders, NEW s \in Nat, Withdraw(u, s)
        PROVE  (Retained' - Retained) \in -Dust .. Dust
    <3> DEFINE a == -Payout(s)
    <3>1. Payout(s) \in Nat /\ netDeposits' = netDeposits - Payout(s)
      BY <2>1, <2>5, PriceTypes DEF Withdraw
    <3>2. PICK n \in Int : /\ bTokens' = bTokens + n
                           /\ a * Scalar - rate < n * rate /\ n * rate < a * Scalar + rate
      <4> DEFINE w == Payout(s) * Scalar
                 down == w \div rate
                 up == (-w) \div rate
      <4>1. w \in Int /\ -w \in Int /\ a * Scalar = -w
        BY <2>2, <3>1
      <4> HIDE DEF w
      <4>2. /\ down \in Int /\ rate * down <= w /\ w < rate * down + rate
            /\ up \in Int /\ rate * up <= -w /\ -w < rate * up + rate
        BY <2>2, <4>1, DivRounds
      <4>3. bTokens' = bTokens - down \/ bTokens' = bTokens - (-up)
        BY <2>5 DEF Withdraw, Burned, w
      <4> HIDE DEF up, down
      <4>4. /\ -w - rate < (-down) * rate /\ (-down) * rate < -w + rate
            /\ -w - rate < up * rate /\ up * rate < -w + rate
        BY <2>2, <4>1, <4>2, Around
      <4>5. bTokens' = bTokens + (-down) \/ bTokens' = bTokens + up
        BY <2>1, <4>2, <4>3
      <4>6. -down \in Int
        BY <4>2
      <4> HIDE DEF a
      <4> QED
        BY <4>1, <4>2, <4>4, <4>5, <4>6
    <3>3. a \in Int /\ netDeposits' = netDeposits + a
      BY <2>1, <3>1
    <3> HIDE DEF a
    <3> QED
      BY <2>3, <3>2, <3>3
  <2>6. ASSUME UNCHANGED <<bTokens, netDeposits>>
        PROVE  (Retained' - Retained) \in -Dust .. Dust
    <3>1. Retained' = Retained
      BY <2>6 DEF Retained, Assets
    <3>2. (bTokens * rate) \in Int
      BY <2>1, <2>2
    <3>3. Retained \in Int
      BY <2>1, <2>2, <3>2, DivFloor DEF Retained, Assets
    <3>4. rate \div Scalar \in Nat
      BY <2>2, DivNat
    <3>5. 0 \in -Dust .. Dust
      BY <3>4 DEF Dust
    <3> QED
      BY <3>1, <3>3, <3>5
  <2> QED
    BY <2>4, <2>5, <2>6, Kinds
       DEF SetFeeRecipient, ProposeAdmin, AcceptAdmin, SetFeeBps, RateChange, Sweep, vars, book
<1>2. IInv /\ [VaultStep]_vars => [Steady]_vars
  BY <1>1
<1> QED
  BY <1>2, Always, PTL DEF Spec, PrincipalIsNotYield
----------------------------------------------------------------------------
(* Principal *)

\* What the fund was worth when its profit was last at the mark: all of it but the
\* profit that has not been charged yet.
Base == Assets - NewProfit

\* With the shares of u at the price the fund had then, and what roundings may have
\* cost, u has what it came with.
Over(u) == wallet[u] + rounding[u] - Purse[u]
Covered(u) ==
    Over(u) * (totalShares + VirtualShares) + shares[u] * (Base + VirtualAssets) >= 0

PrincipalInv ==
    /\ rounding \in [Depositors -> Nat]
    /\ ~fell => \A u \in Depositors : Covered(u)

\* The scales of the contract: one virtual asset, and a fee of half the profit at
\* the most.
FeeIsCapped == VirtualAssets = 1 /\ 2 * MaxFeeBps <= BpsDenom

\* What is no more when multiplied is no more.
LEMMA Cancel ==
    ASSUME NEW a \in Nat \ {0}, NEW b \in Int, NEW c \in Int, a * b <= a * c
    PROVE  b <= c
<1>1. CASE c < b
  <2>1. c + 1 <= b
    BY <1>1
  <2>2. a * (c + 1) <= a * b /\ a * (c + 1) = a * c + a
    BY <2>1, TimesMonotone
  <2>3. (a * b) \in Int /\ (a * c) \in Int
    OBVIOUS
  <2> DEFINE x == a * b
             y == a * c
  <2>4. y + a <= x /\ x <= y
    BY <2>2
  <2>5. x \in Int /\ y \in Int
    OBVIOUS
  <2> HIDE DEF x, y
  <2> QED
    BY <2>4, <2>5
<1> QED
  BY <1>1

\* Under the cap the fee is no more than what is left of the profit.
LEMMA HalfTheProfit ==
    ASSUME TypeOK, FeeIsCapped
    PROVE  2 * FeeAssets <= NewProfit
<1> USE AccrualTypes, Scales
<1> DEFINE i == BpsDenom * FeeAssets
           j == NewProfit * feeBps
           k == NewProfit * MaxFeeBps
           l == BpsDenom * NewProfit
<1>1. i \in Int /\ j \in Int /\ k \in Int /\ l \in Int
  BY TimesNat
<1>2. i <= j
  BY FeeAssetsBound
<1>3. j <= k
  BY TimesMonotone
<1>4. 2 * k <= l
  <2>1. NewProfit * (2 * MaxFeeBps) <= NewProfit * BpsDenom
    BY TimesMonotone DEF FeeIsCapped
  <2>2. NewProfit * (2 * MaxFeeBps) = 2 * (NewProfit * MaxFeeBps)
    OBVIOUS
  <2>3. NewProfit * BpsDenom = l
    OBVIOUS
  <2> QED
    BY <2>1, <2>2, <2>3
<1>5. BpsDenom * (2 * FeeAssets) = 2 * i
  OBVIOUS
<1>6. 2 * i <= l
  <2> HIDE DEF i, j, k, l
  <2> QED
    BY <1>1, <1>2, <1>3, <1>4
<1> QED
  BY <1>5, <1>6, Cancel

\* The fee comes out of the profit: the shares it mints leave the price no lower than
\* it was at the mark.
LEMMA FeeFromProfit ==
    ASSUME TypeOK, FeeIsCapped
    PROVE  (Assets + VirtualAssets) * (totalShares + VirtualShares)
              >= (Base + VirtualAssets) * (AccruedTotal + VirtualShares)
<1> USE AccrualTypes, Scales
<1>0. totalShares \in Nat /\ VirtualAssets = 1
  BY DEF TypeOK, FeeIsCapped
<1>1. Base \in Int /\ Base + 1 \in Int
  BY DEF Base
<1>2. FeeShares * (Base + 1) <= NewProfit * totalShares
  <2>1. CASE FeeShares = 0
    <3>1. (NewProfit * totalShares) \in Nat
      BY <1>0, TimesNat
    <3> QED
      BY <1>1, <2>1, <3>1
  <2>2. CASE FeeShares # 0
    <3> DEFINE D == Assets - FeeAssets
    <3>1. D \in Nat \ {0}
      BY <2>2 DEF FeeShares
    <3>2. D * FeeShares <= FeeAssets * totalShares
      <4>1. (FeeAssets * totalShares) \in Int
        BY <1>0, TimesNat
      <4>2. FeeShares = (FeeAssets * totalShares) \div D
        BY <2>2 DEF FeeShares
      <4> HIDE DEF D
      <4> QED
        BY <3>1, <4>1, <4>2, DivFloor
    <3>3. Base + 1 <= 2 * D
      BY <3>1, HalfTheProfit DEF Base
    <3> HIDE DEF D
    <3>4. FeeShares * (Base + 1) <= FeeShares * (2 * D)
      BY <1>1, <3>1, <3>3, TimesMonotone
    <3>5. totalShares * (2 * FeeAssets) <= totalShares * NewProfit
      BY <1>0, HalfTheProfit, TimesMonotone
    <3> DEFINE i == FeeShares * (Base + 1)
               j == D * FeeShares
               k == FeeAssets * totalShares
               l == NewProfit * totalShares
    <3>6. i \in Int /\ j \in Int /\ k \in Int /\ l \in Int
      BY <1>0, <1>1, <3>1
    <3>7. i <= 2 * j
      <4>1. FeeShares * (2 * D) = 2 * j
        BY <3>1
      <4> QED
        BY <3>4, <4>1
    <3>8. 2 * k <= l
      <4>1. totalShares * (2 * FeeAssets) = 2 * k /\ totalShares * NewProfit = l
        BY <1>0
      <4> QED
        BY <3>5, <4>1
    <3> HIDE DEF i, j, k, l
    <3>9. i <= l
      BY <3>2, <3>6, <3>7, <3>8 DEF j, k
    <3> QED
      BY <3>9 DEF i, l
  <2> QED
    BY <2>1, <2>2
<1> DEFINE t == totalShares + VirtualShares
           g == Base + 1
<1>3. t \in Nat /\ totalShares <= t
  BY <1>0
<1>4. NewProfit * totalShares <= NewProfit * t
  BY <1>0, <1>3, TimesMonotone
<1>5. Assets + VirtualAssets = g + NewProfit /\ Base + VirtualAssets = g
      /\ AccruedTotal + VirtualShares = t + FeeShares
  BY <1>0 DEF Base, AccruedTotal
<1>6. g \in Int /\ FeeShares * g <= NewProfit * totalShares
  BY <1>1, <1>2
<1> HIDE DEF t, g
<1>7. (g + NewProfit) * t = g * t + NewProfit * t /\ g * (t + FeeShares) = g * t + FeeShares * g
  BY <1>3, <1>6
<1> DEFINE i == g * t
           j == NewProfit * t
           k == NewProfit * totalShares
           l == FeeShares * g
<1>8. i \in Int /\ j \in Int /\ k \in Int /\ l \in Int
  BY <1>0, <1>3, <1>6
<1>9. i + j >= i + l
  <2>1. k <= j /\ l <= k
    BY <1>4, <1>6
  <2> HIDE DEF i, j, k, l
  <2> QED
    BY <1>8, <2>1
<1>10. g * t + NewProfit * t >= g * t + FeeShares * g
  BY <1>9
<1>11. (g + NewProfit) * t >= g * (t + FeeShares)
  BY <1>7, <1>10
<1> QED
  BY <1>5, <1>11 DEF t

\* A higher price, and more shares, cover what a lower one covered.
LEMMA CoverRises ==
    ASSUME NEW d \in Nat \ {0}, NEW e \in Nat \ {0}, NEW f \in Int, NEW g \in Nat,
           NEW w \in Int, NEW s \in Nat, NEW r \in Nat, s <= r,
           g * d >= f * e, w * d + s * f >= 0
    PROVE  w * e + r * g >= 0
<1>1. e * (w * d + s * f) >= 0
  <2>1. w * d + s * f \in Int /\ 0 \in Int
    OBVIOUS
  <2>2. e * 0 <= e * (w * d + s * f)
    BY <2>1, TimesMonotone
  <2> QED
    BY <2>2
<1>2. s * (f * e) <= s * (g * d)
  BY TimesMonotone
<1>3. /\ e * (w * d + s * f) = d * (w * e) + s * (f * e)
      /\ d * (w * e + s * g) = d * (w * e) + s * (g * d)
  OBVIOUS
<1>4. d * (w * e + s * g) >= 0
  <2> DEFINE i == d * (w * e)
             j == s * (f * e)
             k == s * (g * d)
  <2>1. i \in Int /\ j \in Int /\ k \in Int
    OBVIOUS
  <2>2. i + j >= 0 /\ j <= k
    BY <1>1, <1>2, <1>3
  <2>3. i + k >= 0
    <3> HIDE DEF i, j, k
    <3> QED
      BY <2>1, <2>2
  <2> QED
    BY <1>3, <2>3
<1>5. w * e + s * g >= 0
  <2>1. w * e + s * g \in Int /\ d * 0 = 0 /\ 0 \in Int
    OBVIOUS
  <2>2. d * 0 <= d * (w * e + s * g)
    BY <1>4, <2>1
  <2> QED
    BY <2>1, <2>2, Cancel
<1>6. g * s <= g * r
  BY TimesMonotone
<1> DEFINE i == w * e
           j == s * g
           k == r * g
<1>7. i \in Int /\ j \in Int /\ k \in Int /\ i + j >= 0 /\ j <= k
  BY <1>5, <1>6
<1>8. i + k >= 0
  <2> HIDE DEF i, j, k
  <2> QED
    BY <1>7
<1> QED
  BY <1>8

\* A trade of m shares for a assets at no less than the price, of which one holder's
\* part is y shares for x assets, at no more than the price of those shares and p
\* more: when the fund loses no more than d besides, p and d cover the holder.
LEMMA CoverTraded ==
    ASSUME NEW e \in Nat \ {0}, NEW g \in Nat, NEW w \in Int, NEW s \in Int,
           NEW a \in Int, NEW m \in Int, NEW x \in Int, NEW y \in Int,
           NEW p \in Int, NEW d \in Nat, NEW h \in Int,
           w * e + s * g >= 0, m * g <= a * e, x * e <= y * g + p * e,
           0 <= s + y, s + y <= e + m, h >= g + a - d
    PROVE  (w - x + p + d) * (e + m) + (s + y) * h >= 0
<1> DEFINE f == e + m
           r == s + y
           v == w - x + p + d
<1>0. f \in Nat /\ r \in Nat /\ r <= f /\ v \in Int
  OBVIOUS
<1>1. e * v + r * g >= e * d
  <2> DEFINE i == w * e
             j == s * g
             k == x * e
             l == y * g
             n == p * e
             o == e * d
  <2>1. i \in Int /\ j \in Int /\ k \in Int /\ l \in Int /\ n \in Int /\ o \in Int
    OBVIOUS
  <2>2. i + j >= 0 /\ k <= l + n
    OBVIOUS
  <2>3. e * v = i - k + n + o /\ r * g = j + l
    OBVIOUS
  <2>4. (i - k + n + o) + (j + l) >= o
    <3> HIDE DEF i, j, k, l, n, o
    <3> QED
      BY <2>1, <2>2
  <2> QED
    BY <2>3, <2>4
<1>2. e * h >= g * f - e * d
  <2> DEFINE i == e * g
             j == m * g
             k == a * e
             o == e * d
  <2>1. i \in Int /\ j \in Int /\ k \in Int /\ o \in Int
    OBVIOUS
  <2>2. e * (g + a - d) = i + k - o /\ g * f = i + j
    OBVIOUS
  <2>3. e * (g + a - d) <= e * h
    BY TimesMonotone
  <2>4. j <= k
    OBVIOUS
  <2> DEFINE q == e * h
  <2>5. q \in Int /\ i + k - o <= q
    BY <2>2, <2>3
  <2>6. q >= i + j - o
    <3> HIDE DEF i, j, k, o, q
    <3> QED
      BY <2>1, <2>4, <2>5
  <2> QED
    BY <2>2, <2>6
<1> HIDE DEF f, r, v
<1> DEFINE z == v * f + r * h
           b == e * v + r * g
           c == e * h
           o == e * d
<1>3. z \in Int /\ b \in Int /\ c \in Int /\ o \in Nat
  BY <1>0
<1>4. e * z = f * (e * v) + r * c
  BY <1>0
<1>5. f * o <= f * b
  BY <1>0, <1>1, <1>3, TimesMonotone
<1>6. r * (g * f - o) <= r * c
  <2>1. g * f - o \in Int
    BY <1>0, <1>3
  <2> QED
    BY <1>0, <1>2, <1>3, <2>1, TimesMonotone
<1>7. r * o <= f * o
  <2>1. o * r <= o * f
    BY <1>0, <1>3, TimesMonotone
  <2> HIDE DEF o
  <2> QED
    BY <1>0, <1>3, <2>1
<1>8. f * b = f * (e * v) + f * (r * g) /\ r * (g * f - o) = f * (r * g) - r * o
  BY <1>0, <1>3
<1>9. e * z >= 0
  <2> DEFINE i == f * (e * v)
             j == f * (r * g)
             k == r * c
             l == f * o
             n == r * o
  <2>1. i \in Int /\ j \in Int /\ k \in Int /\ l \in Int /\ n \in Int
    BY <1>0, <1>3
  <2>2. l <= i + j /\ j - n <= k /\ n <= l
    BY <1>5, <1>6, <1>7, <1>8
  <2>3. i + k >= 0
    <3> HIDE DEF i, j, k, l, n
    <3> QED
      BY <2>1, <2>2
  <2> QED
    BY <1>4, <2>3
<1>10. 0 <= z
  <2>1. e * 0 = 0 /\ 0 \in Int
    OBVIOUS
  <2>2. e * 0 <= e * z
    BY <1>9, <2>1
  <2> HIDE DEF z
  <2> QED
    BY <1>3, <2>1, <2>2, Cancel
<1> QED
  BY <1>10 DEF f, r, v

\* What accrual computes is of its type after a step as well.
LEMMA AccrualTypesAfter == TypeOK' => (Assets \in Nat /\ Retained \in Int /\ NewProfit \in Nat)'
<1>1. TypeOK => Assets \in Nat /\ Retained \in Int /\ NewProfit \in Nat
  BY AccrualTypes
<1> QED
  BY <1>1, PTL

\* The arithmetic of the two lemmas that follow: g and h are the assets before and
\* after, n the net deposits before, m the mark after.
LEMMA MarkedBase ==
    ASSUME NEW g \in Nat, NEW h \in Nat, NEW n \in Int, NEW m \in Nat, NEW a \in Int, g - n <= m
    PROVE  /\ (IF h - (n + a) < g - n THEN (g - n) - (h - (n + a)) ELSE 0) \in Nat
           /\ h - (IF h - (n + a) > m THEN h - (n + a) - m ELSE 0) \in Int
           /\ h - (IF h - (n + a) > m THEN h - (n + a) - m ELSE 0)
                 >= g + a - (IF h - (n + a) < g - n THEN (g - n) - (h - (n + a)) ELSE 0)
  OBVIOUS

LEMMA HeldBase ==
    ASSUME NEW g \in Nat, NEW h \in Nat, NEW n \in Int, NEW m \in Nat, g <= h
    PROVE  /\ g - (IF g - n > m THEN g - n - m ELSE 0) \in Int
           /\ h - (IF h - n > m THEN h - n - m ELSE 0) \in Int
           /\ h - (IF h - n > m THEN h - n - m ELSE 0) >= g - (IF g - n > m THEN g - n - m ELSE 0)
  OBVIOUS

\* What a number of units is worth at a price does not fall with the price.
LEMMA WorthRises ==
    ASSUME NEW n \in Nat, NEW p \in Nat, NEW q \in Nat, p <= q, NEW d \in Nat \ {0}
    PROVE  (n * p) \div d <= (n * q) \div d
<1> DEFINE x == n * p
           y == n * q
           b == x \div d
           c == y \div d
<1>1. x \in Int /\ y \in Int /\ x <= y
  BY TimesMonotone
<1> HIDE DEF x, y
<1>2. /\ b \in Int /\ d * b <= x
      /\ c \in Int /\ y < d * c + d
  BY <1>1, DivRounds
<1> HIDE DEF b, c
<1>3. d * (c + 1) = d * c + d
  BY <1>2
<1>4. d * b < d * (c + 1)
  <2> DEFINE i == d * b
             j == d * c
  <2>1. i \in Int /\ j \in Int /\ i <= x /\ y < j + d
    BY <1>2
  <2>2. i < j + d
    <3> HIDE DEF i, j
    <3> QED
      BY <1>1, <2>1
  <2> QED
    BY <1>3, <2>2
<1>5. b < c + 1
  BY <1>2, <1>4, TimesStrict
<1>6. b <= c
  BY <1>2, <1>5
<1> QED
  BY <1>6 DEF b, c, x, y

\* After a call that moved a assets, they count at the mark, but for what Blend kept.
LEMMA BaseMoves ==
    ASSUME TypeOK, TypeOK', NEW a \in Int,
           netDeposits' = netDeposits + a, highWaterMark' = AccruedMark
    PROVE  BlendKeeps \in Nat /\ Base' \in Int /\ Base' >= Assets + a - BlendKeeps
<1>1. Assets \in Nat /\ AccruedMark \in Nat /\ Assets' \in Nat
  BY AccrualTypes, AccrualTypesAfter
<1>2. netDeposits \in Int /\ Assets - netDeposits <= AccruedMark
  <2>1. netDeposits \in Int /\ highWaterMark \in Nat
    BY DEF TypeOK
  <2> HIDE DEF Assets
  <2> QED
    BY <1>1, <2>1 DEF AccruedMark, Retained
<1>3. Base' = Assets' - (IF Assets' - (netDeposits + a) > AccruedMark
                         THEN Assets' - (netDeposits + a) - AccruedMark ELSE 0)
  BY DEF Base, NewProfit, Retained
<1>4. BlendKeeps = IF Assets' - (netDeposits + a) < Assets - netDeposits
                   THEN (Assets - netDeposits) - (Assets' - (netDeposits + a)) ELSE 0
  BY DEF BlendKeeps, Retained
<1> QED
  BY <1>1, <1>2, <1>3, <1>4, MarkedBase, Zenon

\* And while b_rate has not fallen they are worth no less.
LEMMA BaseRises ==
    ASSUME TypeOK, TypeOK', RateChange, rate <= rate'
    PROVE  Base \in Int /\ Base' \in Int /\ Base' >= Base
<1>1. /\ bTokens \in Nat /\ rate \in Nat /\ Scalar \in Nat \ {0}
      /\ netDeposits \in Int /\ highWaterMark \in Nat
  BY ScalesAssumption DEF TypeOK
<1>2. rate' \in Nat
  BY ScalesAssumption DEF TypeOK
<1>3. bTokens' = bTokens /\ netDeposits' = netDeposits /\ highWaterMark' = highWaterMark
  BY DEF RateChange, book
<1>4. Assets \in Nat /\ Assets' \in Nat
  BY AccrualTypes, AccrualTypesAfter
<1>5. Assets <= Assets'
  <2>1. Assets = (bTokens * rate) \div Scalar /\ Assets' = (bTokens * rate') \div Scalar
    BY <1>3 DEF Assets
  <2>2. (bTokens * rate) \div Scalar <= (bTokens * rate') \div Scalar
    BY <1>1, <1>2, WorthRises, Zenon
  <2> QED
    BY <2>1, <2>2, Zenon
<1>6. Base = Assets - (IF Assets - netDeposits > highWaterMark
                       THEN Assets - netDeposits - highWaterMark ELSE 0)
  BY DEF Base, NewProfit, Retained
<1>7. Base' = Assets' - (IF Assets' - netDeposits > highWaterMark
                         THEN Assets' - netDeposits - highWaterMark ELSE 0)
  BY <1>3 DEF Base, NewProfit, Retained
<1> QED
  BY <1>1, <1>4, <1>5, <1>6, <1>7, HeldBase, Zenon

\* One share costs at least a unit, and no less than its price.
LEMMA SharePriceBound ==
    ASSUME TypeOK
    PROVE  /\ SharePrice \in Nat \ {0}
           /\ Assets + VirtualAssets <= SharePrice * (AccruedTotal + VirtualShares)
<1> DEFINE a == Assets + VirtualAssets
           t == AccruedTotal + VirtualShares
           q == (-a) \div t
<1>1. a \in Nat \ {0} /\ t \in Nat \ {0} /\ -a \in Int
  BY AccrualTypes, Scales
<1>2. SharePrice = -q
  BY DEF SharePrice
<1> HIDE DEF a, t
<1>3. q \in Int /\ t * q <= -a
  BY <1>1, DivFloor
<1> HIDE DEF q
<1>4. (-q) * t = -(t * q)
  BY <1>1, <1>3
<1>5. a <= (-q) * t
  <2> DEFINE x == t * q
  <2>1. x \in Int /\ x <= -a
    BY <1>1, <1>3
  <2>2. a <= -x
    <3> HIDE DEF x
    <3> QED
      BY <1>1, <2>1
  <2> QED
    BY <1>4, <2>2
<1>6. -q > 0
  <2>1. CASE -q <= 0
    <3>1. t * (-q) <= t * 0
      <4>1. -q \in Int /\ 0 \in Int
        BY <1>3
      <4> QED
        BY <1>1, <2>1, <4>1, TimesMonotone
    <3> DEFINE z == (-q) * t
    <3>2. t * (-q) = z /\ t * 0 = 0 /\ z \in Int /\ a <= z
      BY <1>1, <1>3, <1>5
    <3>3. z <= 0
      BY <3>1, <3>2
    <3> HIDE DEF z
    <3> QED
      BY <1>1, <3>2, <3>3
  <2> QED
    BY <1>3, <2>1
<1> QED
  BY <1>2, <1>3, <1>5, <1>6 DEF a, t

\* Nobody has more shares than there are.
Within == \A u \in Holders : shares[u] \in Nat /\ shares[u] <= totalShares
LEMMA ShareOfTotal == IInv => Within
<1> SUFFICES ASSUME IInv, NEW u \in Holders
             PROVE  shares[u] \in Nat /\ shares[u] <= totalShares
  BY DEF Within
<1>1. PICK p \in [SUBSET Holders -> Nat] : Measures(Holders, p, shares) /\ p[Holders] = totalShares
  BY DEF IInv, SumsTo
<1>2. p[Holders] = p[Holders \ {u}] + shares[u] /\ p[Holders \ {u}] \in Nat
  BY <1>1 DEF Measures
<1>3. shares[u] \in Nat
  BY DEF IInv, TypeOK
<1> QED
  BY <1>1, <1>2, <1>3

\* The numbers of a holder are numbers.
LEMMA HolderTypes ==
    ASSUME TypeOK, rounding \in [Depositors -> Nat], NEW u \in Depositors
    PROVE  /\ u \in Holders /\ wallet[u] \in Nat /\ rounding[u] \in Nat /\ Purse[u] \in Nat
           /\ shares[u] \in Nat /\ Credited(u) \in Nat /\ shares[u] <= Credited(u)
           /\ Over(u) \in Int
<1>1. u \in Holders /\ wallet[u] \in Nat /\ rounding[u] \in Nat /\ Purse[u] \in Nat
      /\ shares[u] \in Nat /\ FeeShares \in Nat
  BY MoneyAssumption, AccrualTypes DEF TypeOK, Depositors
<1> QED
  BY <1>1 DEF Over, Credited

\* Accrual takes from nobody what the profit does not pay for.
LEMMA AccruedCovers ==
    ASSUME IInv, FeeIsCapped, rounding \in [Depositors -> Nat], NEW u \in Depositors, Covered(u)
    PROVE  Over(u) * (AccruedTotal + VirtualShares) + Credited(u) * (Assets + VirtualAssets) >= 0
<1> DEFINE d == totalShares + VirtualShares
           e == AccruedTotal + VirtualShares
           f == Base + VirtualAssets
           g == Assets + VirtualAssets
<1>1. TypeOK
  BY DEF IInv
<1>2. d \in Nat \ {0} /\ e \in Nat \ {0} /\ f \in Int /\ g \in Nat
  BY <1>1, AccrualTypes, Scales DEF TypeOK, Base
<1>3. Over(u) \in Int /\ shares[u] \in Nat /\ Credited(u) \in Nat /\ shares[u] <= Credited(u)
  BY <1>1, HolderTypes
<1>4. g * d >= f * e
  BY <1>1, FeeFromProfit
<1>5. Over(u) * d + shares[u] * f >= 0
  BY DEF Covered
<1> HIDE DEF d, e, f, g
<1>6. Over(u) * e + Credited(u) * g >= 0
  BY <1>2, <1>3, <1>4, <1>5, CoverRises
<1> QED
  BY <1>6 DEF e, g

\* After a call u is covered, when its own trade was within p of the price and the
\* trade of the whole was no better than the price.
LEMMA TradeCovers ==
    ASSUME IInv, IInv', FeeIsCapped, rounding \in [Depositors -> Nat],
           NEW u \in Depositors, Covered(u),
           NEW a \in Int, NEW m \in Int, NEW x \in Int, NEW y \in Int, NEW p \in Int,
           netDeposits' = netDeposits + a, highWaterMark' = AccruedMark,
           totalShares' = AccruedTotal + m, shares'[u] = Credited(u) + y,
           wallet'[u] = wallet[u] - x, rounding'[u] = rounding[u] + BlendKeeps + p,
           m * (Assets + VirtualAssets) <= a * (AccruedTotal + VirtualShares),
           x * (AccruedTotal + VirtualShares)
              <= y * (Assets + VirtualAssets) + p * (AccruedTotal + VirtualShares)
    PROVE  Covered(u)'
<1> DEFINE e == AccruedTotal + VirtualShares
           g == Assets + VirtualAssets
<1>1. TypeOK /\ TypeOK'
  BY DEF IInv
<1>2. /\ e \in Nat \ {0} /\ g \in Nat /\ Assets \in Nat /\ AccruedTotal \in Nat
      /\ VirtualShares \in Nat /\ VirtualAssets \in Nat
  BY <1>1, AccrualTypes, Scales
<1>3. /\ u \in Holders /\ wallet[u] \in Nat /\ rounding[u] \in Nat /\ Purse[u] \in Nat
      /\ Credited(u) \in Nat /\ Over(u) \in Int
  BY <1>1, HolderTypes
<1>4. Over(u) * e + Credited(u) * g >= 0
  BY AccruedCovers
<1>5. BlendKeeps \in Nat /\ Base' \in Int /\ Base' >= Assets + a - BlendKeeps
  BY <1>1, BaseMoves
<1>6. PICK d \in Nat : d = BlendKeeps
  BY <1>5
<1>7. PICK b \in Int : b = Base'
  BY <1>5
<1>8. b >= Assets + a - d
  BY <1>5, <1>6, <1>7, Zenon
<1>9. b + VirtualAssets \in Int /\ b + VirtualAssets >= g + a - d
  BY <1>2, <1>8
<1>10. Credited(u) + y \in Nat /\ Credited(u) + y <= AccruedTotal + m
  <2>1. Within'
    BY ShareOfTotal, PTL
  <2>2. shares'[u] \in Nat /\ shares'[u] <= totalShares'
    BY <1>3, <2>1 DEF Within
  <2> QED
    BY <2>2, Zenon
<1>11. 0 <= Credited(u) + y /\ Credited(u) + y <= e + m
  BY <1>2, <1>3, <1>10
<1>12. m * g <= a * e /\ x * e <= y * g + p * e
  OBVIOUS
<1>13. e + m = (AccruedTotal + m) + VirtualShares
  BY <1>2
<1> HIDE DEF e, g
<1>14. (Over(u) - x + p + d) * (e + m) + (Credited(u) + y) * (b + VirtualAssets) >= 0
  <2>1. /\ Over(u) \in Int /\ Credited(u) \in Int /\ d \in Nat
        /\ e \in Nat \ {0} /\ g \in Nat /\ b + VirtualAssets \in Int
    BY <1>2, <1>3, <1>9
  <2> QED
    BY <1>4, <1>9, <1>11, <1>12, <2>1, CoverTraded, Zenon
<1>15. Over(u)' = Over(u) - x + p + d
  <2>1. Over(u)' = (wallet[u] - x) + (rounding[u] + d + p) - Purse[u]
    <3>1. Over(u)' = wallet'[u] + rounding'[u] - Purse[u]
      BY DEF Over
    <3> QED
      BY <1>6, <3>1, Zenon
  <2>2. Over(u) = wallet[u] + rounding[u] - Purse[u]
    BY DEF Over
  <2>3. (wallet[u] - x) + (rounding[u] + d + p) - Purse[u]
           = (wallet[u] + rounding[u] - Purse[u]) - x + p + d
    BY <1>3
  <2> QED
    BY <2>1, <2>2, <2>3, Zenon
<1>16. Over(u)' * (totalShares' + VirtualShares) + shares'[u] * (Base' + VirtualAssets) >= 0
  BY <1>7, <1>13, <1>14, <1>15, Zenon
<1> QED
  BY <1>16 DEF Covered

\* A deposit covers all: the depositor pays for its shares, up to one share.
LEMMA DepositCovers ==
    ASSUME IInv, IInv', FeeIsCapped, ~fell, rounding \in [Depositors -> Nat],
           NEW u \in Depositors, Covered(u),
           NEW v \in Holders, NEW n \in Nat, Deposit(v, n), Rounds(v)
    PROVE  Covered(u)'
<1> DEFINE e == AccruedTotal + VirtualShares
           g == Assets + VirtualAssets
           m == Minted(n)
<1>1. TypeOK
  BY DEF IInv
<1>2. e \in Nat \ {0} /\ g \in Nat \ {0} /\ m \in Nat /\ m * g <= n * e
  <2>1. e \in Nat \ {0} /\ g \in Nat \ {0}
    BY <1>1, AccrualTypes, Scales
  <2>2. m \in Nat
    BY <1>1, PriceTypes
  <2>3. m * g <= n * e
    BY <1>1, MintedBound
  <2> QED
    BY <2>1, <2>2, <2>3
<1>3. u \in Holders /\ wallet[u] \in Nat /\ rounding[u] \in Nat /\ Credited(u) \in Nat
  BY <1>1, HolderTypes
<1>4. SharePrice \in Nat /\ g <= SharePrice * e
  BY <1>1, SharePriceBound
<1>5. /\ netDeposits' = netDeposits + n /\ highWaterMark' = AccruedMark
      /\ totalShares' = AccruedTotal + m
      /\ shares'[u] = Credited(u) + (IF u = v THEN m ELSE 0)
      /\ wallet' = [wallet EXCEPT ![v] = @ - n]
  BY <1>3 DEF Deposit
<1>6. rounding'[u] = rounding[u] + BlendKeeps + (IF u = v THEN SharePrice ELSE 0)
  BY DEF Rounds
<1>7. wallet \in [Holders -> Nat]
  BY <1>1 DEF TypeOK
<1>8. n * e <= m * g + SharePrice * e
  <2> DEFINE w == n * e
             z == SharePrice * e
             q == w \div g
  <2>1. w \in Int /\ z \in Int
    BY <1>2, <1>4
  <2>2. m = q
    BY DEF Minted
  <2> HIDE DEF g, m, w, z
  <2>3. q \in Int /\ w < g * q + g
    BY <1>2, <2>1, DivRounds
  <2> HIDE DEF q
  <2> DEFINE i == m * g
  <2>4. i \in Int /\ g * q = i
    BY <1>2, <2>2, <2>3
  <2> HIDE DEF i
  <2>5. w < i + g /\ g <= z
    BY <1>4, <2>3, <2>4 DEF z
  <2>6. w <= i + z
    BY <1>2, <2>1, <2>4, <2>5
  <2> QED
    BY <2>6 DEF w, z, i
<1>9. CASE u = v
  <2>1. shares'[u] = Credited(u) + m /\ wallet'[u] = wallet[u] - n
        /\ rounding'[u] = rounding[u] + BlendKeeps + SharePrice
    BY <1>3, <1>5, <1>6, <1>7, <1>9
  <2>2. n \in Int /\ m \in Int /\ SharePrice \in Int
    BY <1>2, <1>4
  <2> HIDE DEF m
  <2> QED
    BY <1>2, <1>5, <1>8, <2>1, <2>2, TradeCovers
<1>10. CASE u # v
  <2>1. shares'[u] = Credited(u) + 0 /\ wallet'[u] = wallet[u] - 0
        /\ rounding'[u] = rounding[u] + BlendKeeps + 0
    BY <1>3, <1>5, <1>6, <1>7, <1>10
  <2>2. n \in Int /\ m \in Int /\ 0 \in Int /\ 0 * e <= 0 * g + 0 * e
    BY <1>2
  <2> HIDE DEF m
  <2> QED
    BY <1>2, <1>5, <2>1, <2>2, TradeCovers
<1> QED
  BY <1>9, <1>10

\* A withdrawal covers all: the holder is paid for its shares, up to one unit.
LEMMA WithdrawCovers ==
    ASSUME IInv, IInv', FeeIsCapped, ~fell, rounding \in [Depositors -> Nat],
           NEW u \in Depositors, Covered(u),
           NEW v \in Holders, NEW s \in Nat, Withdraw(v, s), Rounds(v)
    PROVE  Covered(u)'
<1> DEFINE e == AccruedTotal + VirtualShares
           g == Assets + VirtualAssets
           n == Payout(s)
<1>1. TypeOK
  BY DEF IInv
<1>2. e \in Nat \ {0} /\ g \in Nat \ {0} /\ n \in Nat /\ n * e <= s * g
  <2>1. e \in Nat \ {0} /\ g \in Nat \ {0}
    BY <1>1, AccrualTypes, Scales
  <2>2. n \in Nat
    BY <1>1, PriceTypes
  <2>3. n * e <= s * g
    BY <1>1, PayoutBound
  <2> QED
    BY <2>1, <2>2, <2>3
<1>3. u \in Holders /\ wallet[u] \in Nat /\ rounding[u] \in Nat /\ Credited(u) \in Nat
      /\ netDeposits \in Int /\ AccruedTotal \in Nat
  BY <1>1, HolderTypes, AccrualTypes DEF TypeOK
<1>4. SharePrice \in Nat \ {0}
  BY <1>1, SharePriceBound
<1>5. /\ netDeposits' = netDeposits + (-n) /\ highWaterMark' = AccruedMark
      /\ totalShares' = AccruedTotal + (-s)
      /\ shares'[u] = Credited(u) - (IF u = v THEN s ELSE 0)
      /\ wallet' = [wallet EXCEPT ![v] = @ + n]
  <2>1. /\ netDeposits' = netDeposits - n /\ highWaterMark' = AccruedMark
        /\ totalShares' = AccruedTotal - s
        /\ shares'[u] = Credited(u) - (IF u = v THEN s ELSE 0)
        /\ wallet' = [wallet EXCEPT ![v] = @ + n]
    BY <1>3 DEF Withdraw
  <2>2. netDeposits - n = netDeposits + (-n) /\ AccruedTotal - s = AccruedTotal + (-s)
    BY <1>2, <1>3
  <2> QED
    BY <2>1, <2>2, Zenon
<1>6. rounding'[u] = rounding[u] + BlendKeeps + (IF u = v THEN SharePrice ELSE 0)
  BY DEF Rounds
<1>7. wallet \in [Holders -> Nat]
  BY <1>1 DEF TypeOK
<1>8. (-s) * g <= (-n) * e /\ (-n) * e <= (-s) * g + SharePrice * e
  <2> DEFINE w == s * g
             z == SharePrice * e
             i == n * e
             q == w \div e
  <2>1. w \in Int /\ z \in Int /\ i \in Int /\ (-s) * g = -w /\ (-n) * e = -i
    BY <1>2, <1>4
  <2>2. n = q
    BY DEF Payout
  <2>3. e * 1 <= e * SharePrice
    BY <1>2, <1>4, TimesMonotone
  <2> HIDE DEF e, g, n, w, z
  <2>4. q \in Int /\ w < e * q + e
    BY <1>2, <2>1, DivRounds
  <2> HIDE DEF q
  <2>5. e * q = i /\ e * 1 = e /\ e * SharePrice = z
    BY <1>2, <1>4, <2>2, <2>4 DEF z
  <2>6. i <= w
    BY <1>2 DEF w
  <2> HIDE DEF i
  <2>7. w < i + e /\ e <= z
    BY <2>3, <2>4, <2>5
  <2>8. -w <= -i /\ -i <= -w + z
    BY <1>2, <2>1, <2>6, <2>7
  <2> QED
    BY <2>1, <2>8 DEF w, z, i
<1>9. CASE u = v
  <2>1. shares'[u] = Credited(u) + (-s) /\ wallet'[u] = wallet[u] - (-n)
        /\ rounding'[u] = rounding[u] + BlendKeeps + SharePrice
    <3>1. Credited(u) - s = Credited(u) + (-s) /\ wallet[u] + n = wallet[u] - (-n)
      BY <1>2, <1>3
    <3>2. shares'[u] = Credited(u) - s /\ wallet'[u] = wallet[u] + n
          /\ rounding'[u] = rounding[u] + BlendKeeps + SharePrice
      BY <1>3, <1>5, <1>6, <1>7, <1>9
    <3> QED
      BY <3>1, <3>2, Zenon
  <2>2. -n \in Int /\ -s \in Int /\ SharePrice \in Int
    BY <1>2, <1>4
  <2> HIDE DEF n
  <2> QED
    BY <1>2, <1>5, <1>8, <2>1, <2>2, TradeCovers
<1>10. CASE u # v
  <2>1. shares'[u] = Credited(u) + 0 /\ wallet'[u] = wallet[u] - 0
        /\ rounding'[u] = rounding[u] + BlendKeeps + 0
    <3>1. Credited(u) - 0 = Credited(u) + 0 /\ wallet[u] = wallet[u] - 0
      BY <1>2, <1>3
    <3>2. shares'[u] = Credited(u) - 0 /\ wallet'[u] = wallet[u]
          /\ rounding'[u] = rounding[u] + BlendKeeps + 0
      BY <1>3, <1>5, <1>6, <1>7, <1>10
    <3> QED
      BY <3>1, <3>2, Zenon
  <2>2. -n \in Int /\ -s \in Int /\ 0 \in Int /\ 0 * e <= 0 * g + 0 * e
    BY <1>2
  <2> HIDE DEF n
  <2> QED
    BY <1>2, <1>5, <1>8, <2>1, <2>2, TradeCovers
<1> QED
  BY <1>9, <1>10

\* What a higher worth of the shares covers.
LEMMA CoverHeld ==
    ASSUME NEW w \in Int, NEW t \in Nat, NEW s \in Nat, NEW f \in Int, NEW h \in Int, f <= h,
           w * t + s * f >= 0
    PROVE  w * t + s * h >= 0
<1> DEFINE i == w * t
           j == s * f
           k == s * h
<1>1. i \in Int /\ j \in Int /\ k \in Int /\ j <= k
  BY TimesMonotone
<1> HIDE DEF i, j, k
<1>2. i + k >= 0
  BY <1>1 DEF i, j
<1> QED
  BY <1>2 DEF i, k

\* Interest covers all.
LEMMA RateCovers ==
    ASSUME IInv, IInv', rounding \in [Depositors -> Nat], NEW u \in Depositors, Covered(u),
           RateChange, rate <= rate', rounding' = rounding
    PROVE  Covered(u)'
<1>1. TypeOK /\ TypeOK'
  BY DEF IInv
<1>2. /\ Over(u) \in Int /\ shares[u] \in Nat /\ VirtualAssets \in Nat
      /\ totalShares + VirtualShares \in Nat
  BY <1>1, HolderTypes, Scales DEF TypeOK
<1>3. Base \in Int /\ Base' \in Int /\ Base' >= Base
  BY <1>1, BaseRises
<1>4. PICK b \in Int : b = Base'
  BY <1>3
<1>5. b >= Base
  BY <1>3, <1>4, Zenon
<1>6. Base + VirtualAssets \in Int /\ b + VirtualAssets \in Int
      /\ Base + VirtualAssets <= b + VirtualAssets
  BY <1>2, <1>3, <1>5
<1>7. Over(u) * (totalShares + VirtualShares) + shares[u] * (Base + VirtualAssets) >= 0
  BY DEF Covered
<1>8. Over(u) * (totalShares + VirtualShares) + shares[u] * (b + VirtualAssets) >= 0
  BY <1>2, <1>6, <1>7, CoverHeld, Zenon
<1>9. Over(u)' = Over(u) /\ shares' = shares /\ totalShares' = totalShares
  BY DEF RateChange, book, Over
<1>10. Over(u)' * (totalShares' + VirtualShares) + shares'[u] * (Base' + VirtualAssets) >= 0
  BY <1>4, <1>8, <1>9, Zenon
<1> QED
  BY <1>10 DEF Covered

\* What moves neither the fund nor the USDC of u.
LEMMA LeftAlone ==
    ASSUME NEW u \in Depositors, Covered(u), wallet'[u] = wallet[u],
           book' = book, bTokens' = bTokens, rate' = rate, rounding' = rounding
    PROVE  Covered(u)'
<1>1. Base' = Base
  BY DEF Base, NewProfit, Retained, Assets, book
<1>2. Over(u)' = Over(u) /\ shares' = shares /\ totalShares' = totalShares
  BY DEF Over, book
<1>3. Over(u) * (totalShares + VirtualShares) + shares[u] * (Base + VirtualAssets) >= 0
  BY DEF Covered
<1>4. Over(u)' * (totalShares' + VirtualShares) + shares'[u] * (Base' + VirtualAssets) >= 0
  BY <1>1, <1>2, <1>3, Zenon
<1> QED
  BY <1>4 DEF Covered

\* A call counts its roundings in naturals.
LEMMA RoundingTypes ==
    ASSUME IInv, IInv', rounding \in [Depositors -> Nat], NEW v \in Holders, Rounds(v),
           \/ \E n \in Nat : Deposit(v, n)
           \/ \E s \in Nat : Withdraw(v, s)
    PROVE  rounding' \in [Depositors -> Nat] /\ fell' = fell
<1>1. TypeOK /\ TypeOK'
  BY DEF IInv
<1>2. BlendKeeps \in Nat
  <2>1. CASE \E n \in Nat : Deposit(v, n)
    <3>1. PICK n \in Nat : Deposit(v, n)
      BY <2>1
    <3>2. n \in Int /\ netDeposits' = netDeposits + n /\ highWaterMark' = AccruedMark
      BY <3>1 DEF Deposit
    <3> QED
      BY <1>1, <3>2, BaseMoves
  <2>2. CASE \E s \in Nat : Withdraw(v, s)
    <3>1. PICK s \in Nat : Withdraw(v, s)
      BY <2>2
    <3>2. Payout(s) \in Nat /\ netDeposits \in Int
      BY <1>1, PriceTypes DEF TypeOK
    <3>3. -Payout(s) \in Int /\ netDeposits - Payout(s) = netDeposits + (-Payout(s))
      BY <3>2
    <3>4. netDeposits' = netDeposits - Payout(s) /\ highWaterMark' = AccruedMark
      BY <3>1 DEF Withdraw
    <3>5. netDeposits' = netDeposits + (-Payout(s))
      BY <3>3, <3>4, Zenon
    <3> QED
      BY <1>1, <3>3, <3>4, <3>5, BaseMoves
  <2> QED
    BY <2>1, <2>2
<1>3. SharePrice \in Nat
  BY <1>1, SharePriceBound
<1>4. PICK k \in Nat : k = BlendKeeps
  BY <1>2
<1>5. NoRounding \in [Depositors -> Nat]
  BY DEF NoRounding
<1>6. rounding' = IF fell THEN NoRounding
                  ELSE [h \in Depositors |-> rounding[h] + k + (IF h = v THEN SharePrice ELSE 0)]
  BY <1>4, Zenon DEF Rounds
<1>7. [h \in Depositors |-> rounding[h] + k + (IF h = v THEN SharePrice ELSE 0)]
         \in [Depositors -> Nat]
  BY <1>3
<1> QED
  BY <1>5, <1>6, <1>7 DEF Rounds

\* Every step of the fund keeps all covered.
LEMMA StaysCovered == FeeIsCapped /\ IInv /\ IInv' /\ PrincipalInv /\ [FundNext]_allVars => PrincipalInv'
<1> SUFFICES ASSUME FeeIsCapped, IInv, IInv', PrincipalInv, [FundNext]_allVars
             PROVE  PrincipalInv'
  OBVIOUS
<1>1. /\ rounding \in [Depositors -> Nat]
      /\ ~fell => \A u \in Depositors : Covered(u)
  BY DEF PrincipalInv
<1>2. ASSUME NEW v \in Holders, Rounds(v),
             \/ \E n \in Nat : Deposit(v, n)
             \/ \E s \in Nat : Withdraw(v, s)
      PROVE  PrincipalInv'
  <2>1. rounding' \in [Depositors -> Nat] /\ fell' = fell
    BY <1>1, <1>2, RoundingTypes
  <2>2. ASSUME ~fell, NEW u \in Depositors PROVE Covered(u)'
    BY <1>1, <1>2, <2>2, DepositCovers, WithdrawCovers
  <2> QED
    BY <2>1, <2>2 DEF PrincipalInv
<1>3. ASSUME UNCHANGED <<book, bTokens, rate, fell, rounding>>,
             \A u \in Depositors : wallet'[u] = wallet[u]
      PROVE  PrincipalInv'
  <2>1. ASSUME ~fell, NEW u \in Depositors PROVE Covered(u)'
    <3>1. Covered(u) /\ wallet'[u] = wallet[u]
      BY <1>1, <1>3, <2>1
    <3>2. book' = book /\ bTokens' = bTokens /\ rate' = rate /\ rounding' = rounding
      BY <1>3
    <3> QED
      BY <3>1, <3>2, LeftAlone
  <2> QED
    BY <1>1, <1>3, <2>1 DEF PrincipalInv
<1>4. \A u \in Holders : wallet[u] \in Nat /\ Credited(u) \in Nat /\ shares[u] \in Nat
  BY AccrualKeepsBooks DEF IInv, TypeOK
<1>5. Fund \in Holders /\ \A u \in Depositors : u \in Holders /\ u # Fund
  BY FundAssumption DEF Depositors
<1>6. CASE \E u \in Depositors :
              \/ \E n \in 1 .. wallet[u] : Deposit(u, n) /\ Rounds(u)
              \/ \E s \in 1 .. Credited(u) : Withdraw(u, s) /\ Rounds(u)
              \/ WithdrawAll(u) /\ Rounds(u)
  <2>1. PICK u \in Depositors :
              \/ \E n \in 1 .. wallet[u] : Deposit(u, n) /\ Rounds(u)
              \/ \E s \in 1 .. Credited(u) : Withdraw(u, s) /\ Rounds(u)
              \/ WithdrawAll(u) /\ Rounds(u)
    BY <1>6
  <2>2. u \in Holders /\ wallet[u] \in Nat /\ Credited(u) \in Nat
    BY <1>4, <1>5
  <2>3. Rounds(u) /\ (\E n \in Nat : Deposit(u, n) \/ Withdraw(u, n))
    BY <2>1, <2>2 DEF WithdrawAll
  <2> QED
    BY <1>2, <2>2, <2>3
<1>7. CASE (\E s \in 1 .. Credited(Fund) : ClaimFees(s)) \/ ClaimAllFees
  <2>1. Rounds(Fund) /\ \E s \in Nat : Withdraw(Fund, s)
    BY <1>4, <1>5, <1>7 DEF ClaimFees, ClaimAllFees
  <2> QED
    BY <1>2, <1>5, <2>1
<1>8. CASE \E n \in 1 .. wallet[Fund] : Sweep(n)
  <2>1. \A u \in Depositors : wallet'[u] = wallet[u]
    BY <1>5, <1>8 DEF Sweep, IInv, TypeOK
  <2> QED
    BY <1>3, <1>8, <2>1 DEF Sweep
<1>9. CASE Govern /\ UNCHANGED fundVars
  BY <1>3, <1>9 DEF Govern, ProposeAdmin, AcceptAdmin, SetFeeBps, SetFeeRecipient, fundVars
<1>10. CASE UNCHANGED allVars
  BY <1>3, <1>10 DEF allVars, vars, fundVars
<1>11. CASE /\ RateChange
            /\ fell' = (fell \/ rate' < rate)
            /\ rounding' = IF fell' THEN NoRounding ELSE rounding
  <2>1. rounding' \in [Depositors -> Nat]
    BY <1>1, <1>11 DEF NoRounding
  <2>2. ASSUME ~fell', NEW u \in Depositors PROVE Covered(u)'
    <3>1. ~fell /\ rounding' = rounding /\ ~(rate' < rate)
      BY <1>11, <2>2, Zenon
    <3>2. rate \in Nat /\ rate' \in Nat
      BY ScalesAssumption DEF IInv, TypeOK
    <3>3. rate <= rate'
      BY <3>1, <3>2
    <3> QED
      BY <1>1, <1>11, <3>1, <3>3, RateCovers
  <2> QED
    BY <2>1, <2>2 DEF PrincipalInv
<1> QED
  BY <1>6, <1>7, <1>8, <1>9, <1>10, <1>11 DEF FundNext

\* Who is covered has what it came with.
LEMMA CoveredHolds ==
    ASSUME TypeOK, rounding \in [Depositors -> Nat], NEW u \in Depositors, Covered(u)
    PROVE  wallet[u] + Value(u) + rounding[u] >= Purse[u]
<1> DEFINE w == Over(u)
           s == shares[u]
           t == totalShares + VirtualShares
           f == Base + VirtualAssets
           g == Assets + VirtualAssets
           x == s * g
           v == x \div t
<1>1. /\ wallet[u] \in Nat /\ rounding[u] \in Nat /\ Purse[u] \in Nat
      /\ w \in Int /\ s \in Nat
  BY HolderTypes
<1>2. t \in Nat \ {0} /\ f \in Int /\ g \in Nat /\ f <= g
  BY AccrualTypes, Scales DEF TypeOK, Base
<1>3. w * t + s * f >= 0
  BY DEF Covered
<1>4. Value(u) = v
  BY DEF Value
<1>5. w = wallet[u] + rounding[u] - Purse[u]
  BY DEF Over
<1> HIDE DEF w, s, t, f, g
<1>6. w * t + s * g >= 0
  BY <1>1, <1>2, <1>3, CoverHeld
<1>7. x \in Int
  BY <1>1, <1>2
<1> HIDE DEF x
<1>8. v \in Int /\ x < t * v + t
  BY <1>2, <1>7, DivRounds
<1> HIDE DEF v
<1> DEFINE i == w * t
           j == t * v
<1>9. i \in Int /\ j \in Int /\ t * (-w) = -i /\ t * (v + 1) = j + t
  BY <1>1, <1>2, <1>8
<1>10. i + x >= 0
  BY <1>6 DEF x
<1>11. -i < j + t
  <2> HIDE DEF i, j
  <2>1. x < j + t
    BY <1>8 DEF j
  <2> QED
    BY <1>2, <1>7, <1>9, <1>10, <2>1
<1>12. -w \in Int /\ v + 1 \in Int
  BY <1>1, <1>8
<1>13. t * (-w) < t * (v + 1)
  BY <1>9, <1>11, Zenon
<1>14. -w < v + 1
  BY <1>2, <1>12, <1>13, TimesStrict
<1>15. wallet[u] + v + rounding[u] >= Purse[u]
  BY <1>1, <1>5, <1>8, <1>14
<1> QED
  BY <1>4, <1>15

\* As long as the pool has lost nothing, nobody loses what it paid in: the fee is
\* paid out of profit alone, whatever the calls of the others, the claims and the
\* sweeps and whoever is the fee recipient, to the roundings of the depositor's own
\* calls and what Blend keeps.
THEOREM PrincipalIsKept == FeeIsCapped => (FundSpec => []PrincipalKept)
<1> SUFFICES ASSUME FeeIsCapped PROVE FundSpec => []PrincipalKept
  OBVIOUS
<1>1. FundInit /\ IInv => PrincipalInv
  <2> SUFFICES ASSUME FundInit, IInv PROVE PrincipalInv
    OBVIOUS
  <2>1. rounding \in [Depositors -> Nat]
    BY DEF FundInit, NoRounding
  <2>2. ASSUME NEW u \in Depositors PROVE Covered(u)
    <3>1. u \in Holders /\ Purse[u] \in Nat
      BY MoneyAssumption DEF Depositors
    <3>2. wallet[u] = Purse[u] /\ rounding[u] = 0 /\ shares[u] = 0 /\ totalShares = 0
      BY <3>1 DEF FundInit, Init, NoRounding
    <3>3. Over(u) = 0
      BY <3>1, <3>2 DEF Over
    <3>4. Base + VirtualAssets \in Int /\ totalShares + VirtualShares \in Int
      BY <3>2, AccrualTypes, Scales DEF IInv, Base
    <3>5. 0 * (totalShares + VirtualShares) + 0 * (Base + VirtualAssets) >= 0
      BY <3>4
    <3> QED
      BY <3>2, <3>3, <3>5 DEF Covered
  <2> QED
    BY <2>1, <2>2 DEF PrincipalInv
<1>2. IInv /\ PrincipalInv => PrincipalKept
  BY CoveredHolds DEF IInv, PrincipalInv, PrincipalKept
<1>3. IInv /\ IInv' /\ PrincipalInv /\ [FundNext]_allVars => PrincipalInv'
  BY StaysCovered
<1> QED
  BY <1>1, <1>2, <1>3, Always, PTL DEF FundSpec

----------------------------------------------------------------------------
(* The Earn screen *)

\* The principal as it will be once a call has recorded what it did.
Booked(c, n) ==
    CASE c \in Deposits    -> n + amount[c]
      [] c \in Withdrawals -> Less(n, amount[c])
      [] OTHER             -> 0
Due(c) ==
    CASE pc[c] = "record"  -> Booked(c, principal)
      [] pc[c] = "writing" -> Booked(c, read[c])
      [] OTHER             -> principal

Quiet == \A c \in Calls : Ended(c)
Dues == IF Quiet THEN {principal} ELSE {Due(c) : c \in {d \in Calls : ~Ended(d)}}

\* n as the principal tells interest from deposits.
Explains(n) == n \in 0 .. position /\ position - n <= interest

HomeBooks ==
    orderly => /\ \A c, d \in Calls : ~Ended(c) /\ ~Ended(d) => c = d
               /\ \A n \in Dues : Explains(n)

\* A call takes its point when it is over.
Asked == \A c \in Calls : rpc[c] # "idle" => pc[c] = "done"

\* A reader has something in its hands while it is at work, and then all of it.
Holding ==
    \A r \in Readers :
       /\ ~Active(r) => balance[r] = Unread /\ net[r] = Unread
       /\ rpc[r] \in {"checking", "logging"} => balance[r] # Unread /\ net[r] # Unread

\* No call is under way between the two reads of a pair.
Calm ==
    steady => \A r \in Readers :
                 rpc[r] = "reading" /\ (balance[r] \in Nat \/ net[r] \in Nat) => Quiet

\* The principal a reader has read, or is going to read.
NetOf(r) == IF net[r] \in Nat THEN net[r] ELSE principal
Gap(r) == balance[r] - NetOf(r)

\* What a reader has in its hands, and what the screen shows, is explained by the
\* interest.
Pairs ==
    orderly /\ steady =>
       \A r \in Readers :
          /\ rpc[r] = "reading" /\ net[r] \in Nat => net[r] = principal
          /\ balance[r] \in Nat /\ net[r] # Unknown => Gap(r) \in 0 .. interest
Screen == orderly /\ steady /\ shown.net # Unknown => shown.v <= shown.net + interest

Alone ==
    apart => /\ \A q, r \in Readers : Active(q) /\ Active(r) => q = r
             /\ \A r \in Readers : net[r] # Unknown

\* g, the gain at a moment at which b of the interest was paid, can be followed by
\* what is gained now.
Leaves(g, b) == \A n \in Dues : position - n - g <= interest - b

\* The points can be stamped with the interest paid when they were read, and
\* from stamp to stamp no more is gained than is paid.
Stamped(s) ==
    /\ \A k \in 0 .. Len(points) : Gain(k) >= 0
    /\ \A j, k \in 0 .. Len(points) :
          j < k => s[j] <= s[k] /\ Gain(k) - Gain(j) <= s[k] - s[j]
    /\ Leaves(Gain(Len(points)), s[Len(points)])
    /\ \A r \in Readers :
          balance[r] \in Nat =>
             \E b \in s[Len(points)] .. interest :
                /\ Gap(r) - Gain(Len(points)) <= b - s[Len(points)]
                /\ Leaves(Gap(r), b)
Chart ==
    orderly /\ steady /\ apart =>
       \E s \in [0 .. Len(points) -> 0 .. interest] : Stamped(s)

HomeInv ==
    /\ HomeTypeOK /\ HomeBooks /\ Asked /\ Holding /\ Calm /\ Pairs /\ Screen
    /\ Alone /\ Chart

\* Nothing of the readers moves.
Rests == UNCHANGED <<rpc, balance, net, shown, points>>

\* A reader begins, with empty hands.
Starts(r) ==
    /\ rpc[r] = "idle" /\ rpc' = [rpc EXCEPT ![r] = "reading"]
    /\ UNCHANGED <<balance, net, shown, points>>
    /\ apart' => \A q \in Readers : ~Active(q)

\* A reader goes on with what it has in its hands, and may show it.
Turns(r) ==
    /\ BothRead(r) /\ Active(r)
    /\ rpc' = [rpc EXCEPT ![r] = "checking"] \/ rpc' = [rpc EXCEPT ![r] = "logging"]
    /\ shown' = shown \/ shown' = [v |-> balance[r], net |-> net[r]]
    /\ UNCHANGED <<balance, net, points>>

\* A reader ends without a point, or with one.
Drops(r) ==
    /\ Active(r) /\ rpc' = [rpc EXCEPT ![r] = "done"]
    /\ Forget(r)
    /\ UNCHANGED <<shown, points>>
Charts(r) ==
    /\ Active(r) /\ BothRead(r) /\ rpc' = [rpc EXCEPT ![r] = "done"]
    /\ Forget(r)
    /\ points' = Append(points, [v |-> balance[r], net |-> Known(net[r])])
    /\ UNCHANGED shown

\* What a step does to the readers.
LEMMA ReaderSteps ==
    ASSUME HomeTypeOK, Holding, HomeNext
    PROVE  \/ Rests
           \/ \E r \in Readers : /\ UNCHANGED <<fund, callVars>>
                                 /\ \/ ReadBalance(r) \/ ReadNet(r) \/ NetUnknown(r)
                                    \/ Turns(r) \/ Drops(r) \/ Charts(r)
           \/ \E r \in Readers : Starts(r)
<1>1. ASSUME NEW c \in Calls, Ask(c) \/ Moves(c) \/ MovesUnseen(c) \/ Throw(c)
                                \/ ReadPrincipal(c) \/ ReadFails(c)
      PROVE  Rests
  BY <1>1 DEF Ask, Moves, MovesUnseen, Throw, ReadPrincipal, ReadFails, homeVars, readVars,
       screenVars, Rests
<1>2. CASE Ages \/ Interest
  BY <1>2 DEF Ages, Interest, homeVars, readVars, screenVars, Rests
<1>3. ASSUME NEW r \in Readers, StartReading(r)
      PROVE  Starts(r)
  BY <1>3 DEF StartReading, Reads, Starts, readVars, screenVars
<1>4. ASSUME NEW c \in Calls, Finish(c) \/ FinishUnrecorded(c)
      PROVE  \E r \in Readers : Starts(r)
  BY <1>3, <1>4 DEF Finish, FinishUnrecorded, Readers
<1>5. ASSUME NEW l \in Loads, OnFocus(l)
      PROVE  \E r \in Readers : Starts(r)
  BY <1>3, <1>5 DEF OnFocus, Readers
<1>6. ASSUME NEW l \in Loads, Show(l) \/ CheckAge(l) \/ AgeUnread(l)
      PROVE  UNCHANGED <<fund, callVars>> /\ Turns(l) /\ l \in Readers
  BY <1>6 DEF Show, ShowAs, CheckAge, AgeUnread, Reads, Turns, BothRead, Active, Readers,
       Holding, readVars, screenVars
<1>7. ASSUME NEW l \in Loads, NoPoint(l)
      PROVE  UNCHANGED <<fund, callVars>> /\ Drops(l) /\ l \in Readers
  BY <1>7 DEF NoPoint, Reads, Drops, Active, Readers, screenVars
<1>8. ASSUME NEW r \in Readers, ReaderStops(r)
      PROVE  UNCHANGED <<fund, callVars>> /\ Drops(r)
  BY <1>8 DEF ReaderStops, Reads, Drops, screenVars
<1>9. ASSUME NEW l \in Loads, LogPoint(l)
      PROVE  UNCHANGED <<fund, callVars>> /\ Charts(l) /\ l \in Readers
  BY <1>9 DEF LogPoint, InsertPoint, Reads, Charts, Active, Readers, Holding, BothRead
<1>10. ASSUME NEW c \in Calls, ChartMovement(c)
       PROVE  UNCHANGED <<fund, callVars>> /\ Charts(c) /\ c \in Readers
  BY <1>10 DEF ChartMovement, InsertPoint, Reads, Charts, Active, Readers
<1>11. ASSUME NEW r \in Readers, ReadBalance(r) \/ ReadNet(r) \/ NetUnknown(r)
       PROVE  UNCHANGED <<fund, callVars>>
  BY <1>11 DEF ReadBalance, ReadNet, NetUnknown
<1>12. CASE Step
  BY <1>1, <1>2, <1>4, <1>5, <1>6, <1>7, <1>9, <1>10, <1>11, <1>12 DEF Step
<1>13. CASE Fault
  BY <1>1, <1>4, <1>6, <1>8, <1>11, <1>13 DEF Fault
<1> QED
  BY <1>12, <1>13 DEF HomeNext

\* What a step does to the calls and the money, and that the histories only turn
\* false.
LEMMA CallSteps ==
    ASSUME HomeTypeOK, HomeNext
    PROVE  /\ (orderly' => orderly) /\ (steady' => steady) /\ (apart' => apart)
           /\ \/ UNCHANGED <<fund, callVars>>
              \/ Interest
              \/ \E c \in Calls : \/ Ask(c) \/ Moves(c) \/ MovesUnseen(c) \/ Throw(c)
                                  \/ ReadPrincipal(c) \/ ReadFails(c)
                                  \/ Write(c) \/ WriteLost(c)
<1>1. HomeTypeOK /\ orderly \in BOOLEAN /\ steady \in BOOLEAN /\ apart \in BOOLEAN
  BY DEF HomeTypeOK
<1>2. ASSUME NEW c \in Calls, Ask(c) \/ Moves(c) \/ MovesUnseen(c) \/ Throw(c)
                                \/ ReadPrincipal(c) \/ ReadFails(c)
      PROVE  (orderly' => orderly) /\ (steady' => steady) /\ (apart' => apart)
  BY <1>1, <1>2 DEF Ask, Moves, MovesUnseen, Throw, ReadPrincipal, ReadFails, homeVars
<1>3. ASSUME NEW c \in Calls, Finish(c) \/ FinishUnrecorded(c)
      PROVE  /\ (orderly' => orderly) /\ (steady' => steady) /\ (apart' => apart)
             /\ Write(c) \/ WriteLost(c)
  BY <1>1, <1>3 DEF Finish, FinishUnrecorded, Write, WriteLost, StartReading
<1>4. ASSUME NEW c \in Calls, ChartMovement(c)
      PROVE  UNCHANGED <<fund, callVars, steady, apart>>
  BY <1>4 DEF ChartMovement, InsertPoint
<1>5. ASSUME NEW l \in Loads,
             OnFocus(l) \/ Show(l) \/ CheckAge(l) \/ NoPoint(l) \/ LogPoint(l) \/ AgeUnread(l)
      PROVE  UNCHANGED <<fund, callVars, steady>> /\ (apart' => apart)
  BY <1>1, <1>5 DEF OnFocus, StartReading, Show, ShowAs, CheckAge, NoPoint, LogPoint, AgeUnread,
       InsertPoint
<1>6. ASSUME NEW r \in Readers,
             ReadBalance(r) \/ ReadNet(r) \/ NetUnknown(r) \/ ReaderStops(r)
      PROVE  UNCHANGED <<fund, callVars>> /\ (steady' => steady) /\ (apart' => apart)
  BY <1>1, <1>6 DEF ReadBalance, ReadNet, NetUnknown, ReaderStops
<1>7. CASE Ages
  BY <1>1, <1>7 DEF Ages, callVars
<1>8. CASE Interest
  BY <1>1, <1>8 DEF Interest, callVars, homeVars
<1>9. (UNCHANGED callVars) => (orderly' => orderly)
  BY <1>1 DEF callVars
<1>10. CASE Step
  BY <1>1, <1>2, <1>3, <1>4, <1>5, <1>6, <1>7, <1>8, <1>9, <1>10 DEF Step
<1>11. CASE Fault
  BY <1>1, <1>2, <1>3, <1>5, <1>6, <1>9, <1>11 DEF Fault
<1> QED
  BY <1>10, <1>11 DEF HomeNext

\* What a call leaves, and what it will have recorded, are naturals.
LEMMA DueNat ==
    ASSUME HomeTypeOK
    PROVE  /\ \A c \in Calls : Moved(c) \in Nat
           /\ \A c \in Calls, n \in Nat : Booked(c, n) \in Nat
           /\ \A c \in Calls : Recorded(c) = Booked(c, read[c])
           /\ \A c \in Calls : Due(c) \in Nat
<1>1. \A c \in Calls : c \in Deposits \cup Withdrawals => amount[c] \in Nat
  BY AmountsAssumption
<1>2. position \in Nat /\ principal \in Nat /\ read \in [Calls -> Nat]
  BY DEF HomeTypeOK
<1>3. \A c \in Calls : Moved(c) \in Nat
  BY <1>1, <1>2 DEF Moved, Less
<1>4. \A c \in Calls, n \in Nat : Booked(c, n) \in Nat
  BY <1>1 DEF Booked, Less
<1>5. \A c \in Calls : Recorded(c) = Booked(c, read[c])
  BY DEF Recorded, Booked
<1>6. \A c \in Calls : Due(c) \in Nat
  BY <1>2, <1>4 DEF Due
<1> QED
  BY <1>3, <1>4, <1>5, <1>6

\* The types of the money and of the calls.
CallTypes ==
    /\ position \in Nat /\ interest \in 0 .. MaxInterest /\ principal \in Nat
    /\ pc \in [Calls -> PCs] /\ read \in [Calls -> Nat] /\ orderly \in BOOLEAN
LEMMA CallTypesKept ==
    ASSUME HomeTypeOK, HomeNext
    PROVE  CallTypes' /\ interest <= interest'
<1>1. CallTypes
  BY DEF HomeTypeOK, CallTypes
<1>2. CASE UNCHANGED <<fund, callVars>>
  BY <1>1, <1>2, LimitsAssumption DEF CallTypes, fund, callVars
<1>3. CASE Interest
  BY <1>1, <1>3, LimitsAssumption DEF CallTypes, callVars, Interest
<1>4. ASSUME NEW c \in Calls, Ask(c) \/ Throw(c)
      PROVE  CallTypes' /\ interest <= interest'
  <2>1. UNCHANGED <<fund, principal, read>>
    BY <1>4 DEF Ask, Throw
  <2>2. pc' \in [Calls -> PCs] /\ orderly' \in BOOLEAN
    BY <1>1, <1>4 DEF CallTypes, Ask, Throw, Goto, PCs
  <2> QED
    BY <1>1, <2>1, <2>2, LimitsAssumption DEF CallTypes, fund
<1>5. ASSUME NEW c \in Calls, Moves(c) \/ MovesUnseen(c)
      PROVE  CallTypes' /\ interest <= interest'
  <2>1. UNCHANGED <<interest, principal, read>> /\ position' = Moved(c)
    BY <1>5 DEF Moves, MovesUnseen
  <2>2. pc' \in [Calls -> PCs] /\ orderly' \in BOOLEAN
    BY <1>1, <1>5 DEF CallTypes, Moves, MovesUnseen, Goto, Recording, PCs
  <2> QED
    BY <1>1, <2>1, <2>2, DueNat, LimitsAssumption DEF CallTypes
<1>6. ASSUME NEW c \in Calls, ReadPrincipal(c) \/ ReadFails(c)
      PROVE  CallTypes' /\ interest <= interest'
  <2>1. UNCHANGED <<fund, principal>>
    BY <1>6 DEF ReadPrincipal, ReadFails
  <2>2. pc' \in [Calls -> PCs] /\ orderly' \in BOOLEAN
    BY <1>1, <1>6 DEF CallTypes, ReadPrincipal, ReadFails, Goto, PCs
  <2>3. read' \in [Calls -> Nat]
    BY <1>1, <1>6 DEF CallTypes, ReadPrincipal, ReadFails
  <2> QED
    BY <1>1, <2>1, <2>2, <2>3, LimitsAssumption DEF CallTypes, fund
<1>7. ASSUME NEW c \in Calls, Write(c) \/ WriteLost(c)
      PROVE  CallTypes' /\ interest <= interest'
  <2>1. UNCHANGED fund /\ principal' \in Nat
    BY <1>1, <1>7, DueNat DEF CallTypes, Write, WriteLost
  <2>2. pc' \in [Calls -> PCs] /\ orderly' \in BOOLEAN
    BY <1>1, <1>7 DEF CallTypes, Write, WriteLost, Goto, PCs
  <2>3. read' \in [Calls -> Nat]
    BY <1>1, <1>7 DEF CallTypes, Write, WriteLost
  <2> QED
    BY <1>1, <2>1, <2>2, <2>3, LimitsAssumption DEF CallTypes, fund
<1> QED
  BY <1>2, <1>3, <1>4, <1>5, <1>6, <1>7, CallSteps

\* Every variable of the screen keeps its type.
LEMMA HomeTypes == HomeTypeOK /\ Holding /\ HomeNext => HomeTypeOK'
<1> SUFFICES ASSUME HomeTypeOK, Holding, HomeNext PROVE HomeTypeOK'
  OBVIOUS
<1> DEFINE Pairing == /\ rpc \in [Readers -> ReaderPCs]
                      /\ balance \in [Readers -> Nat \cup {Unread}]
                      /\ net \in [Readers -> Nat \cup {Unread, Unknown}]
                      /\ shown \in [v : Nat, net : Nat \cup {Unknown}]
                      /\ points \in Seq([v : Nat, net : Nat])
<1>1. CallTypes'
  BY CallTypesKept
<1>2. Pairing /\ position \in Nat /\ principal \in Nat
  BY DEF HomeTypeOK
<1>3. ASSUME Rests PROVE Pairing'
  <2>1. UNCHANGED <<rpc, balance, net, shown, points>>
    BY <1>3 DEF Rests
  <2> QED
    BY <1>2, <2>1
<1>4. ASSUME NEW r \in Readers, Starts(r) PROVE Pairing'
  BY <1>2, <1>4 DEF Starts, ReaderPCs
<1>5. ASSUME NEW r \in Readers, ReadBalance(r) \/ ReadNet(r) \/ NetUnknown(r) PROVE Pairing'
  BY <1>2, <1>5 DEF ReadBalance, ReadNet, NetUnknown, screenVars
<1>6. ASSUME NEW r \in Readers, Turns(r) PROVE Pairing'
  <2>1. balance[r] \in Nat /\ net[r] \in Nat \cup {Unknown}
    BY <1>2, <1>6 DEF Turns, BothRead
  <2>2. shown' \in [v : Nat, net : Nat \cup {Unknown}]
    BY <1>2, <1>6, <2>1 DEF Turns
  <2>3. rpc' \in [Readers -> ReaderPCs]
    BY <1>2, <1>6 DEF Turns, ReaderPCs
  <2> QED
    BY <1>2, <1>6, <2>2, <2>3 DEF Turns
<1>7. ASSUME NEW r \in Readers, Drops(r) PROVE Pairing'
  BY <1>2, <1>7 DEF Drops, Forget, ReaderPCs
<1>8. ASSUME NEW r \in Readers, Charts(r) PROVE Pairing'
  <2>1. balance[r] \in Nat /\ Known(net[r]) \in Nat
    BY <1>2, <1>8 DEF Charts, BothRead, Known
  <2>2. points' \in Seq([v : Nat, net : Nat])
    BY <1>2, <1>8, <2>1 DEF Charts
  <2>3. rpc' \in [Readers -> ReaderPCs] /\ shown' = shown
    BY <1>2, <1>8 DEF Charts, ReaderPCs
  <2>4. /\ balance' \in [Readers -> Nat \cup {Unread}]
        /\ net' \in [Readers -> Nat \cup {Unread, Unknown}]
    BY <1>2, <1>8 DEF Charts, Forget
  <2> QED
    BY <1>2, <2>2, <2>3, <2>4
<1>9. Pairing'
  <2> HIDE DEF Pairing
  <2> QED
    BY <1>3, <1>4, <1>5, <1>6, <1>7, <1>8, ReaderSteps
<1>10. fresh' \in BOOLEAN
  <2>1. fresh \in BOOLEAN
    BY DEF HomeTypeOK
  <2>2. \/ fresh' = fresh \/ fresh' = FALSE \/ fresh' = TRUE
    BY DEF HomeNext, Step, Fault, Ask, Moves, MovesUnseen, Throw, ReadPrincipal, ReadFails,
         Finish, FinishUnrecorded, StartReading, ChartMovement, InsertPoint, OnFocus, Show,
         ShowAs, CheckAge, NoPoint, AgeUnread, LogPoint, ReadBalance, ReadNet, NetUnknown,
         ReaderStops, Ages, Interest, homeVars, screenVars
  <2> QED
    BY <2>1, <2>2
<1>11. steady' \in BOOLEAN /\ apart' \in BOOLEAN
  <2>1. steady \in BOOLEAN /\ apart \in BOOLEAN
    BY DEF HomeTypeOK
  <2>2. ASSUME NEW c \in Calls, Ask(c) \/ Moves(c) \/ MovesUnseen(c) \/ Throw(c)
                   \/ ReadPrincipal(c) \/ ReadFails(c) \/ Finish(c) \/ FinishUnrecorded(c)
                   \/ ChartMovement(c)
        PROVE  steady' \in BOOLEAN /\ apart' \in BOOLEAN
    BY <2>1, <2>2 DEF Ask, Moves, MovesUnseen, Throw, ReadPrincipal, ReadFails, Finish,
         FinishUnrecorded, StartReading, ChartMovement, InsertPoint, homeVars
  <2>3. ASSUME NEW r \in Readers,
               ReadBalance(r) \/ ReadNet(r) \/ NetUnknown(r) \/ ReaderStops(r)
        PROVE  steady' \in BOOLEAN /\ apart' \in BOOLEAN
    BY <2>1, <2>3 DEF ReadBalance, ReadNet, NetUnknown, ReaderStops
  <2>4. ASSUME NEW l \in Loads, OnFocus(l) \/ Show(l) \/ CheckAge(l) \/ NoPoint(l)
                                  \/ LogPoint(l) \/ AgeUnread(l)
        PROVE  steady' \in BOOLEAN /\ apart' \in BOOLEAN
    BY <2>1, <2>4 DEF OnFocus, StartReading, Show, ShowAs, CheckAge, NoPoint, LogPoint,
         AgeUnread, InsertPoint
  <2>5. CASE Ages \/ Interest
    BY <2>1, <2>5 DEF Ages, Interest, homeVars
  <2>6. CASE Step
    BY <2>2, <2>3, <2>4, <2>5, <2>6 DEF Step
  <2>7. CASE Fault
    BY <2>2, <2>3, <2>4, <2>7 DEF Fault
  <2> QED
    BY <2>6, <2>7 DEF HomeNext
<1>12. faults' \in 0 .. MaxFaults
  BY LimitsAssumption DEF HomeTypeOK, HomeNext
<1> QED
  BY <1>1, <1>9, <1>10, <1>11, <1>12 DEF HomeTypeOK, CallTypes

\* A call that is over stays over, and takes its point then.
LEMMA AskedKept == HomeTypeOK /\ Asked /\ HomeNext => Asked'
<1> SUFFICES ASSUME HomeTypeOK, Asked, HomeNext, NEW c \in Calls, rpc'[c] # "idle"
             PROVE  pc'[c] = "done"
  BY DEF Asked
<1>1. pc \in [Calls -> PCs] /\ rpc \in [Readers -> ReaderPCs] /\ c \in Readers
  BY DEF HomeTypeOK, Readers
<1>2. pc[c] = "done" => pc'[c] = "done"
  BY <1>1, CallSteps DEF Ask, Moves, MovesUnseen, Throw, ReadPrincipal, ReadFails, Write,
     WriteLost, Interest, Goto, Ended, callVars
<1>3. ASSUME rpc[c] = "idle" PROVE Finish(c) \/ FinishUnrecorded(c)
  <2>1. ASSUME NEW d \in Calls, Ask(d) \/ Moves(d) \/ MovesUnseen(d) \/ Throw(d)
                                  \/ ReadPrincipal(d) \/ ReadFails(d)
        PROVE  rpc' = rpc
    BY <2>1 DEF Ask, Moves, MovesUnseen, Throw, ReadPrincipal, ReadFails, homeVars
  <2>2. CASE Ages \/ Interest
    BY <1>3, <2>2 DEF Ages, Interest, homeVars
  <2>3. ASSUME NEW l \in Loads, OnFocus(l) \/ Show(l) \/ CheckAge(l) \/ NoPoint(l)
                                  \/ LogPoint(l) \/ AgeUnread(l)
        PROVE  FALSE
    <3>1. l # c
      BY KindsAssumption
    <3> QED
      BY <1>1, <1>3, <2>3, <3>1 DEF OnFocus, StartReading, Show, ShowAs, CheckAge, NoPoint,
         LogPoint, AgeUnread, Reads
  <2>4. ASSUME NEW r \in Readers,
               ReadBalance(r) \/ ReadNet(r) \/ NetUnknown(r) \/ ReaderStops(r)
        PROVE  FALSE
    BY <1>1, <1>3, <2>4 DEF ReadBalance, ReadNet, NetUnknown, ReaderStops, Reads, Active
  <2>5. ASSUME NEW d \in Calls, ChartMovement(d)
        PROVE  FALSE
    BY <1>1, <1>3, <2>5 DEF ChartMovement, Reads
  <2>6. ASSUME NEW d \in Calls, Finish(d) \/ FinishUnrecorded(d), d # c
        PROVE  FALSE
    BY <1>1, <1>3, <2>6 DEF Finish, FinishUnrecorded, StartReading, Reads
  <2>7. CASE Step
    BY <1>3, <2>1, <2>2, <2>3, <2>4, <2>5, <2>6, <2>7 DEF Step
  <2>8. CASE Fault
    BY <1>3, <2>1, <2>3, <2>4, <2>6, <2>8 DEF Fault
  <2> QED
    BY <2>7, <2>8 DEF HomeNext
<1>4. Finish(c) \/ FinishUnrecorded(c) => pc'[c] = "done"
  BY <1>1 DEF Finish, FinishUnrecorded, Write, WriteLost, Goto
<1> QED
  BY <1>2, <1>3, <1>4 DEF Asked

\* Hands are empty before and after, and full in between.
LEMMA HoldingKept == HomeTypeOK /\ Holding /\ HomeNext => Holding'
<1> SUFFICES ASSUME HomeTypeOK, Holding, HomeNext, NEW r \in Readers
             PROVE  /\ ~Active(r)' => balance'[r] = Unread /\ net'[r] = Unread
                    /\ rpc'[r] \in {"checking", "logging"} => balance'[r] # Unread /\ net'[r] # Unread
  BY DEF Holding
<1>1. /\ rpc \in [Readers -> ReaderPCs]
      /\ balance \in [Readers -> Nat \cup {Unread}]
      /\ net \in [Readers -> Nat \cup {Unread, Unknown}]
      /\ position \in Nat /\ principal \in Nat
  BY DEF HomeTypeOK
<1>2. CASE Rests
  BY <1>2 DEF Rests, Holding, Active
<1>3. ASSUME NEW q \in Readers, Starts(q)
      PROVE  /\ ~Active(r)' => balance'[r] = Unread /\ net'[r] = Unread
             /\ rpc'[r] \in {"checking", "logging"} => balance'[r] # Unread /\ net'[r] # Unread
  BY <1>1, <1>3 DEF Starts, Holding, Active
<1>4. ASSUME NEW q \in Readers, ReadBalance(q) \/ ReadNet(q) \/ NetUnknown(q)
      PROVE  /\ ~Active(r)' => balance'[r] = Unread /\ net'[r] = Unread
             /\ rpc'[r] \in {"checking", "logging"} => balance'[r] # Unread /\ net'[r] # Unread
  BY <1>1, <1>4, NullsAssumption DEF ReadBalance, ReadNet, NetUnknown, Holding, Active
<1>5. ASSUME NEW q \in Readers, Turns(q)
      PROVE  /\ ~Active(r)' => balance'[r] = Unread /\ net'[r] = Unread
             /\ rpc'[r] \in {"checking", "logging"} => balance'[r] # Unread /\ net'[r] # Unread
  BY <1>1, <1>5 DEF Turns, BothRead, Holding, Active
<1>6. ASSUME NEW q \in Readers, Drops(q) \/ Charts(q)
      PROVE  /\ ~Active(r)' => balance'[r] = Unread /\ net'[r] = Unread
             /\ rpc'[r] \in {"checking", "logging"} => balance'[r] # Unread /\ net'[r] # Unread
  BY <1>1, <1>6 DEF Drops, Charts, Forget, Holding, Active
<1> QED
  BY <1>2, <1>3, <1>4, <1>5, <1>6, ReaderSteps

\* While a pair is read no call begins unseen.
LEMMA QuietKept ==
    ASSUME HomeTypeOK, HomeNext, Quiet, steady', NEW r \in Readers, rpc[r] = "reading"
    PROVE  Quiet' /\ UNCHANGED callVars
<1>1. pc \in [Calls -> PCs]
  BY DEF HomeTypeOK
<1>2. ASSUME NEW c \in Calls, Ask(c) PROVE FALSE
  BY <1>2 DEF Ask
<1>3. ASSUME NEW c \in Calls,
             Moves(c) \/ MovesUnseen(c) \/ Throw(c) \/ ReadPrincipal(c) \/ ReadFails(c)
             \/ Write(c) \/ WriteLost(c)
      PROVE  FALSE
  BY <1>3 DEF Moves, MovesUnseen, Throw, ReadPrincipal, ReadFails, Write, WriteLost, Goto,
     Quiet, Ended
<1>4. UNCHANGED callVars
  BY <1>2, <1>3, CallSteps DEF Interest
<1> QED
  BY <1>4 DEF Quiet, Ended, callVars

\* The two reads of a pair see no call at work.
LEMMA CalmKept == HomeTypeOK /\ Asked /\ Holding /\ Calm /\ HomeNext => Calm'
<1> SUFFICES ASSUME HomeTypeOK, Asked, Holding, Calm, HomeNext, steady', NEW r \in Readers,
                    rpc'[r] = "reading", balance'[r] \in Nat \/ net'[r] \in Nat
             PROVE  Quiet'
  BY DEF Calm
<1>1. /\ rpc \in [Readers -> ReaderPCs]
      /\ balance \in [Readers -> Nat \cup {Unread}]
      /\ net \in [Readers -> Nat \cup {Unread, Unknown}]
  BY DEF HomeTypeOK
<1>2. steady
  BY CallSteps
<1>3. ASSUME rpc[r] = "reading", balance[r] \in Nat \/ net[r] \in Nat PROVE Quiet'
  BY <1>2, <1>3, QuietKept DEF Calm
<1>4. CASE Rests
  BY <1>3, <1>4 DEF Rests
<1>5. ASSUME NEW q \in Readers, Starts(q) PROVE Quiet'
  BY <1>1, <1>3, <1>5, NullsAssumption DEF Starts, Holding, Active
<1>6. ASSUME NEW q \in Readers, ReadBalance(q) \/ ReadNet(q) PROVE Quiet'
  <2>1. CASE q = r
    <3>1. Undisturbed(r) /\ rpc[r] = "reading" /\ UNCHANGED callVars
      BY <1>6, <2>1 DEF ReadBalance, ReadNet
    <3>2. r \in Calls => pc[r] = "done"
      BY <3>1 DEF Asked
    <3>3. Quiet
      BY <3>1, <3>2 DEF Quiet, Undisturbed, Ended
    <3> QED
      BY <3>1, <3>3 DEF Quiet, Ended, callVars
  <2>2. CASE q # r
    BY <1>1, <1>3, <1>6, <2>2 DEF ReadBalance, ReadNet
  <2> QED
    BY <2>1, <2>2
<1>7. ASSUME NEW q \in Readers, NetUnknown(q) \/ Turns(q) \/ Drops(q) \/ Charts(q)
      PROVE  Quiet'
  BY <1>1, <1>3, <1>7, NullsAssumption DEF NetUnknown, Turns, Drops, Charts, Forget
<1> QED
  BY <1>4, <1>5, <1>6, <1>7, ReaderSteps

\* Readers that come one after another stay so.
LEMMA AloneKept == HomeTypeOK /\ Holding /\ Alone /\ HomeNext => Alone'
<1> SUFFICES ASSUME HomeTypeOK, Holding, Alone, HomeNext, apart',
                    NEW q \in Readers, NEW r \in Readers
             PROVE  (Active(q)' /\ Active(r)' => q = r) /\ net'[r] # Unknown
  BY DEF Alone
<1>1. /\ rpc \in [Readers -> ReaderPCs] /\ principal \in Nat
      /\ net \in [Readers -> Nat \cup {Unread, Unknown}]
  BY DEF HomeTypeOK
<1>2. (Active(q) /\ Active(r) => q = r) /\ net[r] # Unknown
  BY CallSteps DEF Alone
<1>3. CASE Rests
  BY <1>2, <1>3 DEF Rests, Active
<1>4. ASSUME NEW x \in Readers, Starts(x)
      PROVE  (Active(q)' /\ Active(r)' => q = r) /\ net'[r] # Unknown
  <2>1. ~Active(q) /\ ~Active(r)
    BY <1>4 DEF Starts
  <2> QED
    BY <1>1, <1>2, <1>4, <2>1 DEF Starts, Active
<1>5. ASSUME NEW x \in Readers, ReadBalance(x) \/ ReadNet(x)
      PROVE  (Active(q)' /\ Active(r)' => q = r) /\ net'[r] # Unknown
  BY <1>1, <1>2, <1>5, NullsAssumption DEF ReadBalance, ReadNet, Active
<1>6. ASSUME NEW x \in Readers, NetUnknown(x) PROVE FALSE
  BY <1>6 DEF NetUnknown
<1>7. ASSUME NEW x \in Readers, Turns(x) \/ Drops(x) \/ Charts(x)
      PROVE  (Active(q)' /\ Active(r)' => q = r) /\ net'[r] # Unknown
  <2>1. Active(x) /\ \A y \in Readers : Active(y)' => Active(y)
    BY <1>1, <1>7 DEF Turns, Drops, Charts, Active
  <2>2. net'[r] # Unknown
    BY <1>1, <1>2, <1>7, NullsAssumption DEF Turns, Drops, Charts, Forget
  <2> QED
    BY <1>2, <2>1, <2>2
<1> QED
  BY <1>3, <1>4, <1>5, <1>6, <1>7, ReaderSteps

\* What is gained follows the interest: whatever the calls do, the position less
\* the principal they leave grows by no more than the interest that is paid.
Drifts ==
    \A m \in Dues' : \E n \in Dues :
       /\ n \in 0 .. position /\ position - n <= interest
       /\ m \in 0 .. position' /\ position' - m <= position - n + (interest' - interest)

\* A withdrawal takes no more from the gain than there is.
LEMMA LessKeeps ==
    ASSUME NEW p \in Nat, NEW n \in 0 .. p, NEW a \in Nat
    PROVE  /\ Less(n, a) \in 0 .. Less(p, a) /\ Less(p, a) \in Nat
           /\ Less(p, a) - Less(n, a) <= p - n
  BY DEF Less

\* One call at a time: its record is the only one that is due.
LEMMA OneDue ==
    ASSUME HomeBooks, orderly, NEW c \in Calls, ~Ended(c)
    PROVE  /\ Dues = {Due(c)} /\ \A d \in Calls \ {c} : Ended(d)
           /\ Due(c) \in 0 .. position /\ position - Due(c) <= interest
<1>1. \A d \in Calls : ~Ended(d) => d = c
  BY DEF HomeBooks
<1>2. Dues = {Due(c)}
  BY <1>1 DEF Dues, Quiet
<1> QED
  BY <1>1, <1>2 DEF HomeBooks, Explains

\* The gain that a call leaves.
LEMMA Gains ==
    ASSUME HomeTypeOK, HomeBooks, HomeNext, orderly'
    PROVE  Drifts
<1>1. /\ position \in Nat /\ interest \in Nat /\ principal \in Nat
      /\ pc \in [Calls -> PCs] /\ read \in [Calls -> Nat] /\ orderly
  BY CallSteps, LimitsAssumption DEF HomeTypeOK
<1>2. \A n \in Dues : n \in 0 .. position /\ position - n <= interest
  BY <1>1, LimitsAssumption DEF HomeBooks, Explains
<1>3. ASSUME Dues' = Dues, position' = position, interest' = interest
      PROVE  Drifts
  BY <1>1, <1>2, <1>3 DEF Drifts
<1>4. CASE UNCHANGED <<fund, callVars>>
  BY <1>3, <1>4 DEF fund, callVars, Dues, Due, Quiet, Ended, Booked
<1>5. CASE Interest
  <2>1. Dues' = Dues
    BY <1>5 DEF Interest, callVars, Dues, Due, Quiet, Ended, Booked
  <2> QED
    BY <1>1, <1>2, <1>5, <2>1 DEF Interest, Drifts
<1>6. ASSUME NEW c \in Calls, Ask(c) PROVE Drifts
  <2>1. Quiet /\ Dues = {principal}
    BY <1>1, <1>6 DEF Ask, Quiet, Dues
  <2>2. pc' = [pc EXCEPT ![c] = "moving"] /\ UNCHANGED <<fund, principal, read>>
    BY <1>6 DEF Ask, Goto
  <2>3. ~Quiet' /\ \A d \in Calls : ~Ended(d)' => d = c
    BY <1>1, <2>1, <2>2 DEF Quiet, Ended
  <2>4. Dues' = {principal}
    BY <1>1, <2>2, <2>3 DEF Dues, Due, Ended
  <2> QED
    BY <1>3, <2>1, <2>2, <2>4 DEF fund
<1>7. ASSUME NEW c \in Calls, Moves(c) PROVE Drifts
  <2>1. /\ pc[c] = "moving" /\ pc' = [pc EXCEPT ![c] = Recording(c)] /\ position' = Moved(c)
        /\ UNCHANGED <<interest, principal, read>>
    BY <1>7 DEF Moves, Goto
  <2>2. /\ Dues = {principal} /\ \A d \in Calls \ {c} : Ended(d)
        /\ principal \in 0 .. position /\ position - principal <= interest
    BY <1>1, <2>1, OneDue DEF Ended, Due
  <2>3. Dues' = {Due(c)'}
    BY <1>1, <2>1, <2>2 DEF Dues, Quiet, Ended, Recording
  <2> DEFINE m == Due(c)'
  <2>4. m \in 0 .. position' /\ position' - m <= position - principal
    <3>1. CASE c \in Deposits
      <4>1. c \notin Withdrawals /\ c \notin Exits /\ amount[c] \in Nat
        BY <3>1, KindsAssumption, AmountsAssumption
      <4>2. position' = position + amount[c]
        BY <2>1, <3>1, <4>1 DEF Moved
      <4>3. m = principal + amount[c]
        BY <1>1, <2>1, <3>1, <4>1 DEF Due, Booked, Recording
      <4> QED
        BY <1>1, <2>2, <4>1, <4>2, <4>3
    <3>2. CASE c \in Withdrawals
      <4>1. c \notin Deposits /\ c \notin Exits /\ amount[c] \in Nat
        BY <3>2, KindsAssumption, AmountsAssumption
      <4>2. position' = Less(position, amount[c])
        BY <2>1, <3>2, <4>1 DEF Moved
      <4>3. m = Less(principal, amount[c])
        BY <1>1, <2>1, <3>2, <4>1 DEF Due, Booked, Recording
      <4> HIDE DEF m
      <4> QED
        BY <1>1, <2>2, <4>1, <4>2, <4>3, LessKeeps
    <3>3. CASE c \in Exits
      <4>1. c \notin Deposits /\ c \notin Withdrawals
        BY <3>3, KindsAssumption
      <4>2. position' = 0
        BY <2>1, <4>1 DEF Moved
      <4>3. m = 0
        BY <1>1, <2>1, <3>3, <4>1 DEF Due, Booked, Recording
      <4> QED
        BY <1>1, <2>2, <4>2, <4>3
    <3> QED
      BY <3>1, <3>2, <3>3 DEF Calls
  <2> HIDE DEF m
  <2>5. Dues' = {m}
    BY <2>3 DEF m
  <2> QED
    BY <1>1, <2>1, <2>2, <2>4, <2>5 DEF Drifts
<1>8. ASSUME NEW c \in Calls, Throw(c) PROVE Drifts
  <2>1. pc[c] = "moving" /\ ~Ended(c) /\ pc' = [pc EXCEPT ![c] = "done"]
        /\ UNCHANGED <<fund, principal>>
    BY <1>8 DEF Throw
  <2>2. Dues = {principal} /\ \A d \in Calls \ {c} : Ended(d)
    BY <1>1, <2>1, OneDue DEF Due
  <2>3. Quiet'
    BY <1>1, <2>1, <2>2 DEF Quiet, Ended
  <2>4. Dues' = {principal}
    BY <2>1, <2>3 DEF Dues
  <2> QED
    BY <1>3, <2>1, <2>2, <2>4 DEF fund
<1>9. ASSUME NEW c \in Calls, ReadPrincipal(c) PROVE Drifts
  <2>1. /\ pc[c] = "record" /\ pc' = [pc EXCEPT ![c] = "writing"]
        /\ read' = [read EXCEPT ![c] = principal] /\ UNCHANGED <<fund, principal>>
    BY <1>9 DEF ReadPrincipal, Goto
  <2>2. Dues = {Booked(c, principal)} /\ \A d \in Calls \ {c} : Ended(d)
    BY <1>1, <2>1, OneDue DEF Due, Ended
  <2>3. Dues' = {Due(c)'}
    BY <1>1, <2>1, <2>2 DEF Dues, Quiet, Ended
  <2>4. Due(c)' = Booked(c, principal)
    BY <1>1, <2>1 DEF Due, Booked
  <2> QED
    BY <1>3, <2>1, <2>2, <2>3, <2>4 DEF fund
<1>10. ASSUME NEW c \in Calls, Write(c) PROVE Drifts
  <2>1. /\ pc[c] = "writing" /\ pc' = [pc EXCEPT ![c] = "done"] /\ UNCHANGED fund
        /\ principal' = Booked(c, read[c])
    BY <1>10, DueNat DEF Write, Goto
  <2>2. Dues = {Booked(c, read[c])} /\ \A d \in Calls \ {c} : Ended(d)
    BY <1>1, <2>1, OneDue DEF Due, Ended
  <2>3. Quiet'
    BY <1>1, <2>1, <2>2 DEF Quiet, Ended
  <2>4. Dues' = {principal'}
    BY <2>3 DEF Dues
  <2> QED
    BY <1>3, <2>1, <2>2, <2>4 DEF fund
<1>11. ASSUME NEW c \in Calls, MovesUnseen(c) \/ ReadFails(c) \/ WriteLost(c) PROVE FALSE
  BY <1>11 DEF MovesUnseen, ReadFails, WriteLost
<1> QED
  BY <1>4, <1>5, <1>6, <1>7, <1>8, <1>9, <1>10, <1>11, CallSteps

\* A gain of g is carried along.
LEMMA Carried ==
    ASSUME NEW p \in Int, NEW q \in Int, NEW i \in Int, NEW j \in Int, NEW n \in Int,
           NEW m \in Int, q - m <= p - n + (j - i)
    PROVE  /\ p - n <= i => q - m <= j
           /\ \A g, b \in Int : p - n - g <= i - b => q - m - g <= j - b
  OBVIOUS

\* While calls come one after another, the principal explains the position.
LEMMA BooksKept == HomeTypeOK /\ HomeBooks /\ HomeNext => HomeBooks'
<1> SUFFICES ASSUME HomeTypeOK, HomeBooks, HomeNext, orderly' PROVE HomeBooks'
  BY DEF HomeBooks
<1>1. /\ pc \in [Calls -> PCs] /\ orderly /\ \A c, d \in Calls : ~Ended(c) /\ ~Ended(d) => c = d
  BY CallSteps DEF HomeTypeOK, HomeBooks
<1>2. ASSUME NEW c \in Calls, NEW d \in Calls, ~Ended(c)', ~Ended(d)' PROVE c = d
  <2>1. ASSUME NEW x \in Calls, Ask(x) PROVE c = d
    BY <1>1, <1>2, <2>1 DEF Ask, Goto, Ended
  <2>2. ASSUME NEW x \in Calls, Moves(x) \/ Throw(x) \/ ReadPrincipal(x) \/ Write(x)
        PROVE  c = d
    BY <1>1, <1>2, <2>2 DEF Moves, Throw, ReadPrincipal, Write, Goto, Ended, Recording
  <2>3. ASSUME NEW x \in Calls, MovesUnseen(x) \/ ReadFails(x) \/ WriteLost(x) PROVE FALSE
    BY <2>3 DEF MovesUnseen, ReadFails, WriteLost
  <2>4. CASE UNCHANGED pc
    BY <1>1, <1>2, <2>4 DEF Ended
  <2> QED
    BY <2>1, <2>2, <2>3, <2>4, CallSteps DEF callVars, Interest
<1>3. Drifts /\ position' \in Nat /\ interest' \in Nat /\ interest <= interest'
  BY Gains, CallTypesKept, LimitsAssumption DEF CallTypes
<1>4. position \in Nat /\ interest \in Nat
  BY LimitsAssumption DEF HomeTypeOK
<1>5. ASSUME NEW m \in Dues' PROVE Explains(m)'
  <2>1. PICK n \in Dues : /\ n \in 0 .. position /\ position - n <= interest
                          /\ m \in 0 .. position'
                          /\ position' - m <= position - n + (interest' - interest)
    BY <1>3, <1>5 DEF Drifts
  <2>2. m \in 0 .. position'
    BY <2>1
  <2>3. n \in Int /\ m \in Int
    BY <1>3, <1>4, <2>1
  <2>4. position - n <= interest
    BY <2>1
  <2>5. position' - m <= position - n + (interest' - interest)
    BY <2>1
  <2>6. position' - m <= interest'
    <3>1. position' \in Int /\ interest' \in Int /\ position \in Int /\ interest \in Int
      BY <1>3, <1>4
    <3> QED
      BY <2>3, <2>4, <2>5, <3>1, Carried
  <2> QED
    BY <2>2, <2>6 DEF Explains
<1> QED
  BY <1>2, <1>5 DEF HomeBooks

\* A reader keeps its hands as they are, fills one, or empties both.
Keeps(r) ==
    /\ balance'[r] = balance[r] /\ net'[r] = net[r]
    /\ rpc'[r] = "reading" => rpc[r] = "reading" \/ (balance[r] = Unread /\ net[r] = Unread)
LEMMA Hands ==
    ASSUME HomeTypeOK, Holding, HomeNext, NEW r \in Readers
    PROVE  \/ Keeps(r) \/ ReadBalance(r) \/ ReadNet(r) \/ NetUnknown(r)
           \/ balance'[r] = Unread /\ net'[r] = Unread /\ rpc'[r] = "done"
<1>1. /\ rpc \in [Readers -> ReaderPCs]
      /\ balance \in [Readers -> Nat \cup {Unread}]
      /\ net \in [Readers -> Nat \cup {Unread, Unknown}]
  BY DEF HomeTypeOK
<1>2. CASE Rests
  BY <1>2 DEF Rests, Keeps
<1>3. ASSUME NEW q \in Readers, Starts(q) PROVE Keeps(r)
  BY <1>1, <1>3 DEF Starts, Keeps, Holding, Active
<1>4. ASSUME NEW q \in Readers, q # r, ReadBalance(q) \/ ReadNet(q) \/ NetUnknown(q)
      PROVE  Keeps(r)
  BY <1>1, <1>4 DEF ReadBalance, ReadNet, NetUnknown, Keeps
<1>5. ASSUME NEW q \in Readers, Turns(q) PROVE Keeps(r)
  BY <1>1, <1>5 DEF Turns, Keeps
<1>6. ASSUME NEW q \in Readers, Drops(q) \/ Charts(q)
      PROVE  Keeps(r) \/ (balance'[r] = Unread /\ net'[r] = Unread /\ rpc'[r] = "done")
  BY <1>1, <1>6 DEF Drops, Charts, Forget, Keeps
<1> QED
  BY <1>2, <1>3, <1>4, <1>5, <1>6, ReaderSteps

\* A reader that has begun is at its reading, and no call is at work.
LEMMA Midway ==
    ASSUME HomeTypeOK, Holding, Calm, HomeNext, steady', NEW r \in Readers,
           \/ balance[r] \in Nat /\ net[r] = Unread
           \/ rpc[r] = "reading" /\ net[r] \in Nat
    PROVE  rpc[r] = "reading" /\ Quiet /\ UNCHANGED callVars
<1>1. rpc[r] = "reading"
  BY NullsAssumption DEF Holding, Active, HomeTypeOK, ReaderPCs
<1>2. Quiet
  BY <1>1, CallSteps DEF Calm
<1> QED
  BY <1>1, <1>2, QuietKept

\* What a reader holds is worth the same after a step.
LEMMA GapKept ==
    ASSUME HomeTypeOK, Holding, Calm, HomeNext, steady', NEW r \in Readers, Keeps(r),
           balance[r] \in Nat, net[r] # Unknown
    PROVE  Gap(r)' = Gap(r)
<1>1. CASE net[r] \in Nat
  BY <1>1 DEF Keeps, Gap, NetOf
<1>2. CASE net[r] = Unread
  <2>1. principal' = principal
    BY <1>2, Midway DEF callVars
  <2> QED
    BY <1>2, <2>1 DEF Keeps, Gap, NetOf
<1> QED
  BY <1>1, <1>2 DEF HomeTypeOK

\* A balance that is read is what the principal and the interest explain.
LEMMA FreshPair ==
    ASSUME HomeTypeOK, HomeBooks, Asked, Pairs, HomeNext, orderly', steady',
           NEW r \in Readers, ReadBalance(r), net[r] # Unknown
    PROVE  /\ Dues = {principal} /\ Dues' = {principal}
           /\ UNCHANGED <<fund, callVars>>
           /\ principal \in 0 .. position /\ position - principal <= interest
           /\ Gap(r)' = position - principal
<1>1. orderly /\ steady
  BY CallSteps
<1>2. UNCHANGED <<fund, callVars>> /\ net' = net /\ rpc[r] = "reading"
  BY DEF ReadBalance
<1>3. Quiet
  <2>1. Undisturbed(r)
    BY DEF ReadBalance
  <2>2. r \in Calls => pc[r] = "done"
    BY <1>2 DEF Asked
  <2> QED
    BY <2>1, <2>2 DEF Quiet, Undisturbed, Ended
<1>4. Dues = {principal} /\ Dues' = {principal}
  BY <1>2, <1>3 DEF Dues, Quiet, Ended, callVars
<1>5. Explains(principal) /\ principal \in Nat /\ position \in Nat /\ interest \in Nat
  BY <1>1, <1>4, LimitsAssumption DEF HomeBooks, HomeTypeOK
<1>6. balance'[r] = position
  BY DEF ReadBalance, HomeTypeOK
<1>7. NetOf(r)' = principal
  <2>1. CASE net[r] \in Nat
    BY <1>1, <1>2, <2>1 DEF NetOf, Pairs
  <2>2. CASE net[r] = Unread
    BY <1>2, <2>2, NullsAssumption DEF NetOf, callVars
  <2> QED
    BY <2>1, <2>2 DEF HomeTypeOK
<1> QED
  BY <1>2, <1>4, <1>5, <1>6, <1>7 DEF Gap, Explains

\* The other half of the pair does not change what it is worth.
LEMMA PairCompleted ==
    ASSUME HomeTypeOK, NEW r \in Readers, ReadNet(r)
    PROVE  /\ UNCHANGED <<fund, callVars, balance>> /\ net'[r] = principal
           /\ Gap(r)' = Gap(r)
<1>1. UNCHANGED <<fund, callVars, balance>> /\ net[r] = Unread /\ net'[r] = principal
  BY DEF ReadNet, HomeTypeOK
<1>2. principal \in Nat /\ principal' = principal
  BY <1>1 DEF HomeTypeOK, callVars
<1> QED
  BY <1>1, <1>2, NullsAssumption DEF Gap, NetOf

\* What readers have in their hands is explained by the interest.
LEMMA PairsKept ==
    ASSUME HomeTypeOK, HomeBooks, Asked, Holding, Calm, Pairs, HomeNext
    PROVE  Pairs'
<1> SUFFICES ASSUME orderly', steady', NEW r \in Readers
             PROVE  /\ rpc'[r] = "reading" /\ net'[r] \in Nat => net'[r] = principal'
                    /\ balance'[r] \in Nat /\ net'[r] # Unknown => Gap(r)' \in 0 .. interest'
  BY DEF Pairs
<1>1. /\ orderly /\ steady /\ interest \in Nat /\ interest' \in Nat /\ interest <= interest'
      /\ position \in Nat /\ principal \in Nat
      /\ balance \in [Readers -> Nat \cup {Unread}]
      /\ net \in [Readers -> Nat \cup {Unread, Unknown}]
  <2>1. (orderly' => orderly) /\ (steady' => steady) /\ (apart' => apart)
    BY CallSteps
  <2>2. CallTypes' /\ interest <= interest'
    BY CallTypesKept
  <2>3. CallTypes /\ interest \in Nat /\ interest' \in Nat
    BY <2>2, LimitsAssumption DEF CallTypes, HomeTypeOK
  <2> QED
    BY <2>1, <2>2, <2>3 DEF CallTypes, HomeTypeOK
<1>2. /\ rpc[r] = "reading" /\ net[r] \in Nat => net[r] = principal
      /\ balance[r] \in Nat /\ net[r] # Unknown => Gap(r) \in 0 .. interest
  BY <1>1 DEF Pairs
<1>3. CASE Keeps(r)
  <2>1. rpc'[r] = "reading" /\ net'[r] \in Nat => net'[r] = principal'
    <3>1. ASSUME rpc[r] = "reading", net[r] \in Nat PROVE net[r] = principal'
      BY <1>2, <3>1, Midway DEF callVars
    <3> QED
      BY <1>3, <3>1, NullsAssumption DEF Keeps
  <2>2. ASSUME balance[r] \in Nat, net[r] # Unknown PROVE Gap(r)' \in 0 .. interest'
    BY <1>1, <1>2, <1>3, <2>2, GapKept
  <2> QED
    BY <1>3, <2>1, <2>2 DEF Keeps
<1>4. CASE ReadBalance(r)
  <2>1. net'[r] = net[r] /\ rpc'[r] = rpc[r] /\ principal' = principal /\ rpc[r] = "reading"
    BY <1>4 DEF ReadBalance, callVars
  <2>2. net[r] # Unknown => Gap(r)' \in 0 .. interest'
    <3>1. ASSUME net[r] # Unknown PROVE Gap(r)' \in 0 .. interest'
      <4>1. Gap(r)' = position - principal /\ principal \in 0 .. position
            /\ position - principal <= interest
        BY <1>4, <3>1, FreshPair
      <4> QED
        BY <1>1, <4>1
    <3> QED
      BY <3>1
  <2> QED
    BY <1>2, <2>1, <2>2
<1>5. CASE ReadNet(r)
  <2>1. /\ UNCHANGED <<fund, callVars, balance>> /\ net'[r] = principal /\ Gap(r)' = Gap(r)
        /\ net[r] = Unread
    BY <1>5, PairCompleted DEF ReadNet
  <2> QED
    BY <1>1, <1>2, <2>1, NullsAssumption DEF callVars, fund
<1>6. CASE NetUnknown(r)
  <2>1. net'[r] = Unknown
    BY <1>1, <1>6 DEF NetUnknown
  <2> QED
    BY <2>1, NullsAssumption
<1>7. CASE balance'[r] = Unread /\ net'[r] = Unread /\ rpc'[r] = "done"
  BY <1>7, NullsAssumption
<1> QED
  BY <1>3, <1>4, <1>5, <1>6, <1>7, Hands

\* What the screen shows is explained by the interest.
LEMMA ScreenKept ==
    ASSUME HomeTypeOK, Holding, Pairs, Screen, HomeNext
    PROVE  Screen'
<1> SUFFICES ASSUME orderly', steady', shown'.net # Unknown
             PROVE  shown'.v <= shown'.net + interest'
  BY DEF Screen
<1>1. /\ orderly /\ steady /\ interest \in Nat /\ interest' \in Nat /\ interest <= interest'
      /\ shown \in [v : Nat, net : Nat \cup {Unknown}]
  <2>1. (orderly' => orderly) /\ (steady' => steady) /\ (apart' => apart)
    BY CallSteps
  <2>2. CallTypes' /\ interest <= interest'
    BY CallTypesKept
  <2>3. CallTypes /\ interest \in Nat /\ interest' \in Nat
    BY <2>2, LimitsAssumption DEF CallTypes, HomeTypeOK
  <2> QED
    BY <2>1, <2>2, <2>3 DEF CallTypes, HomeTypeOK
<1>2. CASE shown' = shown
  <2>1. shown.v \in Nat /\ shown.net \in Nat /\ shown.v <= shown.net + interest
    BY <1>1, <1>2 DEF Screen
  <2> QED
    BY <1>1, <1>2, <2>1
<1>3. ASSUME NEW r \in Readers, BothRead(r), shown' = [v |-> balance[r], net |-> net[r]]
      PROVE  shown'.v <= shown'.net + interest'
  <2>1. balance[r] \in Nat /\ net[r] \in Nat
    BY <1>3 DEF BothRead, HomeTypeOK
  <2>2. Gap(r) \in 0 .. interest
    BY <1>1, <2>1, NullsAssumption DEF Pairs
  <2> QED
    BY <1>1, <1>3, <2>1, <2>2 DEF Gap, NetOf
<1>4. \/ shown' = shown
      \/ \E r \in Readers : BothRead(r) /\ shown' = [v |-> balance[r], net |-> net[r]]
  BY ReaderSteps DEF Rests, Starts, ReadBalance, ReadNet, NetUnknown, Turns, Drops, Charts,
     screenVars
<1> QED
  BY <1>2, <1>3, <1>4

----------------------------------------------------------------------------
(* The chart *)

\* The gains of the points are numbers, and a new point changes no older one.
LEMMA GainTypes ==
    ASSUME HomeTypeOK
    PROVE  \A k \in 0 .. Len(points) : Gain(k) \in Int
<1> DEFINE P == [v : Nat, net : Nat]
<1>1. points \in Seq(P)
  BY DEF HomeTypeOK
<1>2. ASSUME NEW k \in 0 .. Len(points), k # 0 PROVE points[k].v \in Nat /\ points[k].net \in Nat
  <2>1. k \in 1 .. Len(points)
    BY <1>1, <1>2
  <2>2. points[k] \in P
    <3> HIDE DEF P
    <3> QED
      BY <1>1, <2>1
  <2> QED
    BY <2>2
<1> QED
  BY <1>2 DEF Gain

\* What can be followed can be followed after a step.
LEMMA LeavesKept ==
    ASSUME Drifts, NEW g \in Int, NEW b \in Int, Leaves(g, b),
           position \in Nat, position' \in Nat, interest \in Nat, interest' \in Nat
    PROVE  \A m \in Dues' : position' - m - g <= interest' - b
<1> SUFFICES ASSUME NEW m \in Dues' PROVE position' - m - g <= interest' - b
  OBVIOUS
<1>1. PICK n \in Dues : /\ n \in 0 .. position /\ m \in 0 .. position'
                        /\ position' - m <= position - n + (interest' - interest)
  BY DEF Drifts
<1>2. position - n - g <= interest - b
  BY DEF Leaves
<1> DEFINE p == position
           q == position'
           i == interest
           j == interest'
<1>3. p \in Int /\ q \in Int /\ i \in Int /\ j \in Int
  OBVIOUS
<1>4. n \in Int /\ m \in Int
  BY <1>1
<1>5. q - m <= p - n + (j - i)
  BY <1>1
<1>6. p - n - g <= i - b
  BY <1>2
<1>7. q - m - g <= j - b
  <2> HIDE DEF p, q, i, j
  <2> QED
    BY <1>3, <1>4, <1>5, <1>6
<1> QED
  BY <1>7

\* A reader's hands after a step that adds no point.
LEMMA HandsStamped ==
    ASSUME HomeTypeOK, HomeBooks, Asked, Holding, Calm, Pairs, Alone, HomeNext,
           orderly', steady', apart',
           NEW g \in Int, NEW t \in 0 .. interest, Leaves(g, t),
           NEW r \in Readers, balance'[r] \in Nat,
           balance[r] \in Nat => \E b \in t .. interest : Gap(r) - g <= b - t /\ Leaves(Gap(r), b)
    PROVE  \E b \in t .. interest' : Gap(r)' - g <= b - t /\ Leaves(Gap(r), b)'
<1>1. /\ orderly /\ steady /\ apart /\ interest \in Nat /\ interest' \in Nat
      /\ interest <= interest' /\ position \in Nat /\ principal \in Nat /\ position' \in Nat
      /\ balance \in [Readers -> Nat \cup {Unread}]
      /\ net \in [Readers -> Nat \cup {Unread, Unknown}]
  <2>1. (orderly' => orderly) /\ (steady' => steady) /\ (apart' => apart)
    BY CallSteps
  <2>2. CallTypes' /\ interest <= interest'
    BY CallTypesKept
  <2>3. CallTypes /\ interest \in Nat /\ interest' \in Nat
    BY <2>2, LimitsAssumption DEF CallTypes, HomeTypeOK
  <2> QED
    BY <2>1, <2>2, <2>3 DEF CallTypes, HomeTypeOK
<1>2. net[r] # Unknown
  BY <1>1 DEF Alone
<1>3. ASSUME balance[r] \in Nat, Gap(r)' = Gap(r)
      PROVE  \E b \in t .. interest' : Gap(r)' - g <= b - t /\ Leaves(Gap(r), b)'
  <2>1. PICK b \in t .. interest : Gap(r) - g <= b - t /\ Leaves(Gap(r), b)
    BY <1>3
  <2>2. Gap(r) \in Int
    BY <1>1, <1>2, <1>3 DEF Pairs
  <2> DEFINE x == Gap(r)
  <2>3. x \in Int /\ Leaves(x, b) /\ Gap(r)' = x
    BY <1>3, <2>1, <2>2
  <2> HIDE DEF x
  <2>4. \A m \in Dues' : position' - m - x <= interest' - b
    BY <1>1, <2>3, Gains, LeavesKept
  <2>5. Leaves(Gap(r), b)'
    BY <2>3, <2>4 DEF Leaves
  <2>6. b \in t .. interest' /\ Gap(r)' - g <= b - t
    BY <1>1, <1>3, <2>1
  <2> QED
    BY <2>5, <2>6
<1>4. CASE Keeps(r)
  <2>1. balance[r] \in Nat
    BY <1>4 DEF Keeps
  <2> QED
    BY <1>2, <1>3, <1>4, <2>1, GapKept
<1>5. CASE ReadBalance(r)
  <2>1. /\ Dues = {principal} /\ Dues' = {principal} /\ interest' = interest
        /\ position' = position /\ Gap(r)' = position - principal
    BY <1>2, <1>5, FreshPair DEF fund
  <2>2. position - principal - g <= interest - t
    BY <2>1 DEF Leaves
  <2>3. Leaves(Gap(r), interest)'
    BY <1>1, <2>1 DEF Leaves
  <2>4. interest \in t .. interest' /\ Gap(r)' - g <= interest - t
    BY <1>1, <2>1, <2>2
  <2> QED
    BY <2>1, <2>3, <2>4
<1>6. CASE ReadNet(r)
  <2>1. balance[r] \in Nat /\ Gap(r)' = Gap(r)
    BY <1>6, PairCompleted
  <2> QED
    BY <1>3, <2>1
<1>7. CASE NetUnknown(r)
  BY <1>7 DEF NetUnknown
<1>8. CASE balance'[r] = Unread
  BY <1>8, NullsAssumption
<1> QED
  BY <1>4, <1>5, <1>6, <1>7, <1>8, Hands

\* Gains that follow the interest, one after another.
LEMMA Follows ==
    ASSUME NEW x \in Int, NEW b \in Int, NEW g \in Int, NEW t \in Int, NEW h \in Int,
           NEW i \in Int, i <= t, t <= b, x - g <= b - t, g - h <= t - i
    PROVE  i <= b /\ x - h <= b - i
  OBVIOUS

\* A point that is added is stamped with the interest its reader saw.
LEMMA PointAdded ==
    ASSUME HomeTypeOK, Holding, Pairs, Alone, Chart, orderly, steady, apart,
           UNCHANGED <<fund, callVars>>, NEW r \in Readers, Charts(r)
    PROVE  \E s \in [0 .. Len(points') -> 0 .. interest'] : Stamped(s)'
<1>0. PICK N \in Nat : N = Len(points)
  BY DEF HomeTypeOK
<1>1. /\ N \in Nat /\ points \in Seq([v : Nat, net : Nat]) /\ interest \in Nat
      /\ interest' = interest /\ position' = position
  BY LimitsAssumption DEF HomeTypeOK, fund
<1>2. balance[r] \in Nat /\ net[r] \in Nat
  BY DEF Charts, BothRead, Alone, HomeTypeOK
<1>3. PICK x \in 0 .. interest : x = balance[r] - net[r] /\ x = Gap(r)
  BY <1>2, NullsAssumption DEF Gap, NetOf, Pairs
<1>4. points' = Append(points, [v |-> balance[r], net |-> net[r]])
  BY <1>2, NullsAssumption DEF Charts, Known
<1>5. Len(points') = N + 1 /\ \A k \in 1 .. N : points'[k] = points[k]
  BY <1>0, <1>1, <1>4
<1>6. points'[N + 1] = [v |-> balance[r], net |-> net[r]]
  BY <1>0, <1>1, <1>4
<1>7. \A k \in 0 .. N : Gain(k)' = Gain(k)
  BY <1>1, <1>5 DEF Gain
<1>8. Gain(N + 1)' = x
  BY <1>0, <1>1, <1>3, <1>6 DEF Gain
<1>9. PICK s \in [0 .. N -> 0 .. interest] : Stamped(s)
  BY <1>0 DEF Chart
<1>10. PICK b \in s[N] .. interest : Gap(r) - Gain(N) <= b - s[N] /\ Leaves(Gap(r), b)
  BY <1>0, <1>2, <1>9 DEF Stamped
<1>11. x \in Nat /\ b \in 0 .. interest /\ s[N] \in 0 .. interest /\ s[N] <= b
       /\ Gain(N) \in Int /\ x - Gain(N) <= b - s[N]
  <2>1. N \in 0 .. N /\ Gain(N) \in Int
    BY <1>0, GainTypes
  <2>2. s[N] \in 0 .. interest
    BY <1>9, <2>1
  <2> QED
    BY <1>1, <1>3, <1>10, <2>1, <2>2
<1>12. PICK t \in [0 .. N + 1 -> 0 .. interest] :
          t[N + 1] = b /\ \A k \in 0 .. N : t[k] = s[k]
  <2> DEFINE u == [k \in 0 .. N + 1 |-> IF k = N + 1 THEN b ELSE s[k]]
  <2>1. ASSUME NEW k \in 0 .. N + 1 PROVE u[k] \in 0 .. interest
    BY <1>9, <1>11
  <2>2. u \in [0 .. N + 1 -> 0 .. interest]
    BY <2>1
  <2>3. u[N + 1] = b /\ \A k \in 0 .. N : u[k] = s[k]
    OBVIOUS
  <2> QED
    BY <2>2, <2>3
<1>13. \A k \in 0 .. N + 1 : Gain(k)' >= 0
  <2>1. \A k \in 0 .. N : Gain(k) >= 0
    BY <1>0, <1>9 DEF Stamped
  <2>2. \A k \in 0 .. N : Gain(k)' >= 0
    BY <1>7, <2>1
  <2>3. Gain(N + 1)' >= 0
    BY <1>8, <1>11
  <2>4. \A k \in 0 .. N + 1 : k \in 0 .. N \/ k = N + 1
    BY <1>1
  <2> QED
    BY <2>2, <2>3, <2>4
<1>14. ASSUME NEW j \in 0 .. N + 1, NEW k \in 0 .. N + 1, j < k
       PROVE  t[j] <= t[k] /\ Gain(k)' - Gain(j)' <= t[k] - t[j]
  <2>1. CASE k \in 0 .. N
    <3>1. j \in 0 .. N
      BY <1>1, <1>14, <2>1
    <3>2. s[j] <= s[k] /\ Gain(k) - Gain(j) <= s[k] - s[j]
      BY <1>0, <1>9, <1>14, <2>1, <3>1 DEF Stamped
    <3> QED
      BY <1>7, <1>12, <2>1, <3>1, <3>2
  <2>2. CASE k = N + 1
    <3>1. j \in 0 .. N
      BY <1>1, <1>14, <2>2
    <3>2. /\ s[j] \in Int /\ Gain(j) \in Int
          /\ s[j] <= s[N] /\ Gain(N) - Gain(j) <= s[N] - s[j]
      <4>1. s[j] \in Int /\ Gain(j) \in Int
        BY <1>0, <1>9, <3>1, GainTypes
      <4>2. CASE j = N
        BY <1>11, <4>1, <4>2
      <4>3. CASE j < N
        <5>1. N \in 0 .. N
          BY <1>1
        <5> QED
          BY <1>0, <1>9, <3>1, <4>1, <4>3, <5>1 DEF Stamped
      <4> QED
        BY <1>1, <3>1, <4>2, <4>3
    <3>3. s[j] <= b /\ x - Gain(j) <= b - s[j]
      <4>1. x \in Int /\ b \in Int /\ s[N] \in Int
        BY <1>11
      <4>2. s[j] <= s[N] /\ s[N] <= b
        BY <1>11, <3>2
      <4>3. x - Gain(N) <= b - s[N] /\ Gain(N) - Gain(j) <= s[N] - s[j]
        BY <1>11, <3>2
      <4>4. s[j] \in Int /\ Gain(j) \in Int /\ Gain(N) \in Int
        BY <1>11, <3>2
      <4> QED
        BY <4>1, <4>2, <4>3, <4>4, Follows
    <3> QED
      BY <1>7, <1>8, <1>12, <2>2, <3>1, <3>3
  <2> QED
    BY <1>1, <2>1, <2>2
<1>15. Leaves(Gain(N + 1), b)'
  <2>1. Dues' = Dues
    BY DEF callVars, Dues, Due, Quiet, Ended, Booked
  <2>2. \A n \in Dues : position - n - x <= interest - b
    BY <1>3, <1>10 DEF Leaves
  <2> QED
    BY <1>1, <1>8, <2>1, <2>2 DEF Leaves
<1>16. \A q \in Readers : balance'[q] \notin Nat
  <2>1. Active(r) /\ Forget(r)
    BY DEF Charts
  <2>2. ASSUME NEW q \in Readers, q # r PROVE balance[q] = Unread
    BY <2>1, <2>2 DEF Alone, Holding
  <2> QED
    BY <2>1, <2>2, NullsAssumption DEF Forget, HomeTypeOK
<1>17. Stamped(t)'
  <2>1. \A k \in 0 .. Len(points') : Gain(k)' >= 0
    BY <1>5, <1>13
  <2>2. \A j, k \in 0 .. Len(points') :
           j < k => t[j] <= t[k] /\ Gain(k)' - Gain(j)' <= t[k] - t[j]
    BY <1>5, <1>14
  <2>3. Leaves(Gain(Len(points)), t[Len(points)])'
    BY <1>5, <1>12, <1>15
  <2> QED
    BY <1>16, <2>1, <2>2, <2>3 DEF Stamped
<1> QED
  BY <1>1, <1>5, <1>12, <1>17

\* The chart stays explained by the interest.
LEMMA ChartKept ==
    ASSUME HomeTypeOK, HomeBooks, Asked, Holding, Calm, Pairs, Alone, Chart, HomeNext
    PROVE  Chart'
<1> SUFFICES ASSUME orderly', steady', apart'
             PROVE  \E s \in [0 .. Len(points') -> 0 .. interest'] : Stamped(s)'
  BY DEF Chart
<1>1. /\ orderly /\ steady /\ apart /\ interest \in Nat /\ interest' \in Nat
      /\ interest <= interest' /\ position \in Nat /\ position' \in Nat
      /\ points \in Seq([v : Nat, net : Nat])
  <2>1. (orderly' => orderly) /\ (steady' => steady) /\ (apart' => apart)
    BY CallSteps
  <2>2. CallTypes' /\ interest <= interest'
    BY CallTypesKept
  <2>3. CallTypes /\ interest \in Nat /\ interest' \in Nat
    BY <2>2, LimitsAssumption DEF CallTypes, HomeTypeOK
  <2> QED
    BY <2>1, <2>2, <2>3 DEF CallTypes, HomeTypeOK
<1>2. ASSUME points' = points
      PROVE  \E s \in [0 .. Len(points') -> 0 .. interest'] : Stamped(s)'
  <2>0. PICK N \in Nat : N = Len(points)
    BY <1>1
  <2>1. PICK s \in [0 .. N -> 0 .. interest] : Stamped(s)
    BY <1>1, <2>0 DEF Chart
  <2>2. N \in Nat /\ N \in 0 .. N
    BY <1>1
  <2>3. s \in [0 .. N -> 0 .. interest'] /\ s[N] \in 0 .. interest
    BY <1>1, <2>1, <2>2
  <2>4. \A k \in 0 .. N : Gain(k)' = Gain(k)
    BY <1>2 DEF Gain
  <2>5. PICK g \in Int, t \in 0 .. interest :
           g = Gain(N) /\ t = s[N] /\ Leaves(g, t) /\ Gain(N)' = g
    <3>1. Gain(N) \in Int /\ s[N] \in 0 .. interest
      BY <2>0, <2>2, <2>3, GainTypes
    <3>2. Leaves(Gain(N), s[N])
      BY <2>0, <2>1 DEF Stamped
    <3> QED
      BY <2>2, <2>4, <3>1, <3>2
  <2>6. \A r \in Readers : balance[r] \in Nat =>
           \E b \in t .. interest : Gap(r) - g <= b - t /\ Leaves(Gap(r), b)
    BY <2>0, <2>1, <2>5 DEF Stamped
  <2>7. \A m \in Dues' : position' - m - g <= interest' - t
    <3>1. t \in Int
      BY <1>1
    <3> QED
      BY <1>1, <2>5, <3>1, Gains, LeavesKept
  <2>8. Leaves(Gain(N), t)'
    BY <2>5, <2>7 DEF Leaves
  <2>9. ASSUME NEW r \in Readers, balance'[r] \in Nat
        PROVE  \E b \in t .. interest' : Gap(r)' - g <= b - t /\ Leaves(Gap(r), b)'
    BY <2>5, <2>6, <2>9, HandsStamped
  <2>10. \A k \in 0 .. N : Gain(k)' >= 0
    BY <2>0, <2>1, <2>4 DEF Stamped
  <2>11. \A j, k \in 0 .. N : j < k => s[j] <= s[k] /\ Gain(k)' - Gain(j)' <= s[k] - s[j]
    BY <2>0, <2>1, <2>4 DEF Stamped
  <2>12. Len(points') = N
    BY <1>2, <2>0
  <2>13. Stamped(s)'
    <3>1. \A k \in 0 .. Len(points') : Gain(k)' >= 0
      BY <2>10, <2>12
    <3>2. \A j, k \in 0 .. Len(points') :
             j < k => s[j] <= s[k] /\ Gain(k)' - Gain(j)' <= s[k] - s[j]
      BY <2>11, <2>12
    <3>3. Leaves(Gain(Len(points)), s[Len(points)])'
      BY <2>5, <2>8, <2>12
    <3>4. ASSUME NEW r \in Readers, balance'[r] \in Nat
          PROVE  \E b \in s[Len(points')] .. interest' :
                    /\ Gap(r)' - Gain(Len(points))' <= b - s[Len(points')]
                    /\ Leaves(Gap(r), b)'
      <4>1. s[Len(points')] = t /\ Gain(Len(points))' = g
        BY <2>5, <2>12
      <4> QED
        BY <2>9, <3>4, <4>1
    <3> QED
      BY <3>1, <3>2, <3>3, <3>4 DEF Stamped
  <2> QED
    BY <2>3, <2>12, <2>13
<1>3. ASSUME NEW r \in Readers, Charts(r), UNCHANGED <<fund, callVars>>
      PROVE  \E s \in [0 .. Len(points') -> 0 .. interest'] : Stamped(s)'
  BY <1>1, <1>3, PointAdded
<1>4. points' = points \/ \E r \in Readers : Charts(r) /\ UNCHANGED <<fund, callVars>>
  BY ReaderSteps DEF Rests, Starts, ReadBalance, ReadNet, NetUnknown, Turns, Drops, screenVars
<1> QED
  BY <1>2, <1>3, <1>4

----------------------------------------------------------------------------
(* What the screen promises *)

\* The screen before the first deposit.
LEMMA HomeInitInv == HomeInit => HomeInv
<1> SUFFICES ASSUME HomeInit PROVE HomeInv
  OBVIOUS
<1>1. HomeTypeOK
  <2>1. points \in Seq([v : Nat, net : Nat])
    BY DEF HomeInit
  <2>2. shown \in [v : Nat, net : Nat \cup {Unknown}]
    BY DEF HomeInit
  <2>3. pc \in [Calls -> PCs] /\ read \in [Calls -> Nat] /\ rpc \in [Readers -> ReaderPCs]
    BY DEF HomeInit, PCs, ReaderPCs
  <2>4. /\ balance \in [Readers -> Nat \cup {Unread}]
        /\ net \in [Readers -> Nat \cup {Unread, Unknown}]
    BY DEF HomeInit
  <2>5. /\ position \in Nat /\ interest \in 0 .. MaxInterest /\ principal \in Nat
        /\ faults \in 0 .. MaxFaults
    BY LimitsAssumption DEF HomeInit
  <2>6. orderly \in BOOLEAN /\ fresh \in BOOLEAN /\ steady \in BOOLEAN /\ apart \in BOOLEAN
    BY DEF HomeInit
  <2> QED
    BY <2>1, <2>2, <2>3, <2>4, <2>5, <2>6 DEF HomeTypeOK
<1>2. Quiet /\ Dues = {0}
  BY DEF HomeInit, Quiet, Ended, Dues
<1>3. HomeBooks
  BY <1>2 DEF HomeInit, HomeBooks, Explains, Ended
<1>4. Asked /\ Holding /\ Screen
  BY DEF HomeInit, Asked, Holding, Screen, Readers
<1>5. Calm /\ Pairs /\ Alone
  BY NullsAssumption DEF HomeInit, Calm, Pairs, Alone, Active, Readers
<1>6. Chart
  <2> DEFINE s == [k \in 0 .. 0 |-> 0]
  <2>1. Len(points) = 0 /\ interest = 0 /\ s \in [0 .. 0 -> 0 .. 0] /\ s[0] = 0
    BY DEF HomeInit
  <2>2. Gain(0) = 0
    BY DEF Gain
  <2>3. Leaves(0, 0)
    BY <1>2 DEF Leaves, HomeInit
  <2>4. \A r \in Readers : balance[r] \notin Nat
    BY NullsAssumption DEF HomeInit
  <2>5. \A j, k \in 0 .. 0 : ~(j < k)
    OBVIOUS
  <2> HIDE DEF s
  <2>6. Stamped(s)
    BY <2>1, <2>2, <2>3, <2>4, <2>5 DEF Stamped
  <2> QED
    BY <2>1, <2>6 DEF Chart
<1> QED
  BY <1>1, <1>3, <1>4, <1>5, <1>6 DEF HomeInv

\* Every step keeps it.
LEMMA HomeInductive == HomeInv /\ [HomeNext]_allHome => HomeInv'
<1> SUFFICES ASSUME HomeInv, [HomeNext]_allHome PROVE HomeInv'
  OBVIOUS
<1>1. CASE HomeNext
  <2> USE <1>1 DEF HomeInv
  <2>1. HomeTypeOK'
    BY HomeTypes
  <2>2. HomeBooks' /\ Asked' /\ Holding'
    BY BooksKept, AskedKept, HoldingKept
  <2>3. Calm' /\ Alone'
    BY CalmKept, AloneKept
  <2>4. Pairs' /\ Screen' /\ Chart'
    BY PairsKept, ScreenKept, ChartKept
  <2> QED
    BY <2>1, <2>2, <2>3, <2>4
<1>2. CASE UNCHANGED allHome
  <2>1. UNCHANGED <<position, interest, principal, pc, read, orderly, faults>>
    BY <1>2 DEF allHome, fund, callVars
  <2>2. UNCHANGED <<rpc, balance, net, shown, points, fresh, steady, apart>>
    BY <1>2 DEF allHome, homeVars, readVars, screenVars
  <2>3. HomeTypeOK' /\ Asked' /\ Holding' /\ Screen' /\ Alone'
    BY <2>1, <2>2 DEF HomeInv, HomeTypeOK, Asked, Holding, Screen, Alone, Active
  <2>4. Dues' = Dues /\ Quiet' = Quiet
    BY <2>1 DEF Dues, Due, Quiet, Ended, Booked
  <2>5. HomeBooks' /\ Calm'
    BY <2>1, <2>2, <2>4 DEF HomeInv, HomeBooks, Calm, Explains, Ended
  <2>6. \A r \in Readers : Gap(r)' = Gap(r)
    BY <2>1, <2>2 DEF Gap, NetOf
  <2>7. Pairs'
    BY <2>1, <2>2, <2>6 DEF HomeInv, Pairs
  <2>8. \A k \in 0 .. Len(points) : Gain(k)' = Gain(k)
    BY <2>2 DEF Gain
  <2>9. Chart'
    <3>1. ASSUME NEW s \in [0 .. Len(points) -> 0 .. interest], Stamped(s)
          PROVE  Stamped(s)'
      BY <2>1, <2>2, <2>4, <2>6, <3>1 DEF Stamped, Leaves, Gap, NetOf, Gain
    <3> QED
      BY <2>1, <2>2, <3>1 DEF HomeInv, Chart
  <2> QED
    BY <2>3, <2>5, <2>7, <2>9 DEF HomeInv
<1> QED
  BY <1>1, <1>2

\* It holds in every reachable state.
LEMMA HomeAlways == HomeSpec => []HomeInv
  BY HomeInitInv, HomeInductive, PTL DEF HomeSpec

\* The variables of the screen keep their types; no point is ever logged with a
\* principal that is not a number.
THEOREM ScreenTypes == HomeSpec => []HomeTypeOK
<1>1. HomeInv => HomeTypeOK
  BY DEF HomeInv
<1> QED
  BY <1>1, HomeAlways, PTL

\* The earned line is interest that was paid, whatever calls and loads overlap, as
\* long as calls come one after another and finish, and no other call is under
\* way while the pair behind the line is read.
THEOREM EarnedIsPaid == HomeSpec => []ShownIsInterest
<1>1. ASSUME HomeInv PROVE ShownIsInterest
  <2> SUFFICES ASSUME orderly, steady PROVE Earned <= interest
    BY DEF ShownIsInterest
  <2>1. interest \in Nat /\ shown.v \in Nat /\ shown.net \in Nat \cup {Unknown}
    BY <1>1, LimitsAssumption DEF HomeInv, HomeTypeOK
  <2>2. CASE shown.net = Unknown \/ shown.v = 0
    BY <2>1, <2>2 DEF Earned
  <2>3. CASE shown.net # Unknown /\ shown.v # 0
    <3>1. shown.net \in Nat /\ shown.v <= shown.net + interest
      BY <1>1, <2>1, <2>3 DEF HomeInv, Screen
    <3>2. Earned = Less(shown.v, shown.net)
      BY <2>3 DEF Earned
    <3> QED
      BY <2>1, <3>1, <3>2 DEF Less
  <2> QED
    BY <2>2, <2>3
<1> QED
  BY <1>1, HomeAlways, PTL

\* A set of points has a last one.
LEMMA MaxExists ==
    ASSUME NEW n \in Nat, NEW S \in SUBSET (0 .. n), S # {}
    PROVE  Max(S) \in S /\ \A y \in S : y <= Max(S)
<1> DEFINE Bad == {R \in SUBSET (0 .. n) : R # {} /\ ~\E x \in R : \A y \in R : x >= y}
<1>1. IsFiniteSet(0 .. n)
  BY FS_Interval
<1>2. ASSUME Bad # {} PROVE FALSE
  <2>1. PICK R \in Bad : \A x \in R : R \ {x} \notin Bad
    BY <1>1, <1>2, Smallest
  <2>2. R \in SUBSET (0 .. n) /\ R # {} /\ ~\E x \in R : \A y \in R : x >= y
    BY <2>1
  <2>3. PICK z : z \in R
    BY <2>2
  <2>4. R \ {z} # {}
    BY <2>2, <2>3
  <2>5. PICK x \in R \ {z} : \A y \in R \ {z} : x >= y
    BY <2>1, <2>2, <2>3, <2>4
  <2>6. \A y \in R : y \in Int
    BY <2>2
  <2>7. CASE x >= z
    BY <2>2, <2>3, <2>5, <2>7
  <2>8. CASE z >= x
    <3>1. \A y \in R : z >= y
      BY <2>3, <2>5, <2>6, <2>8
    <3> QED
      BY <2>2, <2>3, <3>1
  <2> QED
    BY <2>3, <2>5, <2>6, <2>7, <2>8
<1>3. S \notin Bad
  BY <1>2
<1>4. \E x \in S : \A y \in S : x >= y
  BY <1>3
<1>5. Max(S) \in S /\ \A y \in S : Max(S) >= y
  BY <1>4 DEF Max
<1>6. \A y \in S : y \in Int
  OBVIOUS
<1> QED
  BY <1>5, <1>6

\* The bars between some edges: every edge but the first closes one.
Bars(edges) == {k \in edges : \E j \in edges : j < k}
Before(edges, k) == Max({j \in edges : j < k})

\* What ChartEarned computes: the bars are taken one after another.
BarsTaken(edges, q) ==
    q = [S \in SUBSET {k \in edges : \E j \in edges : j < k} |->
            IF S = {} THEN 0
            ELSE BarEarned(Max({j \in edges : j < (CHOOSE x \in S : TRUE)}), CHOOSE x \in S : TRUE)
                    + q[S \ {CHOOSE x \in S : TRUE}]]
LEMMA ChartTaken ==
    ASSUME NEW edges, NEW q, BarsTaken(edges, q), \A r : BarsTaken(edges, r) => r = q
    PROVE  ChartEarned(edges) = q[Bars(edges)]
  BY DEF ChartEarned, MapThenSumSet, MapThenFoldSet, BarsTaken, Bars

\* A bar says no more than the interest between the stamps of its ends.
LEMMA BarStamped ==
    ASSUME HomeTypeOK, NEW s \in [0 .. Len(points) -> 0 .. interest], Stamped(s),
           NEW j \in 0 .. Len(points), NEW k \in 0 .. Len(points), j < k
    PROVE  /\ BarEarned(j, k) \in Nat /\ s[j] \in Nat /\ s[k] \in Nat
           /\ s[j] + BarEarned(j, k) <= s[k]
<1>1. Gain(j) \in Int /\ Gain(k) \in Int
  BY GainTypes
<1>2. s[j] \in Nat /\ s[k] \in Nat
  <2>1. s[j] \in 0 .. interest /\ s[k] \in 0 .. interest
    OBVIOUS
  <2> QED
    BY <2>1
<1>3. s[j] <= s[k] /\ Gain(k) - Gain(j) <= s[k] - s[j]
  BY DEF Stamped
<1> QED
  BY <1>1, <1>2, <1>3 DEF BarEarned, Less

\* The bars up to an edge say no more than its stamp, whichever are counted.
LEMMA BarsAddUp ==
    ASSUME HomeTypeOK, NEW s \in [0 .. Len(points) -> 0 .. interest], Stamped(s),
           NEW edges \in SUBSET (0 .. Len(points)),
           NEW f \in [Bars(edges) -> Nat],
           \A k \in Bars(edges) : f[k] = BarEarned(Before(edges, k), k),
           NEW p \in [SUBSET Bars(edges) -> Nat], Measures(Bars(edges), p, f)
    PROVE  \A S \in SUBSET Bars(edges), k \in edges : (\A x \in S : x <= k) => p[S] <= s[k]
<1> DEFINE Holds(S) == \A k \in edges : (\A x \in S : x <= k) => p[S] <= s[k]
           Bad == {S \in SUBSET Bars(edges) : ~Holds(S)}
<1>0. PICK N \in Nat : N = Len(points)
  BY DEF HomeTypeOK
<1>1. /\ Bars(edges) \in SUBSET (0 .. N) /\ Bars(edges) \subseteq edges
      /\ IsFiniteSet(Bars(edges)) /\ \A k \in edges : k \in 0 .. N
  <2>1. Bars(edges) \in SUBSET (0 .. N) /\ Bars(edges) \subseteq edges
    BY <1>0 DEF Bars
  <2>2. IsFiniteSet(0 .. N)
    BY FS_Interval
  <2>3. IsFiniteSet(Bars(edges))
    BY <2>1, <2>2, FS_Subset
  <2> QED
    BY <1>0, <2>1, <2>3
<1>2. \A k \in edges : s[k] \in Nat
  BY <1>0, <1>1, LimitsAssumption DEF HomeTypeOK
<1>3. ASSUME Bad # {} PROVE FALSE
  <2>1. PICK S \in Bad : \A x \in S : S \ {x} \notin Bad
    BY <1>1, <1>3, Smallest
  <2>2. S \in SUBSET Bars(edges) /\ ~Holds(S)
    BY <2>1
  <2>3. PICK k \in edges : (\A x \in S : x <= k) /\ ~(p[S] <= s[k])
    BY <2>2
  <2>4. S # {}
    <3>1. CASE S = {}
      <4>1. p[S] = 0
        BY <3>1 DEF Measures
      <4> QED
        BY <1>2, <2>3, <4>1
    <3> QED
      BY <3>1
  <2> DEFINE m == Max(S)
  <2>5. m \in S /\ \A y \in S : y <= m
    <3>1. S \in SUBSET (0 .. N)
      BY <1>1, <2>2
    <3> QED
      BY <2>4, <3>1, MaxExists
  <2> HIDE DEF m
  <2> DEFINE j == Before(edges, m)
  <2>6. j \in edges /\ j < m /\ \A y \in edges : y < m => y <= j
    <3> DEFINE L == {y \in edges : y < m}
    <3>1. L \in SUBSET (0 .. N) /\ L # {}
      BY <1>1, <2>2, <2>5 DEF Bars
    <3>2. Max(L) \in L /\ \A y \in L : y <= Max(L)
      BY <3>1, MaxExists
    <3> QED
      BY <3>2 DEF Before
  <2> HIDE DEF j
  <2>7. j \in 0 .. N /\ m \in 0 .. N /\ m \in Bars(edges) /\ f[m] = BarEarned(j, m)
    BY <1>1, <2>2, <2>5, <2>6 DEF j
  <2>8. s[j] + f[m] <= s[m] /\ f[m] \in Nat /\ s[j] \in Nat /\ s[m] \in Nat
    BY <1>0, <2>6, <2>7, BarStamped
  <2> DEFINE R == S \ {m}
  <2>9. R \in SUBSET Bars(edges) /\ Holds(R)
    BY <2>1, <2>2, <2>5
  <2>10. \A x \in R : x <= j
    <3>1. \A x \in R : x \in edges /\ x <= m /\ x # m /\ x \in Int /\ m \in Int
      BY <1>1, <2>2, <2>5, <2>7
    <3> QED
      BY <2>6, <3>1
  <2>11. p[R] <= s[j] /\ p[R] \in Nat
    BY <2>6, <2>9, <2>10
  <2>12. p[S] = p[R] + f[m]
    BY <2>2, <2>5 DEF Measures
  <2> HIDE DEF R
  <2>13. p[S] <= s[m]
    BY <2>8, <2>11, <2>12
  <2>14. s[m] <= s[k]
    <3>1. m <= k /\ k \in 0 .. N
      BY <1>1, <2>3, <2>5
    <3>2. CASE m = k
      BY <1>2, <2>3, <3>2
    <3>3. CASE m < k
      BY <1>0, <2>7, <3>1, <3>3 DEF Stamped
    <3> QED
      BY <2>7, <3>1, <3>2, <3>3
  <2>15. p[S] \in Nat /\ s[k] \in Nat
    BY <1>2, <2>2
  <2> QED
    BY <2>3, <2>8, <2>13, <2>14, <2>15
<1> QED
  BY <1>3

\* The bars of a stamped chart say no more than the interest.
LEMMA ChartBounded ==
    ASSUME HomeTypeOK, NEW s \in [0 .. Len(points) -> 0 .. interest], Stamped(s),
           NEW edges \in SUBSET (0 .. Len(points))
    PROVE  ChartEarned(edges) <= interest
<1> DEFINE D == Bars(edges)
           f == [k \in D |-> BarEarned(Before(edges, k), k)]
<1>0. PICK N \in Nat : N = Len(points)
  BY DEF HomeTypeOK
<1>1. /\ D \subseteq edges /\ IsFiniteSet(D) /\ \A k \in edges : k \in 0 .. N
      /\ interest \in Nat
  <2>1. D \in SUBSET (0 .. N) /\ D \subseteq edges
    BY <1>0 DEF Bars
  <2>2. IsFiniteSet(0 .. N)
    BY FS_Interval
  <2>3. IsFiniteSet(D)
    BY <2>1, <2>2, FS_Subset
  <2> QED
    BY <1>0, <2>1, <2>3, LimitsAssumption DEF HomeTypeOK
<1>2. f \in [D -> Nat]
  <2>1. ASSUME NEW k \in D PROVE BarEarned(Before(edges, k), k) \in Nat
    <3> DEFINE L == {y \in edges : y < k}
    <3>1. L \in SUBSET (0 .. N) /\ L # {} /\ k \in 0 .. N
      BY <1>1 DEF Bars
    <3>2. Max(L) \in L
      BY <3>1, MaxExists
    <3>3. Before(edges, k) \in 0 .. N /\ Before(edges, k) < k
      BY <1>1, <3>2 DEF Before
    <3> QED
      BY <1>0, <3>1, <3>3, BarStamped
  <2> QED
    BY <2>1
<1>3. PICK p \in [SUBSET D -> Nat] : Measures(D, p, f)
  BY <1>1, <1>2, SumExists
<1>4. ASSUME NEW S \in SUBSET D, S # {}
      PROVE  f[First(S)] = BarEarned(Max({j \in edges : j < First(S)}), First(S))
  <2>1. First(S) \in D
    BY <1>4 DEF First
  <2> QED
    BY <2>1 DEF Before, f
<1>5. D = {k \in edges : \E j \in edges : j < k}
  BY DEF Bars
<1> HIDE DEF f
<1>6. BarsTaken(edges, p)
  <2>1. OneByOne(D, p, f)
    BY <1>2, <1>3, MeasureTaken
  <2>2. p = [S \in SUBSET D |->
                IF S = {} THEN 0
                ELSE BarEarned(Max({j \in edges : j < First(S)}), First(S)) + p[S \ {First(S)}]]
    BY <1>4, <2>1 DEF OneByOne
  <2> HIDE DEF D
  <2> QED
    BY <1>5, <2>2 DEF BarsTaken, First
<1>7. ASSUME NEW r, BarsTaken(edges, r) PROVE r = p
  <2>1. r = [S \in SUBSET D |->
                IF S = {} THEN 0
                ELSE BarEarned(Max({j \in edges : j < First(S)}), First(S)) + r[S \ {First(S)}]]
    <3> HIDE DEF D
    <3> QED
      BY <1>5, <1>7 DEF BarsTaken, First
  <2>2. OneByOne(D, r, f)
    BY <1>4, <2>1 DEF OneByOne
  <2> QED
    BY <1>1, <1>2, <1>3, <2>2, TakenOnce
<1>8. ChartEarned(edges) = p[D]
  BY <1>6, <1>7, ChartTaken
<1>9. \A k \in D : f[k] = BarEarned(Before(edges, k), k)
  BY DEF f
<1>10. \A S \in SUBSET D, k \in edges : (\A x \in S : x <= k) => p[S] <= s[k]
  BY <1>2, <1>3, <1>9, BarsAddUp
<1>11. CASE edges = {}
  <2>1. D = {} /\ p[{}] = 0
    BY <1>3, <1>11 DEF Bars, Measures
  <2> QED
    BY <1>1, <1>8, <2>1
<1>12. CASE edges # {}
  <2>1. edges \in SUBSET (0 .. N)
    BY <1>0
  <2>2. Max(edges) \in edges /\ \A x \in edges : x <= Max(edges)
    BY <1>12, <2>1, MaxExists
  <2>3. p[D] <= s[Max(edges)]
    BY <1>1, <1>10, <2>2
  <2>4. s[Max(edges)] \in 0 .. interest /\ p[D] \in Nat
    BY <1>0, <1>3, <2>1, <2>2
  <2> QED
    BY <1>1, <1>8, <2>3, <2>4
<1> QED
  BY <1>11, <1>12

\* Whatever range of the chart is looked at, in whatever steps, its bars add up to
\* no more than the interest paid: no point pairs a balance with a principal that
\* does not belong to it, and what one bar took from the gain no later one adds.
THEOREM ChartIsPaid == HomeSpec => []ChartIsInterest
<1>1. ASSUME HomeInv PROVE ChartIsInterest
  <2>1. HomeTypeOK
    BY <1>1 DEF HomeInv
  <2>2. ASSUME orderly, steady, apart, NEW edges \in SUBSET (0 .. Len(points))
        PROVE  ChartEarned(edges) <= interest
    <3>1. PICK s \in [0 .. Len(points) -> 0 .. interest] : Stamped(s)
      BY <1>1, <2>2 DEF HomeInv, Chart
    <3> QED
      BY <2>1, <3>1, ChartBounded
  <2> QED
    BY <2>2 DEF ChartIsInterest
<1> QED
  BY <1>1, HomeAlways, PTL
=============================================================================
