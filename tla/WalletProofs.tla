------------------------------ MODULE WalletProofs ------------------------------
(***************************************************************************)
(* Theorems about the calls about the wallet, as MCWallet composes them,   *)
(* for any coins, channels, transactions, calls and amounts, whatever they *)
(* are worth. Funding: the invariant says of each stage of a call which    *)
(* locks are its own, and of which coins it may still say that nobody else *)
(* spends them. The three queries: what a query has heard is what LND had  *)
(* at one moment of the asking, and the invariant says how far that may be *)
(* from what LND has now, since one move at most came in between. What    *)
(* they add up are folds, whose lemmas come before the first that needs it *)
(***************************************************************************)
EXTENDS MCWallet, FiniteSetTheorems, NaturalsInduction, WellFoundedInduction, TLAPS

\* What the assumption says of each of the modules
LEMMA FundingGiven == Locking!FundingAssumption
BY WalletAssumption DEF WalletAssumption

LEMMA RecordsGiven == Records!ChainRecordsAssumption
BY WalletAssumption DEF WalletAssumption

LEMMA FlowsGiven == Flows!LiquidityAssumption
BY WalletAssumption DEF WalletAssumption

LEMMA BalancesGiven == Balances!NodeFundsAssumption
BY WalletAssumption DEF WalletAssumption

USE FundingGiven DEF Locking!FundingAssumption

-----------------------------------------------------------------------------
(* The inductive invariant *)

CallNumbers == 1..MaxCalls

Lock ==
  [by : CallNumbers \cup {Keeper, Nobody}, use : {"none", "block", "fund", "keep"},
   left : 0..LeaseTime]

CallRecord ==
  [kind : {"none", "disallow", "reserve", "max", "sign"}, at : Locking!Stages,
   then : {"none", "funding", "answer", "confirmed", "maximum", "conflict"},
   tokens : Nat, named : SUBSET Utxos, todo : SUBSET Utxos, inputs : SUBSET Utxos,
   said : {"none", "internal", "external"}, gives : Int,
   partial : {"none", "signed", "failed"}, result : {"none", "ok", "failed"},
   failed : SUBSET {"lock", "unlock", "fund", "rate", "sign", "paste", "refund",
                    "partial", "conflict"},
   lapsed : BOOLEAN]

KeeperRecord ==
  [at : {"off", "checking", "relocking", "resting", "done"},
   inputs : SUBSET Utxos, todo : SUBSET Utxos, due : [Utxos -> Nat]]

\* What is known of a call by its stage: whose stage it is, whether a
\* transaction was funded, and what can have failed until then
IsStaged(r) ==
  /\ r.at = "idle" => r = Locking!NotCalled
  /\ r.at \in {"locking", "funding"} => r.kind = "disallow" /\ r.inputs = {}
  /\ r.at = "locking" =>
       /\ r.then = "funding" /\ r.todo \subseteq r.named
       /\ "lock" \in r.failed \/ (r.failed = {} /\ r.result = "none")
  /\ r.at = "funding" => r.todo = {} /\ r.failed = {} /\ r.result = "none"
  /\ r.at = "releasing" =>
       \/ /\ r.kind = "disallow" /\ r.then = "answer"
          /\ r.failed \subseteq {"fund", "unlock"}
          /\ "fund" \in r.failed => r.inputs = {}
       \/ /\ r.kind = "reserve" /\ r.then = "confirmed" /\ r.inputs = {}
          /\ r.failed \subseteq {"unlock"}
       \/ r.kind \in {"max", "sign"} /\ r.then \in {"maximum", Locking!Goal(r)} /\ r.inputs = {}
  /\ r.at \in {"attempt", "confirmed", "rating", "creating", "pasting"} =>
       r.kind = "reserve" /\ r.inputs = {} /\ r.failed = {}
  /\ r.at \in {"signing", "refunding", "thrown"} => r.kind = "reserve" /\ r.failed = {}
  /\ r.at \in {"template", "maximum", "adjusting", "finalizing", "conflict", "signed"} =>
       r.kind \in {"max", "sign"} /\ r.inputs = {}
  /\ r.at = "done" =>
       r.kind = "none" /\ r.gives = 0 /\ (r.result # "ok" => r.inputs = {})
  /\ r.result = "failed" => r.at = "done" \/ r.failed # {}

\* The coins a call may hold for a transaction, and those it may keep away
MayFund(r) ==
  IF r.at = "finalizing" THEN r.named
  ELSE IF r.at = "releasing" /\ r.kind # "disallow" THEN r.todo
  ELSE r.inputs

MayBlock(r) ==
  IF r.kind # "disallow" THEN {}
  ELSE IF r.at = "locking" THEN r.named \ r.todo
  ELSE IF r.at = "funding" THEN r.named
  ELSE r.todo

\* The locks of a call are those, unless a failure has left others behind
HasOnly(c, r, locked) ==
  \/ r.failed \cap Locking!Leaving # {}
  \/ \A u \in Utxos : locked[u].by = c =>
       \/ locked[u].use = "fund" /\ u \in MayFund(r)
       \/ locked[u].use = "block" /\ u \in MayBlock(r)

Holds(c, u, use, locked) == locked[u].by = c /\ locked[u].use = use

\* The coins of a funded transaction, as long as no lock of it has lapsed: they
\* are held by the call, or spent
Claimed(r) == IF r.result = "failed" \/ r.lapsed THEN {} ELSE r.inputs

HasClaimed(c, r, locked, gone) ==
  \A u \in Claimed(r) : Holds(c, u, "fund", locked) \/ u \in gone

\* The coins kept away while a transaction is funded
KeptAway(r) ==
  IF r.at \in {"locking", "funding"} /\ r.result # "failed" /\ ~r.lapsed
  THEN r.named \ r.todo ELSE {}

HasKeptAway(c, r, locked, gone) ==
  \A u \in KeptAway(r) : Holds(c, u, "block", locked) \/ u \in gone

IsSpared(r) == r.kind = "disallow" /\ r.inputs \cap r.named # {} => r.lapsed

\* The template is funded before a maximum is tried, so there is enough for it
IsNearlyAll(r) ==
  r.kind = "max" =>
    /\ r.gives # 0 =>
         Locking!Total(r.named) - Fee - r.gives \in 0..(Dust + Adjustment - 1)
    /\ (r.at \in {"maximum", "adjusting"} \/ (r.at = "releasing" /\ r.then = "maximum")) =>
         Locking!Total(r.named) >= Dust + Fee

CallInv(c, r, locked, gone) ==
  /\ IsStaged(r)
  /\ HasOnly(c, r, locked)
  /\ HasClaimed(c, r, locked, gone)
  /\ HasKeptAway(c, r, locked, gone)
  /\ IsSpared(r)
  /\ IsNearlyAll(r)

LocksInv ==
  /\ lease \in [Utxos -> Lock]
  /\ \A u \in Utxos : lease[u].by # Nobody <=> lease[u].left > 0
  /\ spent \subseteq Utxos
  /\ call \in [CallNumbers -> CallRecord]
  /\ keeper \in KeeperRecord
  /\ spent \in {{}, keeper.inputs}
  /\ keeper.at = "off" => spent = {}

\* The inductive invariant of the locks
HeldInv ==
  /\ LocksInv
  /\ \A c \in CallNumbers : CallInv(c, call[c], lease, spent)
  /\ \A c, d \in CallNumbers : c # d => Claimed(call[c]) \cap Claimed(call[d]) = {}

-----------------------------------------------------------------------------
(* Folds over finite sets                                                    *)

\* Induction over the numbers for a set of them: the least that is not in the
\* set would be the successor of one that is
LEMMA AllNumbers ==
  ASSUME NEW N, 0 \in N, \A n \in Nat : n \in N => n + 1 \in N
  PROVE  Nat \subseteq N
<1>. DEFINE rest == Nat \ N
            less == OpToRel(<, Nat)
<1>. SUFFICES ASSUME rest # {} PROVE FALSE
  OBVIOUS
<1>1. IsWellFoundedOn(less, Nat)
  BY NatLessThanWellFounded
<1>2. rest \subseteq Nat
  OBVIOUS
<1>3. \E m \in rest : \A k \in rest : ~(<<k, m>> \in less)
  <2>. HIDE DEF rest, less
  <2>. QED
    BY <1>1, <1>2, WFMin
<1>4. PICK m \in rest : \A k \in rest : <<k, m>> \notin less
  BY <1>3
<1>5. m \in Nat /\ m # 0
  OBVIOUS
<1>6. m - 1 \in Nat /\ m - 1 < m
  BY <1>5
<1>7. <<m - 1, m>> \in less
  BY <1>5, <1>6 DEF OpToRel
<1>8. m - 1 \in N
  BY <1>4, <1>6, <1>7
<1>9. (m - 1) + 1 \in N
  BY <1>6, <1>8
<1>. QED
  BY <1>5, <1>9

AnyOf(s) == CHOOSE x \in s : TRUE

\* What holds of the empty set, and of a set when it holds of all but one of its
\* elements, holds of every finite set
LEMMA AllSubsets ==
  ASSUME NEW S, IsFiniteSet(S), NEW P, {} \in P,
         \A s \in SUBSET S : s # {} /\ s \ {AnyOf(s)} \in P => s \in P
  PROVE  SUBSET S \subseteq P
<1>. DEFINE N == {n \in Nat : \A s \in SUBSET S : Cardinality(s) <= n => s \in P}
<1>1. \A s \in SUBSET S : IsFiniteSet(s) /\ Cardinality(s) \in Nat
  BY FS_Subset, FS_CardinalityType
<1>2. 0 \in N
  <2>1. ASSUME NEW s \in SUBSET S, Cardinality(s) <= 0 PROVE s \in P
    <3>1. s = {}
      BY <1>1, <2>1, FS_EmptySet
    <3>. QED
      BY <3>1
  <2>. QED
    BY <2>1
<1>3. ASSUME NEW n \in Nat, n \in N PROVE n + 1 \in N
  <2>1. ASSUME NEW s \in SUBSET S, Cardinality(s) <= n + 1 PROVE s \in P
    <3>1. CASE s # {}
      <4>1. AnyOf(s) \in s
        BY <3>1 DEF AnyOf
      <4>2. IsFiniteSet(s) /\ Cardinality(s) \in Nat
        BY <1>1
      <4>3. Cardinality(s \ {AnyOf(s)}) = Cardinality(s) - 1
        BY <4>1, <4>2, FS_RemoveElement
      <4>4. s \ {AnyOf(s)} \in P
        BY <1>3, <2>1, <4>2, <4>3
      <4>. QED
        BY <3>1, <4>4
    <3>. QED
      BY <3>1
  <2>2. n + 1 \in Nat
    OBVIOUS
  <2>. QED
    BY <2>1, <2>2
<1>4. ASSUME NEW s \in SUBSET S PROVE s \in P
  <2>1. Cardinality(s) \in N
    <3>. HIDE DEF N
    <3>. QED
      BY <1>1, <1>2, <1>3, AllNumbers
  <2>. QED
    BY <1>1, <2>1
<1>. QED
  BY <1>4

\* f folds the subsets of a set by a step, which takes an element and what the
\* others come to
Folds(f, S, base, step) ==
  f = [s \in SUBSET S |->
         IF s = {} THEN base ELSE step[<<AnyOf(s), f[s \ {AnyOf(s)}]>>]]

\* A fold of the subsets is there
LEMMA FoldExists ==
  ASSUME NEW S, IsFiniteSet(S), NEW A, NEW base \in A, NEW step \in [S \X A -> A]
  PROVE  \E f \in [SUBSET S -> A] : Folds(f, S, base, step)
<1>. DEFINE Upto(n) == {s \in SUBSET S : Cardinality(s) <= n}
            Next(s, f) == IF s = {} THEN base ELSE step[<<AnyOf(s), f[s \ {AnyOf(s)}]>>]
            Is(f, n) == f \in [Upto(n) -> A] /\ \A s \in Upto(n) : f[s] = Next(s, f)
            N == {n \in Nat : \E f : Is(f, n)}
<1>1. \A s \in SUBSET S : IsFiniteSet(s) /\ Cardinality(s) \in Nat
  BY FS_Subset, FS_CardinalityType
<1>2. ASSUME NEW n \in Nat, NEW s \in Upto(n + 1), s # {}
      PROVE  AnyOf(s) \in S /\ s \ {AnyOf(s)} \in Upto(n)
  <2>1. AnyOf(s) \in s
    BY <1>2 DEF AnyOf
  <2>2. IsFiniteSet(s) /\ Cardinality(s) \in Nat /\ Cardinality(s) <= n + 1
    BY <1>1
  <2>3. Cardinality(s \ {AnyOf(s)}) = Cardinality(s) - 1
    BY <2>1, <2>2, FS_RemoveElement
  <2>. QED
    BY <2>1, <2>2, <2>3
<1>3. 0 \in N
  <2>. DEFINE f == [s \in Upto(0) |-> base]
  <2>1. ASSUME NEW s \in Upto(0) PROVE s = {}
    BY <1>1, FS_EmptySet
  <2>2. Is(f, 0)
    BY <2>1
  <2>. HIDE DEF Is
  <2>. QED
    BY <2>2
<1>4. ASSUME NEW n \in Nat, n \in N PROVE n + 1 \in N
  <2>1. PICK f : Is(f, n)
    BY <1>4
  <2>. DEFINE g == [s \in Upto(n + 1) |-> Next(s, f)]
  <2>2. \A s \in Upto(n) : s \in Upto(n + 1)
    BY <1>1
  <2>3. ASSUME NEW s \in Upto(n + 1) PROVE g[s] \in A
    <3>1. s # {} => f[s \ {AnyOf(s)}] \in A /\ AnyOf(s) \in S
      BY <1>2, <2>1
    <3>. HIDE DEF Upto
    <3>. QED
      BY <3>1
  <2>. HIDE DEF Upto
  <2>4. g \in [Upto(n + 1) -> A]
    BY <2>3
  <2>5. ASSUME NEW s \in Upto(n) PROVE g[s] = f[s]
    BY <2>1, <2>2
  <2>6. ASSUME NEW s \in Upto(n + 1) PROVE g[s] = Next(s, g)
    <3>1. g[s] = Next(s, f)
      OBVIOUS
    <3>2. s # {} => g[s \ {AnyOf(s)}] = f[s \ {AnyOf(s)}]
      BY <1>2, <2>5
    <3>. HIDE DEF g
    <3>. QED
      BY <3>1, <3>2
  <2>7. Is(g, n + 1)
    <3>. HIDE DEF g
    <3>. QED
      BY <2>4, <2>6
  <2>8. n + 1 \in Nat
    OBVIOUS
  <2>. HIDE DEF Is
  <2>. QED
    BY <2>7, <2>8
<1>5. \E f : Is(f, Cardinality(S))
  <2>1. Cardinality(S) \in Nat
    BY FS_CardinalityType
  <2>. HIDE DEF Is
  <2>2. Cardinality(S) \in N
    <3>. HIDE DEF N
    <3>. QED
      BY <1>3, <1>4, <2>1, AllNumbers
  <2>. QED
    BY <2>2
<1>6. Upto(Cardinality(S)) = SUBSET S
  BY FS_Subset
<1>7. PICK f : Is(f, Cardinality(S))
  BY <1>5
<1>. HIDE DEF Upto
<1>. QED
  BY <1>6, <1>7 DEF Folds

-----------------------------------------------------------------------------
(* The value of a set of coins                                               *)

LEMMA FinitelyMany == IsFiniteSet(Utxos)
BY DEF IsFiniteSet, Locking!IsFiniteSet

\* The value of a set of coins is a number: Total adds up a set by recursion over
\* its subsets
LEMMA TotalIsNumber ==
  ASSUME NEW S \in SUBSET Utxos
  PROVE  Locking!Total(S) \in Nat
<1>. DEFINE A == Nat
            step == [y \in S \X A |-> Worth[y[1]] + y[2]]
            Sums(f) == f = [s \in SUBSET S |->
                              IF s = {} THEN 0 ELSE Worth[AnyOf(s)] + f[s \ {AnyOf(s)}]]
            sum == CHOOSE f : Sums(f)
            P == {s \in SUBSET S : sum[s] \in Nat}
<1>1. IsFiniteSet(S) /\ \A x \in S : Worth[x] \in Nat
  BY FinitelyMany, FS_Subset
<1>2. step \in [S \X A -> A] /\ \A x \in S, n \in A : step[<<x, n>>] = Worth[x] + n
  BY <1>1
<1>. HIDE DEF step
<1>3. 0 \in A
  OBVIOUS
<1>. HIDE DEF A
<1>4. PICK f \in [SUBSET S -> A] : Folds(f, S, 0, step)
  BY <1>1, <1>2, <1>3, FoldExists
<1>5. ASSUME NEW s \in SUBSET S
      PROVE  f[s] = IF s = {} THEN 0 ELSE Worth[AnyOf(s)] + f[s \ {AnyOf(s)}]
  <2>1. f[s] = IF s = {} THEN 0 ELSE step[<<AnyOf(s), f[s \ {AnyOf(s)}]>>]
    BY <1>4 DEF Folds
  <2>2. s # {} => AnyOf(s) \in S /\ f[s \ {AnyOf(s)}] \in A
    BY DEF AnyOf
  <2>. QED
    BY <1>2, <2>1, <2>2
<1>6. Sums(sum)
  <2>1. Sums(f)
    BY <1>5
  <2>. HIDE DEF Sums
  <2>. QED
    BY <2>1
<1>. HIDE DEF sum
<1>7. \A s \in SUBSET S :
        sum[s] = IF s = {} THEN 0 ELSE Worth[AnyOf(s)] + sum[s \ {AnyOf(s)}]
  BY <1>6
<1>8. {} \in P
  <2>. DEFINE e == {}
  <2>1. e \in SUBSET S /\ e = {}
    OBVIOUS
  <2>. HIDE DEF e
  <2>2. sum[e] = 0
    BY <1>7, <2>1
  <2>. QED
    BY <2>1, <2>2
<1>9. ASSUME NEW s \in SUBSET S, s # {}, s \ {AnyOf(s)} \in P PROVE s \in P
  <2>1. AnyOf(s) \in S
    BY <1>9 DEF AnyOf
  <2>2. sum[s] = Worth[AnyOf(s)] + sum[s \ {AnyOf(s)}]
    BY <1>7, <1>9
  <2>. QED
    BY <1>1, <1>9, <2>1, <2>2
<1>10. S \in P
  <2>. HIDE DEF P
  <2>1. SUBSET S \subseteq P
    BY <1>1, <1>8, <1>9, AllSubsets
  <2>. QED
    BY <2>1
<1>11. Locking!Total(S) = sum[S]
  BY DEF sum, Locking!Total, Locking!MapThenSumSet, Locking!MapThenFoldSet, AnyOf
<1>. QED
  BY <1>10, <1>11

-----------------------------------------------------------------------------
(* Calls and locks *)

\* Who is nobody's call
LEMMA Others ==
  /\ MaxCalls \in Nat /\ LeaseTime \in Nat \ {0}
  /\ Keeper \notin CallNumbers /\ Nobody \notin CallNumbers /\ Keeper # Nobody
  /\ Locking!Calls = CallNumbers
BY DEF CallNumbers, Locking!Calls

LEMMA CallFields ==
  ASSUME NEW r \in CallRecord
  PROVE  /\ r.kind \in {"none", "disallow", "reserve", "max", "sign"}
         /\ r.at \in Locking!Stages
         /\ r.then \in {"none", "funding", "answer", "confirmed", "maximum", "conflict"}
         /\ r.tokens \in Nat /\ r.gives \in Int
         /\ r.named \in SUBSET Utxos /\ r.todo \in SUBSET Utxos /\ r.inputs \in SUBSET Utxos
         /\ r.said \in {"none", "internal", "external"}
         /\ r.partial \in {"none", "signed", "failed"}
         /\ r.result \in {"none", "ok", "failed"}
         /\ r.failed \in SUBSET {"lock", "unlock", "fund", "rate", "sign", "paste", "refund",
                                 "partial", "conflict"}
         /\ r.lapsed \in BOOLEAN
BY DEF CallRecord

\* A call moves, and with it no locks but its own and those of free coins
LEMMA CallMoves ==
  ASSUME HeldInv, NEW c \in CallNumbers, NEW r \in CallRecord,
         call' = [call EXCEPT ![c] = r], UNCHANGED <<spent, keeper>>,
         lease' \in [Utxos -> Lock],
         \A u \in Utxos : lease'[u].by # Nobody <=> lease'[u].left > 0,
         \A u \in Utxos : lease'[u] # lease[u] =>
           lease[u].by \in {c, Nobody} /\ lease'[u].by \in {c, Nobody},
         CallInv(c, r, lease', spent),
         Claimed(r) \subseteq Claimed(call[c]) \cup Locking!Available
  PROVE  HeldInv'
<1>1. \A d \in CallNumbers : call'[d] = IF d = c THEN r ELSE call[d]
  BY DEF HeldInv, LocksInv
<1>2. LocksInv'
  BY DEF HeldInv, LocksInv
<1>3. ASSUME NEW d \in CallNumbers
      PROVE  CallInv(d, call'[d], lease', spent')
  <2>1. CASE d = c
    BY <1>1, <2>1
  <2>2. CASE d # c
    <3>1. call'[d] = call[d] /\ spent' = spent
      BY <1>1, <2>2
    <3>2. CallInv(d, call[d], lease, spent)
      BY DEF HeldInv
    <3>3. \A u \in Utxos : (lease[u].by = d \/ lease'[u].by = d) => lease'[u] = lease[u]
      BY <2>2, Others
    <3>4. HasOnly(d, call[d], lease')
      BY <3>2, <3>3 DEF CallInv, HasOnly
    <3>5. \A u \in Utxos, use \in {"fund", "block"} :
            Holds(d, u, use, lease) => Holds(d, u, use, lease')
      BY <3>3 DEF Holds
    <3>6. call[d] \in CallRecord
      BY DEF HeldInv, LocksInv
    <3>7. Claimed(call[d]) \subseteq Utxos /\ KeptAway(call[d]) \subseteq Utxos
      BY <3>6, CallFields DEF Claimed, KeptAway
    <3>8. HasClaimed(d, call[d], lease', spent)
      BY <3>2, <3>5, <3>7 DEF CallInv, HasClaimed
    <3>9. HasKeptAway(d, call[d], lease', spent)
      BY <3>2, <3>5, <3>7 DEF CallInv, HasKeptAway
    <3>. QED
      BY <3>1, <3>2, <3>4, <3>8, <3>9 DEF CallInv
  <2>. QED
    BY <2>1, <2>2
<1>4. ASSUME NEW d \in CallNumbers, d # c, NEW u \in Claimed(r), u \in Claimed(call[d])
      PROVE  FALSE
  <2>1. u \notin Claimed(call[c])
    BY <1>4 DEF HeldInv
  <2>2. u \in Utxos \ spent /\ lease[u].by = Nobody
    BY <1>4, <2>1 DEF Locking!Available, Locking!Held
  <2>3. HasClaimed(d, call[d], lease, spent)
    BY DEF HeldInv, CallInv
  <2>. QED
    BY <1>4, <2>2, <2>3, Others DEF HasClaimed, Holds
<1>5. \A d, e \in CallNumbers : d # e => Claimed(call'[d]) \cap Claimed(call'[e]) = {}
  <2>. SUFFICES ASSUME NEW d \in CallNumbers, NEW e \in CallNumbers, d # e,
                       NEW u \in Claimed(call'[d]), u \in Claimed(call'[e])
                PROVE  FALSE
    OBVIOUS
  <2>1. CASE d = c
    BY <1>1, <1>4, <2>1
  <2>2. CASE e = c
    BY <1>1, <1>4, <2>2
  <2>3. CASE d # c /\ e # c
    BY <1>1, <2>3 DEF HeldInv
  <2>. QED
    BY <2>1, <2>2, <2>3
<1>. QED
  BY <1>2, <1>3, <1>5 DEF HeldInv

\* ... and no lock at all
LEMMA CallGoesOn ==
  ASSUME HeldInv, NEW c \in CallNumbers, NEW r \in CallRecord,
         call' = [call EXCEPT ![c] = r], UNCHANGED <<lease, spent, keeper>>,
         CallInv(c, r, lease, spent),
         Claimed(r) \subseteq Claimed(call[c])
  PROVE  HeldInv'
<1>1. lease' \in [Utxos -> Lock] /\ \A u \in Utxos : lease'[u].by # Nobody <=> lease'[u].left > 0
  BY DEF HeldInv, LocksInv
<1>2. CallInv(c, r, lease', spent)
  OBVIOUS
<1>. QED
  BY <1>1, <1>2, CallMoves

-----------------------------------------------------------------------------
(* How calls end *)

Steps ==
  {"lock", "unlock", "fund", "rate", "sign", "paste", "refund", "partial", "conflict"}

LEMMA NotCalledFacts ==
  LET r == Locking!NotCalled
  IN  /\ r \in CallRecord
      /\ r.kind = "none" /\ r.at = "idle" /\ r.then = "none" /\ r.tokens = 0
      /\ r.named = {} /\ r.todo = {} /\ r.inputs = {} /\ r.said = "none" /\ r.gives = 0
      /\ r.partial = "none" /\ r.result = "none" /\ r.failed = {} /\ ~r.lapsed
BY DEF Locking!NotCalled, CallRecord, Locking!Stages

LEMMA OverFacts ==
  ASSUME NEW r \in CallRecord
  PROVE  LET q == Locking!Over(r)
         IN  /\ q \in CallRecord
             /\ q.kind = "none" /\ q.at = "done" /\ q.named = {} /\ q.todo = {}
             /\ q.gives = 0 /\ q.result = r.result
             /\ q.inputs = IF r.result = "ok" THEN r.inputs ELSE {}
             /\ q.failed = r.failed \cap Locking!Leaving
             /\ q.lapsed <=> r.lapsed /\ r.result = "ok"
<1>. DEFINE b == r.lapsed /\ r.result = "ok"
            kept == IF r.result = "ok" THEN r.inputs ELSE {}
            left == r.failed \cap Locking!Leaving
            q == [Locking!NotCalled EXCEPT !.at = "done", !.result = r.result,
                    !.inputs = kept, !.failed = left, !.lapsed = b]
<1>1. Locking!Over(r) = q
  BY DEF Locking!Over
<1>2. /\ b \in BOOLEAN /\ kept \in SUBSET Utxos
      /\ r.result \in {"none", "ok", "failed"} /\ "done" \in Locking!Stages
      /\ left \in SUBSET {"lock", "unlock", "fund", "rate", "sign", "paste", "refund",
                          "partial", "conflict"}
  BY CallFields DEF Locking!Stages
<1>3. /\ kept = IF r.result = "ok" THEN r.inputs ELSE {}
      /\ left = r.failed \cap Locking!Leaving
      /\ b <=> r.lapsed /\ r.result = "ok"
  OBVIOUS
<1>. HIDE DEF b, kept, left
<1>4. Locking!NotCalled \in CallRecord
  BY NotCalledFacts
<1>5. q \in CallRecord
  BY <1>2, <1>4 DEF CallRecord
<1>6. q.lapsed = b
  BY <1>4 DEF CallRecord
<1>7. /\ q.kind = "none" /\ q.at = "done" /\ q.named = {} /\ q.todo = {}
      /\ q.gives = 0 /\ q.result = r.result /\ q.inputs = kept /\ q.failed = left
  BY NotCalledFacts DEF CallRecord
<1>. HIDE DEF q
<1>. QED
  BY <1>1, <1>3, <1>5, <1>6, <1>7

\* A call is over: what it still holds is its transaction's, or left behind
LEMMA CallIsOver ==
  ASSUME NEW c \in CallNumbers, NEW r \in CallRecord, NEW locked, NEW gone,
         \/ r.failed \cap Locking!Leaving # {}
         \/ \A u \in Utxos : locked[u].by = c =>
              locked[u].use = "fund" /\ u \in r.inputs /\ r.result = "ok",
         r.result = "ok" => HasClaimed(c, r, locked, gone)
  PROVE  /\ Locking!Over(r) \in CallRecord
         /\ CallInv(c, Locking!Over(r), locked, gone)
         /\ Claimed(Locking!Over(r)) \subseteq Claimed(r)
<1>. DEFINE q == Locking!Over(r)
<1>1. /\ q \in CallRecord
      /\ q.kind = "none" /\ q.at = "done" /\ q.named = {} /\ q.todo = {}
      /\ q.gives = 0 /\ q.result = r.result
      /\ q.inputs = IF r.result = "ok" THEN r.inputs ELSE {}
      /\ q.failed = r.failed \cap Locking!Leaving
      /\ q.lapsed <=> r.lapsed /\ r.result = "ok"
  BY OverFacts
<1>. HIDE DEF q
<1>2. IsStaged(q)
  BY <1>1 DEF IsStaged
<1>3. HasOnly(c, q, locked)
  BY <1>1 DEF HasOnly, MayFund
<1>4. Claimed(q) \subseteq Claimed(r) /\ (Claimed(q) # {} => r.result = "ok")
  BY <1>1 DEF Claimed
<1>5. HasClaimed(c, q, locked, gone)
  BY <1>4 DEF HasClaimed
<1>6. HasKeptAway(c, q, locked, gone) /\ IsSpared(q) /\ IsNearlyAll(q)
  BY <1>1 DEF HasKeptAway, KeptAway, IsSpared, IsNearlyAll
<1>. QED
  BY <1>1, <1>2, <1>3, <1>4, <1>5, <1>6 DEF CallInv, q

NoneHeld(c, locked) == \A u \in Utxos : locked[u].by # c

LEMMA FailsFacts ==
  ASSUME NEW r \in CallRecord, NEW step \in Steps
  PROVE  LET q == Locking!Fails(r, step)
         IN  /\ q \in CallRecord
             /\ q.kind = r.kind /\ q.at = r.at /\ q.then = r.then /\ q.named = r.named
             /\ q.todo = r.todo /\ q.inputs = r.inputs /\ q.gives = r.gives
             /\ q.tokens = r.tokens /\ q.said = r.said /\ q.partial = r.partial
             /\ q.result = "failed" /\ q.failed = r.failed \cup {step}
             /\ q.lapsed = r.lapsed
BY DEF Locking!Fails, CallRecord, Steps

\* A call fails that holds nothing, or at a step that may leave locks behind
LEMMA CallFailed ==
  ASSUME NEW c \in CallNumbers, NEW r \in CallRecord, NEW step \in Steps, NEW locked, NEW gone,
         step \in Locking!Leaving \/ NoneHeld(c, locked) \/ r.failed \cap Locking!Leaving # {}
  PROVE  /\ Locking!Ends(r, step) \in CallRecord
         /\ CallInv(c, Locking!Ends(r, step), locked, gone)
         /\ Claimed(Locking!Ends(r, step)) = {}
<1>. DEFINE f == Locking!Fails(r, step)
<1>1. f \in CallRecord /\ f.result = "failed" /\ f.failed = r.failed \cup {step}
  BY FailsFacts
<1>. HIDE DEF f
<1>2. Claimed(f) = {}
  BY <1>1 DEF Claimed
<1>3. \/ f.failed \cap Locking!Leaving # {}
      \/ \A u \in Utxos : locked[u].by # c
  BY <1>1 DEF NoneHeld
<1>4. /\ Locking!Over(f) \in CallRecord
      /\ CallInv(c, Locking!Over(f), locked, gone)
      /\ Claimed(Locking!Over(f)) \subseteq Claimed(f)
  BY <1>1, <1>3, CallIsOver
<1>. QED
  BY <1>2, <1>4 DEF Locking!Ends, f

\* A call succeeds, unless something has failed: then it holds nothing, or what
\* was left behind
LEMMA CallSucceeded ==
  ASSUME NEW c \in CallNumbers, NEW r \in CallRecord, NEW locked, NEW gone,
         HasClaimed(c, r, locked, gone), r.result = "failed" => r.failed # {},
         \/ r.failed \cap Locking!Leaving # {}
         \/ \A u \in Utxos : locked[u].by = c =>
              locked[u].use = "fund" /\ u \in r.inputs /\ r.failed = {}
  PROVE  /\ Locking!Succeeds(r) \in CallRecord
         /\ CallInv(c, Locking!Succeeds(r), locked, gone)
         /\ Claimed(Locking!Succeeds(r)) \subseteq Claimed(r)
<1>. DEFINE s == [r EXCEPT !.result = IF r.failed = {} THEN "ok" ELSE "failed"]
<1>1. /\ s \in CallRecord /\ s.inputs = r.inputs /\ s.failed = r.failed
      /\ s.lapsed = r.lapsed /\ s.result = IF r.failed = {} THEN "ok" ELSE "failed"
  BY DEF CallRecord
<1>2. Locking!Succeeds(r) = Locking!Over(s)
  BY DEF Locking!Succeeds
<1>. HIDE DEF s
<1>3. Claimed(s) \subseteq Claimed(r)
  BY <1>1 DEF Claimed
<1>4. s.result = "ok" => HasClaimed(c, s, locked, gone)
  BY <1>3 DEF HasClaimed
<1>5. \/ s.failed \cap Locking!Leaving # {}
      \/ \A u \in Utxos : locked[u].by = c =>
           locked[u].use = "fund" /\ u \in s.inputs /\ s.result = "ok"
  BY <1>1
<1>6. /\ Locking!Over(s) \in CallRecord
      /\ CallInv(c, Locking!Over(s), locked, gone)
      /\ Claimed(Locking!Over(s)) \subseteq Claimed(s)
  BY <1>1, <1>4, <1>5, CallIsOver
<1>. QED
  BY <1>2, <1>3, <1>6

-----------------------------------------------------------------------------
(* Steps of a call that holds nothing *)

LEMMA CallKnown ==
  ASSUME HeldInv, NEW c \in CallNumbers
  PROVE  /\ call[c] \in CallRecord
         /\ CallInv(c, call[c], lease, spent)
         /\ IsStaged(call[c])
BY DEF HeldInv, LocksInv, CallInv

\* A call that neither keeps coins away nor has a transaction, and holds nothing
EmptyHanded(c, r) ==
  /\ r.kind # "disallow" /\ r.inputs = {}
  /\ r.failed \cap Locking!Leaving # {} \/ NoneHeld(c, lease)

LEMMA EmptyHandsKept ==
  ASSUME NEW c \in CallNumbers, NEW r \in CallRecord,
         IsStaged(r), IsNearlyAll(r), EmptyHanded(c, r)
  PROVE  CallInv(c, r, lease, spent) /\ Claimed(r) = {}
<1>1. Claimed(r) = {}
  BY DEF Claimed, EmptyHanded
<1>2. HasOnly(c, r, lease)
  BY DEF HasOnly, EmptyHanded, NoneHeld
<1>3. KeptAway(r) = {}
  BY DEF KeptAway, IsStaged, EmptyHanded
<1>. QED
  BY <1>1, <1>2, <1>3 DEF CallInv, HasClaimed, HasKeptAway, IsSpared, EmptyHanded

LEMMA HandsEmpty ==
  ASSUME NEW c \in CallNumbers, NEW r \in CallRecord, CallInv(c, r, lease, spent),
         r.kind # "disallow", r.inputs = {}, r.at \notin {"finalizing", "releasing"}
  PROVE  EmptyHanded(c, r)
BY DEF CallInv, HasOnly, MayFund, MayBlock, EmptyHanded, NoneHeld

\* A call that holds nothing goes on to a stage at which it still does
LEMMA CallMovesOn ==
  ASSUME HeldInv, NEW c \in CallNumbers, NEW r \in CallRecord,
         Locking!Becomes(c, r), UNCHANGED lease,
         IsStaged(r), IsNearlyAll(r), EmptyHanded(c, r)
  PROVE  HeldInv'
<1>1. CallInv(c, r, lease, spent) /\ Claimed(r) = {}
  BY EmptyHandsKept
<1>. QED
  BY <1>1, CallGoesOn DEF Locking!Becomes

LEMMA CallStops ==
  ASSUME HeldInv, NEW c \in CallNumbers, NEW step \in Steps,
         Locking!Becomes(c, Locking!Ends(call[c], step)), UNCHANGED lease,
         step \in Locking!Leaving \/ EmptyHanded(c, call[c])
  PROVE  HeldInv'
<1>1. /\ Locking!Ends(call[c], step) \in CallRecord
      /\ CallInv(c, Locking!Ends(call[c], step), lease, spent)
      /\ Claimed(Locking!Ends(call[c], step)) = {}
  BY CallKnown, CallFailed DEF EmptyHanded
<1>. QED
  BY <1>1, CallGoesOn DEF Locking!Becomes

\* A call that has not begun
LEMMA IdleCall ==
  ASSUME HeldInv, NEW c \in CallNumbers, call[c].at = "idle"
  PROVE  call[c] = Locking!NotCalled /\ NoneHeld(c, lease)
<1>1. call[c] = Locking!NotCalled
  BY CallKnown DEF IsStaged
<1>2. HasOnly(c, call[c], lease)
  BY CallKnown DEF CallInv
<1>. QED
  BY <1>1, <1>2, NotCalledFacts DEF HasOnly, MayFund, MayBlock, NoneHeld

LEMMA ReservingStarts ==
  ASSUME HeldInv, NEW c \in CallNumbers, Locking!StartReserving(c)
  PROVE  HeldInv'
<1>1. PICK tokens \in Amounts, at \in {"attempt", "rating", "pasting"} :
        Locking!Starts(c, [Locking!NotCalled EXCEPT !.kind = "reserve", !.tokens = tokens,
                             !.at = at])
  BY DEF Locking!StartReserving
<1>. DEFINE r == [Locking!NotCalled EXCEPT !.kind = "reserve", !.tokens = tokens, !.at = at]
<1>2. r \in CallRecord
  BY NotCalledFacts DEF CallRecord, Locking!Stages
<1>3. r.kind = "reserve" /\ r.at = at /\ r.inputs = {} /\ r.failed = {} /\ r.result = "none"
  BY NotCalledFacts DEF CallRecord
<1>4. Locking!Becomes(c, r) /\ UNCHANGED lease /\ NoneHeld(c, lease)
  BY <1>1, IdleCall DEF Locking!Starts
<1>. HIDE DEF r
<1>5. IsStaged(r) /\ IsNearlyAll(r) /\ EmptyHanded(c, r)
  BY <1>3, <1>4 DEF IsStaged, IsNearlyAll, EmptyHanded
<1>. QED
  BY <1>2, <1>4, <1>5, CallMovesOn

LEMMA TemplateStarts ==
  ASSUME HeldInv, NEW c \in CallNumbers, NEW S \in SUBSET Utxos, NEW kind \in {"max", "sign"},
         Locking!Starts(c, [Locking!NotCalled EXCEPT !.kind = kind, !.named = S,
                              !.at = "template"])
  PROVE  HeldInv'
<1>. DEFINE r == [Locking!NotCalled EXCEPT !.kind = kind, !.named = S, !.at = "template"]
<1>2. r \in CallRecord
  BY NotCalledFacts DEF CallRecord, Locking!Stages
<1>3. /\ r.kind = kind /\ r.at = "template" /\ r.inputs = {} /\ r.failed = {}
      /\ r.result = "none" /\ r.gives = 0
  BY NotCalledFacts DEF CallRecord
<1>4. Locking!Becomes(c, r) /\ UNCHANGED lease /\ NoneHeld(c, lease)
  BY IdleCall DEF Locking!Starts
<1>. HIDE DEF r
<1>5. IsStaged(r) /\ IsNearlyAll(r) /\ EmptyHanded(c, r)
  BY <1>3, <1>4 DEF IsStaged, IsNearlyAll, EmptyHanded
<1>. QED
  BY <1>2, <1>4, <1>5, CallMovesOn

LEMMA StartsKeep ==
  ASSUME HeldInv, NEW c \in CallNumbers, Locking!StartMax(c) \/ Locking!StartSigning(c)
  PROVE  HeldInv'
<1>1. CASE Locking!StartMax(c)
  BY <1>1, TemplateStarts DEF Locking!StartMax
<1>2. CASE Locking!StartSigning(c)
  <2>1. PICK S \in (SUBSET Utxos) \ {{}} : \E u \in S :
          Locking!Starts(c, [Locking!NotCalled EXCEPT !.kind = "sign", !.named = {u},
                               !.at = "template"])
    BY <1>2, Zenon DEF Locking!StartSigning
  <2>2. PICK u \in S :
          Locking!Starts(c, [Locking!NotCalled EXCEPT !.kind = "sign", !.named = {u},
                               !.at = "template"])
    BY <2>1
  <2>3. {u} \in SUBSET Utxos
    BY <2>1, <2>2
  <2>. QED
    BY <2>2, <2>3, TemplateStarts
<1>. QED
  BY <1>1, <1>2

LEMMA AtFacts ==
  ASSUME NEW r \in CallRecord, NEW at \in Locking!Stages
  PROVE  LET q == [r EXCEPT !.at = at]
         IN  /\ q \in CallRecord
             /\ q.kind = r.kind /\ q.at = at /\ q.then = r.then /\ q.named = r.named
             /\ q.todo = r.todo /\ q.inputs = r.inputs /\ q.gives = r.gives
             /\ q.tokens = r.tokens /\ q.result = r.result /\ q.failed = r.failed
             /\ q.lapsed = r.lapsed
BY DEF CallRecord

\* The steps of reserveTransitFunds that lock nothing
LEMMA NobodyIsAsked ==
  ASSUME HeldInv, NEW c \in CallNumbers,
         Locking!AttemptFails(c) \/ Locking!AskForFeeRate(c)
  PROVE  HeldInv'
<1>1. call[c] \in CallRecord /\ CallInv(c, call[c], lease, spent) /\ IsStaged(call[c])
  BY CallKnown
<1>2. /\ call[c].kind = "reserve" /\ call[c].inputs = {} /\ call[c].failed = {}
      /\ call[c].at \in {"attempt", "rating"}
  BY <1>1 DEF IsStaged, Locking!AttemptFails, Locking!AskForFeeRate
<1>3. EmptyHanded(c, call[c])
  BY <1>1, <1>2, HandsEmpty
<1>4. ASSUME NEW at \in {"pasting", "creating"}, Locking!Becomes(c, [call[c] EXCEPT !.at = at]),
             UNCHANGED lease
      PROVE  HeldInv'
  <2>. DEFINE q == [call[c] EXCEPT !.at = at]
  <2>1. at \in Locking!Stages
    BY DEF Locking!Stages
  <2>2. /\ q \in CallRecord
        /\ q.kind = "reserve" /\ q.at = at /\ q.inputs = {} /\ q.failed = {}
        /\ q.result = call[c].result
    BY <1>1, <1>2, <2>1, AtFacts
  <2>3. Locking!Becomes(c, q)
    BY <1>4
  <2>. HIDE DEF q
  <2>4. IsStaged(q) /\ IsNearlyAll(q) /\ EmptyHanded(c, q)
    BY <1>1, <1>2, <1>3, <2>2 DEF IsStaged, IsNearlyAll, EmptyHanded
  <2>. QED
    BY <1>4, <2>2, <2>3, <2>4, CallMovesOn
<1>5. CASE Locking!AttemptFails(c)
  BY <1>4, <1>5 DEF Locking!AttemptFails
<1>6. CASE Locking!AskForFeeRate(c)
  <2>1. PICK rate \in Rates :
          Locking!Becomes(c, IF Locking!RateIsSane(rate)
                             THEN [call[c] EXCEPT !.at = "creating"]
                             ELSE Locking!Ends(call[c], "rate"))
    BY <1>6 DEF Locking!AskForFeeRate
  <2>2. UNCHANGED lease
    BY <1>6 DEF Locking!AskForFeeRate
  <2>3. CASE Locking!RateIsSane(rate)
    BY <1>4, <2>1, <2>2, <2>3
  <2>4. CASE ~Locking!RateIsSane(rate)
    BY <1>3, <2>1, <2>2, <2>4, CallStops DEF Steps
  <2>. QED
    BY <2>3, <2>4
<1>. QED
  BY <1>5, <1>6

\* The answer of the user is taken down while the locks of the trial are released
LEMMA UserConfirms ==
  ASSUME HeldInv, NEW c \in CallNumbers, Locking!ConfirmInternal(c)
  PROVE  HeldInv'
<1>1. PICK said \in {"internal", "external"} :
        Locking!Becomes(c, [call[c] EXCEPT !.said = said])
  BY DEF Locking!ConfirmInternal
<1>. DEFINE q == [call[c] EXCEPT !.said = said]
<1>2. call[c] \in CallRecord /\ CallInv(c, call[c], lease, spent)
  BY CallKnown
<1>3. /\ q \in CallRecord
      /\ q.kind = call[c].kind /\ q.at = call[c].at /\ q.then = call[c].then
      /\ q.named = call[c].named /\ q.todo = call[c].todo /\ q.inputs = call[c].inputs
      /\ q.gives = call[c].gives /\ q.result = call[c].result
      /\ q.failed = call[c].failed /\ q.lapsed = call[c].lapsed
  BY <1>2 DEF CallRecord
<1>4. call[c].at \in {"releasing", "confirmed"} /\ UNCHANGED lease
  BY DEF Locking!ConfirmInternal
<1>5. Locking!Becomes(c, q)
  BY <1>1
<1>. HIDE DEF q
<1>6. IsStaged(q)
  BY <1>2, <1>3, <1>4 DEF CallInv, IsStaged, Locking!Goal
<1>7. MayFund(q) = MayFund(call[c]) /\ MayBlock(q) = MayBlock(call[c])
  BY <1>3 DEF MayFund, MayBlock
<1>8. HasOnly(c, q, lease)
  BY <1>2, <1>3, <1>7 DEF CallInv, HasOnly
<1>9. Claimed(q) = Claimed(call[c]) /\ KeptAway(q) = KeptAway(call[c])
  BY <1>3 DEF Claimed, KeptAway
<1>10. HasClaimed(c, q, lease, spent) /\ HasKeptAway(c, q, lease, spent)
  BY <1>2, <1>9 DEF CallInv, HasClaimed, HasKeptAway
<1>11. IsSpared(q) /\ IsNearlyAll(q)
  BY <1>2, <1>3 DEF CallInv, IsSpared, IsNearlyAll
<1>12. CallInv(c, q, lease, spent)
  BY <1>6, <1>8, <1>10, <1>11 DEF CallInv
<1>. QED
  BY <1>3, <1>4, <1>5, <1>9, <1>12, CallGoesOn DEF Locking!Becomes

LEMMA UserHasConfirmed ==
  ASSUME HeldInv, NEW c \in CallNumbers, Locking!IsExternal(c)
  PROVE  HeldInv'
<1>. DEFINE at == IF call[c].said = "internal" THEN "rating" ELSE "pasting"
            q == [call[c] EXCEPT !.at = at, !.then = "none", !.said = "none"]
<1>1. call[c] \in CallRecord /\ CallInv(c, call[c], lease, spent) /\ IsStaged(call[c])
  BY CallKnown
<1>2. /\ call[c].kind = "reserve" /\ call[c].inputs = {} /\ call[c].failed = {}
      /\ call[c].at = "confirmed"
  BY <1>1 DEF IsStaged, Locking!IsExternal
<1>3. EmptyHanded(c, call[c])
  BY <1>1, <1>2, HandsEmpty
<1>4. Locking!Becomes(c, q) /\ UNCHANGED lease
  BY DEF Locking!IsExternal
<1>5. at \in {"rating", "pasting"} /\ at \in Locking!Stages
  BY DEF Locking!Stages
<1>. HIDE DEF at
<1>6. /\ q \in CallRecord
      /\ q.kind = "reserve" /\ q.at = at /\ q.inputs = {} /\ q.failed = {}
      /\ q.result = call[c].result
  BY <1>1, <1>2, <1>5 DEF CallRecord
<1>. HIDE DEF q
<1>7. IsStaged(q) /\ IsNearlyAll(q) /\ EmptyHanded(c, q)
  BY <1>1, <1>2, <1>3, <1>5, <1>6 DEF IsStaged, IsNearlyAll, EmptyHanded
<1>. QED
  BY <1>4, <1>6, <1>7, CallMovesOn

\* A transaction of the user's: the call holds nothing of this wallet
LEMMA UserPastes ==
  ASSUME HeldInv, NEW c \in CallNumbers, Locking!GetExternal(c)
  PROVE  HeldInv'
<1>1. call[c] \in CallRecord /\ CallInv(c, call[c], lease, spent) /\ IsStaged(call[c])
  BY CallKnown
<1>2. /\ call[c].kind = "reserve" /\ call[c].inputs = {} /\ call[c].failed = {}
      /\ call[c].at = "pasting" /\ call[c].tokens \in Nat /\ UNCHANGED lease
  BY <1>1, CallFields DEF IsStaged, Locking!GetExternal
<1>3. EmptyHanded(c, call[c])
  BY <1>1, <1>2, HandsEmpty
<1>4. ASSUME NEW gives \in {0, call[c].tokens - 1, call[c].tokens},
             Locking!Becomes(c, [call[c] EXCEPT !.at = "refunding", !.gives = gives])
      PROVE  HeldInv'
  <2>. DEFINE q == [call[c] EXCEPT !.at = "refunding", !.gives = gives]
  <2>1. gives \in Int
    BY <1>2
  <2>2. /\ q \in CallRecord
        /\ q.kind = "reserve" /\ q.at = "refunding" /\ q.inputs = {} /\ q.failed = {}
        /\ q.result = call[c].result
    BY <1>1, <1>2, <2>1 DEF CallRecord, Locking!Stages
  <2>3. Locking!Becomes(c, q)
    BY <1>4
  <2>. HIDE DEF q
  <2>4. IsStaged(q) /\ IsNearlyAll(q) /\ EmptyHanded(c, q)
    BY <1>1, <1>2, <1>3, <2>2 DEF IsStaged, IsNearlyAll, EmptyHanded
  <2>. QED
    BY <1>2, <2>2, <2>3, <2>4, CallMovesOn
<1>5. CASE Locking!Becomes(c, Locking!Ends(call[c], "paste"))
  BY <1>2, <1>3, <1>5, CallStops DEF Steps
<1>. QED
  BY <1>4, <1>5 DEF Locking!GetExternal

-----------------------------------------------------------------------------
(* Steps of a call that fund a transaction *)

\* Free coins are locked
LEMMA LeasedFacts ==
  ASSUME HeldInv, NEW c \in CallNumbers, NEW S \in SUBSET Utxos, NEW use \in {"fund", "block"},
         S \subseteq Locking!Available, Locking!Leased(S, c, use)
  PROVE  /\ lease' \in [Utxos -> Lock]
         /\ \A u \in Utxos : lease'[u].by # Nobody <=> lease'[u].left > 0
         /\ \A u \in Utxos : lease'[u] # lease[u] =>
              lease[u].by \in {c, Nobody} /\ lease'[u].by \in {c, Nobody}
         /\ \A u \in S : lease'[u].by = c /\ lease'[u].use = use
         /\ \A u \in Utxos \ S : lease'[u] = lease[u]
<1>. DEFINE new == [by |-> c, use |-> use, left |-> LeaseTime]
<1>1. \A u \in Utxos : lease'[u] = IF u \in S THEN new ELSE lease[u]
  BY DEF Locking!Leased
<1>2. new \in Lock /\ new.by = c /\ new.use = use /\ new.left > 0
  BY Others DEF Lock
<1>3. \A u \in S : lease[u].by = Nobody
  BY DEF Locking!Available, Locking!Held
<1>4. lease' = [u \in Utxos |-> IF u \in S THEN new ELSE lease[u]]
  BY DEF Locking!Leased
<1>. HIDE DEF new
<1>5. lease \in [Utxos -> Lock] /\ \A u \in Utxos : lease[u].by # Nobody <=> lease[u].left > 0
  BY DEF HeldInv, LocksInv
<1>6. lease' \in [Utxos -> Lock]
  BY <1>2, <1>4, <1>5
<1>. QED
  BY <1>1, <1>2, <1>3, <1>5, <1>6, Others

\* A call that held nothing has funded a transaction of coins that were free
LEMMA CallFunds ==
  ASSUME HeldInv, NEW c \in CallNumbers, NEW q \in CallRecord, NEW S \in SUBSET Utxos,
         NEW tokens, Locking!Funds(c, S, tokens), Locking!Becomes(c, q),
         IsStaged(q), IsNearlyAll(q), q.kind # "disallow", q.inputs \in {{}, S},
         S \subseteq MayFund(q), q.failed = call[c].failed, EmptyHanded(c, call[c])
  PROVE  HeldInv'
<1>1. S \subseteq Locking!Available /\ Locking!Leased(S, c, "fund")
  BY DEF Locking!Funds
<1>2. /\ lease' \in [Utxos -> Lock]
      /\ \A u \in Utxos : lease'[u].by # Nobody <=> lease'[u].left > 0
      /\ \A u \in Utxos : lease'[u] # lease[u] =>
           lease[u].by \in {c, Nobody} /\ lease'[u].by \in {c, Nobody}
      /\ \A u \in S : lease'[u].by = c /\ lease'[u].use = "fund"
      /\ \A u \in Utxos \ S : lease'[u] = lease[u]
  BY <1>1, LeasedFacts
<1>3. HasOnly(c, q, lease')
  BY <1>2 DEF HasOnly, EmptyHanded, NoneHeld
<1>4. Claimed(q) \subseteq S
  BY DEF Claimed
<1>5. HasClaimed(c, q, lease', spent)
  BY <1>2, <1>4 DEF HasClaimed, Holds
<1>6. KeptAway(q) = {}
  BY DEF KeptAway, IsStaged
<1>7. CallInv(c, q, lease', spent)
  BY <1>3, <1>5, <1>6 DEF CallInv, HasKeptAway, IsSpared
<1>8. Claimed(q) \subseteq Claimed(call[c]) \cup Locking!Available
  BY <1>1, <1>4
<1>. QED
  BY <1>2, <1>7, <1>8, CallMoves DEF Locking!Becomes

LEMMA ReleasingFacts ==
  ASSUME NEW r \in CallRecord, NEW S \in SUBSET Utxos, S # {},
         NEW stopAt \in {"answer", "confirmed", "maximum", "conflict"}
  PROVE  LET q == Locking!Releasing(r, S, stopAt)
         IN  /\ q \in CallRecord
             /\ q.kind = r.kind /\ q.at = "releasing" /\ q.then = stopAt /\ q.named = r.named
             /\ q.todo = S /\ q.inputs = r.inputs /\ q.gives = r.gives
             /\ q.result = r.result /\ q.failed = r.failed /\ q.lapsed = r.lapsed
<1>1. Locking!Releasing(r, S, stopAt) = [r EXCEPT !.at = "releasing", !.todo = S, !.then = stopAt]
  BY DEF Locking!Releasing
<1>2. "releasing" \in Locking!Stages
  BY DEF Locking!Stages
<1>3. stopAt \in {"none", "funding", "answer", "confirmed", "maximum", "conflict"}
  OBVIOUS
<1>. DEFINE q == [r EXCEPT !.at = "releasing", !.todo = S, !.then = stopAt]
<1>4. q \in CallRecord
  BY <1>2, <1>3 DEF CallRecord
<1>5. /\ q.kind = r.kind /\ q.at = "releasing" /\ q.then = stopAt /\ q.named = r.named
      /\ q.todo = S /\ q.inputs = r.inputs /\ q.gives = r.gives
      /\ q.result = r.result /\ q.failed = r.failed /\ q.lapsed = r.lapsed
  BY DEF CallRecord
<1>. HIDE DEF q
<1>. QED
  BY <1>1, <1>4, <1>5 DEF q

\* isExternalFunding funds on trial
LEMMA TrialFunds ==
  ASSUME HeldInv, NEW c \in CallNumbers, Locking!AttemptFunding(c)
  PROVE  HeldInv'
<1>1. call[c] \in CallRecord /\ CallInv(c, call[c], lease, spent) /\ IsStaged(call[c])
  BY CallKnown
<1>2. /\ call[c].kind = "reserve" /\ call[c].inputs = {} /\ call[c].failed = {}
      /\ call[c].at = "attempt"
  BY <1>1 DEF IsStaged, Locking!AttemptFunding
<1>3. EmptyHanded(c, call[c])
  BY <1>1, <1>2, HandsEmpty
<1>4. PICK S \in (SUBSET Utxos) \ {{}} :
        /\ Locking!Funds(c, S, call[c].tokens)
        /\ Locking!Becomes(c, Locking!Releasing(call[c], S, "confirmed"))
  BY DEF Locking!AttemptFunding
<1>. DEFINE q == Locking!Releasing(call[c], S, "confirmed")
<1>8. S \in SUBSET Utxos /\ S # {}
  BY <1>4
<1>5. /\ q \in CallRecord
      /\ q.kind = "reserve" /\ q.at = "releasing" /\ q.then = "confirmed"
      /\ q.todo = S /\ q.inputs = {} /\ q.result = call[c].result /\ q.failed = {}
  BY <1>1, <1>2, <1>8, ReleasingFacts
<1>. HIDE DEF q
<1>6. IsStaged(q) /\ IsNearlyAll(q) /\ MayFund(q) = S
  BY <1>1, <1>2, <1>5 DEF IsStaged, IsNearlyAll, MayFund
<1>7. Locking!Becomes(c, q)
  BY <1>4 DEF q
<1>. QED
  BY <1>2, <1>3, <1>4, <1>5, <1>6, <1>7, <1>8, CallFunds

LEMMA PsbtIsCreated ==
  ASSUME HeldInv, NEW c \in CallNumbers, Locking!CreatePsbt(c)
  PROVE  HeldInv'
<1>1. call[c] \in CallRecord /\ CallInv(c, call[c], lease, spent) /\ IsStaged(call[c])
  BY CallKnown
<1>2. /\ call[c].kind = "reserve" /\ call[c].inputs = {} /\ call[c].failed = {}
      /\ call[c].at = "creating"
  BY <1>1 DEF IsStaged, Locking!CreatePsbt
<1>3. EmptyHanded(c, call[c])
  BY <1>1, <1>2, HandsEmpty
<1>4. ASSUME NEW S \in SUBSET Utxos, Locking!Funds(c, S, call[c].tokens),
             Locking!Becomes(c, [call[c] EXCEPT !.at = "signing", !.inputs = S])
      PROVE  HeldInv'
  <2>. DEFINE q == [call[c] EXCEPT !.at = "signing", !.inputs = S]
  <2>1. /\ q \in CallRecord
        /\ q.kind = "reserve" /\ q.at = "signing" /\ q.inputs = S
        /\ q.result = call[c].result /\ q.failed = {}
    BY <1>1, <1>2, <1>4 DEF CallRecord, Locking!Stages
  <2>2. Locking!Becomes(c, q)
    BY <1>4
  <2>. HIDE DEF q
  <2>3. IsStaged(q) /\ IsNearlyAll(q) /\ MayFund(q) = S
    BY <1>1, <1>2, <2>1 DEF IsStaged, IsNearlyAll, MayFund
  <2>. QED
    BY <1>2, <1>3, <1>4, <2>1, <2>2, <2>3, CallFunds
<1>5. CASE Locking!Becomes(c, Locking!Ends(call[c], "fund")) /\ UNCHANGED lease
  BY <1>3, <1>5, CallStops DEF Steps
<1>. QED
  BY <1>4, <1>5 DEF Locking!CreatePsbt

-----------------------------------------------------------------------------
(* Steps of a call that has a transaction *)

\* A call goes on with its locks where they are
LEMMA CallCarriesOn ==
  ASSUME HeldInv, NEW c \in CallNumbers, NEW q \in CallRecord,
         Locking!Becomes(c, q), UNCHANGED lease,
         IsStaged(q), IsNearlyAll(q), IsSpared(q),
         call[c].failed \subseteq q.failed, Claimed(q) \subseteq Claimed(call[c]),
         KeptAway(q) \subseteq KeptAway(call[c]),
         MayFund(call[c]) \subseteq MayFund(q), MayBlock(call[c]) \subseteq MayBlock(q)
  PROVE  HeldInv'
<1>1. CallInv(c, call[c], lease, spent)
  BY CallKnown
<1>2. HasOnly(c, q, lease)
  BY <1>1 DEF CallInv, HasOnly
<1>3. HasClaimed(c, q, lease, spent) /\ HasKeptAway(c, q, lease, spent)
  BY <1>1 DEF CallInv, HasClaimed, HasKeptAway
<1>4. CallInv(c, q, lease, spent)
  BY <1>2, <1>3 DEF CallInv
<1>. QED
  BY <1>4, CallGoesOn DEF Locking!Becomes

LEMMA PsbtIsSigned ==
  ASSUME HeldInv, NEW c \in CallNumbers, Locking!SignPsbt(c)
  PROVE  HeldInv'
<1>. DEFINE q == [call[c] EXCEPT !.at = "refunding", !.gives = call[c].tokens]
<1>1. call[c] \in CallRecord /\ CallInv(c, call[c], lease, spent) /\ IsStaged(call[c])
  BY CallKnown
<1>2. /\ call[c].kind = "reserve" /\ call[c].failed = {} /\ call[c].at = "signing"
      /\ UNCHANGED lease
  BY <1>1 DEF IsStaged, Locking!SignPsbt
<1>3. call[c].tokens \in Int
  BY <1>1, CallFields
<1>4. /\ q \in CallRecord
      /\ q.kind = "reserve" /\ q.at = "refunding" /\ q.named = call[c].named
      /\ q.todo = call[c].todo /\ q.inputs = call[c].inputs /\ q.failed = {}
      /\ q.result = call[c].result /\ q.lapsed = call[c].lapsed
  BY <1>1, <1>2, <1>3 DEF CallRecord, Locking!Stages
<1>5. Locking!Becomes(c, q)
  BY DEF Locking!SignPsbt
<1>. HIDE DEF q
<1>6. IsStaged(q) /\ IsNearlyAll(q) /\ IsSpared(q)
  BY <1>1, <1>2, <1>4 DEF IsStaged, IsNearlyAll, IsSpared
<1>7. Claimed(q) = Claimed(call[c]) /\ KeptAway(q) = {}
  BY <1>4 DEF Claimed, KeptAway
<1>8. MayFund(q) = MayFund(call[c]) /\ MayBlock(q) = MayBlock(call[c])
  BY <1>2, <1>4 DEF MayFund, MayBlock
<1>. QED
  BY <1>2, <1>4, <1>5, <1>6, <1>7, <1>8, CallCarriesOn

LEMMA RefundIsGiven ==
  ASSUME HeldInv, NEW c \in CallNumbers, Locking!GetRefund(c)
  PROVE  HeldInv'
<1>1. PICK fee \in RefundFees :
        Locking!Becomes(c, Locking!Succeeds([call[c] EXCEPT !.gives = call[c].tokens - fee]))
  BY DEF Locking!GetRefund
<1>. DEFINE q == [call[c] EXCEPT !.gives = call[c].tokens - fee]
<1>2. call[c] \in CallRecord /\ CallInv(c, call[c], lease, spent) /\ IsStaged(call[c])
  BY CallKnown
<1>3. /\ call[c].kind = "reserve" /\ call[c].failed = {} /\ call[c].at = "refunding"
      /\ UNCHANGED lease
  BY <1>2 DEF IsStaged, Locking!GetRefund
<1>4. call[c].tokens - fee \in Int
  BY <1>2, CallFields
<1>5. /\ q \in CallRecord
      /\ q.inputs = call[c].inputs /\ q.failed = {}
      /\ q.result = call[c].result /\ q.lapsed = call[c].lapsed
  BY <1>2, <1>3, <1>4 DEF CallRecord
<1>6. Locking!Becomes(c, Locking!Succeeds(q))
  BY <1>1
<1>. HIDE DEF q
<1>7. Claimed(q) = Claimed(call[c])
  BY <1>5 DEF Claimed
<1>8. HasClaimed(c, q, lease, spent)
  BY <1>2, <1>7 DEF CallInv, HasClaimed
<1>9. \A u \in Utxos : lease[u].by = c => lease[u].use = "fund" /\ u \in q.inputs /\ q.failed = {}
  BY <1>2, <1>3, <1>5 DEF CallInv, HasOnly, MayFund, MayBlock
<1>10. q.result # "failed"
  BY <1>2, <1>3, <1>5 DEF IsStaged
<1>11. /\ Locking!Succeeds(q) \in CallRecord
       /\ CallInv(c, Locking!Succeeds(q), lease, spent)
       /\ Claimed(Locking!Succeeds(q)) \subseteq Claimed(q)
  BY <1>5, <1>8, <1>9, <1>10, CallSucceeded
<1>. QED
  BY <1>3, <1>6, <1>7, <1>11, CallGoesOn DEF Locking!Becomes

LEMMA RefundIsNotGiven ==
  ASSUME HeldInv, NEW c \in CallNumbers,
         Locking!SignFails(c) \/ Locking!RefundFails(c) \/ Locking!RefundThrows(c)
  PROVE  HeldInv'
<1>1. CASE Locking!SignFails(c)
  BY <1>1, CallStops DEF Locking!SignFails, Steps, Locking!Leaving
<1>2. CASE Locking!RefundFails(c)
  BY <1>2, CallStops DEF Locking!RefundFails, Steps, Locking!Leaving
<1>3. CASE Locking!RefundThrows(c)
  <2>. DEFINE q == [call[c] EXCEPT !.at = "thrown"]
  <2>1. call[c] \in CallRecord /\ CallInv(c, call[c], lease, spent) /\ IsStaged(call[c])
    BY CallKnown
  <2>2. /\ call[c].kind = "reserve" /\ call[c].failed = {} /\ call[c].at = "refunding"
        /\ UNCHANGED lease
    BY <1>3, <2>1 DEF IsStaged, Locking!RefundThrows
  <2>3. "thrown" \in Locking!Stages
    BY DEF Locking!Stages
  <2>4. /\ q \in CallRecord
        /\ q.kind = "reserve" /\ q.at = "thrown" /\ q.named = call[c].named
        /\ q.todo = call[c].todo /\ q.inputs = call[c].inputs /\ q.failed = {}
        /\ q.result = call[c].result /\ q.lapsed = call[c].lapsed
    BY <2>1, <2>2, <2>3, AtFacts
  <2>5. Locking!Becomes(c, q)
    BY <1>3 DEF Locking!RefundThrows
  <2>. HIDE DEF q
  <2>6. IsStaged(q) /\ IsNearlyAll(q) /\ IsSpared(q)
    BY <2>1, <2>2, <2>4 DEF IsStaged, IsNearlyAll, IsSpared
  <2>7. Claimed(q) = Claimed(call[c]) /\ KeptAway(q) = {}
    BY <2>4 DEF Claimed, KeptAway
  <2>8. MayFund(q) = MayFund(call[c]) /\ MayBlock(q) = MayBlock(call[c])
    BY <2>2, <2>4 DEF MayFund, MayBlock
  <2>. QED
    BY <2>2, <2>4, <2>5, <2>6, <2>7, <2>8, CallCarriesOn
<1>. QED
  BY <1>1, <1>2, <1>3

-----------------------------------------------------------------------------
(* getMaxFundAmount and signAndFundPsbt *)

\* The template, or a maximum, is funded by the coins that were named, unless
\* none were
LEMMA TemplateIsCreated ==
  ASSUME HeldInv, NEW c \in CallNumbers, Locking!CreateTemplate(c)
  PROVE  HeldInv'
<1>. DEFINE S == call[c].named
            q == Locking!Releasing(call[c], S, "maximum")
<1>1. call[c] \in CallRecord /\ CallInv(c, call[c], lease, spent) /\ IsStaged(call[c])
  BY CallKnown
<1>2. /\ call[c].kind \in {"max", "sign"} /\ call[c].inputs = {} /\ call[c].at = "template"
      /\ S \in SUBSET Utxos
  BY <1>1, CallFields DEF IsStaged, Locking!CreateTemplate
<1>3. EmptyHanded(c, call[c])
  BY <1>1, <1>2, HandsEmpty
<1>4. Locking!Funds(c, S, Dust) /\ Locking!Becomes(c, q)
  BY DEF Locking!CreateTemplate
<1>5. Locking!Total(S) >= Dust + Fee
  BY <1>4 DEF Locking!Funds
<1>6. /\ q \in CallRecord /\ q.kind = call[c].kind /\ q.named = S
      /\ q.inputs = {} /\ q.gives = call[c].gives /\ q.result = call[c].result
      /\ q.failed = call[c].failed
      /\ \/ q.at = "releasing" /\ q.then = "maximum" /\ q.todo = S
         \/ q.at = "maximum" /\ S = {}
  <2>1. CASE S = {}
    <3>. DEFINE p == [call[c] EXCEPT !.at = "maximum"]
    <3>1. q = p /\ "maximum" \in Locking!Stages
      BY <2>1 DEF Locking!Releasing, Locking!Goes, Locking!Stages
    <3>2. /\ p \in CallRecord
          /\ p.kind = call[c].kind /\ p.at = "maximum" /\ p.named = S /\ p.inputs = {}
          /\ p.gives = call[c].gives /\ p.result = call[c].result
          /\ p.failed = call[c].failed
      BY <1>1, <1>2, <3>1, AtFacts
    <3>. HIDE DEF p, q, S
    <3>. QED
      BY <2>1, <3>1, <3>2
  <2>2. CASE S # {}
    BY <1>1, <1>2, <2>2, ReleasingFacts
  <2>. QED
    BY <2>1, <2>2
<1>. HIDE DEF q, S
<1>7. IsStaged(q)
  BY <1>1, <1>2, <1>6 DEF IsStaged
<1>8. IsNearlyAll(q)
  BY <1>1, <1>5, <1>6 DEF CallInv, IsNearlyAll, S
<1>9. S \subseteq MayFund(q)
  BY <1>2, <1>6 DEF MayFund
<1>. QED
  BY <1>2, <1>3, <1>4, <1>6, <1>7, <1>8, <1>9, CallFunds

LEMMA FinalizingFacts ==
  ASSUME NEW r \in CallRecord, NEW max \in Int
  PROVE  LET q == [r EXCEPT !.at = "finalizing", !.gives = max]
         IN  /\ q \in CallRecord
             /\ q.kind = r.kind /\ q.at = "finalizing" /\ q.named = r.named
             /\ q.inputs = r.inputs /\ q.gives = max /\ q.result = r.result
             /\ q.failed = r.failed
<1>1. "finalizing" \in Locking!Stages
  BY DEF Locking!Stages
<1>. QED
  BY <1>1 DEF CallRecord

LEMMA MaximumFunds ==
  ASSUME HeldInv, NEW c \in CallNumbers, NEW max \in Int, NEW tokens,
         call[c].at \in {"maximum", "adjusting"}, Locking!Funds(c, call[c].named, tokens),
         NEW q \in CallRecord, Locking!Becomes(c, q),
         q.kind = call[c].kind, q.at = "finalizing", q.named = call[c].named,
         q.inputs = call[c].inputs, q.gives = max, q.result = call[c].result,
         q.failed = call[c].failed,
         call[c].kind = "max" =>
           Locking!Total(call[c].named) - Fee - max \in 0..(Dust + Adjustment - 1)
  PROVE  HeldInv'
<1>1. call[c] \in CallRecord /\ CallInv(c, call[c], lease, spent) /\ IsStaged(call[c])
  BY CallKnown
<1>2. /\ call[c].kind \in {"max", "sign"} /\ call[c].inputs = {}
      /\ call[c].named \in SUBSET Utxos
  BY <1>1, CallFields DEF IsStaged
<1>3. EmptyHanded(c, call[c])
  BY <1>1, <1>2, HandsEmpty
<1>4. IsStaged(q) /\ MayFund(q) = call[c].named
  BY <1>1, <1>2 DEF IsStaged, MayFund
<1>5. IsNearlyAll(q)
  BY DEF IsNearlyAll
<1>. QED
  BY <1>2, <1>3, <1>4, <1>5, CallFunds

\* All of it but the fee, and change that would be dust
LEMMA MaximumIsTried ==
  ASSUME HeldInv, NEW c \in CallNumbers,
         Locking!CreateMaximum(c) \/ Locking!CreateAdjusted(c)
  PROVE  HeldInv'
<1>. DEFINE S == call[c].named  T == Locking!Total(S)  M == Locking!MaxOf(S)
<1>1. call[c] \in CallRecord /\ CallInv(c, call[c], lease, spent)
  BY CallKnown
<1>2. T \in Nat
  BY <1>1, CallFields, TotalIsNumber
<1>3. /\ M \in Int
      /\ \/ M = T - Fee
         \/ M = Dust /\ T - Fee - M < Dust
  BY <1>2 DEF Locking!MaxOf
<1>4. call[c].kind = "max" /\ call[c].at \in {"maximum", "adjusting"} => T >= Dust + Fee
  BY <1>1 DEF CallInv, IsNearlyAll
<1>. HIDE DEF T, M
<1>5. CASE Locking!CreateMaximum(c)
  <2>. DEFINE q == [call[c] EXCEPT !.at = "finalizing", !.gives = M]
  <2>1. Locking!Funds(c, S, M) /\ call[c].at = "maximum" /\ Locking!Becomes(c, q)
    BY <1>5 DEF Locking!CreateMaximum, M
  <2>2. call[c].kind = "max" => T - Fee - M \in 0..(Dust + Adjustment - 1)
    BY <1>2, <1>3, <1>4, <2>1
  <2>3. /\ q \in CallRecord
        /\ q.kind = call[c].kind /\ q.at = "finalizing" /\ q.named = S
        /\ q.inputs = call[c].inputs /\ q.gives = M /\ q.result = call[c].result
        /\ q.failed = call[c].failed
    BY <1>1, <1>3, FinalizingFacts
  <2>4. M \in Int
    BY <1>3
  <2>5. call[c].kind = "max" =>
          Locking!Total(call[c].named) - Fee - M \in 0..(Dust + Adjustment - 1)
    BY <2>2 DEF T
  <2>. HIDE DEF q
  <2>. QED
    BY <2>1, <2>3, <2>4, <2>5, MaximumFunds
<1>6. CASE Locking!CreateAdjusted(c)
  <2>. DEFINE max == M - Adjustment
              q == [call[c] EXCEPT !.at = "finalizing", !.gives = max]
  <2>1. Locking!Funds(c, S, max) /\ call[c].at = "adjusting" /\ Locking!Becomes(c, q)
    BY <1>6 DEF Locking!CreateAdjusted, M
  <2>2. T >= max + Fee
    BY <2>1 DEF Locking!Funds, T
  <2>3. T - Fee - max \in 0..(Dust + Adjustment - 1)
    BY <1>2, <1>3, <2>2
  <2>4. max \in Int
    BY <1>3
  <2>5. /\ q \in CallRecord
        /\ q.kind = call[c].kind /\ q.at = "finalizing" /\ q.named = S
        /\ q.inputs = call[c].inputs /\ q.gives = max /\ q.result = call[c].result
        /\ q.failed = call[c].failed
    BY <1>1, <2>4, FinalizingFacts
  <2>. HIDE DEF max, q
  <2>. QED
    BY <2>1, <2>3, <2>4, <2>5, MaximumFunds DEF T
<1>. QED
  BY <1>5, <1>6

\* A call succeeds that holds nothing
LEMMA CallEnds ==
  ASSUME HeldInv, NEW c \in CallNumbers, EmptyHanded(c, call[c]), call[c].at # "done",
         Locking!Becomes(c, Locking!Succeeds(call[c])), UNCHANGED lease
  PROVE  HeldInv'
<1>1. call[c] \in CallRecord /\ CallInv(c, call[c], lease, spent) /\ IsStaged(call[c])
  BY CallKnown
<1>2. /\ Locking!Succeeds(call[c]) \in CallRecord
      /\ CallInv(c, Locking!Succeeds(call[c]), lease, spent)
      /\ Claimed(Locking!Succeeds(call[c])) \subseteq Claimed(call[c])
  BY <1>1, CallSucceeded DEF CallInv, IsStaged, EmptyHanded, NoneHeld
<1>. QED
  BY <1>2, CallGoesOn DEF Locking!Becomes

LEMMA MaximumIsRefused ==
  ASSUME HeldInv, NEW c \in CallNumbers,
         Locking!MaximumFails(c) \/ Locking!FundGivenFails(c)
  PROVE  HeldInv'
<1>1. call[c] \in CallRecord /\ CallInv(c, call[c], lease, spent) /\ IsStaged(call[c])
  BY CallKnown
<1>2. /\ call[c].kind \in {"max", "sign"} /\ call[c].inputs = {}
      /\ call[c].at \in {"template", "maximum", "adjusting"}
  BY <1>1 DEF IsStaged, Locking!MaximumFails, Locking!FundGivenFails
<1>3. EmptyHanded(c, call[c])
  BY <1>1, <1>2, HandsEmpty
<1>4. CASE Locking!MaximumFails(c)
  <2>. DEFINE q == [call[c] EXCEPT !.at = "adjusting"]
  <2>1. "adjusting" \in Locking!Stages
    BY DEF Locking!Stages
  <2>2. /\ q \in CallRecord
        /\ q.kind = call[c].kind /\ q.at = "adjusting" /\ q.named = call[c].named
        /\ q.inputs = {} /\ q.gives = call[c].gives /\ q.result = call[c].result
        /\ q.failed = call[c].failed
    BY <1>1, <1>2, <2>1, AtFacts
  <2>3. Locking!Becomes(c, q) /\ UNCHANGED lease /\ call[c].at = "maximum"
    BY <1>4 DEF Locking!MaximumFails
  <2>. HIDE DEF q
  <2>4. IsStaged(q) /\ EmptyHanded(c, q)
    BY <1>1, <1>2, <1>3, <2>2 DEF IsStaged, EmptyHanded
  <2>5. IsNearlyAll(q)
    BY <1>1, <2>2, <2>3 DEF CallInv, IsNearlyAll
  <2>. QED
    BY <2>2, <2>3, <2>4, <2>5, CallMovesOn
<1>5. CASE Locking!FundGivenFails(c)
  BY <1>3, <1>5, CallStops DEF Locking!FundGivenFails, Steps
<1>. QED
  BY <1>4, <1>5

LEMMA MaximumIsFound ==
  ASSUME HeldInv, NEW c \in CallNumbers, Locking!FinalizeMaximum(c)
  PROVE  HeldInv'
<1>. DEFINE S == call[c].named
            goal == Locking!Goal(call[c])
            q == Locking!Releasing(call[c], S, goal)
<1>1. call[c] \in CallRecord /\ CallInv(c, call[c], lease, spent) /\ IsStaged(call[c])
  BY CallKnown
<1>2. /\ call[c].kind \in {"max", "sign"} /\ call[c].inputs = {}
      /\ call[c].at = "finalizing" /\ S \in SUBSET Utxos /\ UNCHANGED lease
  BY <1>1, CallFields DEF IsStaged, Locking!FinalizeMaximum
<1>3. goal \in {"answer", "conflict"} /\ (call[c].kind = "max" <=> goal = "answer")
  BY DEF Locking!Goal
<1>4. Locking!Becomes(c, q)
  BY DEF Locking!FinalizeMaximum
<1>5. CASE S = {}
  <2>1. EmptyHanded(c, call[c])
    BY <1>1, <1>2, <1>5 DEF CallInv, HasOnly, MayFund, MayBlock, EmptyHanded, NoneHeld
  <2>2. q = Locking!Goes(call[c], goal)
    BY <1>5 DEF Locking!Releasing
  <2>3. CASE goal = "answer"
    <3>1. Locking!Becomes(c, Locking!Succeeds(call[c]))
      BY <1>4, <2>2, <2>3 DEF Locking!Goes
    <3>. QED
      BY <1>2, <2>1, <3>1, CallEnds
  <2>4. CASE goal = "conflict"
    <3>. DEFINE p == [call[c] EXCEPT !.at = "conflict"]
    <3>1. Locking!Becomes(c, p) /\ "conflict" \in Locking!Stages
      BY <1>4, <2>2, <2>4 DEF Locking!Goes, Locking!Stages
    <3>2. /\ p \in CallRecord
          /\ p.kind = call[c].kind /\ p.at = "conflict" /\ p.inputs = {}
          /\ p.result = call[c].result /\ p.failed = call[c].failed
      BY <1>1, <1>2, <3>1, AtFacts
    <3>. HIDE DEF p, q, goal
    <3>3. IsStaged(p) /\ EmptyHanded(c, p) /\ IsNearlyAll(p)
      BY <1>1, <1>2, <1>3, <2>1, <2>4, <3>2 DEF IsStaged, EmptyHanded, IsNearlyAll
    <3>. QED
      BY <1>2, <3>1, <3>2, <3>3, CallMovesOn
  <2>. QED
    BY <1>3, <2>3, <2>4
<1>6. CASE S # {}
  <2>1. /\ q \in CallRecord
        /\ q.kind = call[c].kind /\ q.at = "releasing" /\ q.then = goal /\ q.named = S
        /\ q.todo = S /\ q.inputs = {} /\ q.gives = call[c].gives
        /\ q.result = call[c].result /\ q.failed = call[c].failed
        /\ q.lapsed = call[c].lapsed
    BY <1>1, <1>2, <1>3, <1>6, ReleasingFacts
  <2>2. goal = Locking!Goal(q)
    BY <2>1 DEF Locking!Goal
  <2>. HIDE DEF q, goal
  <2>3. IsStaged(q) /\ IsSpared(q)
    BY <1>1, <1>2, <2>1, <2>2 DEF IsStaged, IsSpared
  <2>4. IsNearlyAll(q)
    BY <1>1, <1>3, <2>1 DEF CallInv, IsNearlyAll
  <2>5. Claimed(q) = {} /\ KeptAway(q) = {}
    BY <2>1 DEF Claimed, KeptAway
  <2>6. MayFund(q) = MayFund(call[c]) /\ MayBlock(q) = MayBlock(call[c])
    BY <1>2, <2>1 DEF MayFund, MayBlock
  <2>. QED
    BY <1>2, <1>4, <2>1, <2>3, <2>4, <2>5, <2>6, CallCarriesOn
<1>. QED
  BY <1>5, <1>6

LEMMA PartialFacts ==
  ASSUME NEW r \in CallRecord, NEW partial \in {"signed", "failed"}
  PROVE  LET q == [r EXCEPT !.partial = partial]
         IN  /\ q \in CallRecord
             /\ q.kind = r.kind /\ q.at = r.at /\ q.then = r.then /\ q.named = r.named
             /\ q.todo = r.todo /\ q.inputs = r.inputs /\ q.gives = r.gives
             /\ q.result = r.result /\ q.failed = r.failed /\ q.lapsed = r.lapsed
BY DEF CallRecord

\* Whatever becomes of the base, the search for the maximum goes on
LEMMA BaseIsSigned ==
  ASSUME HeldInv, NEW c \in CallNumbers, Locking!PartiallySign(c)
  PROVE  HeldInv'
<1>1. call[c] \in CallRecord /\ CallInv(c, call[c], lease, spent) /\ IsStaged(call[c])
  BY CallKnown
<1>2. call[c].kind = "sign" /\ call[c].at # "done" /\ UNCHANGED lease
  BY DEF Locking!PartiallySign
<1>3. ASSUME NEW q \in CallRecord, Locking!Becomes(c, q),
             q.kind = "sign", q.at = call[c].at, q.then = call[c].then,
             q.named = call[c].named, q.todo = call[c].todo, q.inputs = call[c].inputs,
             q.lapsed = call[c].lapsed, call[c].failed \subseteq q.failed,
             q.result = call[c].result \/ (q.result = "failed" /\ q.failed # {})
      PROVE  HeldInv'
  <2>1. IsStaged(q)
    BY <1>1, <1>2, <1>3, NotCalledFacts DEF IsStaged, Locking!Goal
  <2>2. IsNearlyAll(q) /\ IsSpared(q) /\ KeptAway(q) = {}
    BY <1>3, <2>1 DEF IsNearlyAll, IsSpared, KeptAway, IsStaged
  <2>3. Claimed(q) \subseteq Claimed(call[c])
    BY <1>3 DEF Claimed
  <2>4. MayFund(q) = MayFund(call[c]) /\ MayBlock(q) = MayBlock(call[c])
    BY <1>2, <1>3 DEF MayFund, MayBlock
  <2>. QED
    BY <1>2, <1>3, <2>1, <2>2, <2>3, <2>4, CallCarriesOn
<1>4. CASE Locking!Becomes(c, [call[c] EXCEPT !.partial = "signed"])
  <2>. DEFINE q == [call[c] EXCEPT !.partial = "signed"]
  <2>1. /\ q \in CallRecord
        /\ q.kind = "sign" /\ q.at = call[c].at /\ q.then = call[c].then
        /\ q.named = call[c].named /\ q.todo = call[c].todo /\ q.inputs = call[c].inputs
        /\ q.lapsed = call[c].lapsed /\ q.failed = call[c].failed
        /\ q.result = call[c].result
    BY <1>1, <1>2, PartialFacts
  <2>2. Locking!Becomes(c, q)
    BY <1>4
  <2>. HIDE DEF q
  <2>. QED
    BY <1>3, <2>1, <2>2
<1>5. CASE Locking!Becomes(c, [Locking!Fails(call[c], "partial") EXCEPT !.partial = "failed"])
  <2>. DEFINE f == Locking!Fails(call[c], "partial")
              q == [f EXCEPT !.partial = "failed"]
  <2>1. /\ f \in CallRecord
        /\ f.kind = "sign" /\ f.at = call[c].at /\ f.then = call[c].then
        /\ f.named = call[c].named /\ f.todo = call[c].todo /\ f.inputs = call[c].inputs
        /\ f.lapsed = call[c].lapsed /\ f.failed = call[c].failed \cup {"partial"}
        /\ f.result = "failed"
    BY <1>1, <1>2, FailsFacts DEF Steps
  <2>2. Locking!Becomes(c, q)
    BY <1>5
  <2>. HIDE DEF f
  <2>3. /\ q \in CallRecord
        /\ q.kind = f.kind /\ q.at = f.at /\ q.then = f.then
        /\ q.named = f.named /\ q.todo = f.todo /\ q.inputs = f.inputs
        /\ q.lapsed = f.lapsed /\ q.failed = f.failed /\ q.result = f.result
    BY <2>1, PartialFacts
  <2>. HIDE DEF q
  <2>. QED
    BY <1>3, <2>1, <2>2, <2>3
<1>. QED
  BY <1>4, <1>5 DEF Locking!PartiallySign

LEMMA ConflictIsSigned ==
  ASSUME HeldInv, NEW c \in CallNumbers,
         Locking!SignConflict(c) \/ Locking!SignedAndFunded(c)
  PROVE  HeldInv'
<1>1. call[c] \in CallRecord /\ CallInv(c, call[c], lease, spent) /\ IsStaged(call[c])
  BY CallKnown
<1>2. /\ call[c].kind \in {"max", "sign"} /\ call[c].inputs = {}
      /\ call[c].at \in {"conflict", "signed"} /\ UNCHANGED lease
  BY <1>1 DEF IsStaged, Locking!SignConflict, Locking!SignedAndFunded
<1>3. EmptyHanded(c, call[c])
  BY <1>1, <1>2, HandsEmpty
<1>4. CASE Locking!SignedAndFunded(c)
  BY <1>2, <1>3, <1>4, CallEnds DEF Locking!SignedAndFunded
<1>5. CASE Locking!Becomes(c, [call[c] EXCEPT !.at = "signed"])
  <2>. DEFINE q == [call[c] EXCEPT !.at = "signed"]
  <2>1. "signed" \in Locking!Stages
    BY DEF Locking!Stages
  <2>2. /\ q \in CallRecord
        /\ q.kind = call[c].kind /\ q.at = "signed" /\ q.named = call[c].named
        /\ q.inputs = {} /\ q.gives = call[c].gives /\ q.result = call[c].result
        /\ q.failed = call[c].failed
    BY <1>1, <1>2, <2>1, AtFacts
  <2>3. Locking!Becomes(c, q)
    BY <1>5
  <2>. HIDE DEF q
  <2>4. IsStaged(q) /\ EmptyHanded(c, q)
    BY <1>1, <1>2, <1>3, <2>2 DEF IsStaged, EmptyHanded
  <2>5. IsNearlyAll(q)
    BY <1>1, <2>2 DEF CallInv, IsNearlyAll
  <2>. QED
    BY <1>2, <2>2, <2>3, <2>4, <2>5, CallMovesOn
<1>6. CASE Locking!Becomes(c, Locking!Ends(call[c], "conflict"))
  BY <1>2, <1>3, <1>6, CallStops DEF Steps
<1>7. CASE Locking!Becomes(c, Locking!Over(call[c]))
  <2>1. /\ Locking!Over(call[c]) \in CallRecord
        /\ CallInv(c, Locking!Over(call[c]), lease, spent)
        /\ Claimed(Locking!Over(call[c])) \subseteq Claimed(call[c])
    BY <1>1, <1>3, CallIsOver DEF CallInv, EmptyHanded, NoneHeld
  <2>. QED
    BY <1>2, <1>7, <2>1, CallGoesOn DEF Locking!Becomes
<1>. QED
  BY <1>4, <1>5, <1>6, <1>7 DEF Locking!SignConflict

-----------------------------------------------------------------------------
(* fundPsbtDisallowingInputs *)

LEMMA DisallowingStarts ==
  ASSUME HeldInv, NEW c \in CallNumbers, Locking!StartDisallowing(c)
  PROVE  HeldInv'
<1>1. PICK S \in SUBSET Utxos, tokens \in Amounts :
        Locking!Starts(c, [Locking!NotCalled EXCEPT !.kind = "disallow", !.tokens = tokens,
                             !.named = S, !.todo = S, !.then = "funding",
                             !.at = IF S = {} THEN "funding" ELSE "locking"])
  BY DEF Locking!StartDisallowing
<1>. DEFINE at == IF S = {} THEN "funding" ELSE "locking"
            r == [Locking!NotCalled EXCEPT !.kind = "disallow", !.tokens = tokens,
                    !.named = S, !.todo = S, !.then = "funding", !.at = at]
<1>2. Locking!Starts(c, r)
  BY <1>1
<1>3. Locking!Becomes(c, r) /\ UNCHANGED lease /\ NoneHeld(c, lease)
  BY <1>2, IdleCall DEF Locking!Starts
<1>4. /\ at \in {"funding", "locking"} /\ (at = "funding" => S = {})
      /\ at \in Locking!Stages /\ tokens \in Nat
  BY DEF Locking!Stages
<1>. HIDE DEF at
<1>5. r \in CallRecord
  BY <1>4, NotCalledFacts DEF CallRecord
<1>6. /\ r.kind = "disallow" /\ r.at = at /\ r.then = "funding" /\ r.named = S
      /\ r.todo = S /\ r.inputs = {} /\ r.failed = {} /\ r.result = "none"
  BY NotCalledFacts DEF CallRecord
<1>. HIDE DEF r
<1>7. IsStaged(r) /\ IsSpared(r) /\ IsNearlyAll(r)
  BY <1>4, <1>6 DEF IsStaged, IsSpared, IsNearlyAll
<1>8. Claimed(r) = {} /\ KeptAway(r) = {}
  BY <1>6 DEF Claimed, KeptAway
<1>9. CallInv(c, r, lease, spent)
  BY <1>3, <1>7, <1>8 DEF CallInv, HasOnly, HasClaimed, HasKeptAway, NoneHeld
<1>. QED
  BY <1>3, <1>5, <1>8, <1>9, CallGoesOn DEF Locking!Becomes

LEMMA TodoFacts ==
  ASSUME NEW r \in CallRecord, NEW left \in SUBSET Utxos
  PROVE  LET q == [r EXCEPT !.todo = left]
         IN  /\ q \in CallRecord
             /\ q.kind = r.kind /\ q.at = r.at /\ q.then = r.then /\ q.named = r.named
             /\ q.todo = left /\ q.inputs = r.inputs /\ q.gives = r.gives
             /\ q.tokens = r.tokens /\ q.result = r.result /\ q.failed = r.failed
             /\ q.lapsed = r.lapsed
BY DEF CallRecord

\* A coin is kept away, the last of them with what a failed lock has left behind
LEMMA CoinIsKeptAway ==
  ASSUME HeldInv, NEW c \in CallNumbers, NEW u \in Utxos, Locking!LockUtxo(c, u)
  PROVE  HeldInv'
<1>. DEFINE r == call[c]
            left == r.todo \ {u}
<1>1. r \in CallRecord /\ CallInv(c, r, lease, spent) /\ IsStaged(r)
  BY CallKnown
<1>2. /\ r.at = "locking" /\ u \in r.todo /\ {u} \subseteq Locking!Available
      /\ Locking!Leased({u}, c, "block")
      /\ Locking!Becomes(c, Locking!AfterOne(r, u, "lock"))
  BY DEF Locking!LockUtxo
<1>3. /\ r.kind = "disallow" /\ r.inputs = {} /\ r.then = "funding"
      /\ r.todo \subseteq r.named /\ r.named \in SUBSET Utxos
      /\ "lock" \in r.failed \/ (r.failed = {} /\ r.result = "none")
  BY <1>1, <1>2, CallFields DEF IsStaged
<1>4. {u} \in SUBSET Utxos /\ left \in SUBSET Utxos
  BY <1>1, CallFields
<1>5. /\ lease' \in [Utxos -> Lock]
      /\ \A v \in Utxos : lease'[v].by # Nobody <=> lease'[v].left > 0
      /\ \A v \in Utxos : lease'[v] # lease[v] =>
           lease[v].by \in {c, Nobody} /\ lease'[v].by \in {c, Nobody}
      /\ lease'[u].by = c /\ lease'[u].use = "block"
      /\ \A v \in Utxos \ {u} : lease'[v] = lease[v]
  BY <1>2, <1>4, LeasedFacts
<1>6. \A v \in KeptAway(r) \cup {u} : Holds(c, v, "block", lease') \/ v \in spent
  BY <1>1, <1>3, <1>5 DEF CallInv, HasKeptAway, Holds, KeptAway
<1>7. ASSUME NEW q \in CallRecord, Locking!Becomes(c, q), q.kind = "disallow",
             q.named = r.named, q.inputs = {}, q.failed = r.failed, q.result = r.result,
             q.lapsed = r.lapsed, IsStaged(q), q.todo = left,
             q.at = "locking" \/ (q.at = "funding" /\ left = {})
      PROVE  HeldInv'
  <2>1. MayBlock(q) = MayBlock(r) \cup {u} /\ MayFund(q) = {} /\ MayFund(r) = {}
    BY <1>2, <1>3, <1>7 DEF MayBlock, MayFund
  <2>2. HasOnly(c, q, lease')
    BY <1>1, <1>5, <1>7, <2>1 DEF CallInv, HasOnly
  <2>3. KeptAway(q) \subseteq KeptAway(r) \cup {u}
    BY <1>2, <1>7 DEF KeptAway
  <2>4. HasKeptAway(c, q, lease', spent)
    BY <1>6, <2>3 DEF HasKeptAway
  <2>5. Claimed(q) = {} /\ IsSpared(q) /\ IsNearlyAll(q)
    BY <1>7 DEF Claimed, IsSpared, IsNearlyAll
  <2>6. CallInv(c, q, lease', spent)
    BY <1>7, <2>2, <2>4, <2>5 DEF CallInv, HasClaimed
  <2>. QED
    BY <1>5, <1>7, <2>5, <2>6, CallMoves DEF Locking!Becomes
<1>8. CASE left # {}
  <2>. DEFINE q == [r EXCEPT !.todo = left]
  <2>1. /\ q \in CallRecord
        /\ q.kind = "disallow" /\ q.at = "locking" /\ q.then = "funding"
        /\ q.named = r.named /\ q.todo = left /\ q.inputs = {}
        /\ q.result = r.result /\ q.failed = r.failed /\ q.lapsed = r.lapsed
    BY <1>1, <1>2, <1>3, <1>4, TodoFacts
  <2>2. Locking!Becomes(c, q)
    BY <1>2, <1>8 DEF Locking!AfterOne
  <2>. HIDE DEF q
  <2>3. IsStaged(q)
    BY <1>1, <1>3, <2>1 DEF IsStaged
  <2>. QED
    BY <1>7, <2>1, <2>2, <2>3
<1>9. CASE left = {} /\ "lock" \notin r.failed
  <2>. DEFINE p == [r EXCEPT !.todo = {}]
              q == [p EXCEPT !.at = "funding"]
  <2>1. /\ p \in CallRecord
        /\ p.kind = "disallow" /\ p.then = "funding"
        /\ p.named = r.named /\ p.todo = {} /\ p.inputs = {}
        /\ p.result = r.result /\ p.failed = r.failed /\ p.lapsed = r.lapsed
    BY <1>1, <1>2, <1>3, TodoFacts
  <2>2. Locking!Becomes(c, q) /\ "funding" \in Locking!Stages
    BY <1>2, <1>3, <1>9 DEF Locking!AfterOne, Locking!Goes, Locking!Stages
  <2>. HIDE DEF p
  <2>3. /\ q \in CallRecord
        /\ q.kind = p.kind /\ q.at = "funding" /\ q.then = p.then
        /\ q.named = p.named /\ q.todo = p.todo /\ q.inputs = p.inputs
        /\ q.result = p.result /\ q.failed = p.failed /\ q.lapsed = p.lapsed
    BY <2>1, <2>2, AtFacts
  <2>. HIDE DEF q
  <2>4. IsStaged(q)
    BY <1>1, <1>3, <1>9, <2>1, <2>3 DEF IsStaged
  <2>. QED
    BY <1>7, <1>9, <2>1, <2>2, <2>3, <2>4
<1>10. CASE left = {} /\ "lock" \in r.failed
  <2>1. Locking!Becomes(c, Locking!Over(r))
    BY <1>2, <1>10 DEF Locking!AfterOne
  <2>2. Claimed(r) = {} /\ HasClaimed(c, r, lease', spent)
    BY <1>3 DEF Claimed, HasClaimed
  <2>3. r.failed \cap Locking!Leaving # {}
    BY <1>10 DEF Locking!Leaving
  <2>4. /\ Locking!Over(r) \in CallRecord
        /\ CallInv(c, Locking!Over(r), lease', spent)
        /\ Claimed(Locking!Over(r)) \subseteq Claimed(r)
    BY <1>1, <2>2, <2>3, CallIsOver
  <2>. QED
    BY <1>5, <2>1, <2>4, CallMoves DEF Locking!Becomes
<1>. QED
  BY <1>8, <1>9, <1>10

LEMMA CoinIsNotKeptAway ==
  ASSUME HeldInv, NEW c \in CallNumbers, NEW u \in Utxos, Locking!LockFails(c, u)
  PROVE  HeldInv'
<1>. DEFINE f == Locking!Fails(call[c], "lock")
            left == f.todo \ {u}
<1>1. call[c] \in CallRecord /\ CallInv(c, call[c], lease, spent) /\ IsStaged(call[c])
  BY CallKnown
<1>2. /\ call[c].at = "locking" /\ UNCHANGED lease
      /\ Locking!Becomes(c, Locking!AfterOne(f, u, "lock"))
  BY DEF Locking!LockFails
<1>3. /\ call[c].kind = "disallow" /\ call[c].inputs = {} /\ call[c].then = "funding"
      /\ call[c].todo \subseteq call[c].named
  BY <1>1, <1>2 DEF IsStaged
<1>4. /\ f \in CallRecord
      /\ f.kind = "disallow" /\ f.at = "locking" /\ f.then = "funding"
      /\ f.named = call[c].named /\ f.todo = call[c].todo /\ f.inputs = {}
      /\ f.result = "failed" /\ f.failed = call[c].failed \cup {"lock"}
  BY <1>1, <1>2, <1>3, FailsFacts DEF Steps
<1>5. CASE left = {}
  <2>1. Locking!Becomes(c, Locking!Over(f))
    <3>. HIDE DEF f
    <3>. QED
      BY <1>2, <1>4, <1>5 DEF Locking!AfterOne
  <2>2. Locking!Becomes(c, Locking!Ends(call[c], "lock"))
    BY <2>1 DEF Locking!Ends
  <2>. QED
    BY <1>2, <2>2, CallStops DEF Steps, Locking!Leaving
<1>6. CASE left # {}
  <2>. DEFINE q == [f EXCEPT !.todo = left]
  <2>. HIDE DEF f
  <2>1. left \in SUBSET Utxos
    BY <1>4, CallFields
  <2>2. Locking!Becomes(c, q)
    BY <1>2, <1>6 DEF Locking!AfterOne
  <2>3. /\ q \in CallRecord
        /\ q.kind = "disallow" /\ q.at = "locking" /\ q.then = "funding"
        /\ q.named = call[c].named /\ q.todo = left /\ q.inputs = {}
        /\ q.result = "failed" /\ q.failed = call[c].failed \cup {"lock"}
    BY <1>4, <2>1, TodoFacts
  <2>. HIDE DEF q
  <2>4. IsStaged(q) /\ IsSpared(q) /\ IsNearlyAll(q)
    BY <1>3, <1>4, <2>3 DEF IsStaged, IsSpared, IsNearlyAll
  <2>5. Claimed(q) = {} /\ KeptAway(q) = {} /\ HasOnly(c, q, lease)
    BY <2>3 DEF Claimed, KeptAway, HasOnly, Locking!Leaving
  <2>6. CallInv(c, q, lease, spent)
    BY <2>4, <2>5 DEF CallInv, HasClaimed, HasKeptAway
  <2>. QED
    BY <1>2, <2>2, <2>3, <2>5, <2>6, CallGoesOn DEF Locking!Becomes
<1>. QED
  BY <1>5, <1>6

\* LND has chosen: none of the coins that it was to avoid, as they were not free
LEMMA OthersAreFunded ==
  ASSUME HeldInv, NEW c \in CallNumbers, Locking!FundAvoiding(c)
  PROVE  HeldInv'
<1>. DEFINE r == call[c]
<1>1. r \in CallRecord /\ CallInv(c, r, lease, spent) /\ IsStaged(r)
  BY CallKnown
<1>2. /\ r.at = "funding" /\ r.kind = "disallow" /\ r.inputs = {} /\ r.todo = {}
      /\ r.failed = {} /\ r.result = "none" /\ r.named \in SUBSET Utxos
  BY <1>1, CallFields DEF IsStaged, Locking!FundAvoiding
<1>3. PICK S \in (SUBSET Utxos) \ {{}} :
        /\ Locking!Funds(c, S, r.tokens)
        /\ Locking!Becomes(c, Locking!Releasing([r EXCEPT !.inputs = S], r.named, "answer"))
  BY Zenon DEF Locking!FundAvoiding
<1>4. S \in SUBSET Utxos
  BY <1>3
<1>5. S \subseteq Locking!Available /\ Locking!Leased(S, c, "fund")
  BY <1>3 DEF Locking!Funds
<1>6. /\ lease' \in [Utxos -> Lock]
      /\ \A u \in Utxos : lease'[u].by # Nobody <=> lease'[u].left > 0
      /\ \A u \in Utxos : lease'[u] # lease[u] =>
           lease[u].by \in {c, Nobody} /\ lease'[u].by \in {c, Nobody}
      /\ \A u \in S : lease'[u].by = c /\ lease'[u].use = "fund"
      /\ \A u \in Utxos \ S : lease'[u] = lease[u]
  BY <1>4, <1>5, LeasedFacts
<1>. DEFINE p == [r EXCEPT !.inputs = S]
            q == Locking!Releasing(p, r.named, "answer")
<1>7. /\ p \in CallRecord
      /\ p.kind = "disallow" /\ p.at = "funding" /\ p.named = r.named /\ p.inputs = S
      /\ p.failed = {} /\ p.result = "none" /\ p.lapsed = r.lapsed
  BY <1>1, <1>2, <1>4 DEF CallRecord
<1>8. Locking!Becomes(c, q)
  BY <1>3
<1>. HIDE DEF p
<1>9. \A u \in Utxos : lease[u].by = c => lease[u].use = "block" /\ u \in r.named
  BY <1>1, <1>2 DEF CallInv, HasOnly, MayFund, MayBlock
<1>10. S \cap r.named # {} => r.lapsed
  <2>1. ~r.lapsed => KeptAway(r) = r.named
    BY <1>2 DEF KeptAway
  <2>2. ~r.lapsed => \A u \in r.named : Holds(c, u, "block", lease) \/ u \in spent
    BY <1>1, <2>1 DEF CallInv, HasKeptAway
  <2>3. \A u \in S : lease[u].by = Nobody /\ u \notin spent
    BY <1>5 DEF Locking!Available, Locking!Held
  <2>. QED
    BY <2>2, <2>3, Others DEF Holds
<1>11. \A x \in CallRecord :
         x.inputs = S => HasClaimed(c, x, lease', spent) /\ Claimed(x) \subseteq S
  BY <1>6 DEF HasClaimed, Claimed, Holds
<1>12. CASE r.named = {}
  <2>1. q = Locking!Succeeds(p)
    BY <1>12 DEF Locking!Releasing, Locking!Goes
  <2>2. \A u \in Utxos : lease'[u].by = c =>
          lease'[u].use = "fund" /\ u \in p.inputs /\ p.failed = {}
    BY <1>6, <1>7, <1>9, <1>12
  <2>3. /\ Locking!Succeeds(p) \in CallRecord
        /\ CallInv(c, Locking!Succeeds(p), lease', spent)
        /\ Claimed(Locking!Succeeds(p)) \subseteq Claimed(p)
    BY <1>7, <1>11, <2>2, CallSucceeded
  <2>4. Claimed(p) \subseteq Locking!Available
    BY <1>5, <1>7, <1>11
  <2>. QED
    BY <1>6, <1>8, <2>1, <2>3, <2>4, CallMoves DEF Locking!Becomes
<1>13. CASE r.named # {}
  <2>1. /\ q \in CallRecord
        /\ q.kind = "disallow" /\ q.at = "releasing" /\ q.then = "answer"
        /\ q.named = r.named /\ q.todo = r.named /\ q.inputs = S
        /\ q.result = "none" /\ q.failed = {} /\ q.lapsed = r.lapsed
    BY <1>2, <1>7, <1>13, ReleasingFacts
  <2>. HIDE DEF q
  <2>2. IsStaged(q) /\ IsNearlyAll(q)
    BY <2>1 DEF IsStaged, IsNearlyAll
  <2>3. IsSpared(q) /\ KeptAway(q) = {}
    BY <1>10, <2>1 DEF IsSpared, KeptAway
  <2>4. HasOnly(c, q, lease')
    BY <1>6, <1>9, <2>1 DEF HasOnly, MayFund, MayBlock
  <2>5. CallInv(c, q, lease', spent)
    BY <1>11, <2>1, <2>2, <2>3, <2>4 DEF CallInv, HasKeptAway
  <2>6. Claimed(q) \subseteq Locking!Available
    BY <1>5, <1>11, <2>1
  <2>. QED
    BY <1>6, <1>8, <2>1, <2>5, <2>6, CallMoves DEF Locking!Becomes
<1>. QED
  BY <1>12, <1>13

LEMMA OthersAreNotFunded ==
  ASSUME HeldInv, NEW c \in CallNumbers, Locking!FundAvoidingFails(c)
  PROVE  HeldInv'
<1>. DEFINE r == call[c]
            f == [r EXCEPT !.failed = {"fund"}]
            q == Locking!Releasing(f, r.named, "answer")
<1>1. r \in CallRecord /\ CallInv(c, r, lease, spent) /\ IsStaged(r)
  BY CallKnown
<1>2. /\ r.at = "funding" /\ r.kind = "disallow" /\ r.inputs = {} /\ r.todo = {}
      /\ r.failed = {} /\ r.result = "none" /\ r.named \in SUBSET Utxos
      /\ UNCHANGED lease
  BY <1>1, CallFields DEF IsStaged, Locking!FundAvoidingFails
<1>3. Locking!Becomes(c, q)
  BY DEF Locking!FundAvoidingFails
<1>4. /\ f \in CallRecord
      /\ f.kind = "disallow" /\ f.at = "funding" /\ f.named = r.named /\ f.inputs = {}
      /\ f.failed = {"fund"} /\ f.result = "none" /\ f.lapsed = r.lapsed
  BY <1>1, <1>2 DEF CallRecord
<1>. HIDE DEF f
<1>5. CASE r.named = {}
  <2>1. q = Locking!Succeeds(f)
    BY <1>5 DEF Locking!Releasing, Locking!Goes
  <2>2. \A u \in Utxos : lease[u].by # c
    BY <1>1, <1>2, <1>5 DEF CallInv, HasOnly, MayFund, MayBlock
  <2>3. Claimed(f) = {} /\ HasClaimed(c, f, lease, spent)
    BY <1>4 DEF Claimed, HasClaimed
  <2>4. /\ Locking!Succeeds(f) \in CallRecord
        /\ CallInv(c, Locking!Succeeds(f), lease, spent)
        /\ Claimed(Locking!Succeeds(f)) \subseteq Claimed(f)
    BY <1>4, <2>2, <2>3, CallSucceeded
  <2>. QED
    BY <1>2, <1>3, <2>1, <2>3, <2>4, CallGoesOn DEF Locking!Becomes
<1>6. CASE r.named # {}
  <2>1. /\ q \in CallRecord
        /\ q.kind = "disallow" /\ q.at = "releasing" /\ q.then = "answer"
        /\ q.named = r.named /\ q.todo = r.named /\ q.inputs = {}
        /\ q.result = "none" /\ q.failed = {"fund"} /\ q.lapsed = r.lapsed
    BY <1>2, <1>4, <1>6, ReleasingFacts
  <2>. HIDE DEF q
  <2>2. IsStaged(q) /\ IsNearlyAll(q) /\ IsSpared(q)
    BY <2>1 DEF IsStaged, IsNearlyAll, IsSpared
  <2>3. Claimed(q) = {} /\ KeptAway(q) = {}
    BY <2>1 DEF Claimed, KeptAway
  <2>4. MayFund(q) = MayFund(r) /\ MayBlock(q) = MayBlock(r)
    BY <1>2, <2>1 DEF MayFund, MayBlock
  <2>. QED
    BY <1>2, <1>3, <2>1, <2>2, <2>3, <2>4, CallCarriesOn
<1>. QED
  BY <1>5, <1>6

-----------------------------------------------------------------------------
(* Unlocking *)

\* What a call still has when the coin u has been unlocked
StillHas(c, x, u, locked) ==
  \/ x.failed \cap Locking!Leaving # {}
  \/ \A v \in Utxos : locked[v].by = c =>
       \/ locked[v].use = "fund" /\ v \in MayFund(x) /\ (x.kind # "disallow" => v # u)
       \/ locked[v].use = "block" /\ x.kind = "disallow" /\ v \in x.todo \ {u}

\* One coin less: the call waits for the others, or its next stage begins
LEMMA OneIsUnlocked ==
  ASSUME HeldInv, NEW c \in CallNumbers, NEW u \in Utxos, NEW x \in CallRecord,
         Locking!Becomes(c, Locking!AfterOne(x, u, "unlock")),
         lease' \in [Utxos -> Lock],
         \A v \in Utxos : lease'[v].by # Nobody <=> lease'[v].left > 0,
         \A v \in Utxos : lease'[v] # lease[v] =>
           lease[v].by \in {c, Nobody} /\ lease'[v].by \in {c, Nobody},
         x.at = "releasing", IsStaged(x), IsSpared(x), IsNearlyAll(x),
         HasClaimed(c, x, lease', spent), Claimed(x) \subseteq Claimed(call[c]),
         StillHas(c, x, u, lease')
  PROVE  HeldInv'
<1>. DEFINE left == x.todo \ {u}
<1>1. left \in SUBSET Utxos /\ {} \in SUBSET Utxos
  BY CallFields
<1>2. ASSUME NEW q \in CallRecord, Locking!Becomes(c, q), CallInv(c, q, lease', spent),
             Claimed(q) \subseteq Claimed(x)
      PROVE  HeldInv'
  <2>1. Claimed(q) \subseteq Claimed(call[c]) \cup Locking!Available
    BY <1>2
  <2>. QED
    BY <1>2, <2>1, CallMoves DEF Locking!Becomes
<1>3. CASE left # {}
  <2>. DEFINE q == [x EXCEPT !.todo = left]
  <2>. HIDE DEF left
  <2>0. left \in SUBSET Utxos
    BY <1>1
  <2>1. /\ q \in CallRecord
        /\ q.kind = x.kind /\ q.at = "releasing" /\ q.then = x.then /\ q.named = x.named
        /\ q.todo = left /\ q.inputs = x.inputs /\ q.gives = x.gives
        /\ q.result = x.result /\ q.failed = x.failed /\ q.lapsed = x.lapsed
    BY <2>0, TodoFacts, ZenonT(60)
  <2>2. Locking!Becomes(c, q)
    BY <1>3 DEF Locking!AfterOne, left
  <2>. HIDE DEF q
  <2>3. IsStaged(q)
    BY <2>1 DEF IsStaged, Locking!Goal
  <2>4. IsSpared(q) /\ IsNearlyAll(q) /\ KeptAway(q) = {} /\ Claimed(q) = Claimed(x)
    BY <2>1 DEF IsSpared, IsNearlyAll, KeptAway, Claimed
  <2>5. HasOnly(c, q, lease')
    BY <2>1 DEF StillHas, HasOnly, MayFund, MayBlock, left
  <2>6. CallInv(c, q, lease', spent)
    BY <2>3, <2>4, <2>5 DEF CallInv, HasClaimed, HasKeptAway
  <2>. QED
    BY <1>2, <2>1, <2>2, <2>4, <2>6
<1>4. CASE left = {} /\ "unlock" \in x.failed
  <2>1. Locking!Becomes(c, Locking!Over(x))
    BY <1>4 DEF Locking!AfterOne
  <2>2. x.failed \cap Locking!Leaving # {}
    BY <1>4 DEF Locking!Leaving
  <2>3. /\ Locking!Over(x) \in CallRecord
        /\ CallInv(c, Locking!Over(x), lease', spent)
        /\ Claimed(Locking!Over(x)) \subseteq Claimed(x)
    BY <2>2, CallIsOver
  <2>. QED
    BY <1>2, <2>1, <2>3
<1>5. CASE left = {} /\ "unlock" \notin x.failed
  <2>. DEFINE p == [x EXCEPT !.todo = {}]
  <2>1. /\ p \in CallRecord
        /\ p.kind = x.kind /\ p.at = "releasing" /\ p.then = x.then /\ p.named = x.named
        /\ p.todo = {} /\ p.inputs = x.inputs /\ p.gives = x.gives
        /\ p.result = x.result /\ p.failed = x.failed /\ p.lapsed = x.lapsed
    BY <1>1, TodoFacts, SMTT(60)
  <2>2. Locking!Becomes(c, Locking!Goes(p, x.then))
    BY <1>5 DEF Locking!AfterOne
  <2>. HIDE DEF p
  <2>3. Claimed(p) = Claimed(x) /\ HasClaimed(c, p, lease', spent)
    BY <2>1 DEF Claimed, HasClaimed
  <2>4. \/ p.failed \cap Locking!Leaving # {}
        \/ \A v \in Utxos : lease'[v].by = c =>
             lease'[v].use = "fund" /\ v \in x.inputs /\ x.kind = "disallow"
    BY <1>5, <2>1 DEF StillHas, MayFund
  <2>5. \/ x.kind = "disallow" /\ x.then = "answer" /\ x.failed \subseteq {"fund", "unlock"}
           /\ ("fund" \in x.failed => x.inputs = {})
        \/ x.kind = "reserve" /\ x.then = "confirmed" /\ x.inputs = {} /\ x.failed = {}
        \/ x.kind \in {"max", "sign"} /\ x.then \in {"maximum", "answer", "conflict"}
           /\ x.inputs = {}
    BY <1>5 DEF IsStaged, Locking!Goal
  <2>6. x.result = "failed" => x.failed # {}
    BY DEF IsStaged
  <2>7. CASE x.then = "answer"
    <3>1. Locking!Becomes(c, Locking!Succeeds(p))
      BY <2>2, <2>7 DEF Locking!Goes
    <3>2. \/ p.failed \cap Locking!Leaving # {}
          \/ \A v \in Utxos : lease'[v].by = c =>
               lease'[v].use = "fund" /\ v \in p.inputs /\ p.failed = {}
      <4>1. CASE p.failed \cap Locking!Leaving # {}
        BY <4>1
      <4>2. CASE p.failed \cap Locking!Leaving = {}
        <5>1. x.kind = "disallow" => x.failed \subseteq {"fund"}
          BY <1>5, <2>5
        <5>2. x.kind = "disallow" /\ x.inputs # {} => x.failed = {}
          BY <2>5, <5>1
        <5>. QED
          BY <2>1, <2>4, <4>2, <5>2
      <4>. QED
        BY <4>1, <4>2
    <3>3. /\ Locking!Succeeds(p) \in CallRecord
          /\ CallInv(c, Locking!Succeeds(p), lease', spent)
          /\ Claimed(Locking!Succeeds(p)) \subseteq Claimed(p)
      BY <2>1, <2>3, <2>6, <3>2, CallSucceeded
    <3>. QED
      BY <1>2, <2>3, <3>1, <3>3
  <2>8. CASE x.then \in {"confirmed", "maximum", "conflict"}
    <3>. DEFINE at == x.then
                q == [p EXCEPT !.at = at]
    <3>1. at \in Locking!Stages /\ Locking!Becomes(c, q)
      BY <2>2, <2>8 DEF Locking!Goes, Locking!Stages
    <3>2. /\ q \in CallRecord
          /\ q.kind = x.kind /\ q.at = at /\ q.named = x.named
          /\ q.inputs = x.inputs /\ q.gives = x.gives
          /\ q.result = x.result /\ q.failed = x.failed
      BY <2>1, <3>1, AtFacts
    <3>3. at \in {"confirmed", "maximum", "conflict"}
      BY <2>8
    <3>4. x.kind # "disallow" /\ x.inputs = {}
      BY <2>5, <3>3
    <3>. HIDE DEF q
    <3>5. IsStaged(q)
      BY <2>5, <2>6, <3>2, <3>3 DEF IsStaged
    <3>6. HasOnly(c, q, lease')
      BY <2>1, <2>4, <3>2, <3>4 DEF HasOnly
    <3>7. Claimed(q) = {} /\ KeptAway(q) = {} /\ IsSpared(q)
      BY <3>2, <3>3, <3>4 DEF Claimed, KeptAway, IsSpared
    <3>8. IsNearlyAll(q)
      BY <3>2, <3>3 DEF IsNearlyAll
    <3>9. CallInv(c, q, lease', spent)
      BY <3>5, <3>6, <3>7, <3>8 DEF CallInv, HasClaimed, HasKeptAway
    <3>. QED
      BY <1>2, <3>1, <3>2, <3>7, <3>9
  <2>. QED
    BY <2>5, <2>7, <2>8
<1>. QED
  BY <1>3, <1>4, <1>5

LEMMA CoinIsUnlocked ==
  ASSUME HeldInv, NEW c \in CallNumbers, NEW u \in Utxos, Locking!UnlockUtxo(c, u)
  PROVE  HeldInv'
<1>. DEFINE r == call[c]
<1>1. r \in CallRecord /\ CallInv(c, r, lease, spent) /\ IsStaged(r)
  BY CallKnown
<1>2. /\ r.at = "releasing" /\ u \in r.todo
      /\ Locking!Releases(u, c, Locking!Use(r))
      /\ Locking!Becomes(c, Locking!AfterOne(r, u, "unlock"))
  BY DEF Locking!UnlockUtxo
<1>3. /\ lease \in [Utxos -> Lock]
      /\ \A v \in Utxos : lease[v].by # Nobody <=> lease[v].left > 0
  BY DEF HeldInv, LocksInv
<1>4. /\ Locking!Free \in Lock /\ Locking!Free.by = Nobody /\ Locking!Free.left = 0
  BY Others DEF Locking!Free, Lock
<1>. DEFINE free == Locking!Free
            own == Holds(c, u, Locking!Use(r), lease)
<1>10. lease' = IF own THEN [lease EXCEPT ![u] = free] ELSE lease
  BY <1>2 DEF Locking!Releases, Holds
<1>. HIDE DEF free, own
<1>11. free \in Lock
  BY <1>4 DEF free
<1>5. \A v \in Utxos : lease'[v] = IF v = u /\ own THEN free ELSE lease[v]
  BY <1>3, <1>10
<1>6. lease' \in [Utxos -> Lock]
  BY <1>3, <1>10, <1>11
<1>7. /\ \A v \in Utxos : lease'[v].by # Nobody <=> lease'[v].left > 0
      /\ \A v \in Utxos : lease'[v] # lease[v] =>
           lease[v].by \in {c, Nobody} /\ lease'[v].by \in {c, Nobody}
      /\ \A v \in Utxos : lease'[v].by = c =>
           lease'[v] = lease[v] /\ (v = u => lease[v].use # Locking!Use(r))
  BY <1>3, <1>4, <1>5, Others DEF Holds, own, free
<1>8. HasClaimed(c, r, lease', spent)
  <2>1. CASE r.kind = "disallow"
    <3>1. Claimed(r) \subseteq Utxos
      BY <1>1, CallFields DEF Claimed
    <3>2. \A v \in Utxos : Holds(c, v, "fund", lease) => lease'[v] = lease[v]
      BY <1>5, <2>1 DEF Holds, own, Locking!Use
    <3>. QED
      BY <1>1, <3>1, <3>2 DEF CallInv, HasClaimed, Holds
  <2>2. CASE r.kind # "disallow"
    BY <1>1, <1>2, <2>2 DEF IsStaged, HasClaimed, Claimed
  <2>. QED
    BY <2>1, <2>2
<1>9. StillHas(c, r, u, lease')
  <2>1. CASE r.failed \cap Locking!Leaving # {}
    BY <2>1 DEF StillHas
  <2>2. CASE r.failed \cap Locking!Leaving = {}
    <3>1. \A v \in Utxos : lease'[v].by = c =>
            \/ lease'[v].use = "fund" /\ v \in MayFund(r)
            \/ lease'[v].use = "block" /\ v \in MayBlock(r)
      BY <1>1, <1>7, <2>2 DEF CallInv, HasOnly
    <3>. QED
      BY <1>2, <1>7, <3>1 DEF StillHas, MayBlock, Locking!Use
  <2>. QED
    BY <2>1, <2>2
<1>. QED
  BY <1>1, <1>2, <1>6, <1>7, <1>8, <1>9, OneIsUnlocked DEF CallInv

LEMMA CoinIsNotUnlocked ==
  ASSUME HeldInv, NEW c \in CallNumbers, NEW u \in Utxos, Locking!UnlockFails(c, u)
  PROVE  HeldInv'
<1>. DEFINE r == call[c]
            f == Locking!Fails(r, "unlock")
<1>1. r \in CallRecord /\ CallInv(c, r, lease, spent) /\ IsStaged(r)
  BY CallKnown
<1>2. /\ r.at = "releasing" /\ u \in r.todo /\ UNCHANGED lease
      /\ Locking!Becomes(c, Locking!AfterOne(f, u, "unlock"))
  BY DEF Locking!UnlockFails
<1>3. /\ f \in CallRecord
      /\ f.kind = r.kind /\ f.at = "releasing" /\ f.then = r.then /\ f.named = r.named
      /\ f.todo = r.todo /\ f.inputs = r.inputs /\ f.gives = r.gives
      /\ f.result = "failed" /\ f.failed = r.failed \cup {"unlock"} /\ f.lapsed = r.lapsed
  BY <1>1, <1>2, FailsFacts DEF Steps
<1>. HIDE DEF f
<1>4. /\ lease' \in [Utxos -> Lock]
      /\ \A v \in Utxos : lease'[v].by # Nobody <=> lease'[v].left > 0
      /\ \A v \in Utxos : lease'[v] = lease[v]
  BY <1>2 DEF HeldInv, LocksInv
<1>5. IsStaged(f)
  BY <1>1, <1>2, <1>3 DEF IsStaged, Locking!Goal
<1>6. IsSpared(f) /\ IsNearlyAll(f)
  BY <1>1, <1>2, <1>3 DEF CallInv, IsSpared, IsNearlyAll
<1>7. Claimed(f) = {} /\ HasClaimed(c, f, lease', spent)
  BY <1>3 DEF Claimed, HasClaimed
<1>8. StillHas(c, f, u, lease')
  BY <1>3 DEF StillHas, Locking!Leaving
<1>. QED
  BY <1>2, <1>3, <1>4, <1>5, <1>6, <1>7, <1>8, OneIsUnlocked

-----------------------------------------------------------------------------
(* Time, and maintainUtxoLocks *)

\* A call remembers that a lock of its has lapsed
LEMMA LapsedFacts ==
  ASSUME NEW r \in CallRecord
  PROVE  LET q == [r EXCEPT !.lapsed = TRUE]
         IN  /\ q \in CallRecord
             /\ q.kind = r.kind /\ q.at = r.at /\ q.then = r.then /\ q.named = r.named
             /\ q.todo = r.todo /\ q.inputs = r.inputs /\ q.gives = r.gives
             /\ q.result = r.result /\ q.failed = r.failed /\ q.lapsed
BY DEF CallRecord

LEMMA LeftFacts ==
  ASSUME NEW lock \in Lock, lock.left > 1
  PROVE  LET q == [lock EXCEPT !.left = lock.left - 1]
         IN  q \in Lock /\ q.by = lock.by /\ q.use = lock.use /\ q.left = lock.left - 1
<1>1. lock.left \in 0..LeaseTime /\ LeaseTime \in Nat
  BY DEF Lock
<1>2. lock.left - 1 \in 0..LeaseTime
  BY <1>1
<1>. QED
  BY <1>1, <1>2 DEF Lock

LEMMA TimePasses ==
  ASSUME HeldInv, Locking!Tick
  PROVE  HeldInv'
<1>. DEFINE over == {u \in Utxos : lease[u].left = 1}
            free == Locking!Free
            next(u) == [lease[u] EXCEPT !.left = lease[u].left - 1]
            Loses(c) == call[c].result # "failed" /\ \E u \in over : lease[u].by = c
            lapsed(c) == [call[c] EXCEPT !.lapsed = TRUE]
            due == [u \in Utxos |-> IF keeper.due[u] = 0 THEN 0 ELSE keeper.due[u] - 1]
<1>1. /\ lease \in [Utxos -> Lock]
      /\ \A u \in Utxos : lease[u].by # Nobody <=> lease[u].left > 0
      /\ call \in [CallNumbers -> CallRecord] /\ keeper \in KeeperRecord
      /\ spent \subseteq Utxos /\ spent \in {{}, keeper.inputs}
      /\ (keeper.at = "off" => spent = {})
  BY DEF HeldInv, LocksInv
<1>2. /\ lease' = [u \in Utxos |-> IF u \in over \/ ~Locking!Held(u) THEN free ELSE next(u)]
      /\ call' = [c \in CallNumbers |-> IF Loses(c) THEN lapsed(c) ELSE call[c]]
      /\ keeper' = [keeper EXCEPT !.due = due]
      /\ spent' = spent
  BY Others DEF Locking!Tick
<1>3. free \in Lock /\ free.by = Nobody /\ free.left = 0
  BY Others DEF Locking!Free, Lock
<1>4. \A u \in Utxos : u \notin over /\ Locking!Held(u) =>
        /\ next(u) \in Lock /\ next(u).by = lease[u].by /\ next(u).use = lease[u].use
        /\ next(u).left = lease[u].left - 1 /\ next(u).left > 0
  <2>. SUFFICES ASSUME NEW u \in Utxos, u \notin over, Locking!Held(u)
                PROVE  /\ next(u) \in Lock /\ next(u).by = lease[u].by
                       /\ next(u).use = lease[u].use
                       /\ next(u).left = lease[u].left - 1 /\ next(u).left > 0
    OBVIOUS
  <2>. DEFINE lock == lease[u]
  <2>1. lock \in Lock /\ lock.left \in 0..LeaseTime /\ LeaseTime \in Nat
    BY <1>1 DEF Lock
  <2>2. lock.left > 1
    BY <1>1, <2>1 DEF Locking!Held
  <2>3. /\ next(u) \in Lock /\ next(u).by = lock.by /\ next(u).use = lock.use
        /\ next(u).left = lock.left - 1
    BY <2>1, <2>2, LeftFacts
  <2>. HIDE DEF next
  <2>. QED
    BY <2>1, <2>2, <2>3
<1>5. \A c \in CallNumbers :
        /\ lapsed(c) \in CallRecord
        /\ lapsed(c).kind = call[c].kind /\ lapsed(c).at = call[c].at
        /\ lapsed(c).then = call[c].then /\ lapsed(c).named = call[c].named
        /\ lapsed(c).todo = call[c].todo /\ lapsed(c).inputs = call[c].inputs
        /\ lapsed(c).gives = call[c].gives /\ lapsed(c).result = call[c].result
        /\ lapsed(c).failed = call[c].failed /\ lapsed(c).lapsed
  BY <1>1, LapsedFacts
<1>6. /\ keeper' \in KeeperRecord /\ keeper'.at = keeper.at
      /\ keeper'.inputs = keeper.inputs
  <2>1. keeper.due \in [Utxos -> Nat]
    BY <1>1 DEF KeeperRecord
  <2>2. due \in [Utxos -> Nat]
    BY <2>1
  <2>. HIDE DEF due
  <2>. QED
    BY <1>1, <1>2, <2>2 DEF KeeperRecord
<1>. HIDE DEF free, next, lapsed, due
<1>7. /\ lease' \in [Utxos -> Lock]
      /\ \A u \in Utxos : lease'[u].by # Nobody <=> lease'[u].left > 0
      /\ \A u \in Utxos : lease'[u].by # Nobody =>
           lease'[u].by = lease[u].by /\ lease'[u].use = lease[u].use
      /\ \A u \in Utxos : u \notin over =>
           lease'[u].by = lease[u].by /\ (lease[u].by # Nobody => lease'[u].use = lease[u].use)
  <2>1. ASSUME NEW u \in Utxos
        PROVE  /\ lease'[u] \in Lock
               /\ lease'[u].by # Nobody <=> lease'[u].left > 0
               /\ lease'[u].by # Nobody =>
                    lease'[u].by = lease[u].by /\ lease'[u].use = lease[u].use
               /\ u \notin over =>
                    lease'[u].by = lease[u].by /\ (lease[u].by # Nobody => lease'[u].use = lease[u].use)
    <3>1. CASE u \in over \/ ~Locking!Held(u)
      <4>1. lease'[u] = free
        BY <1>2, <3>1
      <4>2. u \notin over => lease[u].by = Nobody
        BY <3>1 DEF Locking!Held
      <4>. QED
        BY <1>3, <4>1, <4>2
    <3>2. CASE u \notin over /\ Locking!Held(u)
      <4>1. lease'[u] = next(u)
        BY <1>2, <3>2
      <4>2. lease[u].by # Nobody
        BY <3>2 DEF Locking!Held
      <4>. QED
        BY <1>4, <3>2, <4>1, <4>2
    <3>. QED
      BY <3>1, <3>2
  <2>2. lease' = [u \in Utxos |-> lease'[u]]
    BY <1>2
  <2>. QED
    BY <2>1, <2>2
<1>8. call' \in [CallNumbers -> CallRecord]
  BY <1>1, <1>2, <1>5
<1>9. ASSUME NEW c \in CallNumbers
      PROVE  CallInv(c, call'[c], lease', spent) /\ Claimed(call'[c]) \subseteq Claimed(call[c])
  <2>. DEFINE r == call[c]
              q == call'[c]
  <2>1. r \in CallRecord /\ CallInv(c, r, lease, spent) /\ IsStaged(r)
    BY CallKnown
  <2>2. /\ q.kind = r.kind /\ q.at = r.at /\ q.then = r.then /\ q.named = r.named
        /\ q.todo = r.todo /\ q.inputs = r.inputs /\ q.gives = r.gives
        /\ q.result = r.result /\ q.failed = r.failed
        /\ (~Loses(c) /\ q = r) \/ (Loses(c) /\ q.lapsed)
    BY <1>2, <1>5
  <2>3. ~Loses(c) => q = r
    BY <1>2
  <2>4. r.at = "idle" => q = r
    BY <2>3, IdleCall DEF NoneHeld
  <2>4a. Claimed(q) # {} \/ KeptAway(q) # {} => q.result # "failed" /\ ~q.lapsed
    BY DEF Claimed, KeptAway
  <2>5. Claimed(q) # {} \/ KeptAway(q) # {} =>
          q = r /\ \A u \in over : lease[u].by # c
    <3>. HIDE DEF over, q
    <3>. QED
      BY <2>2, <2>4a
  <2>. HIDE DEF q, Loses
  <2>6. IsStaged(q)
    BY <2>1, <2>2, <2>4 DEF IsStaged, Locking!Goal
  <2>7. HasOnly(c, q, lease')
    <3>1. MayFund(q) = MayFund(r) /\ MayBlock(q) = MayBlock(r)
      BY <2>2 DEF MayFund, MayBlock
    <3>2. HasOnly(c, r, lease)
      BY <2>1 DEF CallInv
    <3>. QED
      BY <1>7, <2>2, <3>1, <3>2, Others DEF HasOnly
  <2>8. \A u \in Utxos, use \in {"fund", "block"} :
          u \notin over /\ Holds(c, u, use, lease) => Holds(c, u, use, lease')
    BY <1>7, Others DEF Holds
  <2>9. Claimed(r) \subseteq Utxos /\ KeptAway(r) \subseteq Utxos
    BY <2>1, CallFields DEF Claimed, KeptAway
  <2>10. HasClaimed(c, q, lease', spent)
    <3>. SUFFICES ASSUME NEW u \in Claimed(q)
                  PROVE  Holds(c, u, "fund", lease') \/ u \in spent
      BY DEF HasClaimed
    <3>1. q = r /\ u \in Utxos /\ (lease[u].by = c => u \notin over)
      BY <2>5, <2>9
    <3>2. Holds(c, u, "fund", lease) \/ u \in spent
      BY <2>1, <3>1 DEF CallInv, HasClaimed
    <3>3. Holds(c, u, "fund", lease) => u \notin over
      BY <3>1 DEF Holds
    <3>. QED
      BY <2>8, <3>1, <3>2, <3>3
  <2>11. HasKeptAway(c, q, lease', spent)
    <3>. SUFFICES ASSUME NEW u \in KeptAway(q)
                  PROVE  Holds(c, u, "block", lease') \/ u \in spent
      BY DEF HasKeptAway
    <3>1. q = r /\ u \in Utxos /\ (lease[u].by = c => u \notin over)
      BY <2>5, <2>9
    <3>2. Holds(c, u, "block", lease) \/ u \in spent
      BY <2>1, <3>1 DEF CallInv, HasKeptAway
    <3>3. Holds(c, u, "block", lease) => u \notin over
      BY <3>1 DEF Holds
    <3>. QED
      BY <2>8, <3>1, <3>2, <3>3
  <2>12. IsSpared(q) /\ IsNearlyAll(q)
    BY <2>1, <2>2 DEF CallInv, IsSpared, IsNearlyAll
  <2>13. Claimed(q) \subseteq Claimed(r)
    BY <2>5
  <2>. QED
    BY <2>6, <2>7, <2>10, <2>11, <2>12, <2>13 DEF CallInv, q
<1>10. LocksInv'
  BY <1>1, <1>2, <1>6, <1>7, <1>8 DEF LocksInv
<1>11. \A c, d \in CallNumbers : c # d => Claimed(call'[c]) \cap Claimed(call'[d]) = {}
  BY <1>9 DEF HeldInv
<1>. QED
  BY <1>2, <1>9, <1>10, <1>11 DEF HeldInv

\* A step of the keeper's, or of the chain: the locks it takes or ends are those
\* of no call, or of coins that are spent
LEMMA KeeperMoves ==
  ASSUME HeldInv, UNCHANGED call, keeper' \in KeeperRecord,
         spent' \subseteq Utxos, spent \subseteq spent', spent' \in {{}, keeper'.inputs},
         keeper'.at = "off" => spent' = {},
         lease' \in [Utxos -> Lock],
         \A u \in Utxos : lease'[u].by # Nobody <=> lease'[u].left > 0,
         \A u \in Utxos : lease'[u] # lease[u] =>
           lease'[u].by \notin CallNumbers /\ (lease[u].by \notin CallNumbers \/ u \in spent')
  PROVE  HeldInv'
<1>1. LocksInv'
  BY DEF HeldInv, LocksInv
<1>2. ASSUME NEW c \in CallNumbers
      PROVE  CallInv(c, call[c], lease', spent')
  <2>1. call[c] \in CallRecord /\ CallInv(c, call[c], lease, spent)
    BY CallKnown
  <2>2. \A u \in Utxos : lease'[u].by = c => lease'[u] = lease[u]
    OBVIOUS
  <2>3. HasOnly(c, call[c], lease')
    BY <2>1, <2>2 DEF CallInv, HasOnly
  <2>4. \A u \in Utxos, use \in {"fund", "block"} :
          Holds(c, u, use, lease) => Holds(c, u, use, lease') \/ u \in spent'
    BY DEF Holds
  <2>5. Claimed(call[c]) \subseteq Utxos /\ KeptAway(call[c]) \subseteq Utxos
    BY <2>1, CallFields DEF Claimed, KeptAway
  <2>6. HasClaimed(c, call[c], lease', spent')
    BY <2>1, <2>4, <2>5 DEF CallInv, HasClaimed
  <2>7. HasKeptAway(c, call[c], lease', spent')
    BY <2>1, <2>4, <2>5 DEF CallInv, HasKeptAway
  <2>. QED
    BY <2>1, <2>3, <2>6, <2>7 DEF CallInv
<1>3. \A c, d \in CallNumbers : c # d => Claimed(call[c]) \cap Claimed(call[d]) = {}
  BY DEF HeldInv
<1>. QED
  BY <1>1, <1>2, <1>3 DEF HeldInv

LEMMA KeeperKnown ==
  ASSUME HeldInv
  PROVE  /\ keeper \in KeeperRecord /\ keeper.inputs \in SUBSET Utxos
         /\ keeper.todo \in SUBSET Utxos /\ keeper.due \in [Utxos -> Nat]
         /\ lease \in [Utxos -> Lock]
         /\ \A u \in Utxos : lease[u].by # Nobody <=> lease[u].left > 0
         /\ spent \subseteq Utxos /\ spent \in {{}, keeper.inputs}
         /\ (keeper.at = "off" => spent = {})
BY DEF HeldInv, LocksInv, KeeperRecord

\* The keeper goes on, and no lock changes
LEMMA KeeperGoesOn ==
  ASSUME HeldInv, NEW k \in KeeperRecord, Locking!KeeperBecomes(k), UNCHANGED <<lease, spent>>,
         spent = {} \/ k.inputs = keeper.inputs, k.at = "off" => spent = {}
  PROVE  HeldInv'
<1>1. /\ lease' = lease /\ lease \in [Utxos -> Lock]
      /\ \A u \in Utxos : lease[u].by # Nobody <=> lease[u].left > 0
  BY KeeperKnown
<1>. QED
  BY <1>1, KeeperKnown, KeeperMoves DEF Locking!KeeperBecomes

LEMMA KeepingStarts ==
  ASSUME HeldInv, NEW c \in CallNumbers, Locking!StartKeeping(c)
  PROVE  HeldInv'
<1>. DEFINE due == [u \in Utxos |-> IF lease[u].by = c THEN lease[u].left ELSE 0]
            k == [keeper EXCEPT !.at = "checking", !.inputs = call[c].inputs, !.due = due]
<1>1. keeper.at = "off" /\ Locking!KeeperBecomes(k) /\ UNCHANGED <<lease, spent>>
  BY DEF Locking!StartKeeping
<1>2. call[c].inputs \in SUBSET Utxos
  BY CallKnown, CallFields
<1>3. due \in [Utxos -> Nat]
  <2>1. \A u \in Utxos : lease[u].left \in Nat
    BY KeeperKnown, Others DEF Lock
  <2>. QED
    BY <2>1
<1>. HIDE DEF due
<1>4. k \in KeeperRecord /\ k.at = "checking"
  BY <1>2, <1>3, KeeperKnown DEF KeeperRecord
<1>. HIDE DEF k
<1>. QED
  BY <1>1, <1>4, KeeperKnown, KeeperGoesOn

LEMMA RelockedFacts ==
  ASSUME NEW k \in KeeperRecord, NEW u \in Utxos, k.at = "relocking"
  PROVE  /\ Locking!Relocked(k, u) \in KeeperRecord
         /\ Locking!Relocked(k, u).at \in {"relocking", "resting"}
         /\ Locking!Relocked(k, u).inputs = k.inputs
         /\ Locking!Relocked(k, u).due = k.due
<1>. DEFINE left == k.todo \ {u}
            at == IF left = {} THEN "resting" ELSE k.at
            q == [k EXCEPT !.todo = left, !.at = at]
<1>1. Locking!Relocked(k, u) = q
  BY DEF Locking!Relocked
<1>2. left \in SUBSET Utxos /\ at \in {"relocking", "resting"}
  BY DEF KeeperRecord
<1>. HIDE DEF left, at
<1>3. q \in KeeperRecord /\ q.at = at /\ q.inputs = k.inputs /\ q.due = k.due
  BY <1>2 DEF KeeperRecord
<1>. HIDE DEF q
<1>. QED
  BY <1>1, <1>2, <1>3

LEMMA CoinIsRelocked ==
  ASSUME HeldInv, NEW u \in Utxos, Locking!Relock(u)
  PROVE  HeldInv'
<1>. DEFINE new == [by |-> Keeper, use |-> "keep", left |-> LeaseTime]
            p == Locking!Relocked(keeper, u)
            k == [p EXCEPT !.due[u] = LeaseTime]
<1>1. /\ keeper.at = "relocking"
      /\ u \in Locking!Available \/ lease[u].by = Keeper
      /\ Locking!Leased({u}, Keeper, "keep")
      /\ Locking!KeeperBecomes(k)
      /\ spent' = spent
  BY DEF Locking!Relock
<1>2. p \in KeeperRecord /\ p.at # "off" /\ p.inputs = keeper.inputs /\ p.due = keeper.due
  BY <1>1, KeeperKnown, RelockedFacts
<1>. HIDE DEF p
<1>3. k \in KeeperRecord /\ k.at # "off" /\ k.inputs = keeper.inputs
  <2>1. p.due \in [Utxos -> Nat] /\ LeaseTime \in Nat
    BY <1>2, KeeperKnown
  <2>. DEFINE due == [p.due EXCEPT ![u] = LeaseTime]
  <2>2. due \in [Utxos -> Nat]
    BY <2>1
  <2>3. k = [p EXCEPT !.due = due]
    OBVIOUS
  <2>. HIDE DEF due, k
  <2>. QED
    BY <1>2, <2>2, <2>3 DEF KeeperRecord
<1>. HIDE DEF k
<1>4. /\ lease' = [v \in Utxos |-> IF v \in {u} THEN new ELSE lease[v]]
      /\ new \in Lock /\ new.by = Keeper /\ new.left > 0
  BY <1>1, Others DEF Locking!Leased, Lock
<1>. HIDE DEF new
<1>5. lease[u].by \notin CallNumbers
  BY <1>1, Others DEF Locking!Available, Locking!Held
<1>6. /\ lease' \in [Utxos -> Lock]
      /\ \A v \in Utxos : lease'[v].by # Nobody <=> lease'[v].left > 0
      /\ \A v \in Utxos : lease'[v] # lease[v] =>
           lease'[v].by \notin CallNumbers /\ lease[v].by \notin CallNumbers
  BY <1>4, <1>5, KeeperKnown, Others
<1>7. UNCHANGED call /\ keeper' = k
  BY <1>1 DEF Locking!KeeperBecomes
<1>. QED
  BY <1>1, <1>3, <1>6, <1>7, KeeperKnown, KeeperMoves

\* The transaction of the keeper is confirmed: its coins are spent
LEMMA CoinsAreSpent ==
  ASSUME HeldInv, Locking!Confirmed
  PROVE  HeldInv'
<1>. DEFINE free == Locking!Free
<1>1. /\ keeper.at # "off" /\ keeper.inputs \cap spent = {}
      /\ spent' = keeper.inputs /\ UNCHANGED <<call, keeper>>
      /\ lease' = [u \in Utxos |-> IF u \in keeper.inputs THEN free ELSE lease[u]]
  BY DEF Locking!Confirmed
<1>2. free \in Lock /\ free.by = Nobody /\ free.left = 0
  BY Others DEF Locking!Free, Lock
<1>. HIDE DEF free
<1>3. spent = {}
  BY <1>1, KeeperKnown
<1>4. /\ lease' \in [Utxos -> Lock]
      /\ \A u \in Utxos : lease'[u].by # Nobody <=> lease'[u].left > 0
      /\ \A u \in Utxos : lease'[u] # lease[u] =>
           lease'[u].by \notin CallNumbers /\ u \in spent'
  BY <1>1, <1>2, KeeperKnown, Others
<1>. QED
  BY <1>1, <1>3, <1>4, KeeperKnown, KeeperMoves

LEMMA KeeperKeeps ==
  ASSUME HeldInv, Locking!KeeperStep \/ \E u \in Utxos : Locking!RelockFails(u)
  PROVE  HeldInv'
<1>1. ASSUME NEW at \in {"checking", "done"}, keeper.at # "off",
             Locking!KeeperBecomes([keeper EXCEPT !.at = at]), UNCHANGED <<lease, spent>>
      PROVE  HeldInv'
  <2>. DEFINE k == [keeper EXCEPT !.at = at]
  <2>1. k \in KeeperRecord /\ k.at = at /\ k.inputs = keeper.inputs
    BY KeeperKnown DEF KeeperRecord
  <2>2. Locking!KeeperBecomes(k)
    BY <1>1
  <2>. HIDE DEF k
  <2>. QED
    BY <1>1, <2>1, <2>2, KeeperGoesOn
<1>2. ASSUME NEW failing \in BOOLEAN, Locking!CheckConfirmed(failing)
      PROVE  HeldInv'
  <2>1. keeper.at = "checking" /\ UNCHANGED <<lease, spent>>
    BY <1>2 DEF Locking!CheckConfirmed
  <2>2. CASE Locking!KeeperBecomes([keeper EXCEPT !.at = "done"])
    BY <1>1, <2>1, <2>2
  <2>3. CASE Locking!KeeperBecomes([keeper EXCEPT !.at = "relocking", !.todo = keeper.inputs])
    <3>. DEFINE k == [keeper EXCEPT !.at = "relocking", !.todo = keeper.inputs]
    <3>1. k \in KeeperRecord /\ k.at = "relocking" /\ k.inputs = keeper.inputs
      BY KeeperKnown DEF KeeperRecord
    <3>2. Locking!KeeperBecomes(k)
      BY <2>3
    <3>. HIDE DEF k
    <3>. QED
      BY <2>1, <3>1, <3>2, KeeperGoesOn
  <2>. QED
    BY <1>2, <2>2, <2>3 DEF Locking!CheckConfirmed
<1>3. CASE Locking!KeeperTimer
  BY <1>1, <1>3 DEF Locking!KeeperTimer
<1>4. ASSUME NEW u \in Utxos, Locking!RelockFails(u)
      PROVE  HeldInv'
  <2>. DEFINE k == Locking!Relocked(keeper, u)
  <2>1. keeper.at = "relocking" /\ Locking!KeeperBecomes(k) /\ UNCHANGED <<lease, spent>>
    BY <1>4 DEF Locking!RelockFails
  <2>2. k \in KeeperRecord /\ k.at # "off" /\ k.inputs = keeper.inputs
    BY <2>1, KeeperKnown, RelockedFacts
  <2>. HIDE DEF k
  <2>. QED
    BY <2>1, <2>2, KeeperGoesOn
<1>. QED
  BY <1>2, <1>3, <1>4, CoinIsRelocked DEF Locking!KeeperStep

-----------------------------------------------------------------------------
(* The theorem *)

LEMMA CallsKeep ==
  ASSUME HeldInv, NEW c \in CallNumbers, Locking!CallStep(c)
  PROVE  HeldInv'
<1>1. CASE \E u \in Utxos : Locking!UnlockUtxo(c, u) \/ Locking!UnlockFails(c, u)
  BY <1>1, CoinIsUnlocked, CoinIsNotUnlocked
<1>2. CASE Locking!DisallowStep(c)
  BY <1>2, CoinIsKeptAway, CoinIsNotKeptAway, OthersAreFunded, OthersAreNotFunded
     DEF Locking!DisallowStep
<1>3. CASE Locking!ReserveStep(c)
  BY <1>3, TrialFunds, NobodyIsAsked, UserConfirms, UserHasConfirmed, PsbtIsCreated,
     PsbtIsSigned, UserPastes, RefundIsGiven, RefundIsNotGiven
     DEF Locking!ReserveStep
<1>4. CASE Locking!MaxStep(c)
  BY <1>4, TemplateIsCreated, MaximumIsTried, MaximumIsRefused, MaximumIsFound, BaseIsSigned,
     ConflictIsSigned
     DEF Locking!MaxStep
<1>5. CASE Locking!SignFails(c)
  BY <1>5, RefundIsNotGiven
<1>. QED
  BY <1>1, <1>2, <1>3, <1>4, <1>5 DEF Locking!CallStep

LEMMA HeldInit ==
  ASSUME Locking!Init
  PROVE  HeldInv
<1>. DEFINE free == Locking!Free
            idle == Locking!NotCalled
            due == [u \in Utxos |-> 0]
            k == [at |-> "off", inputs |-> {}, todo |-> {}, due |-> due]
<1>1. /\ lease = [u \in Utxos |-> free] /\ spent = {}
      /\ call = [c \in CallNumbers |-> idle] /\ keeper = k
  BY Others DEF Locking!Init
<1>2. free \in Lock /\ free.by = Nobody /\ free.left = 0
  BY Others DEF Locking!Free, Lock
<1>3. /\ idle \in CallRecord /\ idle.kind = "none" /\ idle.at = "idle"
      /\ idle.inputs = {} /\ idle.failed = {} /\ idle.result = "none"
  BY NotCalledFacts
<1>4. due \in [Utxos -> Nat]
  OBVIOUS
<1>. HIDE DEF due
<1>5. k \in KeeperRecord /\ k.at = "off"
  BY <1>4 DEF KeeperRecord
<1>. HIDE DEF free, idle, k
<1>6. LocksInv
  BY <1>1, <1>2, <1>3, <1>5 DEF LocksInv
<1>7. Claimed(idle) = {} /\ KeptAway(idle) = {}
  BY <1>3 DEF Claimed, KeptAway
<1>8. ASSUME NEW c \in CallNumbers
      PROVE  CallInv(c, call[c], lease, spent) /\ Claimed(call[c]) = {}
  <2>1. call[c] = idle /\ \A u \in Utxos : lease[u].by # c
    BY <1>1, <1>2, Others
  <2>2. IsStaged(idle)
    BY <1>3 DEF IsStaged, idle
  <2>3. HasOnly(c, idle, lease) /\ IsSpared(idle) /\ IsNearlyAll(idle)
    BY <1>3, <2>1 DEF HasOnly, IsSpared, IsNearlyAll
  <2>. QED
    BY <1>7, <2>1, <2>2, <2>3 DEF CallInv, HasClaimed, HasKeptAway
<1>. QED
  BY <1>6, <1>8 DEF HeldInv

LEMMA HeldStep ==
  ASSUME HeldInv, [MCNext]_mcvars
  PROVE  HeldInv'
<1>1. CASE Locking!Next
  <2>1. CASE Locking!Tick
    BY <2>1, TimePasses
  <2>2. ASSUME NEW c \in CallNumbers,
               \/ Locking!StartDisallowing(c) \/ Locking!StartReserving(c)
               \/ Locking!StartMax(c) \/ Locking!StartSigning(c)
               \/ Locking!CallStep(c) \/ Locking!StartKeeping(c)
        PROVE  HeldInv'
    BY <2>2, DisallowingStarts, ReservingStarts, StartsKeep, CallsKeep, KeepingStarts
  <2>3. CASE Locking!KeeperStep \/ \E u \in Utxos : Locking!RelockFails(u)
    BY <2>3, KeeperKeeps
  <2>4. CASE Locking!Confirmed
    BY <2>4, CoinsAreSpent
  <2>. QED
    BY <1>1, <2>1, <2>2, <2>3, <2>4, Others DEF Locking!Next
<1>2. CASE UNCHANGED locking
  BY <1>2 DEF locking, HeldInv, LocksInv
<1>. QED
  BY <1>1, <1>2 DEF MCNext, mcvars

\* What the invariant of the stages says of the whole: nothing that was to be
\* avoided is spent, no coin is spent twice, no other lock is left, and a maximum
\* leaves no change
LEMMA HeldImplies ==
  ASSUME HeldInv
  PROVE  FundingInv
<1>1. Locking!TypeOK
  <2>1. ASSUME NEW u \in Utxos
        PROVE  /\ lease[u].by \in Locking!Calls \cup {Keeper, Nobody}
               /\ lease[u].use \in {"none", "block", "fund", "keep"}
               /\ lease[u].left \in 0..LeaseTime
               /\ Locking!Held(u) <=> lease[u].left > 0
    BY KeeperKnown, Others DEF Lock, Locking!Held
  <2>2. ASSUME NEW c \in Locking!Calls
        PROVE  /\ call[c].at \in Locking!Stages
               /\ call[c].result \in {"none", "ok", "failed"}
               /\ call[c].todo \cup call[c].named \cup call[c].inputs \subseteq Utxos
    BY CallKnown, CallFields, Others
  <2>3. keeper.at \in {"off", "checking", "relocking", "resting", "done"}
    BY KeeperKnown DEF KeeperRecord
  <2>. QED
    BY <2>1, <2>2, <2>3, KeeperKnown DEF Locking!TypeOK
<1>2. Locking!DisallowedAreSpared
  BY CallKnown, Others DEF CallInv, IsSpared, Locking!DisallowedAreSpared
<1>3. Locking!CoinsAreNotShared
  <2>. SUFFICES ASSUME NEW c \in CallNumbers, NEW d \in CallNumbers, c # d,
                       call[c].result = "ok", call[d].result = "ok",
                       call[c].inputs \cap call[d].inputs # {},
                       ~call[c].lapsed, ~call[d].lapsed
                PROVE  FALSE
    BY Others DEF Locking!CoinsAreNotShared
  <2>1. Claimed(call[c]) = call[c].inputs /\ Claimed(call[d]) = call[d].inputs
    BY DEF Claimed
  <2>. QED
    BY <2>1 DEF HeldInv
<1>4. Locking!LeavesNothingElse
  <2>. SUFFICES ASSUME NEW c \in CallNumbers, NEW u \in Utxos,
                       lease[u].by = c, call[c].at = "done",
                       call[c].failed \cap Locking!Leaving = {}
                PROVE  lease[u].use = "fund" /\ u \in call[c].inputs /\ call[c].result = "ok"
    BY Others DEF Locking!LeavesNothingElse
  <2>1. CallInv(c, call[c], lease, spent) /\ IsStaged(call[c])
    BY CallKnown
  <2>2. MayFund(call[c]) = call[c].inputs /\ MayBlock(call[c]) = {}
    BY <2>1 DEF IsStaged, MayFund, MayBlock
  <2>3. lease[u].use = "fund" /\ u \in call[c].inputs
    BY <2>1, <2>2 DEF CallInv, HasOnly
  <2>. QED
    BY <2>1, <2>3 DEF IsStaged
<1>5. Locking!MaximumIsNearlyAll
  BY CallKnown, Others DEF CallInv, IsNearlyAll, Locking!MaximumIsNearlyAll
<1>. QED
  BY <1>1, <1>2, <1>3, <1>4, <1>5 DEF FundingInv, Locking!FundingInv

\* However the calls and the keeper interleave: as long as no lock of a call has
\* lapsed, its transaction spends none of the coins that were to be avoided, and
\* none that is in the answered transaction of another such call; a call that is
\* over has left no lock but its transaction's, unless a lock, an unlock, a
\* signature or a refund of it failed; and a maximum leaves less than the least
\* output and the adjustment besides the fee
THEOREM FundingHolds == MCSpec => []FundingInv
<1>1. MCInit => HeldInv
  BY HeldInit DEF MCInit
<1>2. HeldInv /\ [MCNext]_mcvars => HeldInv'
  BY HeldStep
<1>3. HeldInv => FundingInv
  BY HeldImplies
<1>. QED
  BY <1>1, <1>2, <1>3, PTL DEF MCSpec

HIDE FundingGiven DEF Locking!FundingAssumption

-----------------------------------------------------------------------------
(* Lists: what the lists of records that getTransactionRecord puts together *)
(* have in them, and how often                                               *)

\* The list has all of the set and nothing else
Lists(s, S) == s \in Seq(S) /\ \A x \in S : \E i \in DOMAIN s : s[i] = x

Once(s, x) == \A i, j \in DOMAIN s : s[i] = x /\ s[j] = x => i = j

\* The list of a finite set has each element at one place
LEMMA SetListed ==
  ASSUME NEW S, IsFiniteSet(S)
  PROVE  LET s == Records!SetToSeq(S)
         IN  /\ Lists(s, S)
             /\ \A i, j \in DOMAIN s : s[i] = s[j] => i = j
<1>. DEFINE n == Cardinality(S)
            s == Records!SetToSeq(S)
<1>1. n \in Nat /\ IsFiniteSet(1..n) /\ Cardinality(1..n) = n
  <2>1. n \in Nat
    BY FS_CardinalityType
  <2>. HIDE DEF n
  <2>2. 1 \in Int /\ n \in Int
    BY <2>1
  <2>3. IsFiniteSet(1..n) /\ Cardinality(1..n) = IF 1 > n THEN 0 ELSE n - 1 + 1
    BY <2>2, FS_Interval
  <2>. QED
    BY <2>1, <2>3
<1>2. PICK f \in [1..n -> S] : IsInjective(f)
  <2>1. \E f \in Bijection(1..n, S) : TRUE
    BY FS_CardinalityType DEF ExistsBijection
  <2>. QED
    BY <2>1 DEF Bijection, Injection
<1>3. Records!Cardinality(S) = n
  BY DEF Records!Cardinality, Cardinality
<1>4. s \in [1..n -> S] /\ IsInjective(s)
  <2>1. s = CHOOSE g \in [1..n -> S] : IsInjective(g)
    BY <1>3 DEF Records!SetToSeq, Records!IsInjective, IsInjective
  <2>. HIDE DEF s, n
  <2>. QED
    BY <1>2, <2>1
<1>. HIDE DEF s
<1>5. s \in Injection(1..n, S)
  BY <1>4 DEF Injection
<1>6. s \in Surjection(1..n, S)
  BY <1>1, <1>5, FS_Injection
<1>7. s \in Seq(S) /\ DOMAIN s = 1..n
  BY <1>1, <1>4
<1>8. \A x \in S : \E k \in DOMAIN s : s[k] = x
  BY <1>6, <1>7 DEF Surjection
<1>9. \A i, j \in DOMAIN s : s[i] = s[j] => i = j
  BY <1>4, <1>7 DEF IsInjective
<1>. QED
  BY <1>7, <1>8, <1>9 DEF s, Lists

LEMMA NothingListed == Lists(<<>>, {})
BY DEF Lists

\* Places in a list made of two
LEMMA JoinedPlaces ==
  ASSUME NEW S, NEW s \in Seq(S), NEW t \in Seq(S)
  PROVE  /\ s \o t \in Seq(S)
         /\ DOMAIN s = 1..Len(s) /\ DOMAIN t = 1..Len(t)
         /\ DOMAIN (s \o t) = 1..Len(s) + Len(t)
         /\ Len(s) \in Nat /\ Len(t) \in Nat
         /\ \A i \in DOMAIN s : (s \o t)[i] = s[i]
         /\ \A i \in DOMAIN t : (s \o t)[Len(s) + i] = t[i]
         /\ \A i \in DOMAIN (s \o t) :
              i \in DOMAIN s \/ (i - Len(s) \in DOMAIN t /\ (s \o t)[i] = t[i - Len(s)])
OBVIOUS

LEMMA BothListed ==
  ASSUME NEW S, NEW T, NEW s, NEW t, Lists(s, S), Lists(t, T)
  PROVE  Lists(s \o t, S \cup T)
<1>1. s \in Seq(S) /\ t \in Seq(T)
  BY DEF Lists
<1>2. s \in Seq(S \cup T) /\ t \in Seq(S \cup T)
  BY <1>1
<1>3. \A x \in S : \E i \in DOMAIN (s \o t) : (s \o t)[i] = x
  <2>. SUFFICES ASSUME NEW x \in S PROVE \E i \in DOMAIN (s \o t) : (s \o t)[i] = x
    OBVIOUS
  <2>1. PICK i \in DOMAIN s : s[i] = x
    BY DEF Lists
  <2>2. i \in DOMAIN (s \o t)
    BY <1>2, JoinedPlaces
  <2>3. (s \o t)[i] = s[i]
    BY <1>2, JoinedPlaces
  <2>. QED
    BY <2>1, <2>2, <2>3
<1>4. \A x \in T : \E i \in DOMAIN (s \o t) : (s \o t)[i] = x
  <2>. SUFFICES ASSUME NEW x \in T PROVE \E i \in DOMAIN (s \o t) : (s \o t)[i] = x
    OBVIOUS
  <2>1. PICK i \in DOMAIN t : t[i] = x
    BY DEF Lists
  <2>2. Len(s) + i \in DOMAIN (s \o t)
    BY <1>2, JoinedPlaces
  <2>3. (s \o t)[Len(s) + i] = t[i]
    BY <1>2, JoinedPlaces
  <2>. QED
    BY <2>1, <2>2, <2>3
<1>5. s \o t \in Seq(S \cup T)
  BY <1>2, JoinedPlaces
<1>. QED
  BY <1>3, <1>4, <1>5 DEF Lists

\* What is in one of the two alone is there as often as in that one
LEMMA OnceInBoth ==
  ASSUME NEW S, NEW T, NEW s, NEW t, Lists(s, S), Lists(t, T),
         NEW x, Once(s, x), Once(t, x), x \notin S \cap T
  PROVE  Once(s \o t, x)
<1>1. s \in Seq(S) /\ t \in Seq(T)
  BY DEF Lists
<1>2. s \in Seq(S \cup T) /\ t \in Seq(S \cup T)
  BY <1>1
<1>. SUFFICES ASSUME NEW i \in DOMAIN (s \o t), NEW j \in DOMAIN (s \o t),
                     (s \o t)[i] = x, (s \o t)[j] = x
              PROVE  i = j
  BY DEF Once
<1>3. (i \in DOMAIN s /\ s[i] = x) \/ (i - Len(s) \in DOMAIN t /\ t[i - Len(s)] = x)
  BY <1>2, JoinedPlaces
<1>4. (j \in DOMAIN s /\ s[j] = x) \/ (j - Len(s) \in DOMAIN t /\ t[j - Len(s)] = x)
  BY <1>2, JoinedPlaces
<1>5. (\E k \in DOMAIN s : s[k] = x) => x \in S
  BY <1>1
<1>6. (\E k \in DOMAIN t : t[k] = x) => x \in T
  BY <1>1
<1>7. i \in Int /\ j \in Int /\ Len(s) \in Int
  BY <1>2, JoinedPlaces
<1>8. CASE i \in DOMAIN s /\ s[i] = x /\ j \in DOMAIN s /\ s[j] = x
  BY <1>8 DEF Once
<1>9. CASE i - Len(s) \in DOMAIN t /\ t[i - Len(s)] = x /\ j - Len(s) \in DOMAIN t /\ t[j - Len(s)] = x
  <2>1. i - Len(s) = j - Len(s)
    BY <1>9 DEF Once
  <2>. QED
    BY <1>7, <2>1
<1>. QED
  BY <1>3, <1>4, <1>5, <1>6, <1>8, <1>9

\* f puts the first so many of the lists together
PutsTogether(f, lists, m) ==
  \A i \in 1..m : f[i] = IF i = 1 THEN lists[i] ELSE f[i - 1] \o lists[i]

LEMMA TogetherExists ==
  ASSUME NEW T, NEW n \in Nat, NEW lists \in [1..n -> Seq(T)]
  PROVE  \E f \in [1..n -> Seq(T)] : PutsTogether(f, lists, n)
<1>. DEFINE N == {m \in Nat : m <= n => \E f \in [1..m -> Seq(T)] : PutsTogether(f, lists, m)}
<1>1. 0 \in N
  <2>. DEFINE f == [i \in 1..0 |-> <<>>]
  <2>1. f \in [1..0 -> Seq(T)] /\ PutsTogether(f, lists, 0)
    BY DEF PutsTogether
  <2>. QED
    BY <2>1
<1>2. ASSUME NEW m \in Nat, m \in N PROVE m + 1 \in N
  <2>. SUFFICES ASSUME m + 1 <= n
                PROVE  \E f \in [1..m + 1 -> Seq(T)] : PutsTogether(f, lists, m + 1)
    OBVIOUS
  <2>1. PICK f \in [1..m -> Seq(T)] : PutsTogether(f, lists, m)
    BY <1>2
  <2>. DEFINE new == IF m = 0 THEN lists[m + 1] ELSE f[m] \o lists[m + 1]
              g == [i \in 1..m + 1 |-> IF i = m + 1 THEN new ELSE f[i]]
  <2>2. new \in Seq(T)
    <3>1. lists[m + 1] \in Seq(T)
      OBVIOUS
    <3>2. m # 0 => f[m] \in Seq(T)
      OBVIOUS
    <3>. QED
      BY <3>1, <3>2
  <2>3. g \in [1..m + 1 -> Seq(T)]
    <3>. HIDE DEF new
    <3>. QED
      BY <2>2
  <2>4. ASSUME NEW i \in 1..m + 1
        PROVE  g[i] = IF i = 1 THEN lists[i] ELSE g[i - 1] \o lists[i]
    <3>1. CASE i = m + 1
      <4>1. g[i] = IF m = 0 THEN lists[m + 1] ELSE f[m] \o lists[m + 1]
        BY <3>1
      <4>2. m # 0 => g[i - 1] = f[m]
        BY <3>1
      <4>. HIDE DEF g
      <4>. QED
        BY <3>1, <4>1, <4>2
    <3>2. CASE i # m + 1
      <4>. HIDE DEF new
      <4>1. i \in 1..m
        BY <3>2
      <4>2. g[i] = f[i]
        BY <3>2
      <4>4. i # 1 => g[i - 1] = f[i - 1]
        <5>1. i # 1 => i - 1 \in 1..m + 1 /\ i - 1 # m + 1
          BY <4>1
        <5>. QED
          BY <5>1
      <4>3. f[i] = IF i = 1 THEN lists[i] ELSE f[i - 1] \o lists[i]
        BY <2>1, <4>1 DEF PutsTogether
      <4>. HIDE DEF g
      <4>. QED
        BY <4>2, <4>3, <4>4
    <3>. QED
      BY <3>1, <3>2
  <2>5. PutsTogether(g, lists, m + 1)
    <3>. HIDE DEF g
    <3>. QED
      BY <2>4 DEF PutsTogether
  <2>. QED
    BY <2>3, <2>5
<1>3. n \in N
  <2>. HIDE DEF N
  <2>. QED
    BY <1>1, <1>2, AllNumbers
<1>. QED
  BY <1>3

\* What FlattenSeq returns of at least one list is the last of these
LEMMA FlattenTogether ==
  ASSUME NEW T, NEW n \in Nat, n # 0, NEW lists \in [1..n -> Seq(T)]
  PROVE  \E f : PutsTogether(f, lists, n) /\ Records!FlattenSeq(lists) = f[n]
<1>. DEFINE Is(f) == f = [i \in 1..n |-> IF i = 1 THEN lists[i] ELSE f[i - 1] \o lists[i]]
            flatten == CHOOSE f : Is(f)
<1>1. Len(lists) = n /\ lists \in Seq(Seq(T))
  OBVIOUS
<1>2. PICK f \in [1..n -> Seq(T)] : PutsTogether(f, lists, n)
  BY TogetherExists
<1>3. Is(f)
  BY <1>2 DEF PutsTogether
<1>4. Is(flatten)
  <2>. HIDE DEF Is
  <2>. QED
    BY <1>3
<1>5. Records!FlattenSeq(lists) = flatten[n]
  BY <1>1 DEF Records!FlattenSeq
<1>. HIDE DEF flatten
<1>6. PutsTogether(flatten, lists, n)
  BY <1>4 DEF PutsTogether
<1>. QED
  BY <1>5, <1>6

\* The lists of so many sets put together list the union
LEMMA AllListed ==
  ASSUME NEW T, NEW n \in Nat, NEW lists \in [1..n -> Seq(T)], NEW sets,
         \A i \in 1..n : Lists(lists[i], sets[i])
  PROVE  LET all == UNION {sets[i] : i \in 1..n}
             s == Records!FlattenSeq(lists)
         IN  /\ Lists(s, all)
             /\ \A x : (\A i \in 1..n : Once(lists[i], x))
                       /\ (\A i, j \in 1..n : i # j => x \notin sets[i] \cap sets[j])
                       => Once(s, x)
<1>. DEFINE Among(m) == UNION {sets[i] : i \in 1..m}
            Apart(x) == /\ \A i \in 1..n : Once(lists[i], x)
                        /\ \A i, j \in 1..n : i # j => x \notin sets[i] \cap sets[j]
<1>1. CASE n = 0
  <2>1. lists = <<>> /\ Len(lists) = 0
    BY <1>1
  <2>2. Records!FlattenSeq(lists) = <<>>
    BY <2>1 DEF Records!FlattenSeq
  <2>3. Among(n) = {}
    BY <1>1
  <2>4. \A x : Once(<<>>, x)
    BY DEF Once
  <2>. HIDE DEF Among
  <2>5. Lists(Records!FlattenSeq(lists), Among(n))
    BY <2>2, <2>3, NothingListed
  <2>. QED
    BY <2>2, <2>4, <2>5 DEF Among
<1>2. CASE n # 0
  <2>1. PICK f : PutsTogether(f, lists, n) /\ Records!FlattenSeq(lists) = f[n]
    BY <1>2, FlattenTogether
  <2>. DEFINE N == {m \in Nat : m \in 1..n => /\ Lists(f[m], Among(m))
                                             /\ \A x : Apart(x) => Once(f[m], x)}
  <2>2. 0 \in N
    OBVIOUS
  <2>3. ASSUME NEW m \in Nat, m \in N PROVE m + 1 \in N
    <3>. SUFFICES ASSUME m + 1 \in 1..n
                  PROVE  /\ Lists(f[m + 1], Among(m + 1))
                         /\ \A x : Apart(x) => Once(f[m + 1], x)
      OBVIOUS
    <3>1. Among(m + 1) = Among(m) \cup sets[m + 1]
      <4>1. \A i : i \in 1..m + 1 <=> i \in 1..m \/ i = m + 1
        OBVIOUS
      <4>. QED
        BY <4>1
    <3>2. Lists(lists[m + 1], sets[m + 1])
      OBVIOUS
    <3>3. CASE m = 0
      <4>1. f[m + 1] = lists[m + 1]
        BY <2>1, <3>3 DEF PutsTogether
      <4>2. Among(m) = {}
        BY <3>3
      <4>3. Among(m + 1) = sets[m + 1]
        BY <3>1, <4>2
      <4>4. \A x : Apart(x) => Once(lists[m + 1], x)
        OBVIOUS
      <4>. HIDE DEF Among, Apart
      <4>. QED
        BY <3>2, <4>1, <4>3, <4>4
    <3>4. CASE m # 0
      <4>1. m \in 1..n /\ m + 1 # 1 /\ (m + 1) - 1 = m
        BY <3>4
      <4>2. f[m + 1] = f[m] \o lists[m + 1]
        BY <2>1, <4>1 DEF PutsTogether
      <4>3. Lists(f[m], Among(m)) /\ \A x : Apart(x) => Once(f[m], x)
        BY <2>3, <4>1
      <4>4. Lists(f[m + 1], Among(m + 1))
        <5>. HIDE DEF Among, Apart, N
        <5>1. Lists(f[m], Among(m))
          BY <4>3
        <5>2. Lists(f[m] \o lists[m + 1], Among(m) \cup sets[m + 1])
          BY <3>2, <5>1, BothListed
        <5>. QED
          BY <3>1, <4>2, <5>2
      <4>5. ASSUME NEW x, Apart(x) PROVE Once(f[m + 1], x)
        <5>1. Once(f[m], x) /\ Once(lists[m + 1], x)
          BY <4>3, <4>5
        <5>2. x \notin Among(m) \cap sets[m + 1]
          <6>1. \A i \in 1..m : i \in 1..n /\ i # m + 1
            BY <4>1
          <6>. QED
            BY <4>5, <6>1
        <5>. HIDE DEF Among
        <5>. QED
          BY <3>2, <4>2, <4>3, <5>1, <5>2, OnceInBoth
      <4>. HIDE DEF Among, Apart
      <4>. QED
        BY <4>4, <4>5
    <3>. QED
      BY <3>3, <3>4
  <2>4. n \in N
    <3>. HIDE DEF N
    <3>. QED
      BY <2>2, <2>3, AllNumbers
  <2>5. n \in 1..n
    BY <1>2
  <2>. HIDE DEF Among, Apart
  <2>6. Lists(f[n], Among(n)) /\ \A x : Apart(x) => Once(f[n], x)
    BY <2>4, <2>5
  <2>. QED
    BY <2>1, <2>6 DEF Among, Apart
<1>. QED
  BY <1>1, <1>2

Has(s, x) == \E i \in DOMAIN s : s[i] = x

LEMMA HasAll ==
  ASSUME NEW T, NEW n \in Nat, NEW lists \in [1..n -> Seq(T)]
  PROVE  LET s == Records!FlattenSeq(lists)
         IN  /\ s \in Seq(T)
             /\ \A i \in 1..n, x \in T : Has(lists[i], x) => Has(s, x)
             /\ \A x : Has(s, x) => \E i \in 1..n : Has(lists[i], x)
             /\ \A x : (\A i \in 1..n : Once(lists[i], x))
                       /\ (\A i, j \in 1..n : i # j => ~(Has(lists[i], x) /\ Has(lists[j], x)))
                       => Once(s, x)
<1>. DEFINE sets == [i \in 1..n |-> {x \in T : Has(lists[i], x)}]
            all == UNION {sets[i] : i \in 1..n}
            s == Records!FlattenSeq(lists)
<1>1. ASSUME NEW i \in 1..n PROVE Lists(lists[i], sets[i])
  <2>. DEFINE list == lists[i]  set == {x \in T : Has(list, x)}
  <2>1. list \in Seq(T) /\ sets[i] = set
    OBVIOUS
  <2>. HIDE DEF list
  <2>2. Len(list) \in Nat /\ DOMAIN list = 1..Len(list)
    BY <2>1
  <2>3. ASSUME NEW j \in 1..Len(list) PROVE list[j] \in set
    <3>1. list[j] \in T
      BY <2>1, <2>2
    <3>2. Has(list, list[j])
      BY <2>2 DEF Has
    <3>. QED
      BY <3>1, <3>2
  <2>4. list \in [1..Len(list) -> set]
    <3>. HIDE DEF set
    <3>. QED
      BY <2>1, <2>2, <2>3
  <2>5. list \in Seq(set)
    <3>. HIDE DEF set
    <3>. QED
      BY <2>2, <2>4
  <2>6. \A x \in set : \E j \in DOMAIN list : list[j] = x
    BY DEF Has
  <2>7. Lists(list, set)
    <3>. HIDE DEF set
    <3>. QED
      BY <2>5, <2>6 DEF Lists
  <2>. QED
    BY <2>1, <2>7 DEF list
<1>2. /\ Lists(s, all)
      /\ \A x : (\A i \in 1..n : Once(lists[i], x))
                /\ (\A i, j \in 1..n : i # j => x \notin sets[i] \cap sets[j])
                => Once(s, x)
  <2>. HIDE DEF sets
  <2>. QED
    BY <1>1, AllListed
<1>. HIDE DEF s
<1>3. \A x : x \in all <=> x \in T /\ \E i \in 1..n : Has(lists[i], x)
  OBVIOUS
<1>4. s \in Seq(all) /\ \A x \in all : Has(s, x)
  BY <1>2 DEF Lists, Has
<1>5. s \in Seq(T)
  <2>. SUFFICES all \subseteq T
    BY <1>4
  <2>. QED
    BY <1>3
<1>6. \A x : Has(s, x) => x \in all
  BY <1>4 DEF Has
<1>7. \A x, i : i \in 1..n /\ x \in sets[i] => Has(lists[i], x)
  OBVIOUS
<1>. HIDE DEF sets
<1>. QED
  BY <1>2, <1>3, <1>4, <1>5, <1>6, <1>7 DEF s

\* A list with a record for each of a finite set
LEMMA OfEach ==
  ASSUME NEW S, IsFiniteSet(S), NEW T, NEW f \in [S -> T], NEW t,
         DOMAIN t = DOMAIN Records!SetToSeq(S), t = [i \in DOMAIN t |-> t[i]],
         \A i \in DOMAIN t : t[i] = f[Records!SetToSeq(S)[i]]
  PROVE  t \in Seq(T) /\ \A k \in S : Has(t, f[k])
<1>. DEFINE s == Records!SetToSeq(S)
<1>1. s \in Seq(S) /\ \A x \in S : \E i \in DOMAIN s : s[i] = x
  BY SetListed DEF Lists
<1>. HIDE DEF s
<1>2. DOMAIN t = DOMAIN s /\ \A i \in DOMAIN t : t[i] = f[s[i]]
  BY DEF s
<1>3. t \in Seq(T)
  <2>1. Len(s) \in Nat /\ DOMAIN s = 1..Len(s)
    BY <1>1
  <2>2. \A i \in 1..Len(s) : s[i] \in S
    BY <1>1
  <2>3. t \in [1..Len(s) -> T]
    BY <1>2, <2>1, <2>2
  <2>. QED
    BY <2>1, <2>3
<1>. QED
  BY <1>1, <1>2, <1>3 DEF Has

LEMMA BothHave ==
  ASSUME NEW T, NEW s \in Seq(T), NEW t \in Seq(T)
  PROVE  /\ s \o t \in Seq(T)
         /\ \A x : Has(s, x) \/ Has(t, x) => Has(s \o t, x)
<1>1. s \o t \in Seq(T)
  BY JoinedPlaces
<1>2. ASSUME NEW i \in DOMAIN s PROVE i \in DOMAIN (s \o t) /\ (s \o t)[i] = s[i]
  BY JoinedPlaces
<1>3. ASSUME NEW i \in DOMAIN t
      PROVE  Len(s) + i \in DOMAIN (s \o t) /\ (s \o t)[Len(s) + i] = t[i]
  BY JoinedPlaces
<1>. QED
  BY <1>1, <1>2, <1>3 DEF Has

USE RecordsGiven

-----------------------------------------------------------------------------
(* What getTransactionRecord looks at                                        *)

ChannelLife ==
  [at : {"none", "opening", "open", "closing", "closed"},
   kind : {"none", "cooperative", "local", "remote"},
   theirs : BOOLEAN, owed : {"owed", "resolved"}]

IsLife(l) ==
  /\ l \in [Channels -> ChannelLife]
  /\ \A k \in Channels :
       l[k].at \in {"closing", "closed"} => l[k].kind \in {"cooperative", "local", "remote"}

OpenIn(l) == {k \in Channels : l[k].at = "open"}
ClosedIn(l) == {k \in Channels : l[k].at = "closed"}

\* Each list is of the moment when the question was asked or of a later one
IsView(q, now) ==
  /\ IsLife(q.before) /\ IsLife(now)
  /\ q.id \in ChainTxs
  /\ q.channels \in {OpenIn(q.before), OpenIn(now)}
  /\ q.pending \in {q.before, now}
  /\ q.closed.life \in {q.before, now}
  /\ Lists(q.closed.order, ClosedIn(q.closed.life))
  /\ q.tx \in Seq(ChainTxs)
  /\ \A k \in Channels :
       q.before[k].at \in {"closing", "closed"} /\ now[k].at \in {"closing", "closed"}
         => CloseTx[k] \in Records!ToSet(q.tx)

\* A record that may be told of the transaction
IsTrue(q, now, r) ==
  /\ r.with \in Channels /\ r.channel \in {r.with, NoTx}
  /\ Records!Concerns(q.id, r.with)
  /\ Records!Fits(r.action, q.before[r.with]) \/ Records!Fits(r.action, now[r.with])

\* What may be told of a channel
Actions ==
  {"payment", "opening_channel", "opened_channel", "channel_closing",
   "peer_force_closing_channel", "cooperatively_closed_channel", "force_closed_channel",
   "peer_force_closed_channel"}

TrueRecords(q, now) ==
  {r \in [action : Actions, channel : Channels \cup {NoTx}, with : Channels] :
     IsTrue(q, now, r)}

LEMMA ToldFacts ==
  ASSUME NEW k, NEW a
  PROVE  /\ Records!Told(a, k).action = a
         /\ Records!Told(a, k).channel = k
         /\ Records!Told(a, k).with = k
         /\ Records!ToldPending(a, k).action = a
         /\ Records!ToldPending(a, k).channel = NoTx
         /\ Records!ToldPending(a, k).with = k
BY DEF Records!Told, Records!ToldPending

LEMMA ToldIsTrue ==
  ASSUME NEW q, NEW now, NEW l \in {q.before, now}, NEW k \in Channels, NEW a \in Actions,
         Records!Concerns(q.id, k), Records!Fits(a, l[k])
  PROVE  /\ Records!Told(a, k) \in TrueRecords(q, now)
         /\ Records!ToldPending(a, k) \in TrueRecords(q, now)
<1>1. Records!Told(a, k) \in [action : Actions, channel : Channels \cup {NoTx}, with : Channels]
  BY DEF Records!Told
<1>2. Records!ToldPending(a, k) \in [action : Actions, channel : Channels \cup {NoTx}, with : Channels]
  BY DEF Records!ToldPending
<1>3. IsTrue(q, now, Records!Told(a, k)) /\ IsTrue(q, now, Records!ToldPending(a, k))
  BY ToldFacts DEF IsTrue
<1>. QED
  BY <1>1, <1>2, <1>3 DEF TrueRecords

LEMMA ChannelSets ==
  ASSUME NEW S, S \subseteq Channels
  PROVE  IsFiniteSet(S)
<1>1. IsFiniteSet(Channels)
  BY DEF Records!ChainRecordsAssumption, Records!IsFiniteSet, IsFiniteSet
<1>. QED
  BY <1>1, FS_Subset

LEMMA ClosedOrder ==
  ASSUME NEW q, NEW now, IsView(q, now)
  PROVE  /\ Records!ToSet(q.closed.order) = ClosedIn(q.closed.life)
         /\ IsLife(q.closed.life) /\ IsLife(q.pending)
BY DEF IsView, Lists, Records!ToSet

-----------------------------------------------------------------------------
(* The records of a transaction, part by part: each is true, and those that a *)
(* reader counts on are there                                                *)

LEMMA EachIsTrue ==
  ASSUME NEW q, NEW now, NEW l \in {q.before, now}, NEW a \in Actions,
         NEW S, S \subseteq Channels,
         \A k \in S : Records!Concerns(q.id, k) /\ Records!Fits(a, l[k])
  PROVE  LET s == Records!SetToSeq(S)
             told == [i \in DOMAIN s |-> Records!Told(a, s[i])]
             pending == [i \in DOMAIN s |-> Records!ToldPending(a, s[i])]
         IN  /\ told \in Seq(TrueRecords(q, now))
             /\ pending \in Seq(TrueRecords(q, now))
             /\ \A k \in S : Has(told, Records!Told(a, k)) /\ Has(pending, Records!ToldPending(a, k))
<1>. DEFINE s == Records!SetToSeq(S)
            told == [i \in DOMAIN s |-> Records!Told(a, s[i])]
            pending == [i \in DOMAIN s |-> Records!ToldPending(a, s[i])]
            f == [k \in S |-> Records!Told(a, k)]
            g == [k \in S |-> Records!ToldPending(a, k)]
<1>1. IsFiniteSet(S)
  BY ChannelSets
<1>2. f \in [S -> TrueRecords(q, now)] /\ g \in [S -> TrueRecords(q, now)]
  BY ToldIsTrue
<1>3. \A i \in DOMAIN s : s[i] \in S
  <2>1. s \in Seq(S)
    BY <1>1, SetListed DEF Lists
  <2>. QED
    BY <2>1
<1>4. \A i \in DOMAIN told : told[i] = f[s[i]]
  BY <1>3
<1>5. \A i \in DOMAIN pending : pending[i] = g[s[i]]
  BY <1>3
<1>6. /\ DOMAIN told = DOMAIN s /\ told = [i \in DOMAIN told |-> told[i]]
      /\ DOMAIN pending = DOMAIN s /\ pending = [i \in DOMAIN pending |-> pending[i]]
  OBVIOUS
<1>7. \A k \in S : f[k] = Records!Told(a, k) /\ g[k] = Records!ToldPending(a, k)
  OBVIOUS
<1>. HIDE DEF f, g, told, pending
<1>8. told \in Seq(TrueRecords(q, now)) /\ \A k \in S : Has(told, f[k])
  BY <1>1, <1>2, <1>4, <1>6, OfEach
<1>9. pending \in Seq(TrueRecords(q, now)) /\ \A k \in S : Has(pending, g[k])
  BY <1>1, <1>2, <1>5, <1>6, OfEach
<1>. QED
  BY <1>7, <1>8, <1>9 DEF told, pending

\* How a channel was closed is told as it is
LEMMA EachClosing ==
  ASSUME NEW q, NEW now, IsView(q, now),
         NEW S, S \subseteq ClosedIn(q.closed.life),
         \A k \in S : Records!Concerns(q.id, k)
  PROVE  LET s == Records!SetToSeq(S)
             told == [i \in DOMAIN s |-> Records!Told(Records!HowClosed(q, s[i]), s[i])]
         IN  /\ told \in Seq(TrueRecords(q, now))
             /\ \A k \in S : Has(told, Records!Told(Records!HowClosed(q, k), k))
<1>. DEFINE s == Records!SetToSeq(S)
            told == [i \in DOMAIN s |-> Records!Told(Records!HowClosed(q, s[i]), s[i])]
            f == [k \in S |-> Records!Told(Records!HowClosed(q, k), k)]
<1>1. S \subseteq Channels /\ IsFiniteSet(S)
  BY ChannelSets DEF ClosedIn
<1>2. ASSUME NEW k \in S PROVE Records!Told(Records!HowClosed(q, k), k) \in TrueRecords(q, now)
  <2>. DEFINE l == q.closed.life  a == Records!HowClosed(q, k)
  <2>1. l[k].at = "closed" /\ l[k].kind \in {"cooperative", "local", "remote"}
    BY ClosedOrder DEF ClosedIn, IsLife
  <2>2. a \in Actions /\ Records!Fits(a, l[k])
    <3>1. CASE l[k].kind = "cooperative"
      <4>1. a = "cooperatively_closed_channel"
        BY <3>1 DEF Records!HowClosed
      <4>2. Records!Fits("cooperatively_closed_channel", l[k])
        BY <2>1, <3>1 DEF Records!Fits
      <4>3. "cooperatively_closed_channel" \in Actions
        BY DEF Actions
      <4>. QED
        BY <4>1, <4>2, <4>3
    <3>2. CASE l[k].kind = "local"
      <4>1. a = "force_closed_channel"
        BY <3>2 DEF Records!HowClosed
      <4>2. Records!Fits("force_closed_channel", l[k])
        BY <2>1, <3>2 DEF Records!Fits
      <4>3. "force_closed_channel" \in Actions
        BY DEF Actions
      <4>. QED
        BY <4>1, <4>2, <4>3
    <3>3. CASE l[k].kind = "remote"
      <4>1. a = "peer_force_closed_channel"
        BY <3>3 DEF Records!HowClosed
      <4>2. Records!Fits("peer_force_closed_channel", l[k])
        BY <2>1, <3>3 DEF Records!Fits
      <4>3. "peer_force_closed_channel" \in Actions
        BY DEF Actions
      <4>. QED
        BY <4>1, <4>2, <4>3
    <3>. QED
      BY <2>1, <3>1, <3>2, <3>3
  <2>3. l \in {q.before, now} /\ k \in Channels
    BY <1>1 DEF IsView
  <2>. HIDE DEF l, a
  <2>. QED
    BY <2>2, <2>3, ToldIsTrue DEF a
<1>3. f \in [S -> TrueRecords(q, now)]
  BY <1>2
<1>4. \A i \in DOMAIN s : s[i] \in S
  <2>1. s \in Seq(S)
    BY <1>1, SetListed DEF Lists
  <2>. QED
    BY <2>1
<1>5. \A i \in DOMAIN told : told[i] = f[s[i]]
  BY <1>4
<1>6. DOMAIN told = DOMAIN s /\ told = [i \in DOMAIN told |-> told[i]]
  OBVIOUS
<1>7. \A k \in S : f[k] = Records!Told(Records!HowClosed(q, k), k)
  OBVIOUS
<1>. HIDE DEF f, told
<1>8. told \in Seq(TrueRecords(q, now)) /\ \A k \in S : Has(told, f[k])
  BY <1>1, <1>3, <1>5, <1>6, OfEach
<1>. QED
  BY <1>7, <1>8 DEF told

LEMMA PaymentsAreTrue ==
  ASSUME NEW q, NEW now, IsView(q, now)
  PROVE  Records!Payments(q) \in Seq(TrueRecords(q, now))
<1>. DEFINE S == {k \in Owed \cap Records!ToSet(q.closed.order) :
                    Resolves[k] = q.id /\ q.closed.life[k].owed = "resolved"}
            s == Records!SetToSeq(S)
<1>1. S \subseteq ClosedIn(q.closed.life) /\ S \subseteq Channels
  BY ClosedOrder DEF ClosedIn
<1>2. \A k \in S : Records!Concerns(q.id, k) /\ Records!Fits("payment", q.closed.life[k])
  BY <1>1 DEF Records!ChainRecordsAssumption, Records!Concerns, ClosedIn, Records!Fits
<1>3. q.closed.life \in {q.before, now}
  BY DEF IsView
<1>4. Records!Payments(q) = [i \in DOMAIN s |-> Records!Told("payment", s[i])]
  BY DEF Records!Payments, Records!Each
<1>5. "payment" \in Actions
  BY DEF Actions
<1>. DEFINE told == [i \in DOMAIN s |-> Records!Told("payment", s[i])]
<1>. HIDE DEF S
<1>6. told \in Seq(TrueRecords(q, now))
  BY <1>1, <1>2, <1>3, <1>5, EachIsTrue
<1>. QED
  BY <1>4, <1>6

LEMMA OpeningIsTrue ==
  ASSUME NEW q, NEW now, IsView(q, now)
  PROVE  /\ Records!Opening(q) \in Seq(TrueRecords(q, now))
         /\ \A k \in Channels : q.id = Fund /\ q.pending[k].at = "opening"
              => Has(Records!Opening(q), Records!ToldPending("opening_channel", k))
<1>. DEFINE S == {k \in Channels : q.pending[k].at = "opening" /\ Fund = q.id}
            s == Records!SetToSeq(S)
            a == "opening_channel"
<1>1. S \subseteq Channels
  OBVIOUS
<1>2. \A k \in S : Records!Concerns(q.id, k) /\ Records!Fits(a, q.pending[k])
  BY DEF Records!Concerns, Records!Fits
<1>3. q.pending \in {q.before, now}
  BY DEF IsView
<1>6. a \in Actions
  BY DEF Actions
<1>4. Records!Opening(q) = [i \in DOMAIN s |-> Records!ToldPending(a, s[i])]
  BY DEF Records!Opening, Records!Each
<1>5. \A k \in Channels : q.id = Fund /\ q.pending[k].at = "opening" => k \in S
  OBVIOUS
<1>. DEFINE told == [i \in DOMAIN s |-> Records!ToldPending(a, s[i])]
<1>. HIDE DEF S, a
<1>7. told \in Seq(TrueRecords(q, now)) /\ \A k \in S : Has(told, Records!ToldPending(a, k))
  BY <1>1, <1>2, <1>3, <1>6, EachIsTrue
<1>. QED
  BY <1>4, <1>5, <1>7 DEF a

LEMMA OpenedIsTrue ==
  ASSUME NEW q, NEW now, IsView(q, now)
  PROVE  /\ Records!Opened(q) \in Seq(TrueRecords(q, now))
         /\ \A k \in Channels :
              q.id = Fund /\ (k \in q.channels \/ k \in ClosedIn(q.closed.life))
              => Has(Records!Opened(q), Records!Told("opened_channel", k))
<1>. DEFINE C == {k \in Records!ToSet(q.closed.order) : Fund = q.id}
            O == {k \in q.channels : Fund = q.id}
            c == Records!SetToSeq(C)
            o == Records!SetToSeq(O)
            a == "opened_channel"
            closed == [i \in DOMAIN c |-> Records!Told(a, c[i])]
            open_ == [i \in DOMAIN o |-> Records!Told(a, o[i])]
<1>1. C \subseteq ClosedIn(q.closed.life) /\ C \subseteq Channels
  BY ClosedOrder DEF ClosedIn
<1>2. \A k \in C : Records!Concerns(q.id, k) /\ Records!Fits(a, q.closed.life[k])
  BY <1>1 DEF Records!Concerns, ClosedIn, Records!Fits
<1>3. q.closed.life \in {q.before, now}
  BY DEF IsView
<1>13. a \in Actions
  BY DEF Actions
<1>4. PICK l \in {q.before, now} : q.channels = OpenIn(l)
  BY DEF IsView
<1>5. O \subseteq Channels
  BY <1>4 DEF OpenIn
<1>6. \A k \in O : Records!Concerns(q.id, k) /\ Records!Fits(a, l[k])
  BY <1>4 DEF Records!Concerns, OpenIn, Records!Fits
<1>7. Records!Opened(q) = closed \o open_
  BY DEF Records!Opened, Records!Each
<1>8. \A k \in Channels : q.id = Fund /\ (k \in q.channels \/ k \in ClosedIn(q.closed.life))
        => k \in C \/ k \in O
  BY ClosedOrder
<1>. HIDE DEF C, O, a
<1>9. closed \in Seq(TrueRecords(q, now)) /\ \A k \in C : Has(closed, Records!Told(a, k))
  BY <1>1, <1>2, <1>3, <1>13, EachIsTrue
<1>10. open_ \in Seq(TrueRecords(q, now)) /\ \A k \in O : Has(open_, Records!Told(a, k))
  BY <1>5, <1>6, <1>13, EachIsTrue
<1>. HIDE DEF closed, open_
<1>11. Records!Opened(q) \in Seq(TrueRecords(q, now))
  BY <1>7, <1>9, <1>10, BothHave
<1>12. \A k : k \in C \/ k \in O => Has(Records!Opened(q), Records!Told(a, k))
  BY <1>7, <1>9, <1>10, BothHave
<1>. QED
  BY <1>8, <1>11, <1>12 DEF a

LEMMA ClosedIsTrue ==
  ASSUME NEW q, NEW now, IsView(q, now)
  PROVE  /\ Records!Closed(q) \in Seq(TrueRecords(q, now))
         /\ \A k \in ClosedIn(q.closed.life) : q.id = CloseTx[k]
              => Has(Records!Closed(q), Records!Told(Records!HowClosed(q, k), k))
<1>. DEFINE C == Records!ClosedBy(q, q.id)
            P == {k \in Records!ToSet(q.closed.order) :
                    Fund = q.id /\ q.closed.life[k].kind = "remote"}
            c == Records!SetToSeq(C)
            p == Records!SetToSeq(P)
            a == "peer_force_closed_channel"
            closed == [i \in DOMAIN c |-> Records!Told(Records!HowClosed(q, c[i]), c[i])]
            theirs == [i \in DOMAIN p |-> Records!Told(a, p[i])]
<1>1. C \subseteq ClosedIn(q.closed.life) /\ P \subseteq ClosedIn(q.closed.life) /\ P \subseteq Channels
  BY ClosedOrder DEF ClosedIn, Records!ClosedBy
<1>2. \A k \in C : Records!Concerns(q.id, k)
  BY DEF Records!Concerns, Records!ClosedBy
<1>3. \A k \in P : Records!Concerns(q.id, k) /\ Records!Fits(a, q.closed.life[k])
  BY <1>1 DEF Records!Concerns, ClosedIn, Records!Fits
<1>4. q.closed.life \in {q.before, now}
  BY DEF IsView
<1>5. a \in Actions
  BY DEF Actions
<1>6. Records!Closed(q) = closed \o theirs
  BY DEF Records!Closed, Records!Each
<1>7. \A k \in ClosedIn(q.closed.life) : q.id = CloseTx[k] => k \in C
  BY ClosedOrder DEF Records!ClosedBy
<1>. HIDE DEF C, P, a
<1>8. /\ closed \in Seq(TrueRecords(q, now))
      /\ \A k \in C : Has(closed, Records!Told(Records!HowClosed(q, k), k))
  BY <1>1, <1>2, EachClosing
<1>9. theirs \in Seq(TrueRecords(q, now))
  BY <1>1, <1>3, <1>4, <1>5, EachIsTrue
<1>. HIDE DEF closed, theirs
<1>10. Records!Closed(q) \in Seq(TrueRecords(q, now))
  BY <1>6, <1>8, <1>9, BothHave
<1>11. \A k \in C : Has(Records!Closed(q), Records!Told(Records!HowClosed(q, k), k))
  BY <1>6, <1>8, <1>9, BothHave
<1>. QED
  BY <1>7, <1>10, <1>11

\* What a transaction spends
LEMMA ParentFacts ==
  ASSUME NEW id \in ChainTxs
  PROVE  /\ Inputs[id] \in Seq([tx : ChainTxs \cup {NoTx}, vout : Nat])
         /\ \A i \in DOMAIN Inputs[id] :
              /\ Inputs[id][i] = [tx |-> Inputs[id][i].tx, vout |-> Inputs[id][i].vout]
              /\ \A k \in Channels :
                   Inputs[id][i].tx = CloseTx[k] => Records!Concerns(id, k)
<1>1. Inputs[id] \in Seq([tx : ChainTxs \cup {NoTx}, vout : Nat])
  BY DEF Records!ChainRecordsAssumption
<1>2. ASSUME NEW i \in DOMAIN Inputs[id]
      PROVE  Inputs[id][i] \in [tx : ChainTxs \cup {NoTx}, vout : Nat]
  <2>. DEFINE R == [tx : ChainTxs \cup {NoTx}, vout : Nat]  s == Inputs[id]
  <2>1. s \in Seq(R) /\ i \in DOMAIN s
    BY <1>1
  <2>. HIDE DEF R, s
  <2>2. s[i] \in R
    BY <2>1
  <2>. QED
    BY <2>2 DEF R, s
<1>3. ASSUME NEW i \in DOMAIN Inputs[id]
      PROVE  Inputs[id][i] = [tx |-> Inputs[id][i].tx, vout |-> Inputs[id][i].vout]
  BY <1>2
<1>4. ASSUME NEW i \in DOMAIN Inputs[id], NEW k \in Channels, Inputs[id][i].tx = CloseTx[k]
      PROVE  Records!Concerns(id, k)
  BY <1>4 DEF Records!Concerns, Records!Follows, Records!Spends
<1>. QED
  BY <1>1, <1>3, <1>4

LEMMA SpendPendingIsTrue ==
  ASSUME NEW q, NEW now, IsView(q, now), NEW i \in DOMAIN Inputs[q.id]
  PROVE  LET parent == Inputs[q.id][i]
         IN  /\ Records!SpendPending(q, parent) \in Seq(TrueRecords(q, now))
             /\ \A k \in Channels :
                  parent = [tx |-> Fund, vout |-> Vout[k]] /\ q.pending[k].at = "closing"
                  => Has(Records!SpendPending(q, parent), Records!ToldPending("channel_closing", k))
<1>. DEFINE parent == Inputs[q.id][i]
            S == Records!SpendPendingOf(q, parent)
            s == Records!SetToSeq(S)
            a == "channel_closing"
            told == [j \in DOMAIN s |-> Records!ToldPending(a, s[j])]
<1>1. S \subseteq Channels
  BY DEF Records!SpendPendingOf, Records!ClosingOf
<1>2. ASSUME NEW k \in S PROVE Records!Concerns(q.id, k) /\ Records!Fits(a, q.pending[k])
  <2>1. parent = [tx |-> parent.tx, vout |-> parent.vout]
    BY ParentFacts DEF IsView
  <2>2. parent = [tx |-> Fund, vout |-> Vout[k]]
    BY <2>1 DEF Records!SpendPendingOf
  <2>3. Records!Concerns(q.id, k)
    BY <2>2 DEF Records!Concerns, Records!SpendsOutput
  <2>4. Records!Fits(a, q.pending[k])
    BY DEF Records!SpendPendingOf, Records!ClosingOf, Records!Fits
  <2>. QED
    BY <2>3, <2>4
<1>3. q.pending \in {q.before, now}
  BY DEF IsView
<1>4. a \in Actions
  BY DEF Actions
<1>5. Records!SpendPending(q, parent) = told
  BY DEF Records!SpendPending, Records!Each
<1>6. \A k \in Channels :
        parent = [tx |-> Fund, vout |-> Vout[k]] /\ q.pending[k].at = "closing" => k \in S
  BY DEF Records!SpendPendingOf, Records!ClosingOf
<1>. HIDE DEF S, a
<1>7. told \in Seq(TrueRecords(q, now)) /\ \A k \in S : Has(told, Records!ToldPending(a, k))
  BY <1>1, <1>2, <1>3, <1>4, EachIsTrue
<1>. QED
  BY <1>5, <1>6, <1>7 DEF a

LEMMA SpendClosingIsTrue ==
  ASSUME NEW q, NEW now, IsView(q, now), NEW i \in DOMAIN Inputs[q.id]
  PROVE  Records!SpendClosing(q, Inputs[q.id][i]) \in Seq(TrueRecords(q, now))
<1>. DEFINE parent == Inputs[q.id][i]
            S == {k \in Records!ClosingOf(q) : CloseTx[k] = parent.tx /\ q.pending[k].theirs}
            s == Records!SetToSeq(S)
            a == "peer_force_closing_channel"
            told == [j \in DOMAIN s |-> Records!ToldPending(a, s[j])]
<1>1. S \subseteq Channels
  BY DEF Records!ClosingOf
<1>2. \A k \in S : Records!Concerns(q.id, k)
  BY <1>1, ParentFacts DEF IsView
<1>3. \A k \in S : Records!Fits(a, q.pending[k])
  BY DEF Records!ClosingOf, Records!Fits
<1>4. q.pending \in {q.before, now}
  BY DEF IsView
<1>5. a \in Actions
  BY DEF Actions
<1>6. Records!SpendClosing(q, parent) = told
  BY DEF Records!SpendClosing, Records!Each
<1>. HIDE DEF S, a
<1>7. told \in Seq(TrueRecords(q, now))
  BY <1>1, <1>2, <1>3, <1>4, <1>5, EachIsTrue
<1>. QED
  BY <1>6, <1>7

LEMMA GrandparentsAreTrue ==
  ASSUME NEW q, NEW now, IsView(q, now), NEW i \in DOMAIN Inputs[q.id]
  PROVE  Records!Grandparents(q, Inputs[q.id][i]) \in Seq(TrueRecords(q, now))
<1>. DEFINE parent == Inputs[q.id][i]
            greats == {g \in Channels : \E n \in DOMAIN Inputs[q.id] :
                        LET grand == Inputs[q.id][n].tx
                        IN  /\ Records!Finds(q.tx, grand, 0)
                            /\ \E j \in DOMAIN Inputs[grand] :
                                 /\ CloseTx[g] = Inputs[grand][j].tx
                                 /\ Records!FindsClosed(q, CloseTx[g])}
            S == {g \in greats : q.closed.life[g].kind = "local"}
            s == Records!SetToSeq(S)
            a == "force_closed_channel"
            told == [j \in DOMAIN s |-> Records!Told(a, s[j])]
<1>1. S \subseteq Channels
  OBVIOUS
<1>2. ASSUME NEW g \in S PROVE Records!Concerns(q.id, g) /\ Records!Fits(a, q.closed.life[g])
  <2>1. PICK n \in DOMAIN Inputs[q.id] :
          /\ Records!Finds(q.tx, Inputs[q.id][n].tx, 0)
          /\ \E j \in DOMAIN Inputs[Inputs[q.id][n].tx] :
               /\ CloseTx[g] = Inputs[Inputs[q.id][n].tx][j].tx
               /\ Records!FindsClosed(q, CloseTx[g])
    OBVIOUS
  <2>. DEFINE grand == Inputs[q.id][n].tx
  <2>2. PICK m \in DOMAIN q.tx : q.tx[m] = grand
    BY <2>1 DEF Records!Finds
  <2>3. grand \in ChainTxs
    BY <2>2 DEF IsView
  <2>4. Records!Spends(q.id, grand) /\ Records!Spends(grand, CloseTx[g])
    BY <2>1 DEF Records!Spends
  <2>5. Records!Concerns(q.id, g)
    BY <2>3, <2>4 DEF Records!Concerns, Records!Follows
  <2>6. PICK o \in DOMAIN q.closed.order : CloseTx[q.closed.order[o]] = CloseTx[g]
    <3>1. Records!FindsClosed(q, CloseTx[g])
      BY <2>1
    <3>. QED
      BY <3>1 DEF Records!FindsClosed, Records!Finds
  <2>7. q.closed.order[o] \in ClosedIn(q.closed.life)
    <3>1. q.closed.order \in Seq(ClosedIn(q.closed.life))
      BY DEF IsView, Lists
    <3>. QED
      BY <3>1
  <2>8. q.closed.order[o] = g
    BY <2>6, <2>7 DEF ClosedIn, Records!ChainRecordsAssumption
  <2>9. Records!Fits(a, q.closed.life[g])
    BY <2>7, <2>8 DEF ClosedIn, Records!Fits
  <2>. QED
    BY <2>5, <2>9
<1>3. q.closed.life \in {q.before, now}
  BY DEF IsView
<1>4. a \in Actions
  BY DEF Actions
<1>5. Records!Grandparents(q, parent) = <<>> \/ Records!Grandparents(q, parent) = told
  BY DEF Records!Grandparents, Records!Each
<1>. HIDE DEF S, a
<1>6. told \in Seq(TrueRecords(q, now))
  BY <1>1, <1>2, <1>3, <1>4, EachIsTrue
<1>7. <<>> \in Seq(TrueRecords(q, now))
  OBVIOUS
<1>. HIDE DEF told
<1>. QED
  BY <1>5, <1>6, <1>7

LEMMA SpendCloseIsTrue ==
  ASSUME NEW q, NEW now, IsView(q, now), NEW i \in DOMAIN Inputs[q.id]
  PROVE  LET parent == Inputs[q.id][i]
         IN  /\ Records!SpendClose(q, parent) \in Seq(TrueRecords(q, now))
             /\ \A k \in ClosedIn(q.closed.life) : parent.tx = CloseTx[k]
                  => Has(Records!SpendClose(q, parent), Records!Told(Records!HowClosed(q, k), k))
<1>. DEFINE parent == Inputs[q.id][i]
            S == Records!ClosedBy(q, parent.tx)
            s == Records!SetToSeq(S)
            told == [j \in DOMAIN s |-> Records!Told(Records!HowClosed(q, s[j]), s[j])]
<1>1. S \subseteq ClosedIn(q.closed.life) /\ S \subseteq Channels
  BY ClosedOrder DEF ClosedIn, Records!ClosedBy
<1>2. \A k \in S : CloseTx[k] = parent.tx
  BY DEF Records!ClosedBy
<1>3. \A k \in S : Records!Concerns(q.id, k)
  BY <1>1, <1>2, ParentFacts DEF IsView
<1>4. Records!SpendClose(q, parent) = told
  BY DEF Records!SpendClose, Records!Each
<1>5. \A k \in ClosedIn(q.closed.life) : parent.tx = CloseTx[k] => k \in S
  BY ClosedOrder DEF Records!ClosedBy
<1>. HIDE DEF S
<1>6. /\ told \in Seq(TrueRecords(q, now))
      /\ \A k \in S : Has(told, Records!Told(Records!HowClosed(q, k), k))
  BY <1>1, <1>3, EachClosing
<1>. QED
  BY <1>4, <1>5, <1>6

LEMMA ParentsAreTrue ==
  ASSUME NEW q, NEW now, IsView(q, now)
  PROVE  /\ Records!Parents(q) \in Seq(TrueRecords(q, now))
         /\ q.id \in Records!ToSet(q.tx) => \A k \in Channels :
              /\ Records!SpendsOutput(q.id, k) /\ q.pending[k].at = "closing"
                   => Has(Records!Parents(q), Records!ToldPending("channel_closing", k))
              /\ Records!Spends(q.id, CloseTx[k]) /\ k \in ClosedIn(q.closed.life)
                   => Has(Records!Parents(q), Records!Told(Records!HowClosed(q, k), k))
<1>. DEFINE T == TrueRecords(q, now)
            n == Len(Inputs[q.id])
            lists == [i \in 1..n |-> Records!TransactionRecords(q, Inputs[q.id][i])]
<1>1. q.id \in ChainTxs
  BY DEF IsView
<1>2. n \in Nat /\ DOMAIN Inputs[q.id] = 1..n
  BY <1>1, ParentFacts
<1>3. ASSUME NEW i \in 1..n
      PROVE  /\ lists[i] \in Seq(T)
             /\ \A k \in Channels :
                  /\ Inputs[q.id][i] = [tx |-> Fund, vout |-> Vout[k]] /\ q.pending[k].at = "closing"
                       => Has(lists[i], Records!ToldPending("channel_closing", k))
                  /\ Inputs[q.id][i].tx = CloseTx[k] /\ k \in ClosedIn(q.closed.life)
                       => Has(lists[i], Records!Told(Records!HowClosed(q, k), k))
  <2>. DEFINE parent == Inputs[q.id][i]
              a == Records!SpendPending(q, parent)
              b == Records!SpendClosing(q, parent)
              c == Records!Grandparents(q, parent)
              d == Records!SpendClose(q, parent)
  <2>1. /\ a \in Seq(T)
        /\ \A k \in Channels :
             parent = [tx |-> Fund, vout |-> Vout[k]] /\ q.pending[k].at = "closing"
               => Has(a, Records!ToldPending("channel_closing", k))
    BY <1>2, SpendPendingIsTrue
  <2>2. b \in Seq(T) /\ c \in Seq(T)
    BY <1>2, SpendClosingIsTrue, GrandparentsAreTrue
  <2>3. /\ d \in Seq(T)
        /\ \A k \in ClosedIn(q.closed.life) : parent.tx = CloseTx[k]
             => Has(d, Records!Told(Records!HowClosed(q, k), k))
    BY <1>2, SpendCloseIsTrue
  <2>4. lists[i] = a \o b \o c \o d
    BY DEF Records!TransactionRecords
  <2>. HIDE DEF a, b, c, d, lists, T
  <2>5. a \o b \in Seq(T) /\ \A x : Has(a, x) => Has(a \o b, x)
    BY <2>1, <2>2, BothHave
  <2>6. a \o b \o c \in Seq(T) /\ \A x : Has(a, x) => Has(a \o b \o c, x)
    BY <2>2, <2>5, BothHave
  <2>. DEFINE abc == a \o b \o c
  <2>7. lists[i] \in Seq(T) /\ \A x : Has(a, x) \/ Has(d, x) => Has(lists[i], x)
    <3>1. lists[i] = abc \o d
      BY <2>4
    <3>2. abc \in Seq(T) /\ \A x : Has(a, x) => Has(abc, x)
      BY <2>6
    <3>. HIDE DEF abc
    <3>3. abc \o d \in Seq(T) /\ \A x : Has(abc, x) \/ Has(d, x) => Has(abc \o d, x)
      BY <2>3, <3>2, BothHave
    <3>. QED
      BY <3>1, <3>2, <3>3
  <2>. QED
    BY <2>1, <2>3, <2>7
<1>4. CASE q.id \notin Records!ToSet(q.tx)
  <2>1. Records!Parents(q) = <<>>
    BY <1>4 DEF Records!Parents
  <2>. QED
    BY <1>4, <2>1
<1>5. CASE q.id \in Records!ToSet(q.tx)
  <2>1. lists \in [1..n -> Seq(T)]
    <3>. HIDE DEF T
    <3>. QED
      BY <1>3
  <2>2. Records!Parents(q) = Records!FlattenSeq(lists)
    BY <1>2, <1>5 DEF Records!Parents
  <2>. HIDE DEF lists, T
  <2>3. /\ Records!Parents(q) \in Seq(T)
        /\ \A i \in 1..n, x \in T : Has(lists[i], x) => Has(Records!Parents(q), x)
    <3>1. n \in Nat
      BY <1>2
    <3>. HIDE DEF n
    <3>2. /\ Records!FlattenSeq(lists) \in Seq(T)
          /\ \A i \in 1..n, x \in T :
               Has(lists[i], x) => Has(Records!FlattenSeq(lists), x)
      BY <2>1, <3>1, HasAll
    <3>. QED
      BY <2>2, <3>2
  <2>4. ASSUME NEW k \in Channels, Records!SpendsOutput(q.id, k), q.pending[k].at = "closing"
        PROVE  Has(Records!Parents(q), Records!ToldPending("channel_closing", k))
    <3>. DEFINE r == Records!ToldPending("channel_closing", k)
    <3>1. PICK i \in 1..n : Inputs[q.id][i] = [tx |-> Fund, vout |-> Vout[k]]
      BY <1>2, <2>4 DEF Records!SpendsOutput
    <3>2. Has(lists[i], r) /\ lists[i] \in Seq(T)
      BY <1>3, <2>4, <3>1
    <3>3. r \in T
      BY <3>2 DEF Has
    <3>. QED
      BY <2>3, <3>2, <3>3
  <2>5. ASSUME NEW k \in Channels, Records!Spends(q.id, CloseTx[k]), k \in ClosedIn(q.closed.life)
        PROVE  Has(Records!Parents(q), Records!Told(Records!HowClosed(q, k), k))
    <3>. DEFINE r == Records!Told(Records!HowClosed(q, k), k)
    <3>1. PICK i \in 1..n : Inputs[q.id][i].tx = CloseTx[k]
      BY <1>2, <2>5 DEF Records!Spends
    <3>2. Has(lists[i], r) /\ lists[i] \in Seq(T)
      BY <1>3, <2>5, <3>1
    <3>3. r \in T
      BY <3>2 DEF Has
    <3>. QED
      BY <2>3, <3>2, <3>3
  <2>. QED
    BY <2>3, <2>4, <2>5 DEF T
<1>. QED
  BY <1>4, <1>5

\* All of the records
LEMMA RecordsAreTrue ==
  ASSUME NEW q, NEW now, IsView(q, now)
  PROVE  /\ Records!Records(q) \in Seq(TrueRecords(q, now))
         /\ \A x : Has(Records!Opening(q), x) \/ Has(Records!Opened(q), x)
                   \/ Has(Records!Closed(q), x) \/ Has(Records!Parents(q), x)
              => Has(Records!Records(q), x)
<1>. DEFINE T == TrueRecords(q, now)
            a == Records!Payments(q)
            b == Records!Opening(q)
            c == Records!Opened(q)
            d == Records!Closed(q)
            e == Records!Parents(q)
<1>1. a \in Seq(T) /\ b \in Seq(T) /\ c \in Seq(T) /\ d \in Seq(T) /\ e \in Seq(T)
  BY PaymentsAreTrue, OpeningIsTrue, OpenedIsTrue, ClosedIsTrue, ParentsAreTrue
<1>2. Records!Records(q) = a \o b \o c \o d \o e
  BY DEF Records!Records
<1>. HIDE DEF T, a, b, c, d, e
<1>3. a \o b \in Seq(T) /\ \A x : Has(b, x) => Has(a \o b, x)
  BY <1>1, BothHave
<1>4. a \o b \o c \in Seq(T) /\ \A x : Has(b, x) \/ Has(c, x) => Has(a \o b \o c, x)
  BY <1>1, <1>3, BothHave
<1>5. /\ a \o b \o c \o d \in Seq(T)
      /\ \A x : Has(b, x) \/ Has(c, x) \/ Has(d, x) => Has(a \o b \o c \o d, x)
  BY <1>1, <1>4, BothHave
<1>6. /\ a \o b \o c \o d \o e \in Seq(T)
      /\ \A x : Has(b, x) \/ Has(c, x) \/ Has(d, x) \/ Has(e, x) => Has(a \o b \o c \o d \o e, x)
  BY <1>1, <1>5, BothHave
<1>. QED
  BY <1>2, <1>6 DEF T, b, c, d, e

LEMMA LeastNumber ==
  ASSUME NEW S \in SUBSET Nat, S # {}
  PROVE  \E m \in S : \A k \in S : m <= k
<1>1. IsWellFoundedOn(OpToRel(<, Nat), Nat)
  BY NatLessThanWellFounded
<1>2. PICK m \in S : \A k \in S : ~(<<k, m>> \in OpToRel(<, Nat))
  <2>1. \E m \in S : \A k \in S : ~(<<k, m>> \in OpToRel(<, Nat))
    BY <1>1, WFMin
  <2>. QED
    BY <2>1
<1>3. \A k \in S : ~(k < m)
  BY <1>2 DEF OpToRel
<1>. QED
  BY <1>3

\* Of the records with one action and channel the first is kept, and any record
\* without a channel is
LEMMA RelatedFacts ==
  ASSUME NEW T, NEW found \in Seq(T)
  PROVE  LET s == Records!Related(found)
         IN  /\ s \in Seq(T)
             /\ \A i \in DOMAIN found : \E j \in DOMAIN found :
                  /\ Has(s, found[j])
                  /\ found[i].channel = NoTx => j = i
                  /\ found[j].action = found[i].action
                  /\ found[j].channel = found[i].channel
             /\ \A x : x.channel # NoTx => Once(s, x)
             /\ found = <<>> => s = <<>>
<1>. DEFINE n == Len(found)
            Same(i, j) == /\ found[j].action = found[i].action
                          /\ found[j].channel = found[i].channel
            again == {i \in 1..n : found[i].channel # NoTx /\ \E j \in 1..i - 1 : Same(i, j)}
            lists == [i \in 1..n |-> IF i \in again THEN <<>> ELSE <<found[i]>>]
            s == Records!Related(found)
<1>1. n \in Nat /\ DOMAIN found = 1..n
  OBVIOUS
<1>2. s = Records!FlattenSeq(lists)
  BY <1>1 DEF Records!Related
<1>3. ASSUME NEW i \in 1..n PROVE lists[i] \in Seq(T)
  <2>1. found[i] \in T
    BY <1>1
  <2>. HIDE DEF again
  <2>. QED
    BY <2>1
<1>4. lists \in [1..n -> Seq(T)]
  <2>. HIDE DEF again
  <2>. QED
    BY <1>3
<1>5. ASSUME NEW i \in 1..n
      PROVE  /\ \A x : Has(lists[i], x) <=> i \notin again /\ x = found[i]
             /\ \A x : Once(lists[i], x)
  <2>. HIDE DEF again
  <2>1. CASE i \in again
    <3>1. lists[i] = <<>>
      BY <2>1
    <3>. QED
      BY <2>1, <3>1 DEF Has, Once
  <2>2. CASE i \notin again
    <3>1. lists[i] = <<found[i]>>
      BY <2>2
    <3>. QED
      BY <2>2, <3>1 DEF Has, Once
  <2>. QED
    BY <2>1, <2>2
<1>. HIDE DEF s, lists
<1>6. /\ s \in Seq(T)
      /\ \A i \in 1..n, x \in T : Has(lists[i], x) => Has(s, x)
      /\ \A x : (\A i \in 1..n : Once(lists[i], x))
                /\ (\A i, j \in 1..n : i # j => ~(Has(lists[i], x) /\ Has(lists[j], x)))
                => Once(s, x)
  <2>. HIDE DEF n
  <2>. QED
    BY <1>1, <1>2, <1>4, HasAll
<1>7. ASSUME NEW i \in 1..n
      PROVE  \E j \in 1..n : /\ Has(s, found[j])
                             /\ found[i].channel = NoTx => j = i
                             /\ Same(i, j)
  <2>1. CASE i \notin again
    <3>1. found[i] \in T
      BY <1>1
    <3>2. Has(s, found[i])
      BY <1>5, <1>6, <2>1, <3>1
    <3>. QED
      BY <3>2
  <2>2. CASE i \in again
    <3>. DEFINE S == {j \in 1..n : Same(i, j)}
    <3>1. i \in S /\ S \in SUBSET Nat
      BY <1>1
    <3>2. PICK m \in S : \A k \in S : m <= k
      <4>. HIDE DEF S
      <4>. QED
        BY <3>1, LeastNumber
    <3>3. m \notin again
      <4>. SUFFICES ASSUME NEW j \in 1..m - 1, Same(m, j)
                    PROVE  FALSE
        OBVIOUS
      <4>1. j \in 1..n
        BY <1>1
      <4>2. Same(i, j)
        OBVIOUS
      <4>3. m <= j
        BY <3>2, <4>1, <4>2
      <4>. QED
        BY <1>1, <4>3
    <3>4. found[m] \in T
      BY <1>1
    <3>5. Has(s, found[m])
      BY <1>5, <1>6, <3>3, <3>4
    <3>. QED
      BY <2>2, <3>5
  <2>. QED
    BY <2>1, <2>2
<1>8. ASSUME NEW x, x.channel # NoTx PROVE Once(s, x)
  <2>1. ASSUME NEW i \in 1..n, NEW j \in 1..n, i # j, Has(lists[i], x), Has(lists[j], x)
        PROVE  FALSE
    <3>1. i \notin again /\ j \notin again /\ x = found[i] /\ x = found[j]
      BY <1>5, <2>1
    <3>2. i < j \/ j < i
      BY <1>1, <2>1
    <3>3. i \in 1..j - 1 \/ j \in 1..i - 1
      BY <1>1, <3>2
    <3>. QED
      BY <1>8, <3>1, <3>3
  <2>. QED
    BY <1>5, <1>6, <2>1
<1>9. found = <<>> => s = <<>>
  <2>. SUFFICES ASSUME found = <<>> PROVE s = <<>>
    OBVIOUS
  <2>1. n = 0
    OBVIOUS
  <2>2. lists = <<>> /\ Len(lists) = 0
    BY <2>1 DEF lists
  <2>. QED
    BY <1>2, <2>2 DEF Records!FlattenSeq
<1>. QED
  BY <1>1, <1>6, <1>7, <1>8, <1>9 DEF s

\* What is answered from lists of the two moments
LEMMA AnswerIsTrue ==
  ASSUME NEW q, NEW now, IsView(q, now)
  PROVE  LET s == Records!Record(q).related
         IN  /\ s \in Seq(TrueRecords(q, now))
             /\ \A i, j \in DOMAIN s : i # j /\ s[i].channel # NoTx => s[j] # s[i]
             /\ Records!Record(q).sent => s = <<>>
             /\ \A r : Has(Records!Opening(q), r) \/ Has(Records!Opened(q), r)
                       \/ Has(Records!Closed(q), r) \/ Has(Records!Parents(q), r)
                  => \E i \in DOMAIN s : s[i].with = r.with
<1>. DEFINE found == Records!Records(q)
            s == Records!Related(found)
            T == TrueRecords(q, now)
<1>1. Records!Record(q).related = s /\ (Records!Record(q).sent => found = <<>>)
  BY DEF Records!Record
<1>2. found \in Seq(T)
  BY RecordsAreTrue
<1>3. \A r : Has(Records!Opening(q), r) \/ Has(Records!Opened(q), r)
             \/ Has(Records!Closed(q), r) \/ Has(Records!Parents(q), r) => Has(found, r)
  BY RecordsAreTrue
<1>. HIDE DEF found, T
<1>4. /\ s \in Seq(T)
      /\ \A i \in DOMAIN found : \E j \in DOMAIN found :
           /\ Has(s, found[j])
           /\ found[i].channel = NoTx => j = i
           /\ found[j].action = found[i].action
           /\ found[j].channel = found[i].channel
      /\ \A x : x.channel # NoTx => Once(s, x)
      /\ found = <<>> => s = <<>>
  BY <1>2, RelatedFacts
<1>. HIDE DEF s
<1>5. \A i, j \in DOMAIN s : i # j /\ s[i].channel # NoTx => s[j] # s[i]
  BY <1>4 DEF Once
<1>6. ASSUME NEW r, Has(found, r) PROVE \E i \in DOMAIN s : s[i].with = r.with
  <2>1. PICK i \in DOMAIN found : found[i] = r
    BY <1>6 DEF Has
  <2>2. PICK j \in DOMAIN found :
          /\ Has(s, found[j])
          /\ found[i].channel = NoTx => j = i
          /\ found[j].channel = found[i].channel
    BY <1>4
  <2>3. found[i] \in T /\ found[j] \in T
    BY <1>2
  <2>4. found[j].with = found[i].with
    <3>1. CASE found[i].channel = NoTx
      BY <2>2, <3>1
    <3>2. CASE found[i].channel # NoTx
      <4>1. found[i].channel = found[i].with /\ found[j].channel = found[j].with
        BY <2>2, <2>3, <3>2 DEF T, TrueRecords, IsTrue
      <4>. QED
        BY <2>2, <4>1
    <3>. QED
      BY <3>1, <3>2
  <2>. QED
    BY <2>1, <2>2, <2>4 DEF Has
<1>. QED
  BY <1>1, <1>3, <1>4, <1>5, <1>6 DEF T

-----------------------------------------------------------------------------
(* The invariant of getTransactionRecord: what has been listed is as it was   *)
(* when the question was asked. A closed channel is on the list of these, and *)
(* its closing is known                                                       *)

WorldInv ==
  /\ IsLife(life)
  /\ txs \in Seq(ChainTxs)
  /\ Lists(ended, ClosedIn(life))
  /\ \A k \in Channels : life[k].at \in {"closing", "closed"} => Records!Known(CloseTx[k])

IsQuery(q) ==
  /\ q = [at |-> q.at, id |-> q.id, still |-> q.still, before |-> q.before,
          channels |-> q.channels, closed |-> q.closed, pending |-> q.pending,
          tx |-> q.tx, answer |-> q.answer]
  /\ q.at \in {"idle", "asked", "details"}
  /\ q.still \in BOOLEAN

AskedInv ==
  record.at = "asked" =>
    /\ IsLife(record.before) /\ record.id \in ChainTxs
    /\ record.channels \in {NoTx, OpenIn(record.before)}
    /\ record.pending \in {NoTx, record.before}
    /\ record.closed # NoTx =>
         record.closed.life = record.before /\ Lists(record.closed.order, ClosedIn(record.before))
    /\ record.tx # NoTx =>
         /\ record.tx \in Seq(ChainTxs)
         /\ \A k \in Channels : record.before[k].at \in {"closing", "closed"}
                                => CloseTx[k] \in Records!ToSet(record.tx)

RecordsHeld ==
  WorldInv /\ IsQuery(record) /\ AskedInv /\ Records!RecordsInv

LEMMA AppendedFacts ==
  ASSUME NEW T, NEW s \in Seq(T), NEW t \in T
  PROVE  /\ Append(s, t) \in Seq(T)
         /\ Records!ToSet(Append(s, t)) = Records!ToSet(s) \cup {t}
<1>1. /\ Append(s, t) \in Seq(T) /\ DOMAIN s = 1..Len(s) /\ Len(s) \in Nat
      /\ DOMAIN Append(s, t) = 1..Len(s) + 1
      /\ Append(s, t)[Len(s) + 1] = t
      /\ \A i \in DOMAIN s : Append(s, t)[i] = s[i]
  OBVIOUS
<1>2. ASSUME NEW x, x \in Records!ToSet(Append(s, t)) PROVE x \in Records!ToSet(s) \cup {t}
  <2>1. PICK i \in DOMAIN Append(s, t) : Append(s, t)[i] = x
    BY <1>2 DEF Records!ToSet
  <2>2. i \in DOMAIN s \/ i = Len(s) + 1
    BY <1>1
  <2>. QED
    BY <1>1, <2>1, <2>2 DEF Records!ToSet
<1>3. ASSUME NEW x, x \in Records!ToSet(s) PROVE x \in Records!ToSet(Append(s, t))
  <2>1. PICK i \in DOMAIN s : s[i] = x
    BY <1>3 DEF Records!ToSet
  <2>2. i \in DOMAIN Append(s, t)
    BY <1>1
  <2>. QED
    BY <1>1, <2>1, <2>2 DEF Records!ToSet
<1>4. t \in Records!ToSet(Append(s, t))
  <2>1. Len(s) + 1 \in DOMAIN Append(s, t)
    BY <1>1
  <2>. QED
    BY <1>1, <2>1 DEF Records!ToSet
<1>. QED
  BY <1>1, <1>2, <1>3, <1>4

LEMMA SeenFacts ==
  ASSUME NEW t \in ChainTxs, txs \in Seq(ChainTxs), Records!Seen(t)
  PROVE  /\ txs' \in Seq(ChainTxs)
         /\ Records!Known(t)' /\ \A u : Records!Known(u) => Records!Known(u)'
<1>1. txs' = Append(txs, t)
  BY DEF Records!Seen
<1>2. txs' \in Seq(ChainTxs) /\ Records!ToSet(txs') = Records!ToSet(txs) \cup {t}
  BY <1>1, AppendedFacts
<1>. QED
  BY <1>2 DEF Records!Known

\* A query under way is told that something moved
LEMMA RecordMoved ==
  ASSUME RecordsHeld, Records!Moves, WorldInv'
  PROVE  RecordsHeld'
<1>1. CASE record.at = "idle" /\ record' = record
  BY <1>1 DEF RecordsHeld, AskedInv, Records!RecordsInv
<1>2. CASE record.at = "asked" /\ record' = [record EXCEPT !.still = FALSE]
  <2>1. IsQuery(record')
    BY <1>2 DEF RecordsHeld, IsQuery
  <2>2. /\ record'.at = "asked" /\ ~record'.still
        /\ record'.before = record.before /\ record'.id = record.id
        /\ record'.channels = record.channels /\ record'.pending = record.pending
        /\ record'.closed = record.closed /\ record'.tx = record.tx
    BY <1>2 DEF RecordsHeld, IsQuery
  <2>3. AskedInv'
    BY <1>2, <2>2 DEF RecordsHeld, AskedInv
  <2>4. Records!RecordsInv'
    BY <2>2 DEF Records!RecordsInv
  <2>. QED
    BY <2>1, <2>3, <2>4 DEF RecordsHeld
<1>. QED
  BY <1>1, <1>2 DEF Records!Moves

LEMMA ChannelsAreOpened ==
  ASSUME RecordsHeld, Records!OpenChannels
  PROVE  RecordsHeld'
<1>1. WorldInv /\ \A k \in Channels : life[k].at = "none" /\ life[k] \in ChannelLife
  BY DEF RecordsHeld, WorldInv, IsLife, Records!OpenChannels
<1>2. life' = [k \in Channels |-> [life[k] EXCEPT !.at = "opening"]]
  BY DEF Records!OpenChannels
<1>3. \A k \in Channels : life'[k].at = "opening" /\ life'[k] \in ChannelLife
  BY <1>1, <1>2 DEF ChannelLife
<1>4. life' \in [Channels -> ChannelLife]
  BY <1>2, <1>3
<1>5. ClosedIn(life') = ClosedIn(life) /\ ended' = ended
  BY <1>1, <1>3 DEF ClosedIn, Records!OpenChannels
<1>6. txs' \in Seq(ChainTxs)
  BY <1>1, SeenFacts DEF WorldInv, Records!OpenChannels, Records!ChainRecordsAssumption
<1>7. WorldInv'
  BY <1>1, <1>3, <1>4, <1>5, <1>6 DEF WorldInv, IsLife
<1>. QED
  BY <1>7, RecordMoved DEF Records!OpenChannels

LEMMA ChannelIsOpen ==
  ASSUME RecordsHeld, NEW k \in Channels, Records!ChannelOpens(k)
  PROVE  RecordsHeld'
<1>1. WorldInv /\ life[k].at = "opening" /\ life \in [Channels -> ChannelLife]
  BY DEF RecordsHeld, WorldInv, IsLife, Records!ChannelOpens
<1>2. life' = [life EXCEPT ![k] = [life[k] EXCEPT !.at = "open"]]
  BY DEF Records!ChannelOpens
<1>3. [life[k] EXCEPT !.at = "open"] \in ChannelLife
  BY <1>1 DEF ChannelLife
<1>4. /\ life' \in [Channels -> ChannelLife] /\ life'[k].at = "open"
      /\ \A l \in Channels : l # k => life'[l] = life[l]
  <2>1. life'[k] = [life[k] EXCEPT !.at = "open"]
    BY <1>1, <1>2
  <2>. QED
    BY <1>1, <1>2, <1>3, <2>1 DEF ChannelLife
<1>5. ClosedIn(life') = ClosedIn(life) /\ ended' = ended /\ txs' = txs
  BY <1>1, <1>4 DEF ClosedIn, Records!ChannelOpens
<1>6. WorldInv'
  BY <1>1, <1>4, <1>5 DEF WorldInv, IsLife, Records!Known
<1>. QED
  BY <1>6, RecordMoved DEF Records!ChannelOpens

LEMMA ChannelIsClosing ==
  ASSUME RecordsHeld, NEW k \in Channels, Records!CloseChannel(k)
  PROVE  RecordsHeld'
<1>1. WorldInv /\ life[k].at = "open" /\ life \in [Channels -> ChannelLife]
  BY DEF RecordsHeld, WorldInv, IsLife, Records!CloseChannel
<1>2. PICK kind \in Kinds[k] : life' = [life EXCEPT ![k].at = "closing", ![k].kind = kind]
  BY DEF Records!CloseChannel
<1>3. kind \in {"cooperative", "local", "remote"}
  BY <1>2 DEF Records!ChainRecordsAssumption
<1>4. /\ life' \in [Channels -> ChannelLife]
      /\ life'[k].at = "closing" /\ life'[k].kind = kind
      /\ \A l \in Channels : l # k => life'[l] = life[l]
  BY <1>1, <1>2, <1>3 DEF ChannelLife
<1>5. ClosedIn(life') = ClosedIn(life) /\ ended' = ended
  BY <1>1, <1>4 DEF ClosedIn, Records!CloseChannel
<1>6. /\ txs' \in Seq(ChainTxs)
      /\ Records!Known(CloseTx[k])' /\ \A u : Records!Known(u) => Records!Known(u)'
  <2>1. CloseTx[k] \in ChainTxs
    BY DEF Records!ChainRecordsAssumption
  <2>. QED
    BY <1>1, <2>1, SeenFacts DEF WorldInv, Records!CloseChannel
<1>7. WorldInv'
  BY <1>1, <1>3, <1>4, <1>5, <1>6 DEF WorldInv, IsLife
<1>. QED
  BY <1>7, RecordMoved DEF Records!CloseChannel

LEMMA OutputIsSpent ==
  ASSUME RecordsHeld, NEW t \in ChainTxs, Records!Spend(t)
  PROVE  RecordsHeld'
<1>1. WorldInv /\ life \in [Channels -> ChannelLife]
  BY DEF RecordsHeld, WorldInv, IsLife
<1>2. life' = [k \in Channels |->
        IF k \in Owed /\ Resolves[k] = t THEN [life[k] EXCEPT !.owed = "resolved"] ELSE life[k]]
  BY DEF Records!Spend
<1>3. ASSUME NEW k \in Channels
      PROVE  life'[k] \in ChannelLife /\ life'[k].at = life[k].at /\ life'[k].kind = life[k].kind
  <2>1. CASE k \in Owed /\ Resolves[k] = t
    BY <1>1, <1>2, <2>1 DEF ChannelLife
  <2>2. CASE ~(k \in Owed /\ Resolves[k] = t)
    BY <1>1, <1>2, <2>2
  <2>. QED
    BY <2>1, <2>2
<1>4. life' \in [Channels -> ChannelLife]
  BY <1>2, <1>3
<1>5. ClosedIn(life') = ClosedIn(life) /\ ended' = ended
  BY <1>3 DEF ClosedIn, Records!Spend
<1>6. txs' \in Seq(ChainTxs) /\ \A u : Records!Known(u) => Records!Known(u)'
  BY <1>1, SeenFacts DEF WorldInv, Records!Spend
<1>7. WorldInv'
  BY <1>1, <1>3, <1>4, <1>5, <1>6 DEF WorldInv, IsLife
<1>. QED
  BY <1>7, RecordMoved DEF Records!Spend

LEMMA ChannelIsClosed ==
  ASSUME RecordsHeld, NEW k \in Channels, Records!ChannelClosed(k)
  PROVE  RecordsHeld'
<1>1. WorldInv /\ life[k].at = "closing" /\ life \in [Channels -> ChannelLife]
  BY DEF RecordsHeld, WorldInv, IsLife, Records!ChannelClosed
<1>2. life' = [life EXCEPT ![k].at = "closed"]
  BY DEF Records!ChannelClosed
<1>3. /\ life' \in [Channels -> ChannelLife]
      /\ life'[k].at = "closed" /\ life'[k].kind = life[k].kind
      /\ \A l \in Channels : l # k => life'[l] = life[l]
  BY <1>1, <1>2 DEF ChannelLife
<1>4. ClosedIn(life') = ClosedIn(life) \cup {k} /\ ended' = Append(ended, k) /\ txs' = txs
  BY <1>1, <1>3 DEF ClosedIn, Records!ChannelClosed
<1>5. Lists(ended', ClosedIn(life'))
  <2>. DEFINE S == ClosedIn(life)  T == ClosedIn(life')
  <2>1. ended \in Seq(S) /\ S = Records!ToSet(ended) /\ T = S \cup {k}
    BY <1>1, <1>4 DEF WorldInv, Lists, Records!ToSet
  <2>. HIDE DEF S, T
  <2>2. ended \in Seq(T) /\ k \in T
    BY <2>1
  <2>3. ended' \in Seq(T) /\ Records!ToSet(ended') = T
    BY <1>4, <2>1, <2>2, AppendedFacts
  <2>. QED
    BY <2>3 DEF T, Lists, Records!ToSet
<1>6. IsLife(life')
  <2>1. life[k].kind \in {"cooperative", "local", "remote"}
    BY <1>1 DEF WorldInv, IsLife
  <2>. QED
    BY <1>1, <1>3, <2>1 DEF WorldInv, IsLife
<1>7. WorldInv'
  BY <1>1, <1>3, <1>4, <1>5, <1>6 DEF WorldInv, Records!Known
<1>. QED
  BY <1>7, RecordMoved DEF Records!ChannelClosed

LEMMA ReturnsFacts ==
  ASSUME NEW q, IsQuery(q), NEW S
  PROVE  LET r == Records!Returns(q, S)
         IN  /\ IsQuery(r)
             /\ r.at = q.at /\ r.id = q.id /\ r.still = q.still /\ r.before = q.before
             /\ r.channels = IF "channels" \in S THEN OpenIn(life) ELSE q.channels
             /\ r.closed = IF "closed" \in S THEN [order |-> ended, life |-> life] ELSE q.closed
             /\ r.pending = IF "pending" \in S THEN life ELSE q.pending
             /\ r.tx = IF "tx" \in S THEN txs ELSE q.tx
<1>. DEFINE c == IF "channels" \in S THEN {k \in Channels : life[k].at = "open"} ELSE q.channels
            d == IF "closed" \in S THEN [order |-> ended, life |-> life] ELSE q.closed
            p == IF "pending" \in S THEN life ELSE q.pending
            t == IF "tx" \in S THEN txs ELSE q.tx
            r == Records!Returns(q, S)
<1>1. r = [q EXCEPT !.channels = c, !.closed = d, !.pending = p, !.tx = t]
  BY DEF Records!Returns
<1>2. c = IF "channels" \in S THEN OpenIn(life) ELSE q.channels
  BY DEF OpenIn
<1>. HIDE DEF c, d, p, t, r
<1>3. r = [at |-> q.at, id |-> q.id, still |-> q.still, before |-> q.before,
           channels |-> c, closed |-> d, pending |-> p, tx |-> t, answer |-> q.answer]
  BY <1>1 DEF IsQuery
<1>4. /\ r.at = q.at /\ r.id = q.id /\ r.still = q.still /\ r.before = q.before
      /\ r.channels = c /\ r.closed = d /\ r.pending = p /\ r.tx = t /\ r.answer = q.answer
  BY <1>3
<1>5. IsQuery(r)
  BY <1>3, <1>4 DEF IsQuery
<1>. QED
  BY <1>2, <1>4, <1>5 DEF d, p, t, r

LEMMA QuestionIsAsked ==
  ASSUME RecordsHeld, Records!Ask
  PROVE  RecordsHeld'
<1>1. PICK id \in ChainTxs, S \in SUBSET Records!Calls :
        record' = [Records!Returns(Records!NoQuery, S) EXCEPT
                     !.at = "asked", !.id = id, !.before = life]
  BY DEF Records!Ask
<1>. DEFINE r == Records!Returns(Records!NoQuery, S)
<1>2. IsQuery(Records!NoQuery)
  BY DEF IsQuery, Records!NoQuery
<1>3. /\ IsQuery(r) /\ r.still
      /\ r.channels = IF "channels" \in S THEN OpenIn(life) ELSE NoTx
      /\ r.closed = IF "closed" \in S THEN [order |-> ended, life |-> life] ELSE NoTx
      /\ r.pending = IF "pending" \in S THEN life ELSE NoTx
      /\ r.tx = IF "tx" \in S THEN txs ELSE NoTx
  <2>1. /\ Records!NoQuery.still /\ Records!NoQuery.channels = NoTx
        /\ Records!NoQuery.closed = NoTx /\ Records!NoQuery.pending = NoTx
        /\ Records!NoQuery.tx = NoTx
    BY DEF Records!NoQuery
  <2>. QED
    BY <1>2, <2>1, ReturnsFacts
<1>. HIDE DEF r
<1>4. record' = [at |-> "asked", id |-> id, still |-> r.still, before |-> life,
                 channels |-> r.channels, closed |-> r.closed, pending |-> r.pending,
                 tx |-> r.tx, answer |-> r.answer]
  BY <1>1, <1>3 DEF IsQuery, r
<1>5. /\ record'.at = "asked" /\ record'.id = id /\ record'.still = r.still
      /\ record'.before = life /\ record'.channels = r.channels /\ record'.closed = r.closed
      /\ record'.pending = r.pending /\ record'.tx = r.tx /\ record'.answer = r.answer
  BY <1>4
<1>6. IsQuery(record')
  BY <1>3, <1>4, <1>5 DEF IsQuery
<1>7. life' = life /\ txs' = txs /\ ended' = ended
  BY DEF Records!Ask
<1>8. WorldInv'
  BY <1>7 DEF RecordsHeld, WorldInv, Records!Known
<1>9. AskedInv'
  <2>1. IsLife(life) /\ txs \in Seq(ChainTxs) /\ Lists(ended, ClosedIn(life))
    BY DEF RecordsHeld, WorldInv
  <2>2. record'.closed # NoTx =>
          record'.closed.life = life /\ Lists(record'.closed.order, ClosedIn(life))
    BY <1>3, <1>5, <2>1
  <2>3. record'.tx # NoTx =>
          /\ record'.tx = txs
          /\ \A k \in Channels : life[k].at \in {"closing", "closed"}
                                 => CloseTx[k] \in Records!ToSet(record'.tx)
    BY <1>3, <1>5 DEF RecordsHeld, WorldInv, Records!Known
  <2>. QED
    BY <1>1, <1>3, <1>5, <1>7, <2>1, <2>2, <2>3 DEF AskedInv
<1>10. Records!RecordsInv'
  BY <1>5 DEF Records!RecordsInv
<1>. QED
  BY <1>6, <1>8, <1>9, <1>10 DEF RecordsHeld

\* The lists that were missing are looked up now
LEMMA ViewIsComplete ==
  ASSUME RecordsHeld, record.at = "asked"
  PROVE  LET q == Records!Returns(record, {c \in Records!Calls : record[c] = NoTx})
         IN  /\ IsView(q, life) /\ IsQuery(q)
             /\ q.id = record.id /\ q.before = record.before
<1>. DEFINE S == {c \in Records!Calls : record[c] = NoTx}
            q == Records!Returns(record, S)
<1>1. /\ "channels" \in S <=> record.channels = NoTx
      /\ "closed" \in S <=> record.closed = NoTx
      /\ "pending" \in S <=> record.pending = NoTx
      /\ "tx" \in S <=> record.tx = NoTx
  BY DEF Records!Calls
<1>2. IsQuery(record)
  BY DEF RecordsHeld
<1>. HIDE DEF S
<1>3. /\ IsQuery(q)
      /\ q.id = record.id /\ q.still = record.still /\ q.before = record.before
      /\ q.channels = IF record.channels = NoTx THEN OpenIn(life) ELSE record.channels
      /\ q.closed = IF record.closed = NoTx THEN [order |-> ended, life |-> life] ELSE record.closed
      /\ q.pending = IF record.pending = NoTx THEN life ELSE record.pending
      /\ q.tx = IF record.tx = NoTx THEN txs ELSE record.tx
  BY <1>1, <1>2, ReturnsFacts
<1>. HIDE DEF q
<1>4. WorldInv /\ AskedInv
  BY DEF RecordsHeld
<1>5. /\ q.channels \in {OpenIn(record.before), OpenIn(life)}
      /\ q.pending \in {record.before, life}
      /\ q.tx \in Seq(ChainTxs)
      /\ IsLife(record.before) /\ IsLife(life) /\ record.id \in ChainTxs
  BY <1>3, <1>4 DEF WorldInv, AskedInv
<1>6. /\ q.closed.life \in {record.before, life}
      /\ Lists(q.closed.order, ClosedIn(q.closed.life))
  <2>1. CASE record.closed = NoTx
    <3>1. q.closed.order = ended /\ q.closed.life = life
      BY <1>3, <2>1
    <3>. QED
      BY <1>4, <3>1 DEF WorldInv
  <2>2. CASE record.closed # NoTx
    <3>1. q.closed = record.closed
      BY <1>3, <2>2
    <3>. QED
      BY <1>4, <2>2, <3>1 DEF AskedInv
  <2>. QED
    BY <2>1, <2>2
<1>7. \A k \in Channels :
        q.before[k].at \in {"closing", "closed"} /\ life[k].at \in {"closing", "closed"}
          => CloseTx[k] \in Records!ToSet(q.tx)
  <2>1. CASE record.tx = NoTx
    BY <1>3, <1>4, <2>1 DEF WorldInv, Records!Known
  <2>2. CASE record.tx # NoTx
    BY <1>3, <1>4, <2>2 DEF AskedInv
  <2>. QED
    BY <2>1, <2>2
<1>8. IsView(q, life)
  BY <1>3, <1>5, <1>6, <1>7 DEF IsView
<1>. QED
  BY <1>3, <1>8 DEF q, S

LEMMA RecordIsDetermined ==
  ASSUME RecordsHeld, Records!Determine
  PROVE  RecordsHeld'
<1>. DEFINE q == Records!Returns(record, {c \in Records!Calls : record[c] = NoTx})
            a == Records!Record(q)
            s == a.related
<1>1. record.at = "asked" /\ record' = [q EXCEPT !.at = "details", !.answer = a]
  BY DEF Records!Determine
<1>2. life' = life /\ txs' = txs /\ ended' = ended
  BY DEF Records!Determine
<1>3. /\ IsView(q, life) /\ IsQuery(q)
      /\ q.id = record.id /\ q.before = record.before
  BY <1>1, ViewIsComplete
<1>. HIDE DEF q
<1>4. /\ s \in Seq(TrueRecords(q, life))
      /\ \A i, j \in DOMAIN s : i # j /\ s[i].channel # NoTx => s[j] # s[i]
      /\ a.sent => s = <<>>
      /\ \A r : Has(Records!Opening(q), r) \/ Has(Records!Opened(q), r)
                \/ Has(Records!Closed(q), r) \/ Has(Records!Parents(q), r)
           => \E i \in DOMAIN s : s[i].with = r.with
  BY <1>3, AnswerIsTrue
<1>. HIDE DEF a
<1>5. /\ record'.at = "details" /\ record'.answer = a /\ record'.id = q.id
      /\ record'.before = q.before /\ record'.tx = q.tx
  BY <1>1, <1>3 DEF IsQuery
<1>6. IsQuery(record')
  BY <1>1, <1>3 DEF IsQuery
<1>7. WorldInv'
  BY <1>2 DEF RecordsHeld, WorldInv, Records!Known
<1>8. AskedInv'
  BY <1>5 DEF AskedInv
<1>9. Records!OnlyRelated'
  <2>. SUFFICES ASSUME NEW i \in DOMAIN s
                PROVE  /\ Records!Concerns(q.id, s[i].with)
                       /\ \/ Records!Fits(s[i].action, q.before[s[i].with])
                          \/ Records!Fits(s[i].action, life[s[i].with])
    BY <1>2, <1>5 DEF Records!OnlyRelated
  <2>1. s[i] \in TrueRecords(q, life)
    BY <1>4
  <2>. QED
    BY <2>1 DEF TrueRecords, IsTrue
<1>10. Records!ToldOnce'
  BY <1>4, <1>5 DEF Records!ToldOnce
<1>11. Records!AllAreNamed'
  <2>. SUFFICES ASSUME NEW k \in Channels, life[k].at = q.before[k].at
                PROVE  /\ q.id = Fund /\ life[k].at \in {"opening", "open", "closed"}
                            => \E i \in DOMAIN s : s[i].with = k
                       /\ q.id = CloseTx[k] /\ life[k].at \in {"closing", "closed"}
                            => \E i \in DOMAIN s : s[i].with = k
                       /\ Records!Spends(q.id, CloseTx[k]) /\ q.id \in Records!ToSet(q.tx)
                          /\ life[k].at = "closed"
                            => \E i \in DOMAIN s : s[i].with = k
    BY <1>2, <1>5 DEF Records!AllAreNamed, Records!Named
  <2>1. /\ k \in q.channels <=> life[k].at = "open"
        /\ q.pending[k].at = life[k].at
        /\ k \in ClosedIn(q.closed.life) <=> life[k].at = "closed"
    BY <1>3 DEF IsView, OpenIn, ClosedIn
  <2>3. ASSUME q.id = Fund, life[k].at \in {"opening", "open", "closed"}
        PROVE  \E i \in DOMAIN s : s[i].with = k
    <3>1. \/ Has(Records!Opening(q), Records!ToldPending("opening_channel", k))
          \/ Has(Records!Opened(q), Records!Told("opened_channel", k))
      BY <1>3, <2>1, <2>3, OpeningIsTrue, OpenedIsTrue
    <3>. QED
      BY <1>4, <3>1, ToldFacts
  <2>4. ASSUME q.id = CloseTx[k], life[k].at = "closing"
        PROVE  \E i \in DOMAIN s : s[i].with = k
    <3>1. q.id \in Records!ToSet(q.tx)
      BY <1>3, <2>4 DEF IsView
    <3>2. Records!SpendsOutput(q.id, k)
      BY <2>4 DEF Records!ChainRecordsAssumption
    <3>3. Has(Records!Parents(q), Records!ToldPending("channel_closing", k))
      BY <1>3, <2>1, <2>4, <3>1, <3>2, ParentsAreTrue
    <3>. QED
      BY <1>4, <3>3, ToldFacts
  <2>5. ASSUME q.id = CloseTx[k], life[k].at = "closed"
        PROVE  \E i \in DOMAIN s : s[i].with = k
    <3>1. Has(Records!Closed(q), Records!Told(Records!HowClosed(q, k), k))
      BY <1>3, <2>1, <2>5, ClosedIsTrue
    <3>. QED
      BY <1>4, <3>1, ToldFacts
  <2>6. ASSUME Records!Spends(q.id, CloseTx[k]), q.id \in Records!ToSet(q.tx), life[k].at = "closed"
        PROVE  \E i \in DOMAIN s : s[i].with = k
    <3>1. Has(Records!Parents(q), Records!Told(Records!HowClosed(q, k), k))
      BY <1>3, <2>1, <2>6, ParentsAreTrue
    <3>. QED
      BY <1>4, <3>1, ToldFacts
  <2>. QED
    BY <2>3, <2>4, <2>5, <2>6
<1>12. Records!RecordsInv'
  BY <1>4, <1>5, <1>9, <1>10, <1>11 DEF Records!RecordsInv
<1>. QED
  BY <1>6, <1>7, <1>8, <1>12 DEF RecordsHeld

LEMMA RecordIsReturned ==
  ASSUME RecordsHeld, Records!Details
  PROVE  RecordsHeld'
<1>1. record' = Records!NoQuery /\ life' = life /\ txs' = txs /\ ended' = ended
  BY DEF Records!Details
<1>2. IsQuery(record') /\ record'.at = "idle"
  BY <1>1 DEF IsQuery, Records!NoQuery
<1>3. WorldInv'
  BY <1>1 DEF RecordsHeld, WorldInv, Records!Known
<1>. QED
  BY <1>2, <1>3 DEF RecordsHeld, AskedInv, Records!RecordsInv

LEMMA RecordsInit ==
  ASSUME MCInit
  PROVE  RecordsHeld
<1>w. Wallet \subseteq Seq(ChainTxs) /\ <<>> \in Seq(ChainTxs)
  BY DEF Records!ChainRecordsAssumption
<1>1. record = Records!NoQuery /\ ended = <<>> /\ txs \in Seq(ChainTxs)
  <2>1. CASE NoRecords
    BY <1>w, <2>1 DEF NoRecords
  <2>2. CASE Records!Init
    BY <1>w, <2>2 DEF Records!Init
  <2>. QED
    BY <2>1, <2>2 DEF MCInit
<1>2. PICK theirs \in BOOLEAN :
        life = [k \in Channels |->
                  [at |-> "none", kind |-> "none", theirs |-> theirs, owed |-> "owed"]]
  BY DEF MCInit, NoRecords, Records!Init
<1>3. IsLife(life) /\ \A k \in Channels : life[k].at = "none"
  BY <1>2 DEF IsLife, ChannelLife
<1>4. ClosedIn(life) = {}
  BY <1>3 DEF ClosedIn
<1>5. WorldInv
  BY <1>1, <1>3, <1>4, NothingListed DEF WorldInv
<1>6. IsQuery(record) /\ record.at = "idle"
  BY <1>1 DEF IsQuery, Records!NoQuery
<1>. QED
  BY <1>5, <1>6 DEF RecordsHeld, AskedInv, Records!RecordsInv

LEMMA RecordsStep ==
  ASSUME RecordsHeld, [MCNext]_mcvars
  PROVE  RecordsHeld'
<1>1. CASE UNCHANGED records
  <2>1. life' = life /\ txs' = txs /\ ended' = ended /\ record' = record
    BY <1>1 DEF records
  <2>. QED
    BY <2>1 DEF RecordsHeld, WorldInv, AskedInv, Records!Known, Records!RecordsInv,
                Records!OnlyRelated, Records!ToldOnce, Records!AllAreNamed, Records!Named
<1>2. CASE Records!Next
  BY <1>2, ChannelsAreOpened, ChannelIsOpen, ChannelIsClosing, OutputIsSpent, ChannelIsClosed,
     QuestionIsAsked, RecordIsDetermined, RecordIsReturned DEF Records!Next
<1>. QED
  BY <1>1, <1>2 DEF MCNext, mcvars

\* What getTransactionRecord tells of a transaction is true of one of the moments
\* at which its lists were read, is told once of a channel with an id, and leaves
\* out no channel that stayed where it was while others moved, however many
\* channels and transactions there are
THEOREM RecordsHold == MCSpec => []Records!RecordsInv
<1>1. MCInit => RecordsHeld
  BY RecordsInit
<1>2. RecordsHeld /\ [MCNext]_mcvars => RecordsHeld'
  BY RecordsStep
<1>3. RecordsHeld => Records!RecordsInv
  BY DEF RecordsHeld
<1>. QED
  BY <1>1, <1>2, <1>3, PTL DEF MCSpec

HIDE RecordsGiven

-----------------------------------------------------------------------------
(* Sums over finite sets                                                     *)

Adds(f, v, S) ==
  \A s \in SUBSET S : f[s] = IF s = {} THEN 0 ELSE v[AnyOf(s)] + f[s \ {AnyOf(s)}]

Tally(f, v, S) ==
  f = [s \in SUBSET S |-> IF s = {} THEN 0 ELSE v[AnyOf(s)] + f[s \ {AnyOf(s)}]]

SumOf(v) == (CHOOSE f : Tally(f, v, DOMAIN v))[DOMAIN v]

LEMMA TallyExists ==
  ASSUME NEW S, IsFiniteSet(S), NEW v \in [S -> Int]
  PROVE  \E f : Tally(f, v, S)
<1>. DEFINE step == [y \in S \X Int |-> v[y[1]] + y[2]]
<1>1. step \in [S \X Int -> Int]
  OBVIOUS
<1>2. \A x \in S, n \in Int : step[<<x, n>>] = v[x] + n
  OBVIOUS
<1>. HIDE DEF step
<1>3. PICK f \in [SUBSET S -> Int] : Folds(f, S, 0, step)
  <2>. DEFINE A == Int
  <2>1. 0 \in A /\ step \in [S \X A -> A]
    BY <1>1
  <2>. HIDE DEF A
  <2>2. \E f \in [SUBSET S -> A] : Folds(f, S, 0, step)
    BY <2>1, FoldExists
  <2>. QED
    BY <2>2 DEF A
<1>4. ASSUME NEW s \in SUBSET S
      PROVE  f[s] = IF s = {} THEN 0 ELSE v[AnyOf(s)] + f[s \ {AnyOf(s)}]
  <2>1. f[s] = IF s = {} THEN 0 ELSE step[<<AnyOf(s), f[s \ {AnyOf(s)}]>>]
    BY <1>3 DEF Folds
  <2>2. s # {} => AnyOf(s) \in S /\ f[s \ {AnyOf(s)}] \in Int
    BY DEF AnyOf
  <2>. QED
    BY <1>2, <2>1, <2>2
<1>. QED
  BY <1>4 DEF Tally

LEMMA SumIsFold ==
  ASSUME NEW S, IsFiniteSet(S), NEW v \in [S -> Int]
  PROVE  \E f : SumOf(v) = f[S] /\ Adds(f, v, S)
<1>1. DOMAIN v = S
  OBVIOUS
<1>. DEFINE f == CHOOSE g : Tally(g, v, S)
<1>2. Tally(f, v, S)
  BY TallyExists
<1>3. SumOf(v) = f[S]
  BY <1>1 DEF SumOf
<1>. HIDE DEF f
<1>4. Adds(f, v, S)
  BY <1>2 DEF Tally, Adds
<1>. QED
  BY <1>3, <1>4

\* Of the empty set and of others
LEMMA AddsFacts ==
  ASSUME NEW S, NEW v \in [S -> Int], NEW f, Adds(f, v, S)
  PROVE  /\ f[{}] = 0
         /\ \A s \in SUBSET S : s # {} =>
              /\ AnyOf(s) \in S /\ AnyOf(s) \in s /\ v[AnyOf(s)] \in Int
              /\ s \ {AnyOf(s)} \in SUBSET S
              /\ f[s] = v[AnyOf(s)] + f[s \ {AnyOf(s)}]
<1>1. f[{}] = 0
  <2>. DEFINE e == {}
  <2>1. e \in SUBSET S /\ e = {}
    OBVIOUS
  <2>. HIDE DEF e
  <2>2. f[e] = 0
    BY <2>1 DEF Adds
  <2>. QED
    BY <2>1, <2>2
<1>2. ASSUME NEW s \in SUBSET S, s # {}
      PROVE  /\ AnyOf(s) \in S /\ AnyOf(s) \in s /\ v[AnyOf(s)] \in Int
             /\ s \ {AnyOf(s)} \in SUBSET S
             /\ f[s] = v[AnyOf(s)] + f[s \ {AnyOf(s)}]
  <2>1. AnyOf(s) \in s
    BY <1>2 DEF AnyOf
  <2>2. f[s] = v[AnyOf(s)] + f[s \ {AnyOf(s)}]
    BY <1>2 DEF Adds
  <2>. QED
    BY <2>1, <2>2
<1>. QED
  BY <1>1, <1>2

LEMMA SumIsNumber ==
  ASSUME NEW S, IsFiniteSet(S), NEW v \in [S -> Int]
  PROVE  SumOf(v) \in Int
<1>1. PICK f : SumOf(v) = f[S] /\ Adds(f, v, S)
  BY SumIsFold
<1>. DEFINE P == {s \in SUBSET S : f[s] \in Int}
<1>2. {} \in P
  BY <1>1, AddsFacts
<1>3. ASSUME NEW s \in SUBSET S, s # {}, s \ {AnyOf(s)} \in P PROVE s \in P
  <2>1. AnyOf(s) \in S
    BY <1>3 DEF AnyOf
  <2>2. f[s] = v[AnyOf(s)] + f[s \ {AnyOf(s)}]
    BY <1>1, <1>3 DEF Adds
  <2>3. v[AnyOf(s)] \in Int
    BY <2>1
  <2>. QED
    BY <1>3, <2>2, <2>3
<1>4. S \in P
  <2>. HIDE DEF P
  <2>1. SUBSET S \subseteq P
    BY <1>2, <1>3, AllSubsets
  <2>. QED
    BY <2>1
<1>. QED
  BY <1>1, <1>4

\* Whatever adds up the values gives their sum
LEMMA SumIsOnly ==
  ASSUME NEW S, IsFiniteSet(S), NEW v \in [S -> Int], NEW f, Adds(f, v, S)
  PROVE  SumOf(v) = f[S]
<1>1. PICK g : SumOf(v) = g[S] /\ Adds(g, v, S)
  BY SumIsFold
<1>. DEFINE P == {s \in SUBSET S : f[s] = g[s]}
<1>2. {} \in P
  BY <1>1, AddsFacts
<1>3. ASSUME NEW s \in SUBSET S, s # {}, s \ {AnyOf(s)} \in P PROVE s \in P
  <2>1. f[s] = v[AnyOf(s)] + f[s \ {AnyOf(s)}]
    BY <1>3, AddsFacts
  <2>2. g[s] = v[AnyOf(s)] + g[s \ {AnyOf(s)}]
    BY <1>1, <1>3, AddsFacts
  <2>. QED
    BY <1>3, <2>1, <2>2
<1>4. S \in P
  <2>. HIDE DEF P
  <2>1. SUBSET S \subseteq P
    BY <1>2, <1>3, AllSubsets
  <2>. QED
    BY <2>1
<1>. QED
  BY <1>1, <1>4

LEMMA SumsAdd ==
  ASSUME NEW S, IsFiniteSet(S), NEW u \in [S -> Int], NEW v \in [S -> Int], NEW w \in [S -> Int],
         \A k \in S : u[k] = v[k] + w[k]
  PROVE  SumOf(u) = SumOf(v) + SumOf(w)
<1>1. PICK f : SumOf(u) = f[S] /\ Adds(f, u, S)
  BY SumIsFold
<1>2. PICK g : SumOf(v) = g[S] /\ Adds(g, v, S)
  BY SumIsFold
<1>3. PICK h : SumOf(w) = h[S] /\ Adds(h, w, S)
  BY SumIsFold
<1>. DEFINE P == {s \in SUBSET S : f[s] = g[s] + h[s] /\ g[s] \in Int /\ h[s] \in Int}
<1>4. {} \in P
  BY <1>1, <1>2, <1>3, AddsFacts
<1>5. ASSUME NEW s \in SUBSET S, s # {}, s \ {AnyOf(s)} \in P PROVE s \in P
  <2>1. f[s] = u[AnyOf(s)] + f[s \ {AnyOf(s)}] /\ AnyOf(s) \in S
    BY <1>1, <1>5, AddsFacts
  <2>2. g[s] = v[AnyOf(s)] + g[s \ {AnyOf(s)}] /\ v[AnyOf(s)] \in Int
    BY <1>2, <1>5, AddsFacts
  <2>3. h[s] = w[AnyOf(s)] + h[s \ {AnyOf(s)}] /\ w[AnyOf(s)] \in Int
    BY <1>3, <1>5, AddsFacts
  <2>4. u[AnyOf(s)] = v[AnyOf(s)] + w[AnyOf(s)]
    BY <2>1
  <2>. QED
    BY <1>5, <2>1, <2>2, <2>3, <2>4
<1>6. S \in P
  <2>. HIDE DEF P
  <2>1. SUBSET S \subseteq P
    BY <1>4, <1>5, AllSubsets
  <2>. QED
    BY <2>1
<1>. QED
  BY <1>1, <1>2, <1>3, <1>6

LEMMA SumOfSame ==
  ASSUME NEW S, IsFiniteSet(S), NEW c \in Int, NEW v \in [S -> Int], \A k \in S : v[k] = c
  PROVE  SumOf(v) = c * Cardinality(S)
<1>1. PICK f : SumOf(v) = f[S] /\ Adds(f, v, S)
  BY SumIsFold
<1>. DEFINE P == {s \in SUBSET S : f[s] = c * Cardinality(s)}
<1>2. {} \in P
  <2>1. Cardinality({}) = 0 /\ f[{}] = 0
    BY <1>1, AddsFacts, FS_EmptySet
  <2>. QED
    BY <2>1
<1>3. ASSUME NEW s \in SUBSET S, s # {}, s \ {AnyOf(s)} \in P PROVE s \in P
  <2>1. f[s] = v[AnyOf(s)] + f[s \ {AnyOf(s)}] /\ AnyOf(s) \in S /\ AnyOf(s) \in s
    BY <1>1, <1>3, AddsFacts
  <2>2. v[AnyOf(s)] = c
    BY <2>1
  <2>3. IsFiniteSet(s) /\ Cardinality(s) \in Nat
    BY FS_Subset, FS_CardinalityType
  <2>4. Cardinality(s \ {AnyOf(s)}) = Cardinality(s) - 1
    BY <2>1, <2>3, FS_RemoveElement
  <2>5. f[s \ {AnyOf(s)}] = c * (Cardinality(s) - 1)
    BY <1>3, <2>4
  <2>. DEFINE n == Cardinality(s)
  <2>6. n \in Int
    BY <2>3
  <2>7. f[s] = c + c * (n - 1)
    BY <2>1, <2>2, <2>5
  <2>. HIDE DEF n
  <2>8. f[s] = c * n
    BY <2>6, <2>7
  <2>. QED
    BY <2>8 DEF n
<1>4. S \in P
  <2>. HIDE DEF P
  <2>1. SUBSET S \subseteq P
    BY <1>2, <1>3, AllSubsets
  <2>. QED
    BY <2>1
<1>. QED
  BY <1>1, <1>4

-----------------------------------------------------------------------------
(* The sums of getPeerLiquidity                                              *)

HtlcRecord == [id : Pays, out : BOOLEAN]

\* A channel's tokens are on its two sides or in its payments
IsChan(c) ==
  /\ c \in [at : {"opening", "open"}, local : Nat, remote : Nat, htlcs : SUBSET HtlcRecord]
  /\ IsFiniteSet(c.htlcs)
  /\ c.local + c.remote + Cardinality(c.htlcs) = Capacity
  /\ c.at = "opening" => c.htlcs = {}

AreChans(view) == view = [k \in DOMAIN view |-> view[k]] /\ \A k \in DOMAIN view : IsChan(view[k])

LEMMA PaymentsCount ==
  ASSUME NEW c, IsFiniteSet(c.htlcs), NEW ids
  PROVE  Flows!Outgoing(c, ids) \in Nat /\ Flows!Incoming(c, ids) \in Nat
<1>1. /\ IsFiniteSet({h \in c.htlcs : h.out /\ h.id \in ids})
      /\ IsFiniteSet({h \in c.htlcs : ~h.out /\ h.id \in ids})
  BY FS_Subset
<1>2. \A s : Flows!Cardinality(s) = Cardinality(s)
  BY DEF Flows!Cardinality, Cardinality
<1>3. /\ Cardinality({h \in c.htlcs : h.out /\ h.id \in ids}) \in Nat
      /\ Cardinality({h \in c.htlcs : ~h.out /\ h.id \in ids}) \in Nat
  BY <1>1, FS_CardinalityType
<1>. QED
  BY <1>2, <1>3 DEF Flows!Outgoing, Flows!Incoming

LEMMA InboundSum ==
  ASSUME NEW view, AreChans(view), IsFiniteSet(DOMAIN view), NEW known
  PROVE  LET v == [k \in DOMAIN view |-> view[k].remote + Flows!Outgoing(view[k], known)]
         IN  v \in [DOMAIN view -> Int] /\ Flows!Inbound(view, known) = SumOf(v)
<1>. DEFINE D == DOMAIN view
            v == [k \in D |-> view[k].remote + Flows!Outgoing(view[k], known)]
            Sums(f) == f = [s \in SUBSET D |->
                             IF s = {} THEN 0
                             ELSE (view[AnyOf(s)].remote + Flows!Outgoing(view[AnyOf(s)], known)) + f[s \ {AnyOf(s)}]]
            sum == CHOOSE f : Sums(f)
<1>1. v \in [D -> Int]
  BY PaymentsCount DEF AreChans, IsChan
<1>2. PICK f : Tally(f, v, D)
  BY <1>1, TallyExists
<1>3. \A s \in SUBSET D : s # {} => v[AnyOf(s)] = view[AnyOf(s)].remote + Flows!Outgoing(view[AnyOf(s)], known)
  BY DEF AnyOf
<1>4. Sums(f)
  <2>. HIDE DEF v
  <2>. QED
    BY <1>2, <1>3 DEF Tally
<1>5. Sums(sum)
  <2>. HIDE DEF Sums
  <2>. QED
    BY <1>4
<1>6. Flows!Inbound(view, known) = sum[D]
  BY DEF Flows!Inbound, Flows!Sum, Flows!MapThenSumSet, Flows!MapThenFoldSet, AnyOf
<1>. HIDE DEF sum
<1>7. \A s \in SUBSET D : sum[s] = IF s = {} THEN 0
                                   ELSE (view[AnyOf(s)].remote + Flows!Outgoing(view[AnyOf(s)], known)) + sum[s \ {AnyOf(s)}]
  BY <1>5
<1>8. Adds(sum, v, D)
  <2>. HIDE DEF v
  <2>. QED
    BY <1>3, <1>7 DEF Adds
<1>. HIDE DEF v
<1>9. SumOf(v) = sum[D]
  BY <1>1, <1>8, SumIsOnly
<1>. QED
  BY <1>1, <1>6, <1>9 DEF v

LEMMA OutboundSum ==
  ASSUME NEW view, AreChans(view), IsFiniteSet(DOMAIN view), NEW known
  PROVE  LET v == [k \in DOMAIN view |-> view[k].local + Flows!Incoming(view[k], known)]
         IN  v \in [DOMAIN view -> Int] /\ Flows!Outbound(view, known) = SumOf(v)
<1>. DEFINE D == DOMAIN view
            v == [k \in D |-> view[k].local + Flows!Incoming(view[k], known)]
            Sums(f) == f = [s \in SUBSET D |->
                             IF s = {} THEN 0
                             ELSE (view[AnyOf(s)].local + Flows!Incoming(view[AnyOf(s)], known)) + f[s \ {AnyOf(s)}]]
            sum == CHOOSE f : Sums(f)
<1>1. v \in [D -> Int]
  BY PaymentsCount DEF AreChans, IsChan
<1>2. PICK f : Tally(f, v, D)
  BY <1>1, TallyExists
<1>3. \A s \in SUBSET D : s # {} => v[AnyOf(s)] = view[AnyOf(s)].local + Flows!Incoming(view[AnyOf(s)], known)
  BY DEF AnyOf
<1>4. Sums(f)
  <2>. HIDE DEF v
  <2>. QED
    BY <1>2, <1>3 DEF Tally
<1>5. Sums(sum)
  <2>. HIDE DEF Sums
  <2>. QED
    BY <1>4
<1>6. Flows!Outbound(view, known) = sum[D]
  BY DEF Flows!Outbound, Flows!Sum, Flows!MapThenSumSet, Flows!MapThenFoldSet, AnyOf
<1>. HIDE DEF sum
<1>7. \A s \in SUBSET D : sum[s] = IF s = {} THEN 0
                                   ELSE (view[AnyOf(s)].local + Flows!Incoming(view[AnyOf(s)], known)) + sum[s \ {AnyOf(s)}]
  BY <1>5
<1>8. Adds(sum, v, D)
  <2>. HIDE DEF v
  <2>. QED
    BY <1>3, <1>7 DEF Adds
<1>. HIDE DEF v
<1>9. SumOf(v) = sum[D]
  BY <1>1, <1>8, SumIsOnly
<1>. QED
  BY <1>1, <1>6, <1>9 DEF v

LEMMA InboundPendingSum ==
  ASSUME NEW view, AreChans(view), IsFiniteSet(DOMAIN view), NEW known
  PROVE  LET v == [k \in DOMAIN view |-> Flows!Outgoing(view[k], Pays \ known)]
         IN  v \in [DOMAIN view -> Int] /\ Flows!InboundPending(view, known) = SumOf(v)
<1>. DEFINE D == DOMAIN view
            v == [k \in D |-> Flows!Outgoing(view[k], Pays \ known)]
            Sums(f) == f = [s \in SUBSET D |->
                             IF s = {} THEN 0
                             ELSE Flows!Outgoing(view[AnyOf(s)], Pays \ known) + f[s \ {AnyOf(s)}]]
            sum == CHOOSE f : Sums(f)
<1>1. v \in [D -> Int]
  BY PaymentsCount DEF AreChans, IsChan
<1>2. PICK f : Tally(f, v, D)
  BY <1>1, TallyExists
<1>3. \A s \in SUBSET D : s # {} => v[AnyOf(s)] = Flows!Outgoing(view[AnyOf(s)], Pays \ known)
  BY DEF AnyOf
<1>4. Sums(f)
  <2>. HIDE DEF v
  <2>. QED
    BY <1>2, <1>3 DEF Tally
<1>5. Sums(sum)
  <2>. HIDE DEF Sums
  <2>. QED
    BY <1>4
<1>6. Flows!InboundPending(view, known) = sum[D]
  BY DEF Flows!InboundPending, Flows!Sum, Flows!MapThenSumSet, Flows!MapThenFoldSet, AnyOf
<1>. HIDE DEF sum
<1>7. \A s \in SUBSET D : sum[s] = IF s = {} THEN 0
                                   ELSE Flows!Outgoing(view[AnyOf(s)], Pays \ known) + sum[s \ {AnyOf(s)}]
  BY <1>5
<1>8. Adds(sum, v, D)
  <2>. HIDE DEF v
  <2>. QED
    BY <1>3, <1>7 DEF Adds
<1>. HIDE DEF v
<1>9. SumOf(v) = sum[D]
  BY <1>1, <1>8, SumIsOnly
<1>. QED
  BY <1>1, <1>6, <1>9 DEF v

LEMMA OutboundPendingSum ==
  ASSUME NEW view, AreChans(view), IsFiniteSet(DOMAIN view), NEW known
  PROVE  LET v == [k \in DOMAIN view |-> Flows!Incoming(view[k], Pays \ known)]
         IN  v \in [DOMAIN view -> Int] /\ Flows!OutboundPending(view, known) = SumOf(v)
<1>. DEFINE D == DOMAIN view
            v == [k \in D |-> Flows!Incoming(view[k], Pays \ known)]
            Sums(f) == f = [s \in SUBSET D |->
                             IF s = {} THEN 0
                             ELSE Flows!Incoming(view[AnyOf(s)], Pays \ known) + f[s \ {AnyOf(s)}]]
            sum == CHOOSE f : Sums(f)
<1>1. v \in [D -> Int]
  BY PaymentsCount DEF AreChans, IsChan
<1>2. PICK f : Tally(f, v, D)
  BY <1>1, TallyExists
<1>3. \A s \in SUBSET D : s # {} => v[AnyOf(s)] = Flows!Incoming(view[AnyOf(s)], Pays \ known)
  BY DEF AnyOf
<1>4. Sums(f)
  <2>. HIDE DEF v
  <2>. QED
    BY <1>2, <1>3 DEF Tally
<1>5. Sums(sum)
  <2>. HIDE DEF Sums
  <2>. QED
    BY <1>4
<1>6. Flows!OutboundPending(view, known) = sum[D]
  BY DEF Flows!OutboundPending, Flows!Sum, Flows!MapThenSumSet, Flows!MapThenFoldSet, AnyOf
<1>. HIDE DEF sum
<1>7. \A s \in SUBSET D : sum[s] = IF s = {} THEN 0
                                   ELSE Flows!Incoming(view[AnyOf(s)], Pays \ known) + sum[s \ {AnyOf(s)}]
  BY <1>5
<1>8. Adds(sum, v, D)
  <2>. HIDE DEF v
  <2>. QED
    BY <1>3, <1>7 DEF Adds
<1>. HIDE DEF v
<1>9. SumOf(v) = sum[D]
  BY <1>1, <1>8, SumIsOnly
<1>. QED
  BY <1>1, <1>6, <1>9 DEF v

LEMMA RemoteSum ==
  ASSUME NEW view, AreChans(view), IsFiniteSet(DOMAIN view)
  PROVE  LET v == [k \in DOMAIN view |-> view[k].remote]
         IN  v \in [DOMAIN view -> Int] /\ Flows!Sum(view, LAMBDA c : c.remote) = SumOf(v)
<1>. DEFINE D == DOMAIN view
            v == [k \in D |-> view[k].remote]
            Sums(f) == f = [s \in SUBSET D |->
                             IF s = {} THEN 0
                             ELSE view[AnyOf(s)].remote + f[s \ {AnyOf(s)}]]
            sum == CHOOSE f : Sums(f)
<1>1. v \in [D -> Int]
  BY PaymentsCount DEF AreChans, IsChan
<1>2. PICK f : Tally(f, v, D)
  BY <1>1, TallyExists
<1>3. \A s \in SUBSET D : s # {} => v[AnyOf(s)] = view[AnyOf(s)].remote
  BY DEF AnyOf
<1>4. Sums(f)
  <2>. HIDE DEF v
  <2>. QED
    BY <1>2, <1>3 DEF Tally
<1>5. Sums(sum)
  <2>. HIDE DEF Sums
  <2>. QED
    BY <1>4
<1>6. Flows!Sum(view, LAMBDA c : c.remote) = sum[D]
  BY DEF Flows!Sum, Flows!MapThenSumSet, Flows!MapThenFoldSet, AnyOf
<1>. HIDE DEF sum
<1>7. \A s \in SUBSET D : sum[s] = IF s = {} THEN 0
                                   ELSE view[AnyOf(s)].remote + sum[s \ {AnyOf(s)}]
  BY <1>5
<1>8. Adds(sum, v, D)
  <2>. HIDE DEF v
  <2>. QED
    BY <1>3, <1>7 DEF Adds
<1>. HIDE DEF v
<1>9. SumOf(v) = sum[D]
  BY <1>1, <1>8, SumIsOnly
<1>. QED
  BY <1>1, <1>6, <1>9 DEF v

LEMMA LocalSum ==
  ASSUME NEW view, AreChans(view), IsFiniteSet(DOMAIN view)
  PROVE  LET v == [k \in DOMAIN view |-> view[k].local]
         IN  v \in [DOMAIN view -> Int] /\ Flows!Sum(view, LAMBDA c : c.local) = SumOf(v)
<1>. DEFINE D == DOMAIN view
            v == [k \in D |-> view[k].local]
            Sums(f) == f = [s \in SUBSET D |->
                             IF s = {} THEN 0
                             ELSE view[AnyOf(s)].local + f[s \ {AnyOf(s)}]]
            sum == CHOOSE f : Sums(f)
<1>1. v \in [D -> Int]
  BY PaymentsCount DEF AreChans, IsChan
<1>2. PICK f : Tally(f, v, D)
  BY <1>1, TallyExists
<1>3. \A s \in SUBSET D : s # {} => v[AnyOf(s)] = view[AnyOf(s)].local
  BY DEF AnyOf
<1>4. Sums(f)
  <2>. HIDE DEF v
  <2>. QED
    BY <1>2, <1>3 DEF Tally
<1>5. Sums(sum)
  <2>. HIDE DEF Sums
  <2>. QED
    BY <1>4
<1>6. Flows!Sum(view, LAMBDA c : c.local) = sum[D]
  BY DEF Flows!Sum, Flows!MapThenSumSet, Flows!MapThenFoldSet, AnyOf
<1>. HIDE DEF sum
<1>7. \A s \in SUBSET D : sum[s] = IF s = {} THEN 0
                                   ELSE view[AnyOf(s)].local + sum[s \ {AnyOf(s)}]
  BY <1>5
<1>8. Adds(sum, v, D)
  <2>. HIDE DEF v
  <2>. QED
    BY <1>3, <1>7 DEF Adds
<1>. HIDE DEF v
<1>9. SumOf(v) = sum[D]
  BY <1>1, <1>8, SumIsOnly
<1>. QED
  BY <1>1, <1>6, <1>9 DEF v

LEMMA PartsCount ==
  ASSUME NEW A, NEW B, IsFiniteSet(A \cup B), A \cap B = {}
  PROVE  /\ IsFiniteSet(A) /\ IsFiniteSet(B)
         /\ Cardinality(A) \in Nat /\ Cardinality(B) \in Nat
         /\ Cardinality(A \cup B) = Cardinality(A) + Cardinality(B)
<1>1. IsFiniteSet(A) /\ IsFiniteSet(B)
  BY FS_Subset
<1>2. Cardinality(A) \in Nat /\ Cardinality(B) \in Nat
  BY <1>1, FS_CardinalityType
<1>3. Cardinality(A \cup B) = Cardinality(A) + Cardinality(B) - Cardinality(A \cap B)
  BY <1>1, FS_Union
<1>4. Cardinality(A \cap B) = 0
  BY FS_EmptySet
<1>. QED
  BY <1>1, <1>2, <1>3, <1>4

\* Each payment of a channel goes one way and is known to be settled or is not
LEMMA PaymentsAreApart ==
  ASSUME NEW c, IsChan(c), NEW known \in SUBSET Pays
  PROVE  /\ Flows!Outgoing(c, known) + Flows!Outgoing(c, Pays \ known)
            + Flows!Incoming(c, known) + Flows!Incoming(c, Pays \ known) = Cardinality(c.htlcs)
         /\ Flows!Outgoing(c, Pays \ known) + Flows!Incoming(c, Pays \ known)
            = Cardinality({h \in c.htlcs : h.id \notin known})
<1>. DEFINE out == {h \in c.htlcs : h.out}
            in == {h \in c.htlcs : ~h.out}
            A == {h \in c.htlcs : h.out /\ h.id \in known}
            B == {h \in c.htlcs : h.out /\ h.id \in Pays \ known}
            C == {h \in c.htlcs : ~h.out /\ h.id \in known}
            D == {h \in c.htlcs : ~h.out /\ h.id \in Pays \ known}
            E == {h \in c.htlcs : h.id \notin known}
<1>1. IsFiniteSet(c.htlcs) /\ \A h \in c.htlcs : h.out \in BOOLEAN /\ h.id \in Pays
  BY DEF IsChan, HtlcRecord
<1>2. out \cup in = c.htlcs /\ out \cap in = {}
  OBVIOUS
<1>3. A \cup B = out /\ A \cap B = {}
  BY <1>1
<1>4. C \cup D = in /\ C \cap D = {}
  BY <1>1
<1>5. B \cup D = E /\ B \cap D = {}
  BY <1>1
<1>6. IsFiniteSet(E)
  BY <1>1, FS_Subset
<1>7. /\ Flows!Outgoing(c, known) = Cardinality(A)
      /\ Flows!Outgoing(c, Pays \ known) = Cardinality(B)
      /\ Flows!Incoming(c, known) = Cardinality(C)
      /\ Flows!Incoming(c, Pays \ known) = Cardinality(D)
  BY DEF Flows!Outgoing, Flows!Incoming, Flows!Cardinality, Cardinality
<1>. HIDE DEF out, in, A, B, C, D, E
<1>8. /\ IsFiniteSet(out) /\ IsFiniteSet(in)
      /\ Cardinality(out) \in Nat /\ Cardinality(in) \in Nat
      /\ Cardinality(c.htlcs) = Cardinality(out) + Cardinality(in)
  <2>1. IsFiniteSet(out \cup in)
    BY <1>1, <1>2
  <2>2. /\ IsFiniteSet(out) /\ IsFiniteSet(in)
        /\ Cardinality(out) \in Nat /\ Cardinality(in) \in Nat
        /\ Cardinality(out \cup in) = Cardinality(out) + Cardinality(in)
    BY <1>2, <2>1, PartsCount
  <2>. QED
    BY <1>2, <2>2
<1>9. /\ Cardinality(A) \in Nat /\ Cardinality(B) \in Nat
      /\ Cardinality(out) = Cardinality(A) + Cardinality(B)
  <2>1. IsFiniteSet(A \cup B)
    BY <1>3, <1>8
  <2>2. /\ Cardinality(A) \in Nat /\ Cardinality(B) \in Nat
        /\ Cardinality(A \cup B) = Cardinality(A) + Cardinality(B)
    BY <1>3, <2>1, PartsCount
  <2>. QED
    BY <1>3, <2>2
<1>10. /\ Cardinality(C) \in Nat /\ Cardinality(D) \in Nat
       /\ Cardinality(in) = Cardinality(C) + Cardinality(D)
  <2>1. IsFiniteSet(C \cup D)
    BY <1>4, <1>8
  <2>2. /\ Cardinality(C) \in Nat /\ Cardinality(D) \in Nat
        /\ Cardinality(C \cup D) = Cardinality(C) + Cardinality(D)
    BY <1>4, <2>1, PartsCount
  <2>. QED
    BY <1>4, <2>2
<1>11. Cardinality(E) = Cardinality(B) + Cardinality(D)
  <2>1. IsFiniteSet(B \cup D)
    BY <1>5, <1>6
  <2>2. /\ Cardinality(B) \in Nat /\ Cardinality(D) \in Nat
        /\ Cardinality(B \cup D) = Cardinality(B) + Cardinality(D)
    BY <1>5, <2>1, PartsCount
  <2>. QED
    BY <1>5, <2>2
<1>12. Cardinality(A) + Cardinality(B) + Cardinality(C) + Cardinality(D) = Cardinality(c.htlcs)
  BY <1>8, <1>9, <1>10
<1>. QED
  BY <1>7, <1>11, <1>12 DEF E

\* All that is said of open channels comes to their tokens
LEMMA OpenIsCounted ==
  ASSUME NEW view, AreChans(view), IsFiniteSet(DOMAIN view), NEW known \in SUBSET Pays
  PROVE  /\ Flows!Inbound(view, known) \in Int /\ Flows!InboundPending(view, known) \in Int
         /\ Flows!Outbound(view, known) \in Int /\ Flows!OutboundPending(view, known) \in Int
         /\ (Flows!Inbound(view, known) + Flows!InboundPending(view, known))
            + (Flows!Outbound(view, known) + Flows!OutboundPending(view, known))
            = Capacity * Cardinality(DOMAIN view)
<1>. DEFINE D == DOMAIN view
            a == [k \in D |-> view[k].remote + Flows!Outgoing(view[k], known)]
            b == [k \in D |-> Flows!Outgoing(view[k], Pays \ known)]
            c == [k \in D |-> view[k].local + Flows!Incoming(view[k], known)]
            d == [k \in D |-> Flows!Incoming(view[k], Pays \ known)]
            ab == [k \in D |-> a[k] + b[k]]
            cd == [k \in D |-> c[k] + d[k]]
            all == [k \in D |-> ab[k] + cd[k]]
<1>1. a \in [D -> Int] /\ Flows!Inbound(view, known) = SumOf(a)
  BY InboundSum
<1>2. b \in [D -> Int] /\ Flows!InboundPending(view, known) = SumOf(b)
  BY InboundPendingSum
<1>3. c \in [D -> Int] /\ Flows!Outbound(view, known) = SumOf(c)
  BY OutboundSum
<1>4. d \in [D -> Int] /\ Flows!OutboundPending(view, known) = SumOf(d)
  BY OutboundPendingSum
<1>5. ASSUME NEW k \in D PROVE all[k] = Capacity
  <2>1. IsChan(view[k])
    BY DEF AreChans
  <2>2. /\ view[k].remote \in Nat /\ view[k].local \in Nat
        /\ view[k].local + view[k].remote + Cardinality(view[k].htlcs) = Capacity
    BY <2>1 DEF IsChan
  <2>3. /\ Flows!Outgoing(view[k], known) \in Nat /\ Flows!Incoming(view[k], known) \in Nat
        /\ Flows!Outgoing(view[k], Pays \ known) \in Nat
        /\ Flows!Incoming(view[k], Pays \ known) \in Nat
    BY <2>1, PaymentsCount DEF IsChan
  <2>4. Flows!Outgoing(view[k], known) + Flows!Outgoing(view[k], Pays \ known)
        + Flows!Incoming(view[k], known) + Flows!Incoming(view[k], Pays \ known)
        = Cardinality(view[k].htlcs)
    BY <2>1, PaymentsAreApart
  <2>5. all[k] = (view[k].remote + Flows!Outgoing(view[k], known)
                  + Flows!Outgoing(view[k], Pays \ known))
                 + (view[k].local + Flows!Incoming(view[k], known)
                    + Flows!Incoming(view[k], Pays \ known))
    OBVIOUS
  <2>. HIDE DEF all
  <2>. QED
    BY <2>2, <2>3, <2>4, <2>5
<1>. HIDE DEF a, b, c, d
<1>6. ab \in [D -> Int] /\ cd \in [D -> Int]
  BY <1>1, <1>2, <1>3, <1>4
<1>7. SumOf(ab) = SumOf(a) + SumOf(b) /\ SumOf(cd) = SumOf(c) + SumOf(d)
  <2>1. (\A k \in D : ab[k] = a[k] + b[k]) /\ (\A k \in D : cd[k] = c[k] + d[k])
    OBVIOUS
  <2>. HIDE DEF ab, cd
  <2>. QED
    BY <1>1, <1>2, <1>3, <1>4, <1>6, <2>1, SumsAdd
<1>. HIDE DEF ab, cd
<1>8. all \in [D -> Int] /\ \A k \in D : all[k] = ab[k] + cd[k]
  BY <1>6
<1>. HIDE DEF all
<1>9. SumOf(all) = SumOf(ab) + SumOf(cd)
  BY <1>6, <1>8, SumsAdd
<1>10. SumOf(all) = Capacity * Cardinality(D)
  <2>1. Capacity \in Int
    BY FlowsGiven DEF Flows!LiquidityAssumption
  <2>. QED
    BY <1>5, <1>8, <2>1, SumOfSame
<1>11. SumOf(a) \in Int /\ SumOf(b) \in Int /\ SumOf(c) \in Int /\ SumOf(d) \in Int
  BY <1>1, <1>2, <1>3, <1>4, SumIsNumber
<1>. QED
  BY <1>1, <1>2, <1>3, <1>4, <1>7, <1>9, <1>10, <1>11

LEMMA OpeningIsCounted ==
  ASSUME NEW view, AreChans(view), IsFiniteSet(DOMAIN view),
         \A k \in DOMAIN view : view[k].at = "opening"
  PROVE  /\ Flows!Sum(view, LAMBDA c : c.remote) \in Int
         /\ Flows!Sum(view, LAMBDA c : c.local) \in Int
         /\ Flows!Sum(view, LAMBDA c : c.remote) + Flows!Sum(view, LAMBDA c : c.local)
            = Capacity * Cardinality(DOMAIN view)
<1>. DEFINE D == DOMAIN view
            a == [k \in D |-> view[k].remote]
            b == [k \in D |-> view[k].local]
            ab == [k \in D |-> a[k] + b[k]]
<1>1. a \in [D -> Int] /\ Flows!Sum(view, LAMBDA c : c.remote) = SumOf(a)
  BY RemoteSum
<1>2. b \in [D -> Int] /\ Flows!Sum(view, LAMBDA c : c.local) = SumOf(b)
  BY LocalSum
<1>3. ASSUME NEW k \in D PROVE ab[k] = Capacity
  <2>1. IsChan(view[k]) /\ view[k].htlcs = {}
    BY DEF AreChans, IsChan
  <2>2. Cardinality(view[k].htlcs) = 0
    BY <2>1, FS_EmptySet
  <2>. QED
    BY <2>1, <2>2 DEF IsChan
<1>. HIDE DEF a, b
<1>4. ab \in [D -> Int] /\ \A k \in D : ab[k] = a[k] + b[k]
  BY <1>1, <1>2
<1>. HIDE DEF ab
<1>5. SumOf(ab) = SumOf(a) + SumOf(b)
  BY <1>1, <1>2, <1>4, SumsAdd
<1>6. SumOf(ab) = Capacity * Cardinality(D)
  <2>1. Capacity \in Int
    BY FlowsGiven DEF Flows!LiquidityAssumption
  <2>. QED
    BY <1>3, <1>4, <2>1, SumOfSame
<1>7. SumOf(a) \in Int /\ SumOf(b) \in Int
  BY <1>1, <1>2, SumIsNumber
<1>. QED
  BY <1>1, <1>2, <1>5, <1>6, <1>7

LEMMA ClearedFacts ==
  ASSUME NEW c, IsChan(c), NEW known \in SUBSET Pays
  PROVE  LET e == Flows!Cleared(c, known)
         IN  /\ IsChan(e)
             /\ e.local = c.local + Flows!Incoming(c, known)
             /\ e.remote = c.remote + Flows!Outgoing(c, known)
             /\ Flows!Outgoing(e, {}) = 0 /\ Flows!Incoming(e, {}) = 0
             /\ Flows!Outgoing(e, Pays \ {}) = Flows!Outgoing(c, Pays \ known)
             /\ Flows!Incoming(e, Pays \ {}) = Flows!Incoming(c, Pays \ known)
<1>. DEFINE e == Flows!Cleared(c, known)
            left == {h \in c.htlcs : h.id \notin known}
<1>1. /\ c \in [at : {"opening", "open"}, local : Nat, remote : Nat, htlcs : SUBSET HtlcRecord]
      /\ IsFiniteSet(c.htlcs)
  BY DEF IsChan
<1>2. /\ Flows!Outgoing(c, known) \in Nat /\ Flows!Incoming(c, known) \in Nat
      /\ Flows!Outgoing(c, Pays \ known) \in Nat /\ Flows!Incoming(c, Pays \ known) \in Nat
  BY <1>1, PaymentsCount
<1>3. /\ e.at = c.at /\ e.htlcs = left
      /\ e.local = c.local + Flows!Incoming(c, known)
      /\ e.remote = c.remote + Flows!Outgoing(c, known)
  BY <1>1 DEF Flows!Cleared
<1>4. e \in [at : {"opening", "open"}, local : Nat, remote : Nat, htlcs : SUBSET HtlcRecord]
  <2>1. /\ c.local + Flows!Incoming(c, known) \in Nat
        /\ c.remote + Flows!Outgoing(c, known) \in Nat
    BY <1>1, <1>2
  <2>2. left \in SUBSET HtlcRecord
    BY <1>1
  <2>3. ASSUME NEW l \in Nat, NEW r \in Nat, NEW hs \in SUBSET HtlcRecord
        PROVE  [c EXCEPT !.local = l, !.remote = r, !.htlcs = hs]
               \in [at : {"opening", "open"}, local : Nat, remote : Nat, htlcs : SUBSET HtlcRecord]
    BY <1>1
  <2>4. e = [c EXCEPT !.local = c.local + Flows!Incoming(c, known),
                      !.remote = c.remote + Flows!Outgoing(c, known), !.htlcs = left]
    BY <1>1 DEF Flows!Cleared
  <2>. HIDE DEF e, left
  <2>. QED
    BY <2>1, <2>2, <2>3, <2>4
<1>. HIDE DEF e
<1>5. \A h \in c.htlcs : h.id \in Pays
  BY <1>1 DEF HtlcRecord
<1>6. /\ {h \in left : h.out /\ h.id \in {}} = {}
      /\ {h \in left : ~h.out /\ h.id \in {}} = {}
      /\ {h \in left : h.out /\ h.id \in Pays \ {}} = {h \in c.htlcs : h.out /\ h.id \in Pays \ known}
      /\ {h \in left : ~h.out /\ h.id \in Pays \ {}} = {h \in c.htlcs : ~h.out /\ h.id \in Pays \ known}
  BY <1>5
<1>7. /\ Flows!Outgoing(e, {}) = 0 /\ Flows!Incoming(e, {}) = 0
      /\ Flows!Outgoing(e, Pays \ {}) = Flows!Outgoing(c, Pays \ known)
      /\ Flows!Incoming(e, Pays \ {}) = Flows!Incoming(c, Pays \ known)
  <2>1. \A s : Flows!Cardinality(s) = Cardinality(s)
    BY DEF Flows!Cardinality, Cardinality
  <2>2. Cardinality({}) = 0
    BY FS_EmptySet
  <2>. HIDE DEF left
  <2>. QED
    BY <1>3, <1>6, <2>1, <2>2 DEF Flows!Outgoing, Flows!Incoming
<1>8. IsFiniteSet(left)
  BY <1>1, FS_Subset
<1>9. e.local + e.remote + Cardinality(e.htlcs) = Capacity
  <2>1. c.local + c.remote + Cardinality(c.htlcs) = Capacity
    BY DEF IsChan
  <2>2. Flows!Outgoing(c, known) + Flows!Outgoing(c, Pays \ known)
        + Flows!Incoming(c, known) + Flows!Incoming(c, Pays \ known) = Cardinality(c.htlcs)
    BY PaymentsAreApart
  <2>3. Flows!Outgoing(c, Pays \ known) + Flows!Incoming(c, Pays \ known) = Cardinality(left)
    BY PaymentsAreApart
  <2>. HIDE DEF left
  <2>4. Cardinality(e.htlcs) = Cardinality(left)
    BY <1>3
  <2>5. c.local \in Nat /\ c.remote \in Nat
    BY <1>1
  <2>. QED
    BY <1>2, <1>3, <2>1, <2>2, <2>3, <2>4, <2>5
<1>10. e.at = "opening" => e.htlcs = {}
  BY <1>3 DEF IsChan
<1>11. IsChan(e)
  BY <1>3, <1>4, <1>8, <1>9, <1>10 DEF IsChan
<1>. QED
  BY <1>3, <1>7, <1>11 DEF e

\* What is known to be settled counts as it will
LEMMA ClearingIsCounted ==
  ASSUME NEW view, AreChans(view), IsFiniteSet(DOMAIN view), NEW known \in SUBSET Pays, NEW opening
  PROVE  Flows!PeerLiquidity(view, opening, known)
         = Flows!PeerLiquidity([k \in DOMAIN view |-> Flows!Cleared(view[k], known)], opening, {})
<1>. DEFINE D == DOMAIN view
            after == [k \in D |-> Flows!Cleared(view[k], known)]
<1>1. \A k \in D : IsChan(view[k])
  BY DEF AreChans
<1>2. /\ DOMAIN after = D
      /\ \A k \in D : after[k] = Flows!Cleared(view[k], known)
  OBVIOUS
<1>3. ASSUME NEW k \in D
      PROVE  /\ IsChan(after[k])
             /\ after[k].local + Flows!Incoming(after[k], {}) = view[k].local + Flows!Incoming(view[k], known)
             /\ after[k].remote + Flows!Outgoing(after[k], {}) = view[k].remote + Flows!Outgoing(view[k], known)
             /\ Flows!Outgoing(after[k], Pays \ {}) = Flows!Outgoing(view[k], Pays \ known)
             /\ Flows!Incoming(after[k], Pays \ {}) = Flows!Incoming(view[k], Pays \ known)
  <2>1. IsChan(view[k])
    BY <1>1
  <2>2. /\ Flows!Outgoing(view[k], known) \in Nat /\ Flows!Incoming(view[k], known) \in Nat
        /\ view[k].local \in Nat /\ view[k].remote \in Nat
    BY <2>1, PaymentsCount DEF IsChan
  <2>. HIDE DEF after
  <2>3. /\ IsChan(after[k])
        /\ after[k].local = view[k].local + Flows!Incoming(view[k], known)
        /\ after[k].remote = view[k].remote + Flows!Outgoing(view[k], known)
        /\ Flows!Outgoing(after[k], {}) = 0 /\ Flows!Incoming(after[k], {}) = 0
        /\ Flows!Outgoing(after[k], Pays \ {}) = Flows!Outgoing(view[k], Pays \ known)
        /\ Flows!Incoming(after[k], Pays \ {}) = Flows!Incoming(view[k], Pays \ known)
    BY <1>2, <2>1, ClearedFacts
  <2>. QED
    BY <2>2, <2>3
<1>4. after = [k \in DOMAIN after |-> after[k]]
  OBVIOUS
<1>. HIDE DEF after
<1>5. AreChans(after) /\ IsFiniteSet(DOMAIN after)
  BY <1>2, <1>3, <1>4 DEF AreChans
<1>6. Flows!Inbound(view, known) = Flows!Inbound(after, {})
  <2>. DEFINE v == [k \in DOMAIN view |-> view[k].remote + Flows!Outgoing(view[k], known)]
              w == [k \in DOMAIN after |-> after[k].remote + Flows!Outgoing(after[k], {})]
  <2>1. v = w
    BY <1>2, <1>3
  <2>2. Flows!Inbound(view, known) = SumOf(v)
    BY InboundSum
  <2>3. Flows!Inbound(after, {}) = SumOf(w)
    BY <1>5, InboundSum
  <2>. HIDE DEF v, w
  <2>. QED
    BY <2>1, <2>2, <2>3
<1>7. Flows!Outbound(view, known) = Flows!Outbound(after, {})
  <2>. DEFINE v == [k \in DOMAIN view |-> view[k].local + Flows!Incoming(view[k], known)]
              w == [k \in DOMAIN after |-> after[k].local + Flows!Incoming(after[k], {})]
  <2>1. v = w
    BY <1>2, <1>3
  <2>2. Flows!Outbound(view, known) = SumOf(v)
    BY OutboundSum
  <2>3. Flows!Outbound(after, {}) = SumOf(w)
    BY <1>5, OutboundSum
  <2>. HIDE DEF v, w
  <2>. QED
    BY <2>1, <2>2, <2>3
<1>8. Flows!InboundPending(view, known) = Flows!InboundPending(after, {})
  <2>. DEFINE v == [k \in DOMAIN view |-> Flows!Outgoing(view[k], Pays \ known)]
              w == [k \in DOMAIN after |-> Flows!Outgoing(after[k], Pays \ {})]
  <2>1. v = w
    BY <1>2, <1>3
  <2>2. Flows!InboundPending(view, known) = SumOf(v)
    BY InboundPendingSum
  <2>3. Flows!InboundPending(after, {}) = SumOf(w)
    BY <1>5, InboundPendingSum
  <2>. HIDE DEF v, w
  <2>. QED
    BY <2>1, <2>2, <2>3
<1>9. Flows!OutboundPending(view, known) = Flows!OutboundPending(after, {})
  <2>. DEFINE v == [k \in DOMAIN view |-> Flows!Incoming(view[k], Pays \ known)]
              w == [k \in DOMAIN after |-> Flows!Incoming(after[k], Pays \ {})]
  <2>1. v = w
    BY <1>2, <1>3
  <2>2. Flows!OutboundPending(view, known) = SumOf(v)
    BY OutboundPendingSum
  <2>3. Flows!OutboundPending(after, {}) = SumOf(w)
    BY <1>5, OutboundPendingSum
  <2>. HIDE DEF v, w
  <2>. QED
    BY <2>1, <2>2, <2>3
<1>. QED
  BY <1>6, <1>7, <1>8, <1>9 DEF Flows!PeerLiquidity, after

-----------------------------------------------------------------------------
(* The channels of getLiquidity                                              *)

NewRate(policies, p, i, known) ==
  IF policies[i].peer = p THEN Flows!LowerRate(known, policies[i].rate) ELSE known

IsPolicies(policies) ==
  \E n \in Nat : /\ DOMAIN policies = 1..n
                 /\ \A i \in 1..n : policies[i].rate \in Nat \cup {NoRate}

IsRateFold(f, policies, p) ==
  /\ Flows!InboundFeeRate(policies, p) = f[DOMAIN policies]
  /\ \A s \in SUBSET DOMAIN policies :
       f[s] = IF s = {} THEN NoRate
              ELSE NewRate(policies, p, AnyOf(s), f[s \ {AnyOf(s)}])

LEMMA PlacesAreFinite ==
  ASSUME NEW policies, IsPolicies(policies)
  PROVE  IsFiniteSet(DOMAIN policies)
<1>1. PICK n \in Nat : DOMAIN policies = 1..n
  BY DEF IsPolicies
<1>2. 1 \in Int /\ n \in Int
  OBVIOUS
<1>3. IsFiniteSet(1..n)
  BY <1>2, FS_Interval
<1>. QED
  BY <1>1, <1>3

LEMMA RateFolds ==
  ASSUME NEW policies, IsPolicies(policies), NEW p
  PROVE  \E f : IsRateFold(f, policies, p)
<1>. DEFINE D == DOMAIN policies
            A == Nat \cup {NoRate}
            step == [y \in D \X A |-> NewRate(policies, p, y[1], y[2])]
            Goes(f) == f = [s \in SUBSET D |->
                              IF s = {} THEN NoRate
                              ELSE NewRate(policies, p, AnyOf(s), f[s \ {AnyOf(s)}])]
            g == CHOOSE f : Goes(f)
<1>1. IsFiniteSet(D)
  BY PlacesAreFinite
<1>2. ASSUME NEW i \in D, NEW known \in A PROVE NewRate(policies, p, i, known) \in A
  <2>1. policies[i].rate \in A
    BY DEF IsPolicies
  <2>. QED
    BY <2>1 DEF NewRate, Flows!LowerRate
<1>. HIDE DEF D
<1>3. step \in [D \X A -> A] /\ \A i \in D, known \in A :
        step[<<i, known>>] = NewRate(policies, p, i, known)
  BY <1>2
<1>4. NoRate \in A
  OBVIOUS
<1>. HIDE DEF step, A
<1>5. PICK f \in [SUBSET D -> A] : Folds(f, D, NoRate, step)
  BY <1>1, <1>3, <1>4, FoldExists
<1>6. Goes(f)
  <2>1. ASSUME NEW s \in SUBSET D
        PROVE  f[s] = IF s = {} THEN NoRate
                      ELSE NewRate(policies, p, AnyOf(s), f[s \ {AnyOf(s)}])
    <3>1. f[s] = IF s = {} THEN NoRate ELSE step[<<AnyOf(s), f[s \ {AnyOf(s)}]>>]
      BY <1>5 DEF Folds
    <3>2. s # {} => AnyOf(s) \in D /\ f[s \ {AnyOf(s)}] \in A
      BY <1>5 DEF AnyOf
    <3>. QED
      BY <1>3, <3>1, <3>2
  <2>. QED
    BY <1>5, <2>1
<1>7. Goes(g)
  <2>. HIDE DEF Goes
  <2>. QED
    BY <1>6
<1>8. Flows!InboundFeeRate(policies, p) = g[D]
  BY DEF Flows!InboundFeeRate, Flows!FoldFunction, Flows!FoldFunctionOnSet,
         Flows!MapThenFoldSet, AnyOf, NewRate, D
<1>. HIDE DEF g
<1>9. \A s \in SUBSET D :
        g[s] = IF s = {} THEN NoRate
               ELSE NewRate(policies, p, AnyOf(s), g[s \ {AnyOf(s)}])
  BY <1>7
<1>. QED
  BY <1>8, <1>9 DEF D, IsRateFold

\* The rate of a peer is one that it asks for over a channel; and it is the least
\* of them if all are known and none is zero
LEMMA RateIsAsked ==
  ASSUME NEW policies, IsPolicies(policies), NEW p
  PROVE  LET known == Flows!InboundFeeRate(policies, p)
             ofPeer == {i \in DOMAIN policies : policies[i].peer = p}
         IN  /\ known # NoRate => \E i \in ofPeer : policies[i].rate = known
             /\ (\A i \in ofPeer : policies[i].rate \notin {NoRate, 0}) =>
                  \A i \in ofPeer : known # NoRate /\ known # 0 /\ known <= policies[i].rate
<1>. DEFINE D == DOMAIN policies
            A == Nat \cup {NoRate}
            Of(s) == {i \in s : policies[i].peer = p}
<1>1. PICK f : /\ Flows!InboundFeeRate(policies, p) = f[D]
               /\ \A s \in SUBSET D :
                     f[s] = IF s = {} THEN NoRate
                            ELSE NewRate(policies, p, AnyOf(s), f[s \ {AnyOf(s)}])
  <2>1. \E f : IsRateFold(f, policies, p)
    BY RateFolds
  <2>. QED
    BY <2>1, Zenon DEF IsRateFold
<1>2. \A i \in D : policies[i].rate \in Nat \cup {NoRate}
  BY DEF IsPolicies
<1>3. NoRate \notin Nat
  BY FlowsGiven DEF Flows!LiquidityAssumption
<1>4. IsFiniteSet(D)
  BY PlacesAreFinite
<1>. HIDE DEF D
<1>5. f[{}] = NoRate
  <2>. DEFINE e == {}
  <2>1. e \in SUBSET D /\ e = {}
    OBVIOUS
  <2>. HIDE DEF e
  <2>2. f[e] = NoRate
    BY <1>1, <2>1
  <2>. QED
    BY <2>1, <2>2
<1>6. ASSUME NEW s \in SUBSET D, s # {}
      PROVE  \E i \in s, t \in SUBSET D :
               /\ t = s \ {i}
               /\ f[s] = IF policies[i].peer = p THEN Flows!LowerRate(f[t], policies[i].rate) ELSE f[t]
               /\ i = AnyOf(s)
  <2>1. AnyOf(s) \in s
    BY <1>6 DEF AnyOf
  <2>2. f[s] = NewRate(policies, p, AnyOf(s), f[s \ {AnyOf(s)}])
    BY <1>1, <1>6
  <2>. QED
    BY <2>1, <2>2 DEF NewRate
<1>. DEFINE P == {s \in SUBSET D : /\ f[s] \in A
                                   /\ f[s] # NoRate => \E i \in s : policies[i].peer = p /\ policies[i].rate = f[s]}
<1>7. {} \in P
  BY <1>5
<1>8. ASSUME NEW s \in SUBSET D, s # {}, s \ {AnyOf(s)} \in P PROVE s \in P
  <2>1. PICK i \in s, t \in SUBSET D :
          /\ t = s \ {i}
          /\ f[s] = IF policies[i].peer = p THEN Flows!LowerRate(f[t], policies[i].rate) ELSE f[t]
          /\ i = AnyOf(s)
    BY <1>6, <1>8
  <2>2. /\ f[t] \in A
        /\ f[t] # NoRate => \E j \in t : policies[j].peer = p /\ policies[j].rate = f[t]
    BY <1>8, <2>1
  <2>3. f[s] = f[t] \/ (f[s] = policies[i].rate /\ policies[i].peer = p)
    BY <2>1 DEF Flows!LowerRate
  <2>4. policies[i].rate \in A
    BY <1>2
  <2>. QED
    BY <2>1, <2>2, <2>3, <2>4
<1>9. D \in P
  <2>. HIDE DEF P
  <2>1. SUBSET D \subseteq P
    BY <1>4, <1>7, <1>8, AllSubsets
  <2>. QED
    BY <2>1
<1>10. ASSUME \A i \in D : policies[i].peer = p => policies[i].rate \notin {NoRate, 0}
       PROVE  \A i \in D : policies[i].peer = p => f[D] # NoRate /\ f[D] # 0 /\ f[D] <= policies[i].rate
  <2>. DEFINE Q == {s \in SUBSET D :
                      /\ f[s] \in A /\ f[s] # 0
                      /\ \A i \in s : policies[i].peer = p => f[s] # NoRate /\ f[s] <= policies[i].rate}
  <2>1. {} \in Q
    BY <1>3, <1>5
  <2>2. ASSUME NEW s \in SUBSET D, s # {}, s \ {AnyOf(s)} \in Q PROVE s \in Q
    <3>1. PICK i \in s, t \in SUBSET D :
            /\ t = s \ {i}
            /\ f[s] = IF policies[i].peer = p THEN Flows!LowerRate(f[t], policies[i].rate) ELSE f[t]
            /\ i = AnyOf(s)
      BY <1>6, <2>2
    <3>2. /\ f[t] \in A /\ f[t] # 0
          /\ \A j \in t : policies[j].peer = p => f[t] # NoRate /\ f[t] <= policies[j].rate
      BY <2>2, <3>1
    <3>3. CASE policies[i].peer # p
      <4>1. f[s] = f[t]
        BY <3>1, <3>3
      <4>. QED
        BY <3>1, <3>2, <3>3, <4>1
    <3>4. CASE policies[i].peer = p
      <4>1. policies[i].rate \in Nat /\ policies[i].rate # 0 /\ policies[i].rate # NoRate
        BY <1>2, <1>10, <3>4
      <4>2. f[s] = IF f[t] # NoRate /\ policies[i].rate > f[t] THEN f[t] ELSE policies[i].rate
        BY <3>1, <3>2, <3>4, <4>1 DEF Flows!LowerRate
      <4>3. f[s] \in Nat /\ f[s] # 0 /\ f[s] <= policies[i].rate /\ f[s] # NoRate
        BY <1>3, <3>2, <4>1, <4>2
      <4>4. f[t] # NoRate => f[t] \in Nat /\ f[s] <= f[t]
        BY <3>2, <4>1, <4>2
      <4>5. ASSUME NEW j \in s, policies[j].peer = p PROVE f[s] <= policies[j].rate
        <5>1. CASE j = i
          BY <4>3, <5>1
        <5>2. CASE j # i
          <6>1. f[t] # NoRate /\ f[t] <= policies[j].rate
            BY <3>1, <3>2, <4>5, <5>2
          <6>2. policies[j].rate \in Nat
            BY <1>2, <1>10, <4>5
          <6>. QED
            BY <4>3, <4>4, <6>1, <6>2
        <5>. QED
          BY <5>1, <5>2
      <4>. QED
        BY <4>3, <4>5
    <3>. QED
      BY <3>3, <3>4
  <2>3. D \in Q
    <3>. HIDE DEF Q
    <3>1. SUBSET D \subseteq Q
      BY <1>4, <2>1, <2>2, AllSubsets
    <3>. QED
      BY <3>1
  <2>. QED
    BY <2>3
<1>. QED
  BY <1>1, <1>9, <1>10 DEF D

\* The part of the property about cheap channels, as it is answered
LEMMA CheapIsCounted ==
  ASSUME NEW policies, IsPolicies(policies), NEW p, NEW most \in Nat
  PROVE  LET ofPeer == {i \in DOMAIN policies : policies[i].peer = p}
             asks == {i \in ofPeer : policies[i].rate # NoRate /\ policies[i].rate <= most}
         IN  /\ Flows!IsCheap(policies, p, most) => asks # {}
             /\ asks # {} /\ (\A i \in ofPeer : policies[i].rate \notin {NoRate, 0}) =>
                  Flows!IsCheap(policies, p, most)
<1>. DEFINE ofPeer == {i \in DOMAIN policies : policies[i].peer = p}
            known == Flows!InboundFeeRate(policies, p)
<1>1. /\ known # NoRate => \E i \in ofPeer : policies[i].rate = known
      /\ (\A i \in ofPeer : policies[i].rate \notin {NoRate, 0}) =>
           \A i \in ofPeer : known # NoRate /\ known # 0 /\ known <= policies[i].rate
  BY RateIsAsked
<1>2. \A i \in ofPeer : policies[i].rate \in Nat \cup {NoRate}
  BY DEF IsPolicies
<1>3. Flows!IsCheap(policies, p, most) <=> known # NoRate /\ known # 0 /\ known <= most
  BY DEF Flows!IsCheap
<1>. HIDE DEF known, ofPeer
<1>4. ASSUME known # NoRate, known <= most
      PROVE  \E i \in ofPeer : policies[i].rate # NoRate /\ policies[i].rate <= most
  BY <1>1, <1>4
<1>5. ASSUME NEW i \in ofPeer, policies[i].rate # NoRate, policies[i].rate <= most,
             \A j \in ofPeer : policies[j].rate \notin {NoRate, 0}
      PROVE  known # NoRate /\ known # 0 /\ known <= most
  <2>1. known # NoRate /\ known # 0 /\ known <= policies[i].rate
    BY <1>1, <1>5
  <2>2. known \in Nat /\ policies[i].rate \in Nat
    BY <1>1, <1>2, <1>5, <2>1
  <2>. QED
    BY <1>5, <2>1, <2>2
<1>. QED
  BY <1>3, <1>4, <1>5 DEF ofPeer

-----------------------------------------------------------------------------
(* The top of a list of tokens                                               *)

\* The places of a list can be put in the order of what is there, by the number
\* of those that are not after it
LEMMA SortingExists ==
  ASSUME NEW n \in Nat, NEW tokens \in [1..n -> Nat]
  PROVE  \E place \in [1..n -> 1..n] :
           /\ \A i, j \in 1..n : i # j => place[i] # place[j]
           /\ \A i, j \in 1..n : i < j => tokens[place[i]] <= tokens[place[j]]
<1>. DEFINE N == 1..n
            Before(x, y) == tokens[x] < tokens[y] \/ (tokens[x] = tokens[y] /\ x <= y)
            Upto(x) == {y \in N : Before(y, x)}
            rank == [x \in N |-> Cardinality(Upto(x))]
<1>1. IsFiniteSet(N) /\ Cardinality(N) = n
  <2>1. 1 \in Int /\ n \in Int
    OBVIOUS
  <2>2. IsFiniteSet(1..n) /\ Cardinality(1..n) = IF 1 > n THEN 0 ELSE n - 1 + 1
    BY <2>1, FS_Interval
  <2>. QED
    BY <2>2
<1>2. \A x \in N : tokens[x] \in Nat /\ x \in Nat
  OBVIOUS
<1>. HIDE DEF N
<1>3. ASSUME NEW x \in N
      PROVE  IsFiniteSet(Upto(x)) /\ Cardinality(Upto(x)) \in 1..n
  <2>1. Upto(x) \in SUBSET N /\ x \in Upto(x)
    BY <1>2
  <2>. HIDE DEF Upto
  <2>2. IsFiniteSet(Upto(x)) /\ Cardinality(Upto(x)) <= n
    BY <1>1, <2>1, FS_Subset
  <2>3. Cardinality(Upto(x)) \in Nat
    BY <2>2, FS_CardinalityType
  <2>4. Cardinality(Upto(x)) # 0
    BY <2>1, <2>2, FS_EmptySet
  <2>. QED
    BY <2>2, <2>3, <2>4
<1>4. ASSUME NEW x \in N, NEW y \in N, x # y, Before(x, y)
      PROVE  Cardinality(Upto(x)) < Cardinality(Upto(y))
  <2>1. ASSUME NEW z \in N, Before(z, x) PROVE Before(z, y)
    BY <1>2, <1>4, <2>1
  <2>2. Upto(x) \in SUBSET Upto(y)
    <3>. HIDE DEF Before
    <3>. QED
      BY <2>1
  <2>3. y \in Upto(y) /\ y \notin Upto(x)
    BY <1>2, <1>4
  <2>4. /\ IsFiniteSet(Upto(x)) /\ Cardinality(Upto(x)) \in 1..n
        /\ IsFiniteSet(Upto(y)) /\ Cardinality(Upto(y)) \in 1..n
    BY <1>3
  <2>. HIDE DEF Upto
  <2>5. Cardinality(Upto(x)) <= Cardinality(Upto(y))
    BY <2>2, <2>4, FS_Subset
  <2>6. Cardinality(Upto(x)) # Cardinality(Upto(y))
    BY <2>2, <2>3, <2>4, FS_Subset
  <2>. QED
    BY <2>4, <2>5, <2>6
<1>5. \A x, y \in N : Before(x, y) \/ Before(y, x)
  BY <1>2
<1>6. \A x, y \in N : Before(x, y) => tokens[x] <= tokens[y]
  BY <1>2
<1>. HIDE DEF Before, Upto
<1>7. rank \in [N -> 1..n] /\ \A x \in N : rank[x] = Cardinality(Upto(x))
  BY <1>3
<1>. HIDE DEF rank
<1>8. ASSUME NEW x \in N, NEW y \in N, x # y, Before(x, y) PROVE rank[x] < rank[y]
  BY <1>4, <1>7, <1>8
<1>9. rank \in [N -> N]
  BY <1>7 DEF N
<1>10. ASSUME NEW x \in N, NEW y \in N, rank[x] = rank[y] PROVE x = y
  <2>. SUFFICES ASSUME x # y PROVE FALSE
    OBVIOUS
  <2>1. rank[x] \in Int /\ rank[y] \in Int
    BY <1>7
  <2>2. rank[x] < rank[y] \/ rank[y] < rank[x]
    BY <1>5, <1>8
  <2>. QED
    BY <1>10, <2>1, <2>2
<1>11. rank \in Injection(N, N)
  BY <1>9, <1>10 DEF Injection, IsInjective
<1>12. rank \in Surjection(N, N)
  BY <1>1, <1>11, FS_Injection
<1>. DEFINE place == [i \in N |-> CHOOSE x \in N : rank[x] = i]
<1>13. place \in [N -> N] /\ \A i \in N : rank[place[i]] = i
  BY <1>12 DEF Surjection
<1>. HIDE DEF place
<1>14. \A i, j \in N : i # j => place[i] # place[j]
  BY <1>13
<1>15. ASSUME NEW i \in N, NEW j \in N, i < j PROVE tokens[place[i]] <= tokens[place[j]]
  <2>1. place[i] \in N /\ place[j] \in N /\ rank[place[i]] = i /\ rank[place[j]] = j
    BY <1>13
  <2>2. i \in Int /\ j \in Int
    BY <1>2
  <2>3. place[i] # place[j]
    BY <1>15, <2>1, <2>2
  <2>4. ~Before(place[j], place[i])
    <3>1. Before(place[j], place[i]) => j < i
      BY <1>8, <2>1, <2>3
    <3>. QED
      BY <1>15, <2>2, <3>1
  <2>. QED
    BY <1>5, <1>6, <2>1, <2>4
<1>. QED
  BY <1>13, <1>14, <1>15 DEF N

LEMMA SortedFacts ==
  ASSUME NEW n \in Nat, NEW tokens \in [1..n -> Nat]
  PROVE  LET a == Flows!Sorted(tokens)
         IN  /\ a \in [1..n -> Nat]
             /\ \A i, j \in 1..n : i < j => a[i] <= a[j]
             /\ \A i \in 1..n : \E j \in 1..n : a[i] = tokens[j]
             /\ \A j \in 1..n : \E i \in 1..n : a[i] = tokens[j]
<1>. DEFINE D == DOMAIN tokens
            Orders(p) == \A i, j \in D : i < j => tokens[p[i]] <= tokens[p[j]]
            place == CHOOSE p \in Flows!Orders(D) : Orders(p)
            a == Flows!Sorted(tokens)
<1>1. IsFiniteSet(1..n) /\ Cardinality(1..n) = n
  <2>1. 1 \in Int /\ n \in Int
    OBVIOUS
  <2>2. IsFiniteSet(1..n) /\ Cardinality(1..n) = IF 1 > n THEN 0 ELSE n - 1 + 1
    BY <2>1, FS_Interval
  <2>. QED
    BY <2>2
<1>2. D = 1..n
  OBVIOUS
<1>3. Flows!Orders(D) = {f \in [1..n -> 1..n] : \A i, j \in 1..n : i # j => f[i] # f[j]}
  <2>1. Flows!Orders(D) = {f \in [1..n -> 1..n] : Flows!IsInjective(f)}
    BY <1>1, <1>2 DEF Flows!Orders, Flows!Injection, Flows!Cardinality, Cardinality
  <2>2. ASSUME NEW f \in [1..n -> 1..n]
        PROVE  Flows!IsInjective(f) <=> \A i, j \in 1..n : i # j => f[i] # f[j]
    BY DEF Flows!IsInjective
  <2>. QED
    BY <2>1, <2>2
<1>. HIDE DEF D
<1>4. \E p \in Flows!Orders(D) : Orders(p)
  BY <1>2, <1>3, SortingExists
<1>5. place \in Flows!Orders(D) /\ Orders(place)
  <2>. HIDE DEF Orders
  <2>. QED
    BY <1>4
<1>6. a = [i \in 1..n |-> tokens[place[i]]]
  BY <1>2 DEF Flows!Sorted, D
<1>. HIDE DEF place, a
<1>7. place \in [1..n -> 1..n] /\ \A i, j \in 1..n : i # j => place[i] # place[j]
  BY <1>3, <1>5
<1>8. a \in [1..n -> Nat] /\ \A i \in 1..n : a[i] = tokens[place[i]] /\ place[i] \in 1..n
  BY <1>6, <1>7
<1>9. \A i, j \in 1..n : i < j => a[i] <= a[j]
  BY <1>2, <1>5, <1>8
<1>10. \A j \in 1..n : \E i \in 1..n : place[i] = j
  <2>1. place \in Injection(1..n, 1..n)
    BY <1>7 DEF Injection, IsInjective
  <2>2. place \in Surjection(1..n, 1..n)
    BY <1>1, <2>1, FS_Injection
  <2>. QED
    BY <2>2 DEF Surjection
<1>11. ASSUME NEW j \in 1..n PROVE \E i \in 1..n : a[i] = tokens[j]
  <2>1. PICK i \in 1..n : place[i] = j
    BY <1>10
  <2>2. a[i] = tokens[j]
    BY <1>8, <2>1
  <2>. QED
    BY <2>2
<1>12. \A i \in 1..n : \E j \in 1..n : a[i] = tokens[j]
  BY <1>8
<1>. QED
  BY <1>8, <1>9, <1>11, <1>12 DEF a

\* Between two numbers, so many tenths of the way
LEMMA Between ==
  ASSUME NEW x \in Nat, NEW y \in Nat, x <= y, NEW part \in 0..9
  PROVE  (x * (10 - part) + y * part + 5) \div 10 \in x..y
<1>. DEFINE z == x * (10 - part) + y * part
<1>1. part \in {0, 1, 2, 3, 4, 5, 6, 7, 8, 9}
  OBVIOUS
<1>2. z \in Int /\ 10 * x <= z /\ z <= 10 * y
  BY <1>1
<1>. HIDE DEF z
<1>3. (z + 5) \div 10 \in x..y
  BY <1>2
<1>. QED
  BY <1>3 DEF z

LEMMA TopIsAmong ==
  ASSUME NEW n \in Nat, n # 0, NEW tokens \in [1..n -> Nat]
  PROVE  LET all == Flows!Range(tokens)
         IN  (Flows!Ninth(tokens) + 5) \div 10 \in Flows!Min(all)..Flows!Max(all)
<1>. DEFINE a == Flows!Sorted(tokens)
            start == 9 * (n - 1)
            below == (start \div 10) + 1
            part == start % 10
            all == Flows!Range(tokens)
            top == (Flows!Ninth(tokens) + 5) \div 10
<1>1. /\ a \in [1..n -> Nat]
      /\ \A i, j \in 1..n : i < j => a[i] <= a[j]
      /\ \A i \in 1..n : \E j \in 1..n : a[i] = tokens[j]
      /\ \A j \in 1..n : \E i \in 1..n : a[i] = tokens[j]
  BY SortedFacts
<1>. HIDE DEF a
<1>2. Len(a) = n /\ a # <<>>
  BY <1>1
<1>3. below \in 1..n /\ part \in 0..9 /\ (below = n \/ below + 1 \in 1..n)
  OBVIOUS
<1>4. Flows!Ninth(tokens) = IF below = n THEN a[below] * 10
                            ELSE a[below] * (10 - part) + a[below + 1] * part
  BY <1>2 DEF Flows!Ninth, a
<1>. HIDE DEF below, part
<1>5. \E x, y \in 1..n : x <= y /\ top \in a[x]..a[y]
  <2>1. CASE below = n
    <3>1. a[n] \in Nat /\ Flows!Ninth(tokens) = a[n] * 10
      BY <1>1, <1>4, <2>1
    <3>2. top = a[n]
      <4>1. \A x \in Nat : (x * 10 + 5) \div 10 = x
        OBVIOUS
      <4>2. top = (a[n] * 10 + 5) \div 10
        BY <3>1
      <4>. QED
        BY <3>1, <4>1, <4>2
    <3>. HIDE DEF top
    <3>. QED
      BY <3>1, <3>2
  <2>2. CASE below # n
    <3>1. below + 1 \in 1..n /\ below < below + 1
      BY <1>3, <2>2
    <3>2. a[below] \in Nat /\ a[below + 1] \in Nat /\ a[below] <= a[below + 1]
      BY <1>1, <1>3, <3>1
    <3>3. top = (a[below] * (10 - part) + a[below + 1] * part + 5) \div 10
      BY <1>4, <2>2
    <3>4. top \in a[below]..a[below + 1]
      BY <1>3, <3>2, <3>3, Between
    <3>. HIDE DEF top
    <3>5. below <= below + 1
      BY <1>3
    <3>. QED
      BY <1>3, <3>1, <3>4, <3>5
  <2>. QED
    BY <2>1, <2>2
<1>6. /\ \A x \in all : \E i \in 1..n : x = a[i]
      /\ \A i \in 1..n : a[i] \in all
  <2>1. all = {tokens[j] : j \in 1..n}
    BY DEF Flows!Range
  <2>. HIDE DEF all
  <2>. QED
    BY <1>1, <2>1
<1>. HIDE DEF all, top
<1>7. 1 \in 1..n /\ n \in 1..n
  OBVIOUS
<1>8. \A i \in 1..n : a[1] <= a[i] /\ a[i] <= a[n] /\ a[i] \in Nat
  <2>1. ASSUME NEW i \in 1..n PROVE a[1] <= a[i] /\ a[i] <= a[n] /\ a[i] \in Nat
    <3>1. a[1] \in Nat /\ a[i] \in Nat /\ a[n] \in Nat
      BY <1>1, <1>7
    <3>2. (i = 1 \/ 1 < i) /\ (i = n \/ i < n)
      OBVIOUS
    <3>3. a[1] <= a[i]
      <4>1. CASE i = 1
        BY <3>1, <4>1
      <4>2. CASE 1 < i
        BY <1>1, <1>7, <4>2
      <4>. QED
        BY <3>2, <4>1, <4>2
    <3>4. a[i] <= a[n]
      <4>1. CASE i = n
        BY <3>1, <4>1
      <4>2. CASE i < n
        BY <1>1, <1>7, <4>2
      <4>. QED
        BY <3>2, <4>1, <4>2
    <3>. QED
      BY <3>1, <3>3, <3>4
  <2>. QED
    BY <2>1
<1>9. Flows!Min(all) = a[1]
  <2>1. a[1] \in all /\ \A x \in all : a[1] <= x
    BY <1>6, <1>7, <1>8
  <2>2. Flows!Min(all) \in all /\ \A x \in all : Flows!Min(all) <= x
    BY <2>1 DEF Flows!Min
  <2>3. all \subseteq Nat
    BY <1>6, <1>8
  <2>4. Flows!Min(all) \in Nat /\ a[1] \in Nat /\ a[1] <= Flows!Min(all) /\ Flows!Min(all) <= a[1]
    BY <2>1, <2>2, <2>3
  <2>. QED
    BY <2>4
<1>10. Flows!Max(all) = a[n]
  <2>1. a[n] \in all /\ \A x \in all : a[n] >= x
    BY <1>6, <1>7, <1>8
  <2>2. Flows!Max(all) \in all /\ \A x \in all : Flows!Max(all) >= x
    BY <2>1 DEF Flows!Max
  <2>3. all \subseteq Nat
    BY <1>6, <1>8
  <2>4. Flows!Max(all) \in Nat /\ a[n] \in Nat /\ a[n] >= Flows!Max(all) /\ Flows!Max(all) >= a[n]
    BY <2>1, <2>2, <2>3
  <2>. QED
    BY <2>4
<1>11. top \in a[1]..a[n]
  <2>1. PICK x, y \in 1..n : x <= y /\ top \in a[x]..a[y]
    BY <1>5
  <2>2. a[1] <= a[x] /\ a[y] <= a[n] /\ a[x] \in Nat /\ a[y] \in Nat /\ a[1] \in Nat /\ a[n] \in Nat
    BY <1>7, <1>8
  <2>. QED
    BY <2>1, <2>2
<1>. QED
  BY <1>9, <1>10, <1>11 DEF top, all

-----------------------------------------------------------------------------
(* The inductive invariant of the liquidity                                  *)

PeerChannels(p, state) == {k \in Edges : PeerOf[k] = p /\ chans[k].at = state}

AskRecord ==
  [at : {"idle", "asked", "peer", "liquidity", "tokens"}, peer : {ask.peer}, known : {ask.known},
   left : {ask.left}, moved : {"nothing", "opening", "payment"}, outbound : {ask.outbound},
   most : {ask.most}, channels : {ask.channels}, opening : {ask.opening},
   policies : {ask.policies}, answer : {ask.answer}]

\* The open channels as they were listed: all, but for one that opened since
IsOpenView(view) ==
  /\ AreChans(view)
  /\ \/ DOMAIN view = PeerChannels(ask.peer, "open")
     \/ /\ ask.moved = "opening"
        /\ \E x \in PeerChannels(ask.peer, "open") :
             DOMAIN view = PeerChannels(ask.peer, "open") \ {x}

\* And the channels that open, perhaps with one that is open since
IsOpeningView(view) ==
  /\ AreChans(view)
  /\ \A k \in DOMAIN view : view[k].at = "opening"
  /\ \/ DOMAIN view = PeerChannels(ask.peer, "opening")
     \/ /\ ask.moved = "opening"
        /\ \E x \in PeerChannels(ask.peer, "open") :
             DOMAIN view = PeerChannels(ask.peer, "opening") \cup {x}

\* What getLiquidity has heard so far
ListedInv ==
  /\ ask.left \subseteq {"channels", "wallet", "node"}
  /\ ask.outbound \in BOOLEAN /\ ask.most \in Maximums \cup {NoRate}
  /\ ask.outbound => ask.most = NoRate
  /\ "channels" \notin ask.left => AreChans(ask.channels) /\ DOMAIN ask.channels \in SUBSET Edges
  /\ IsPolicies(ask.policies)

AskInv ==
  /\ ask \in AskRecord
  /\ ask.at \notin {"asked", "liquidity"} => ask.left = {}
  /\ ask.at = "liquidity" => ListedInv
  /\ ask.at = "asked" =>
       /\ ask.known \in SUBSET Pays
       /\ ask.left \subseteq {"open", "opening"}
       /\ "open" \notin ask.left => IsOpenView(ask.channels)
       /\ "opening" \notin ask.left => IsOpeningView(ask.opening)

ChansInv == chans = [k \in Edges |-> chans[k]] /\ \A k \in Edges : IsChan(chans[k])

FlowsHeld == ChansInv /\ AskInv /\ Flows!LiquidityInv

LEMMA EdgesAreFinite == \A S \in SUBSET Edges : IsFiniteSet(S)
<1>1. IsFiniteSet(Edges)
  BY FlowsGiven DEF Flows!LiquidityAssumption, Flows!IsFiniteSet, IsFiniteSet
<1>. QED
  BY <1>1, FS_Subset

\* Nothing is to be said of an answer that is not there
LEMMA NotAnswered ==
  ASSUME ask.at \notin {"peer", "tokens"}
  PROVE  Flows!LiquidityInv
BY DEF Flows!LiquidityInv, Flows!PeerIsCounted, Flows!CheapAreCounted, Flows!TopIsOfThem

\* A payment moves: no channel changes its state
LEMMA PaymentMoves ==
  ASSUME FlowsHeld, Flows!Meanwhile("payment"), ChansInv',
         \A k \in Edges : chans'[k].at = chans[k].at
  PROVE  FlowsHeld'
<1>1. ask \in AskRecord /\ ask.at \in {"idle", "asked", "liquidity"}
  BY DEF FlowsHeld, AskInv, Flows!Meanwhile
<1>2. \A p, state : PeerChannels(p, state)' = PeerChannels(p, state)
  BY DEF PeerChannels
<1>3. /\ ask' \in [at : {"idle", "asked", "peer", "liquidity", "tokens"}, peer : {ask.peer},
                   known : {ask.known}, left : {ask.left}, moved : {"nothing", "opening", "payment"},
                   outbound : {ask.outbound}, most : {ask.most}, channels : {ask.channels},
                   opening : {ask.opening}, policies : {ask.policies}, answer : {ask.answer}]
      /\ ask'.at = ask.at
      /\ ask.at = "asked" => ask.moved = "nothing"
  BY <1>1 DEF AskRecord, Flows!Meanwhile
<1>4. /\ ask'.peer = ask.peer /\ ask'.known = ask.known /\ ask'.left = ask.left
      /\ ask'.channels = ask.channels /\ ask'.opening = ask.opening /\ ask'.answer = ask.answer
      /\ ask'.outbound = ask.outbound /\ ask'.most = ask.most /\ ask'.policies = ask.policies
  BY <1>3
<1>5. (ask \in AskRecord)'
  BY <1>3, <1>4 DEF AskRecord
<1>6. ASSUME ask.at = "asked", IsOpenView(ask.channels)
      PROVE  IsOpenView(ask.channels)'
  BY <1>2, <1>3, <1>4, <1>6 DEF IsOpenView, AreChans, IsChan
<1>7. ASSUME ask.at = "asked", IsOpeningView(ask.opening)
      PROVE  IsOpeningView(ask.opening)'
  BY <1>2, <1>3, <1>4, <1>7 DEF IsOpeningView, AreChans, IsChan
<1>8. AskInv'
  <2>1. ASSUME ListedInv PROVE ListedInv'
    BY <1>4, <2>1 DEF ListedInv, AreChans, IsChan, IsPolicies
  <2>. QED
    BY <1>3, <1>4, <1>5, <1>6, <1>7, <2>1 DEF FlowsHeld, AskInv
<1>9. Flows!LiquidityInv'
  BY <1>1, <1>3 DEF Flows!LiquidityInv, Flows!PeerIsCounted, Flows!CheapAreCounted, Flows!TopIsOfThem
<1>. QED
  BY <1>8, <1>9 DEF FlowsHeld

LEMMA ChanFields ==
  ASSUME ChansInv, NEW k \in Edges
  PROVE  /\ chans[k] \in [at : {"opening", "open"}, local : Nat, remote : Nat, htlcs : SUBSET HtlcRecord]
         /\ IsFiniteSet(chans[k].htlcs)
         /\ chans[k].local + chans[k].remote + Cardinality(chans[k].htlcs) = Capacity
         /\ chans[k].at = "opening" => chans[k].htlcs = {}
         /\ Cardinality(chans[k].htlcs) \in Nat
BY FS_CardinalityType DEF ChansInv, IsChan

LEMMA ChanChanges ==
  ASSUME ChansInv, NEW k \in Edges, NEW new, IsChan(new), chans' = [chans EXCEPT ![k] = new]
  PROVE  ChansInv' /\ \A l \in Edges : chans'[l] = IF l = k THEN new ELSE chans[l]
<1>. DEFINE next == [chans EXCEPT ![k] = new]
<1>1. chans = [l \in Edges |-> chans[l]] /\ \A l \in Edges : IsChan(chans[l])
  BY DEF ChansInv
<1>2. next = [l \in Edges |-> next[l]] /\ \A l \in Edges : next[l] = IF l = k THEN new ELSE chans[l]
  BY <1>1
<1>. HIDE DEF next
<1>3. \A l \in Edges : IsChan(next[l])
  BY <1>1, <1>2
<1>4. chans' = next
  BY DEF next
<1>5. \A l \in Edges : IsChan(chans'[l])
  BY <1>3, <1>4
<1>. QED
  BY <1>2, <1>4, <1>5 DEF ChansInv

LEMMA PaymentIsOffered ==
  ASSUME FlowsHeld, NEW k \in Edges, NEW p \in Pays, NEW out \in BOOLEAN, Flows!Offer(k, p, out)
  PROVE  FlowsHeld'
<1>. DEFINE c == chans[k]
            h == [id |-> p, out |-> out]
            local == IF out THEN c.local - 1 ELSE c.local
            remote == IF out THEN c.remote ELSE c.remote - 1
            new == [c EXCEPT !.htlcs = c.htlcs \cup {h}, !.local = local, !.remote = remote]
<1>1. ChansInv
  BY DEF FlowsHeld
<1>2. /\ c \in [at : {"opening", "open"}, local : Nat, remote : Nat, htlcs : SUBSET HtlcRecord]
      /\ IsFiniteSet(c.htlcs) /\ Cardinality(c.htlcs) \in Nat
      /\ c.local + c.remote + Cardinality(c.htlcs) = Capacity
  BY <1>1, ChanFields
<1>3. /\ Flows!Meanwhile("payment") /\ c.at = "open"
      /\ \A g \in c.htlcs : g.id # p
      /\ IF out THEN c.local > 0 ELSE c.remote > 0
      /\ chans' = [chans EXCEPT ![k] = new]
  BY <1>1, <1>2 DEF Flows!Offer, ChansInv
<1>4. h \in HtlcRecord /\ h \notin c.htlcs
  BY <1>3 DEF HtlcRecord
<1>5. /\ local \in Nat /\ remote \in Nat /\ local + remote = c.local + c.remote - 1
  BY <1>2, <1>3
<1>6. /\ IsFiniteSet(c.htlcs \cup {h})
      /\ Cardinality(c.htlcs \cup {h}) = Cardinality(c.htlcs) + 1
  BY <1>2, <1>4, FS_AddElement
<1>7. c.htlcs \cup {h} \in SUBSET HtlcRecord
  BY <1>2, <1>4
<1>. DEFINE hs == c.htlcs \cup {h}
<1>. HIDE DEF local, remote, h, hs
<1>8. /\ new \in [at : {"opening", "open"}, local : Nat, remote : Nat, htlcs : SUBSET HtlcRecord]
      /\ new.at = c.at /\ new.local = local /\ new.remote = remote /\ new.htlcs = hs
  BY <1>2, <1>5, <1>7 DEF hs
<1>. HIDE DEF new
<1>9. IsChan(new)
  BY <1>2, <1>3, <1>5, <1>6, <1>8 DEF IsChan, hs
<1>10. ChansInv' /\ \A l \in Edges : chans'[l] = IF l = k THEN new ELSE chans[l]
  BY <1>1, <1>3, <1>9, ChanChanges
<1>. QED
  BY <1>3, <1>8, <1>10, PaymentMoves

LEMMA PaymentIsResolved ==
  ASSUME FlowsHeld, NEW k \in Edges, NEW h \in chans[k].htlcs, NEW settles \in BOOLEAN,
         Flows!Resolve(k, h, settles)
  PROVE  FlowsHeld'
<1>. DEFINE c == chans[k]
            local == IF h.out # settles THEN c.local + 1 ELSE c.local
            remote == IF h.out = settles THEN c.remote + 1 ELSE c.remote
            new == [c EXCEPT !.htlcs = c.htlcs \ {h}, !.local = local, !.remote = remote]
<1>1. ChansInv
  BY DEF FlowsHeld
<1>2. /\ c \in [at : {"opening", "open"}, local : Nat, remote : Nat, htlcs : SUBSET HtlcRecord]
      /\ IsFiniteSet(c.htlcs) /\ Cardinality(c.htlcs) \in Nat
      /\ c.local + c.remote + Cardinality(c.htlcs) = Capacity
      /\ c.at = "opening" => c.htlcs = {}
  BY <1>1, ChanFields
<1>3. Flows!Meanwhile("payment") /\ chans' = [chans EXCEPT ![k] = new]
  BY <1>1, <1>2 DEF Flows!Resolve, ChansInv
<1>5. /\ local \in Nat /\ remote \in Nat /\ local + remote = c.local + c.remote + 1
  BY <1>2
<1>6. /\ IsFiniteSet(c.htlcs \ {h})
      /\ Cardinality(c.htlcs \ {h}) = Cardinality(c.htlcs) - 1
  BY <1>2, FS_RemoveElement
<1>7. c.htlcs \ {h} \in SUBSET HtlcRecord
  BY <1>2
<1>. DEFINE hs == c.htlcs \ {h}
<1>. HIDE DEF local, remote, hs
<1>8. /\ new \in [at : {"opening", "open"}, local : Nat, remote : Nat, htlcs : SUBSET HtlcRecord]
      /\ new.at = c.at /\ new.local = local /\ new.remote = remote /\ new.htlcs = hs
  BY <1>2, <1>5, <1>7 DEF hs
<1>. HIDE DEF new
<1>9. IsChan(new)
  BY <1>2, <1>5, <1>6, <1>8 DEF IsChan, hs
<1>10. ChansInv' /\ \A l \in Edges : chans'[l] = IF l = k THEN new ELSE chans[l]
  BY <1>1, <1>3, <1>9, ChanChanges
<1>. QED
  BY <1>3, <1>8, <1>10, PaymentMoves

LEMMA ChannelIsOpened ==
  ASSUME FlowsHeld, NEW k \in Edges, Flows!ChannelOpens(k)
  PROVE  FlowsHeld'
<1>. DEFINE new == [chans[k] EXCEPT !.at = "open"]
            p == ask.peer
            opening == PeerChannels(p, "opening")
            there == PeerChannels(p, "open")
<1>1. ChansInv
  BY DEF FlowsHeld
<1>2. /\ chans[k].at = "opening" /\ Flows!Meanwhile("opening")
      /\ chans' = [chans EXCEPT ![k] = new]
  BY <1>1 DEF Flows!ChannelOpens, ChansInv
<1>3. IsChan(new) /\ new.at = "open"
  BY <1>1, ChanFields DEF IsChan
<1>. HIDE DEF new
<1>4. ChansInv' /\ \A l \in Edges : chans'[l] = IF l = k THEN new ELSE chans[l]
  BY <1>1, <1>2, <1>3, ChanChanges
<1>5. /\ {l \in Edges : PeerOf[l] = p /\ chans'[l].at = "open"}
         = IF PeerOf[k] = p THEN there \cup {k} ELSE there
      /\ {l \in Edges : PeerOf[l] = p /\ chans'[l].at = "opening"}
         = IF PeerOf[k] = p THEN opening \ {k} ELSE opening
      /\ PeerOf[k] = p => k \in opening /\ k \notin there
  BY <1>2, <1>3, <1>4 DEF PeerChannels
<1>6. ask \in AskRecord /\ ask.at \in {"idle", "asked", "liquidity"}
  BY <1>2 DEF FlowsHeld, AskInv, Flows!Meanwhile
<1>7. /\ ask' \in [at : {"idle", "asked", "peer", "liquidity", "tokens"}, peer : {ask.peer},
                   known : {ask.known}, left : {ask.left}, moved : {"nothing", "opening", "payment"},
                   outbound : {ask.outbound}, most : {ask.most}, channels : {ask.channels},
                   opening : {ask.opening}, policies : {ask.policies}, answer : {ask.answer}]
      /\ ask'.at = ask.at
      /\ ask.at = "asked" => ask.moved = "nothing" /\ ask'.moved = "opening"
  BY <1>2, <1>6 DEF AskRecord, Flows!Meanwhile
<1>8. /\ ask'.peer = ask.peer /\ ask'.known = ask.known /\ ask'.left = ask.left
      /\ ask'.channels = ask.channels /\ ask'.opening = ask.opening /\ ask'.answer = ask.answer
      /\ ask'.outbound = ask.outbound /\ ask'.most = ask.most /\ ask'.policies = ask.policies
  BY <1>7
<1>9. (ask \in AskRecord)'
  BY <1>7, <1>8 DEF AskRecord
<1>10. /\ PeerChannels(ask.peer, "open")' = IF PeerOf[k] = p THEN there \cup {k} ELSE there
       /\ PeerChannels(ask.peer, "opening")' = IF PeerOf[k] = p THEN opening \ {k} ELSE opening
  BY <1>5, <1>8 DEF PeerChannels
<1>. HIDE DEF opening, there
<1>11. ASSUME ask.at = "asked", IsOpenView(ask.channels)
       PROVE  IsOpenView(ask.channels)'
  <2>1. DOMAIN ask.channels = there /\ AreChans(ask.channels)
    BY <1>7, <1>11 DEF IsOpenView, there
  <2>2. AreChans(ask.channels)'
    BY <1>8, <2>1 DEF AreChans, IsChan
  <2>3. \/ DOMAIN ask'.channels = PeerChannels(ask.peer, "open")'
        \/ /\ k \in PeerChannels(ask.peer, "open")'
           /\ DOMAIN ask'.channels = PeerChannels(ask.peer, "open")' \ {k}
    <3>1. CASE PeerOf[k] = p
      <4>1. there = (there \cup {k}) \ {k}
        BY <1>5, <3>1
      <4>. QED
        BY <1>8, <1>10, <2>1, <3>1, <4>1
    <3>2. CASE PeerOf[k] # p
      BY <1>8, <1>10, <2>1, <3>2
    <3>. QED
      BY <3>1, <3>2
  <2>. QED
    BY <1>7, <1>11, <2>2, <2>3 DEF IsOpenView
<1>12. ASSUME ask.at = "asked", IsOpeningView(ask.opening)
       PROVE  IsOpeningView(ask.opening)'
  <2>1. /\ DOMAIN ask.opening = opening /\ AreChans(ask.opening)
        /\ \A l \in DOMAIN ask.opening : ask.opening[l].at = "opening"
    BY <1>7, <1>12 DEF IsOpeningView, opening
  <2>2. AreChans(ask.opening)'
    BY <1>8, <2>1 DEF AreChans, IsChan
  <2>3. \/ DOMAIN ask'.opening = PeerChannels(ask.peer, "opening")'
        \/ /\ k \in PeerChannels(ask.peer, "open")'
           /\ DOMAIN ask'.opening = PeerChannels(ask.peer, "opening")' \cup {k}
    <3>1. CASE PeerOf[k] = p
      <4>1. opening = (opening \ {k}) \cup {k}
        BY <1>5, <3>1
      <4>. QED
        BY <1>8, <1>10, <2>1, <3>1, <4>1
    <3>2. CASE PeerOf[k] # p
      BY <1>8, <1>10, <2>1, <3>2
    <3>. QED
      BY <3>1, <3>2
  <2>4. \A l \in DOMAIN ask'.opening : ask'.opening[l].at = "opening"
    BY <1>8, <2>1
  <2>. QED
    BY <1>7, <1>12, <2>2, <2>3, <2>4 DEF IsOpeningView
<1>13. AskInv'
  <2>1. ASSUME ListedInv PROVE ListedInv'
    BY <1>8, <2>1 DEF ListedInv, AreChans, IsChan, IsPolicies
  <2>. QED
    BY <1>7, <1>8, <1>9, <1>11, <1>12, <2>1 DEF FlowsHeld, AskInv
<1>14. Flows!LiquidityInv'
  BY <1>6, <1>7 DEF Flows!LiquidityInv, Flows!PeerIsCounted, Flows!CheapAreCounted, Flows!TopIsOfThem
<1>. QED
  BY <1>4, <1>13, <1>14 DEF FlowsHeld

\* A call that gives up, and one that begins
LEMMA AskIsOver ==
  ASSUME FlowsHeld, ask' = Flows!NoAsk, UNCHANGED chans
  PROVE  FlowsHeld'
<1>1. ChansInv'
  BY DEF FlowsHeld, ChansInv, IsChan
<1>2. AskInv'
  BY DEF AskInv, AskRecord, Flows!NoAsk
<1>3. Flows!LiquidityInv'
  BY DEF Flows!NoAsk, Flows!LiquidityInv, Flows!PeerIsCounted, Flows!CheapAreCounted, Flows!TopIsOfThem
<1>. QED
  BY <1>1, <1>2, <1>3 DEF FlowsHeld

LEMMA PeerIsAsked ==
  ASSUME FlowsHeld, Flows!GetPeerLiquidity
  PROVE  FlowsHeld'
<1>0. PICK p \in {PeerOf[k] : k \in Edges}, known \in {{}} \cup {{x} : x \in Pays} :
        ask' = [Flows!NoAsk EXCEPT !.at = "asked", !.peer = p, !.known = known,
                                   !.left = {"open", "opening"}]
  BY Zenon DEF Flows!GetPeerLiquidity
<1>1. /\ known \in SUBSET Pays
      /\ ask' = [Flows!NoAsk EXCEPT !.at = "asked", !.peer = p, !.known = known,
                                    !.left = {"open", "opening"}]
  BY <1>0
<1>2. UNCHANGED chans
  BY DEF Flows!GetPeerLiquidity
<1>3. ChansInv'
  BY <1>2 DEF FlowsHeld, ChansInv, IsChan
<1>4. /\ ask'.at = "asked" /\ ask'.known = known /\ ask'.left = {"open", "opening"}
      /\ ask'.moved = "nothing"
  BY <1>1 DEF Flows!NoAsk
<1>5. (ask \in AskRecord)'
  BY <1>1 DEF AskRecord, Flows!NoAsk
<1>6. AskInv'
  BY <1>4, <1>5 DEF AskInv
<1>7. Flows!LiquidityInv'
  BY <1>4 DEF Flows!LiquidityInv, Flows!PeerIsCounted, Flows!CheapAreCounted, Flows!TopIsOfThem
<1>. QED
  BY <1>3, <1>6, <1>7 DEF FlowsHeld

LEMMA ViewFacts ==
  ASSUME ChansInv, NEW p, NEW state
  PROVE  LET view == Flows!View(p, state)
         IN  /\ AreChans(view) /\ DOMAIN view = PeerChannels(p, state)
             /\ \A k \in DOMAIN view : view[k].at = state
<1>. DEFINE D == PeerChannels(p, state)
            view == [k \in D |-> chans[k]]
<1>1. Flows!View(p, state) = view
  BY DEF Flows!View, PeerChannels
<1>2. DOMAIN view = D /\ (\A k \in D : view[k] = chans[k]) /\ view = [k \in DOMAIN view |-> view[k]]
  OBVIOUS
<1>3. \A k \in D : IsChan(chans[k]) /\ chans[k].at = state
  BY DEF ChansInv, PeerChannels
<1>. HIDE DEF view, D
<1>4. AreChans(view)
  BY <1>2, <1>3 DEF AreChans
<1>. QED
  BY <1>1, <1>2, <1>3, <1>4 DEF D

LEMMA ChannelsAreListed ==
  ASSUME FlowsHeld, Flows!GetChannels
  PROVE  FlowsHeld'
<1>1. /\ "open" \in ask.left /\ UNCHANGED chans
      /\ ask' = [ask EXCEPT !.left = ask.left \ {"open"}, !.channels = Flows!View(ask.peer, "open")]
  BY DEF Flows!GetChannels, FlowsHeld, AskInv, AskRecord
<1>2. /\ ChansInv /\ ask \in AskRecord /\ ask.at = "asked" /\ ask.known \in SUBSET Pays
      /\ ask.left \subseteq {"open", "opening"}
      /\ "opening" \notin ask.left => IsOpeningView(ask.opening)
  BY <1>1 DEF FlowsHeld, AskInv, ListedInv
<1>3. ChansInv'
  BY <1>1, <1>2 DEF ChansInv, IsChan
<1>4. /\ ask'.at = "asked" /\ ask'.peer = ask.peer /\ ask'.known = ask.known
      /\ ask'.left = ask.left \ {"open"} /\ ask'.moved = ask.moved
      /\ ask'.channels = Flows!View(ask.peer, "open") /\ ask'.opening = ask.opening
  BY <1>1, <1>2 DEF AskRecord
<1>5. (ask \in AskRecord)'
  <2>. DEFINE left == ask.left \ {"open"}
              view == Flows!View(ask.peer, "open")
  <2>1. ask' = [ask EXCEPT !.left = left, !.channels = view]
    BY <1>1
  <2>2. ask'.left = left /\ ask'.channels = view
    BY <1>4
  <2>. HIDE DEF left, view
  <2>3. /\ ask'.at = ask.at /\ ask'.peer = ask.peer /\ ask'.known = ask.known
        /\ ask'.moved = ask.moved /\ ask'.opening = ask.opening /\ ask'.answer = ask.answer
        /\ ask'.outbound = ask.outbound /\ ask'.most = ask.most /\ ask'.policies = ask.policies
    BY <1>2, <2>1 DEF AskRecord
  <2>. QED
    BY <1>2, <2>1, <2>2, <2>3 DEF AskRecord
<1>6. \A p, state : PeerChannels(p, state)' = PeerChannels(p, state)
  BY <1>1 DEF PeerChannels
<1>7. IsOpenView(ask.channels)'
  <2>1. /\ AreChans(ask'.channels)
        /\ DOMAIN ask'.channels = PeerChannels(ask.peer, "open")
    BY <1>2, <1>4, ViewFacts
  <2>. QED
    BY <1>4, <1>6, <2>1 DEF IsOpenView, AreChans, IsChan
<1>8. ASSUME "opening" \notin ask.left PROVE IsOpeningView(ask.opening)'
  BY <1>2, <1>4, <1>6, <1>8 DEF IsOpeningView, AreChans, IsChan
<1>9. AskInv'
  BY <1>2, <1>4, <1>5, <1>7, <1>8 DEF AskInv
<1>10. Flows!LiquidityInv'
  BY <1>4 DEF Flows!LiquidityInv, Flows!PeerIsCounted, Flows!CheapAreCounted, Flows!TopIsOfThem
<1>. QED
  BY <1>3, <1>9, <1>10 DEF FlowsHeld

LEMMA OpeningIsListed ==
  ASSUME FlowsHeld, Flows!GetPendingChannels
  PROVE  FlowsHeld'
<1>1. /\ "opening" \in ask.left /\ UNCHANGED chans
      /\ ask' = [ask EXCEPT !.left = ask.left \ {"opening"}, !.opening = Flows!View(ask.peer, "opening")]
  BY DEF Flows!GetPendingChannels, FlowsHeld, AskInv, AskRecord
<1>2. /\ ChansInv /\ ask \in AskRecord /\ ask.at = "asked" /\ ask.known \in SUBSET Pays
      /\ ask.left \subseteq {"open", "opening"}
      /\ "open" \notin ask.left => IsOpenView(ask.channels)
  BY <1>1 DEF FlowsHeld, AskInv, ListedInv
<1>3. ChansInv'
  BY <1>1, <1>2 DEF ChansInv, IsChan
<1>4. /\ ask'.at = "asked" /\ ask'.peer = ask.peer /\ ask'.known = ask.known
      /\ ask'.left = ask.left \ {"opening"} /\ ask'.moved = ask.moved
      /\ ask'.opening = Flows!View(ask.peer, "opening") /\ ask'.channels = ask.channels
  BY <1>1, <1>2 DEF AskRecord
<1>5. (ask \in AskRecord)'
  <2>. DEFINE left == ask.left \ {"opening"}
              view == Flows!View(ask.peer, "opening")
  <2>1. ask' = [ask EXCEPT !.left = left, !.opening = view]
    BY <1>1
  <2>2. ask'.left = left /\ ask'.opening = view
    BY <1>4
  <2>. HIDE DEF left, view
  <2>3. /\ ask'.at = ask.at /\ ask'.peer = ask.peer /\ ask'.known = ask.known
        /\ ask'.moved = ask.moved /\ ask'.channels = ask.channels /\ ask'.answer = ask.answer
        /\ ask'.outbound = ask.outbound /\ ask'.most = ask.most /\ ask'.policies = ask.policies
    BY <1>2, <2>1 DEF AskRecord
  <2>. QED
    BY <1>2, <2>1, <2>2, <2>3 DEF AskRecord
<1>6. \A p, state : PeerChannels(p, state)' = PeerChannels(p, state)
  BY <1>1 DEF PeerChannels
<1>7. IsOpeningView(ask.opening)'
  <2>1. /\ AreChans(ask'.opening)
        /\ DOMAIN ask'.opening = PeerChannels(ask.peer, "opening")
        /\ \A k \in DOMAIN ask'.opening : ask'.opening[k].at = "opening"
    BY <1>2, <1>4, ViewFacts
  <2>. QED
    BY <1>4, <1>6, <2>1 DEF IsOpeningView, AreChans, IsChan
<1>8. ASSUME "open" \notin ask.left PROVE IsOpenView(ask.channels)'
  BY <1>2, <1>4, <1>6, <1>8 DEF IsOpenView, AreChans, IsChan
<1>9. AskInv'
  BY <1>2, <1>4, <1>5, <1>7, <1>8 DEF AskInv
<1>10. Flows!LiquidityInv'
  BY <1>4 DEF Flows!LiquidityInv, Flows!PeerIsCounted, Flows!CheapAreCounted, Flows!TopIsOfThem
<1>. QED
  BY <1>3, <1>9, <1>10 DEF FlowsHeld

\* What is listed of a peer's channels, of which at most one moved
LEMMA ListedCount ==
  ASSUME FlowsHeld, ask.at = "asked", ask.left = {}
  PROVE  LET a == Cardinality(DOMAIN ask.channels)
             b == Cardinality(DOMAIN ask.opening)
             n == Cardinality({k \in Edges : PeerOf[k] = ask.peer})
         IN  /\ a \in Nat /\ b \in Nat /\ n \in Nat
             /\ a + b = n \/ (ask.moved = "opening" /\ a + b \in {n - 1, n + 1})
<1>. DEFINE p == ask.peer
            there == PeerChannels(p, "open")
            opening == PeerChannels(p, "opening")
            all == {k \in Edges : PeerOf[k] = p}
            A == DOMAIN ask.channels
            B == DOMAIN ask.opening
<1>1. /\ ChansInv
      /\ A = there \/ (ask.moved = "opening" /\ \E x \in there : A = there \ {x})
      /\ B = opening \/ (ask.moved = "opening" /\ \E x \in there : B = opening \cup {x})
  BY DEF FlowsHeld, AskInv, IsOpenView, IsOpeningView
<1>2. /\ there \cup opening = all /\ there \cap opening = {}
      /\ there \in SUBSET Edges /\ opening \in SUBSET Edges /\ all \in SUBSET Edges
  <2>1. \A k \in Edges : chans[k].at \in {"opening", "open"}
    BY <1>1, ChanFields
  <2>. QED
    BY <2>1 DEF PeerChannels
<1>. HIDE DEF there, opening, all, A, B
<1>3. IsFiniteSet(there) /\ IsFiniteSet(opening) /\ IsFiniteSet(all)
  BY <1>2, EdgesAreFinite
<1>4. /\ Cardinality(there) \in Nat /\ Cardinality(opening) \in Nat
      /\ Cardinality(all) = Cardinality(there) + Cardinality(opening)
  <2>1. IsFiniteSet(there \cup opening)
    BY <1>2, <1>3
  <2>2. /\ Cardinality(there) \in Nat /\ Cardinality(opening) \in Nat
        /\ Cardinality(there \cup opening) = Cardinality(there) + Cardinality(opening)
    BY <1>2, <2>1, PartsCount
  <2>. QED
    BY <1>2, <2>2
<1>5. \/ Cardinality(A) = Cardinality(there)
      \/ ask.moved = "opening" /\ Cardinality(A) = Cardinality(there) - 1
  <2>1. ASSUME NEW x \in there PROVE Cardinality(there \ {x}) = Cardinality(there) - 1
    BY <1>3, FS_RemoveElement
  <2>. QED
    BY <1>1, <2>1
<1>6. \/ Cardinality(B) = Cardinality(opening)
      \/ ask.moved = "opening" /\ Cardinality(B) = Cardinality(opening) + 1
  <2>1. ASSUME NEW x \in there PROVE Cardinality(opening \cup {x}) = Cardinality(opening) + 1
    <3>1. x \notin opening
      BY <1>2
    <3>. QED
      BY <1>3, <3>1, FS_AddElement
  <2>. QED
    BY <1>1, <2>1
<1>7. Cardinality(A) \in Nat /\ Cardinality(B) \in Nat
  <2>1. A \in SUBSET Edges /\ B \in SUBSET Edges
    BY <1>1, <1>2
  <2>. QED
    BY <2>1, EdgesAreFinite, FS_CardinalityType
<1>8. \/ Cardinality(A) + Cardinality(B) = Cardinality(all)
      \/ /\ ask.moved = "opening"
         /\ Cardinality(A) + Cardinality(B) \in {Cardinality(all) - 1, Cardinality(all) + 1}
  BY <1>4, <1>5, <1>6
<1>9. Cardinality(all) \in Nat
  BY <1>4
<1>. QED
  BY <1>7, <1>8, <1>9 DEF A, B, all

LEMMA PeerIsAnswered ==
  ASSUME FlowsHeld, Flows!Answer
  PROVE  FlowsHeld'
<1>. DEFINE view == ask.channels
            opening == ask.opening
            known == ask.known
            r == Flows!PeerLiquidity(view, opening, known)
<1>1. /\ ask.at = "asked" /\ ask.left = {} /\ UNCHANGED chans
      /\ ask' = [ask EXCEPT !.at = "peer", !.answer = r]
  BY DEF Flows!Answer, FlowsHeld, AskInv, AskRecord
<1>2. /\ ChansInv /\ ask \in AskRecord /\ known \in SUBSET Pays
      /\ IsOpenView(view) /\ IsOpeningView(opening)
  BY <1>1 DEF FlowsHeld, AskInv
<1>3. ChansInv'
  BY <1>1, <1>2 DEF ChansInv, IsChan
<1>. HIDE DEF r
<1>4. /\ ask'.at = "peer" /\ ask'.peer = ask.peer /\ ask'.known = ask.known
      /\ ask'.left = {} /\ ask'.moved = ask.moved /\ ask'.answer = r
      /\ ask'.channels = ask.channels /\ ask'.opening = ask.opening
      /\ ask'.outbound = ask.outbound /\ ask'.most = ask.most /\ ask'.policies = ask.policies
  BY <1>1, <1>2 DEF AskRecord
<1>5. AskInv'
  <2>1. (ask \in AskRecord)'
    BY <1>1, <1>2, <1>4 DEF AskRecord
  <2>. QED
    BY <1>4, <2>1 DEF AskInv
<1>6. /\ AreChans(view) /\ AreChans(opening) /\ \A k \in DOMAIN opening : opening[k].at = "opening"
  BY <1>2 DEF IsOpenView, IsOpeningView
<1>7. DOMAIN view \in SUBSET Edges /\ DOMAIN opening \in SUBSET Edges
  BY <1>2 DEF IsOpenView, IsOpeningView, PeerChannels
<1>8. IsFiniteSet(DOMAIN view) /\ IsFiniteSet(DOMAIN opening)
  BY <1>7, EdgesAreFinite
<1>. DEFINE a == Cardinality(DOMAIN view)
            b == Cardinality(DOMAIN opening)
            n == Cardinality({k \in Edges : PeerOf[k] = ask.peer})
            sum == r.inbound + r.inbound_pending + r.inbound_opening
                   + r.outbound + r.outbound_pending + r.outbound_opening
            torn == IF ask.moved = "opening" THEN Capacity ELSE 0
<1>9. /\ r.inbound = Flows!Inbound(view, known)
      /\ r.inbound_pending = Flows!InboundPending(view, known)
      /\ r.outbound = Flows!Outbound(view, known)
      /\ r.outbound_pending = Flows!OutboundPending(view, known)
      /\ r.inbound_opening = Flows!Sum(opening, LAMBDA c : c.remote)
      /\ r.outbound_opening = Flows!Sum(opening, LAMBDA c : c.local)
  BY DEF r, Flows!PeerLiquidity
<1>10. /\ r.inbound \in Int /\ r.inbound_pending \in Int
       /\ r.outbound \in Int /\ r.outbound_pending \in Int
       /\ (r.inbound + r.inbound_pending) + (r.outbound + r.outbound_pending) = Capacity * a
  BY <1>2, <1>6, <1>8, <1>9, OpenIsCounted
<1>11. /\ r.inbound_opening \in Int /\ r.outbound_opening \in Int
       /\ r.inbound_opening + r.outbound_opening = Capacity * b
  BY <1>6, <1>8, <1>9, OpeningIsCounted
<1>12. /\ a \in Nat /\ b \in Nat /\ n \in Nat
       /\ a + b = n \/ (ask.moved = "opening" /\ a + b \in {n - 1, n + 1})
  BY <1>1, ListedCount
<1>13. Flows!Total(ask.peer) = Capacity * n
  BY DEF Flows!Total, Flows!Cardinality, Cardinality
<1>14. Capacity \in Nat
  BY FlowsGiven DEF Flows!LiquidityAssumption
<1>. HIDE DEF a, b, n
<1>15. sum = Capacity * a + Capacity * b
  <2>1. Capacity * a \in Int /\ Capacity * b \in Int
    BY <1>12, <1>14
  <2>. QED
    BY <1>10, <1>11, <2>1
<1>16. sum - Flows!Total(ask.peer) \in {-torn, 0, torn}
  <2>1. \A c, i, j \in Int : c * i + c * j = c * (i + j)
    OBVIOUS
  <2>2. sum = Capacity * (a + b)
    BY <1>12, <1>14, <1>15, <2>1
  <2>. HIDE DEF sum
  <2>3. CASE a + b = n
    <3>1. Capacity * n \in Int /\ sum = Capacity * n
      BY <1>12, <1>14, <2>2, <2>3
    <3>. QED
      BY <1>13, <3>1
  <2>4. CASE ask.moved = "opening" /\ a + b = n - 1
    <3>1. Capacity * n \in Int /\ Capacity * (n - 1) = Capacity * n - Capacity
      BY <1>12, <1>14
    <3>. QED
      BY <1>13, <1>14, <2>2, <2>4, <3>1
  <2>5. CASE ask.moved = "opening" /\ a + b = n + 1
    <3>1. Capacity * n \in Int /\ Capacity * (n + 1) = Capacity * n + Capacity
      BY <1>12, <1>14
    <3>. QED
      BY <1>13, <1>14, <2>2, <2>5, <3>1
  <2>. QED
    BY <1>12, <2>3, <2>4, <2>5
<1>17. r = Flows!PeerLiquidity([k \in DOMAIN view |-> Flows!Cleared(view[k], known)], opening, {})
  BY <1>2, <1>6, <1>8, ClearingIsCounted DEF r
<1>18. Flows!PeerIsCounted'
  BY <1>4, <1>16, <1>17 DEF Flows!PeerIsCounted
<1>19. Flows!LiquidityInv'
  BY <1>4, <1>18 DEF Flows!LiquidityInv, Flows!CheapAreCounted, Flows!TopIsOfThem
<1>. QED
  BY <1>3, <1>5, <1>19 DEF FlowsHeld

\* The tokens of the channels counted are a list of numbers
LEMMA TokensListed ==
  ASSUME NEW view, AreChans(view), DOMAIN view \in SUBSET Edges,
         NEW counted \in SUBSET DOMAIN view, NEW outbound \in BOOLEAN
  PROVE  \E n \in Nat : Flows!Tokens(view, counted, outbound) \in [1..n -> Nat]
<1>. DEFINE s == Flows!AnOrder(counted)
            t == Flows!Tokens(view, counted, outbound)
<1>1. IsFiniteSet(counted)
  <2>1. counted \in SUBSET Edges
    OBVIOUS
  <2>. QED
    BY <2>1, EdgesAreFinite
<1>2. s = Records!SetToSeq(counted)
  BY DEF Flows!AnOrder, Records!SetToSeq, Flows!IsInjective, Records!IsInjective,
         Flows!Cardinality, Records!Cardinality
<1>3. Lists(s, counted)
  BY <1>1, <1>2, SetListed
<1>4. t = [i \in DOMAIN s |-> IF outbound THEN view[s[i]].local ELSE view[s[i]].remote]
  BY DEF Flows!Tokens
<1>. HIDE DEF s, t
<1>5. Len(s) \in Nat /\ s \in [1..Len(s) -> DOMAIN view]
  BY <1>3 DEF Lists
<1>6. \A k \in DOMAIN view : view[k].local \in Nat /\ view[k].remote \in Nat
  BY DEF AreChans, IsChan
<1>7. t \in [1..Len(s) -> Nat]
  BY <1>4, <1>5, <1>6
<1>. QED
  BY <1>5, <1>7 DEF t

LEMMA LiquidityIsAsked ==
  ASSUME FlowsHeld, Flows!GetLiquidity
  PROVE  FlowsHeld'
<1>1. PICK with \in {{}} \cup {{PeerOf[k]} : k \in Edges}, outbound \in BOOLEAN,
           most \in Maximums \cup {NoRate} :
        /\ outbound => most = NoRate
        /\ ask' = [Flows!NoAsk EXCEPT !.at = "liquidity", !.peer = with, !.outbound = outbound,
                                      !.most = most, !.left = {"channels", "wallet"}]
  BY Zenon DEF Flows!GetLiquidity
<1>2. UNCHANGED chans
  BY DEF Flows!GetLiquidity
<1>3. ChansInv'
  BY <1>2 DEF FlowsHeld, ChansInv, IsChan
<1>4. /\ ask'.at = "liquidity" /\ ask'.left = {"channels", "wallet"} /\ ask'.moved = "nothing"
      /\ ask'.outbound = outbound /\ ask'.most = most /\ ask'.policies = <<>>
  BY <1>1 DEF Flows!NoAsk
<1>5. (ask \in AskRecord)'
  BY <1>1 DEF AskRecord, Flows!NoAsk
<1>6. IsPolicies(<<>>)
  BY DEF IsPolicies
<1>7. ListedInv'
  BY <1>1, <1>4, <1>6 DEF ListedInv, IsPolicies
<1>8. AskInv'
  BY <1>4, <1>5, <1>7 DEF AskInv
<1>9. Flows!LiquidityInv'
  BY <1>4 DEF Flows!LiquidityInv, Flows!PeerIsCounted, Flows!CheapAreCounted, Flows!TopIsOfThem
<1>. QED
  BY <1>3, <1>8, <1>9 DEF FlowsHeld

\* One of the questions of getLiquidity is answered
LEMMA LiquidityHears ==
  ASSUME FlowsHeld, ask.at = "liquidity", UNCHANGED chans,
         NEW left, left \subseteq {"channels", "wallet", "node"}, NEW view, NEW policies,
         ask' = [ask EXCEPT !.left = left, !.channels = view, !.policies = policies],
         "channels" \notin left => AreChans(view) /\ DOMAIN view \in SUBSET Edges,
         IsPolicies(policies)
  PROVE  FlowsHeld'
<1>1. ask \in AskRecord /\ ListedInv
  BY DEF FlowsHeld, AskInv
<1>2. /\ ask'.at = "liquidity" /\ ask'.left = left /\ ask'.channels = view
      /\ ask'.policies = policies /\ ask'.outbound = ask.outbound /\ ask'.most = ask.most
      /\ ask'.peer = ask.peer /\ ask'.known = ask.known /\ ask'.moved = ask.moved
      /\ ask'.opening = ask.opening /\ ask'.answer = ask.answer
  BY <1>1 DEF AskRecord
<1>3. (ask \in AskRecord)'
  BY <1>1, <1>2 DEF AskRecord
<1>4. ListedInv'
  BY <1>1, <1>2 DEF ListedInv, AreChans, IsChan, IsPolicies
<1>5. AskInv'
  BY <1>2, <1>3, <1>4 DEF AskInv
<1>6. ChansInv'
  BY DEF FlowsHeld, ChansInv, IsChan
<1>7. Flows!LiquidityInv'
  BY <1>2 DEF Flows!LiquidityInv, Flows!PeerIsCounted, Flows!CheapAreCounted, Flows!TopIsOfThem
<1>. QED
  BY <1>5, <1>6, <1>7 DEF FlowsHeld

LEMMA ActiveAreListed ==
  ASSUME FlowsHeld, Flows!GetActiveChannels
  PROVE  FlowsHeld'
<1>1. PICK off \in SUBSET Offline :
        ask' = [ask EXCEPT !.left = ask.left \ {"channels"},
                           !.channels = [k \in Flows!Open \ off |-> chans[k]]]
  BY DEF Flows!GetActiveChannels, FlowsHeld, AskInv, AskRecord
<1>2. "channels" \in ask.left /\ UNCHANGED chans
  BY DEF Flows!GetActiveChannels
<1>3. ChansInv /\ ask \in AskRecord /\ ask.at = "liquidity" /\ ListedInv
  BY <1>2 DEF FlowsHeld, AskInv
<1>. DEFINE D == Flows!Open \ off
            view == [k \in D |-> chans[k]]
            left == ask.left \ {"channels"}
<1>4. D \in SUBSET Edges
  BY DEF Flows!Open
<1>. HIDE DEF D
<1>5. AreChans(view) /\ DOMAIN view \in SUBSET Edges
  BY <1>3, <1>4 DEF AreChans, ChansInv
<1>. HIDE DEF view, left
<1>6. left \subseteq {"channels", "wallet", "node"} /\ IsPolicies(ask.policies)
  BY <1>3 DEF left, ListedInv
<1>7. ask' = [ask EXCEPT !.left = left, !.channels = view]
  BY <1>1 DEF left, view, D
<1>8. ask' = [ask EXCEPT !.left = left, !.channels = view, !.policies = ask.policies]
  BY <1>3, <1>7 DEF AskRecord
<1>. QED
  BY <1>2, <1>3, <1>5, <1>6, <1>8, LiquidityHears

LEMMA WalletIsAsked ==
  ASSUME FlowsHeld, Flows!GetWalletInfo
  PROVE  FlowsHeld'
<1>. DEFINE left == (ask.left \ {"wallet"}) \cup (IF ask.most = NoRate THEN {} ELSE {"node"})
<1>1. ask' = [ask EXCEPT !.left = left]
  BY DEF Flows!GetWalletInfo, FlowsHeld, AskInv, AskRecord
<1>2. "wallet" \in ask.left /\ UNCHANGED chans
  BY DEF Flows!GetWalletInfo
<1>3. ask \in AskRecord /\ ask.at = "liquidity" /\ ListedInv
  BY <1>2 DEF FlowsHeld, AskInv
<1>4. /\ left \subseteq {"channels", "wallet", "node"} /\ IsPolicies(ask.policies)
      /\ "channels" \notin left => AreChans(ask.channels) /\ DOMAIN ask.channels \in SUBSET Edges
  BY <1>3 DEF ListedInv
<1>. HIDE DEF left
<1>5. ask' = [ask EXCEPT !.left = left, !.channels = ask.channels, !.policies = ask.policies]
  BY <1>1, <1>3 DEF AskRecord
<1>. QED
  BY <1>2, <1>3, <1>4, <1>5, LiquidityHears

LEMMA GraphIsAsked ==
  ASSUME FlowsHeld, Flows!GetNode
  PROVE  FlowsHeld'
<1>1. PICK rate \in Asked : \E order \in Flows!Orders(Flows!Open \cap DOMAIN rate) :
        ask' = [ask EXCEPT !.left = ask.left \ {"node"},
                  !.policies = [i \in DOMAIN order |->
                                  [peer |-> PeerOf[order[i]], rate |-> rate[order[i]]]]]
  BY DEF Flows!GetNode, FlowsHeld, AskInv, AskRecord
<1>. DEFINE S == Flows!Open \cap DOMAIN rate
            n == Cardinality(S)
<1>2. PICK order \in Flows!Orders(S) :
        ask' = [ask EXCEPT !.left = ask.left \ {"node"},
                  !.policies = [i \in DOMAIN order |->
                                  [peer |-> PeerOf[order[i]], rate |-> rate[order[i]]]]]
  BY <1>1
<1>3. "node" \in ask.left /\ UNCHANGED chans
  BY DEF Flows!GetNode
<1>4. ask \in AskRecord /\ ask.at = "liquidity" /\ ListedInv
  BY <1>3 DEF FlowsHeld, AskInv
<1>5. n \in Nat
  <2>1. S \in SUBSET Edges
    BY DEF Flows!Open
  <2>. QED
    BY <2>1, EdgesAreFinite, FS_CardinalityType
<1>6. order \in [1..n -> S]
  BY DEF Flows!Orders, Flows!Injection, Flows!Cardinality, Cardinality
<1>7. rate \in [DOMAIN rate -> Nat \cup {NoRate}]
  BY FlowsGiven DEF Flows!LiquidityAssumption
<1>. DEFINE policies == [i \in DOMAIN order |-> [peer |-> PeerOf[order[i]], rate |-> rate[order[i]]]]
            left == ask.left \ {"node"}
<1>8. ASSUME NEW i \in 1..n PROVE rate[order[i]] \in Nat \cup {NoRate}
  <2>1. order[i] \in DOMAIN rate
    BY <1>6
  <2>. QED
    BY <1>7, <2>1
<1>. HIDE DEF n, S
<1>9. DOMAIN policies = 1..n /\ \A i \in 1..n : policies[i].rate \in Nat \cup {NoRate}
  BY <1>6, <1>8
<1>10. IsPolicies(policies)
  BY <1>5, <1>9, Zenon DEF IsPolicies
<1>. HIDE DEF policies, left
<1>11. /\ left \subseteq {"channels", "wallet", "node"}
       /\ "channels" \notin left => AreChans(ask.channels) /\ DOMAIN ask.channels \in SUBSET Edges
  BY <1>4 DEF ListedInv, left
<1>12. ask' = [ask EXCEPT !.left = left, !.policies = policies]
  BY <1>2 DEF left, policies
<1>13. ask' = [ask EXCEPT !.left = left, !.channels = ask.channels, !.policies = policies]
  BY <1>4, <1>12 DEF AskRecord
<1>. QED
  BY <1>3, <1>4, <1>10, <1>11, <1>13, LiquidityHears

LEMMA TokensAreAnswered ==
  ASSUME FlowsHeld, Flows!AnswerTokens
  PROVE  FlowsHeld'
<1>. DEFINE view == ask.channels
            policies == ask.policies
            most == ask.most
            with == ask.peer
            counted == Flows!Counted(view, policies, with, ask.outbound, most)
            tokens == Flows!Tokens(view, counted, ask.outbound)
            top == (Flows!Ninth(tokens) + 5) \div 10
<1>1. /\ ask.at = "liquidity" /\ ask.left = {} /\ UNCHANGED chans
      /\ ask' = [ask EXCEPT !.at = "tokens", !.known = counted,
                            !.answer = [tokens |-> tokens, top |-> top]]
  BY DEF Flows!AnswerTokens
<1>2. ChansInv /\ ask \in AskRecord /\ ListedInv
  BY <1>1 DEF FlowsHeld, AskInv
<1>3. /\ ask.outbound \in BOOLEAN /\ most \in Maximums \cup {NoRate}
      /\ ask.outbound => most = NoRate
      /\ AreChans(view) /\ DOMAIN view \in SUBSET Edges /\ IsPolicies(policies)
  BY <1>1, <1>2 DEF ListedInv
<1>4. counted \in SUBSET DOMAIN view
  BY DEF Flows!Counted
<1>5. \A k \in DOMAIN view :
        k \in counted <=>
          /\ with # {} => PeerOf[k] \in with
          /\ ask.outbound \/ most = NoRate \/ Flows!IsCheap(policies, PeerOf[k], most)
  BY DEF Flows!Counted
<1>6. PICK n \in Nat : tokens \in [1..n -> Nat]
  <2>. HIDE DEF counted
  <2>. QED
    BY <1>3, <1>4, TokensListed
<1>. HIDE DEF counted, tokens, top
<1>7. /\ ask'.at = "tokens" /\ ask'.known = counted /\ ask'.peer = with /\ ask'.left = {}
      /\ ask'.moved = ask.moved /\ ask'.most = most /\ ask'.outbound = ask.outbound
      /\ ask'.channels = view /\ ask'.opening = ask.opening /\ ask'.policies = policies
      /\ ask'.answer = [tokens |-> tokens, top |-> top]
  BY <1>1, <1>2 DEF AskRecord
<1>8. (ask \in AskRecord)'
  BY <1>1, <1>2, <1>7 DEF AskRecord
<1>9. AskInv'
  BY <1>7, <1>8 DEF AskInv
<1>10. ChansInv'
  BY <1>1, <1>2 DEF ChansInv, IsChan
<1>11. ASSUME NEW k \in DOMAIN view, most # NoRate, with # {} => PeerOf[k] \in with
       PROVE  LET ofPeer == {i \in DOMAIN policies : policies[i].peer = PeerOf[k]}
                  asks == {i \in ofPeer : policies[i].rate # NoRate /\ policies[i].rate <= most}
              IN  /\ k \in counted => asks # {}
                  /\ asks # {} /\ (\A i \in ofPeer : policies[i].rate \notin {NoRate, 0})
                       => k \in counted
  <2>. DEFINE ofPeer == {i \in DOMAIN policies : policies[i].peer = PeerOf[k]}
              asks == {i \in ofPeer : policies[i].rate # NoRate /\ policies[i].rate <= most}
  <2>1. most \in Nat /\ ~ask.outbound
    BY <1>3, <1>11, FlowsGiven DEF Flows!LiquidityAssumption
  <2>2. /\ Flows!IsCheap(policies, PeerOf[k], most) => asks # {}
        /\ asks # {} /\ (\A i \in ofPeer : policies[i].rate \notin {NoRate, 0}) =>
             Flows!IsCheap(policies, PeerOf[k], most)
    BY <1>3, <2>1, CheapIsCounted
  <2>3. k \in counted <=> Flows!IsCheap(policies, PeerOf[k], most)
    BY <1>5, <1>11, <2>1
  <2>. QED
    BY <2>2, <2>3
<1>12. Flows!CheapAreCounted'
  BY <1>7, <1>11 DEF Flows!CheapAreCounted
<1>13. tokens # <<>> => top \in Flows!Min(Flows!Range(tokens))..Flows!Max(Flows!Range(tokens))
  <2>1. n = 0 => tokens = <<>>
    BY <1>6
  <2>. QED
    BY <1>6, <2>1, TopIsAmong DEF top
<1>14. Flows!TopIsOfThem'
  BY <1>7, <1>13 DEF Flows!TopIsOfThem
<1>15. Flows!PeerIsCounted'
  BY <1>7 DEF Flows!PeerIsCounted
<1>. QED
  BY <1>9, <1>10, <1>12, <1>14, <1>15 DEF FlowsHeld, Flows!LiquidityInv

LEMMA FlowsInit ==
  ASSUME MCInit
  PROVE  FlowsHeld
<1>1. /\ chans = [k \in Edges |-> [at |-> "opening", local |-> Capacity, remote |-> 0, htlcs |-> {}]]
      /\ ask = Flows!NoAsk
  BY DEF MCInit, Flows!Init, Flows!NotCalled
<1>2. Capacity \in Nat
  BY FlowsGiven DEF Flows!LiquidityAssumption
<1>3. IsFiniteSet({}) /\ Cardinality({}) = 0
  BY FS_EmptySet
<1>. DEFINE new == [at |-> "opening", local |-> Capacity, remote |-> 0, htlcs |-> {}]
<1>4. ChansInv
  <2>1. /\ new \in [at : {"opening", "open"}, local : Nat, remote : Nat, htlcs : SUBSET HtlcRecord]
        /\ new.at = "opening" /\ new.local = Capacity /\ new.remote = 0 /\ new.htlcs = {}
    BY <1>2
  <2>. HIDE DEF new
  <2>2. IsChan(new)
    BY <1>2, <1>3, <2>1 DEF IsChan
  <2>3. chans = [k \in Edges |-> new]
    BY <1>1 DEF new
  <2>. QED
    BY <2>2, <2>3 DEF ChansInv
<1>5. AskInv
  BY <1>1 DEF AskInv, AskRecord, Flows!NoAsk
<1>6. Flows!LiquidityInv
  BY <1>1, NotAnswered DEF Flows!NoAsk
<1>. QED
  BY <1>4, <1>5, <1>6 DEF FlowsHeld

LEMMA FlowsStep ==
  ASSUME FlowsHeld, [MCNext]_mcvars
  PROVE  FlowsHeld'
<1>1. CASE UNCHANGED flows
  <2>1. chans' = chans /\ ask' = ask
    BY <1>1 DEF flows
  <2>2. ChansInv'
    BY <2>1 DEF FlowsHeld, ChansInv, IsChan
  <2>3. (ask \in AskRecord)'
    BY <2>1 DEF FlowsHeld, AskInv, AskRecord
  <2>4. /\ IsOpenView(ask.channels) => IsOpenView(ask.channels)'
        /\ IsOpeningView(ask.opening) => IsOpeningView(ask.opening)'
    BY <2>1 DEF IsOpenView, IsOpeningView, AreChans, IsChan, PeerChannels
  <2>5. AskInv'
    <3>1. ListedInv => ListedInv'
      BY <2>1 DEF ListedInv, AreChans, IsChan, IsPolicies
    <3>. QED
      BY <2>1, <2>3, <2>4, <3>1 DEF FlowsHeld, AskInv
  <2>6. Flows!LiquidityInv'
    BY <2>1 DEF FlowsHeld, Flows!LiquidityInv, Flows!PeerIsCounted, Flows!CheapAreCounted,
       Flows!TopIsOfThem
  <2>. QED
    BY <2>2, <2>5, <2>6 DEF FlowsHeld
<1>2. CASE Flows!Next
  <2>1. CASE \E k \in Edges : Flows!ChannelOpens(k)
    BY <2>1, ChannelIsOpened
  <2>2. CASE \E k \in Edges : \E p \in Pays, out \in BOOLEAN : Flows!Offer(k, p, out)
    BY <2>2, PaymentIsOffered
  <2>3. CASE \E k \in Edges : \E h \in chans[k].htlcs, settles \in BOOLEAN : Flows!Resolve(k, h, settles)
    BY <2>3, PaymentIsResolved
  <2>4. CASE Flows!CallFails
    BY <2>4, AskIsOver DEF Flows!CallFails
  <2>. QED
    BY <1>2, <2>1, <2>2, <2>3, <2>4, PeerIsAsked, ChannelsAreListed, OpeningIsListed, PeerIsAnswered,
       LiquidityIsAsked, ActiveAreListed, WalletIsAsked, GraphIsAsked, TokensAreAnswered DEF Flows!Next
<1>. QED
  BY <1>1, <1>2 DEF MCNext, mcvars

\* What getPeerLiquidity answers comes to all that the channels of the peer have,
\* but for one that opens between its two questions. Of getLiquidity's three answers
\* it counts no channel whose peer asks for more than the maximum over each channel
\* that the graph has, though channels open and payments move between them; however
\* many there are, whatever rates are asked for and in whatever order
THEOREM LiquidityHolds == MCSpec => []Flows!LiquidityInv
<1>1. MCInit => FlowsHeld
  BY FlowsInit
<1>2. FlowsHeld /\ [MCNext]_mcvars => FlowsHeld'
  BY FlowsStep
<1>3. FlowsHeld => Flows!LiquidityInv
  BY DEF FlowsHeld
<1>. QED
  BY <1>1, <1>2, <1>3, PTL DEF MCSpec

-----------------------------------------------------------------------------
(* The tokens of sets of coins                                               *)

\* A sum may be taken apart at any of its elements
ComesApart(f, v, S) ==
  \A s \in SUBSET S : f[s] \in Int /\ \A x \in s : f[s] = v[x] + f[s \ {x}]

LEMMA AnyOrder ==
  ASSUME NEW S, IsFiniteSet(S), NEW v \in [S -> Int], NEW f, Adds(f, v, S)
  PROVE  ComesApart(f, v, S)
<1>. DEFINE Apart(s) == f[s] \in Int /\ \A x \in s : f[s] = v[x] + f[s \ {x}]
            N == {n \in Nat : \A s \in SUBSET S : Cardinality(s) <= n => Apart(s)}
<1>1. \A s \in SUBSET S : IsFiniteSet(s) /\ Cardinality(s) \in Nat
  BY FS_Subset, FS_CardinalityType
<1>2. 0 \in N
  <2>1. ASSUME NEW s \in SUBSET S, Cardinality(s) <= 0 PROVE Apart(s)
    <3>1. s = {}
      BY <1>1, <2>1, FS_EmptySet
    <3>. QED
      BY <3>1, AddsFacts
  <2>. QED
    BY <2>1
<1>3. ASSUME NEW n \in Nat, n \in N PROVE n + 1 \in N
  <2>1. ASSUME NEW s \in SUBSET S, Cardinality(s) <= n + 1, NEW x \in s
        PROVE  Cardinality(s \ {x}) <= n /\ s \ {x} \in SUBSET S /\ v[x] \in Int
    <3>1. Cardinality(s \ {x}) = Cardinality(s) - 1
      BY <1>1, FS_RemoveElement
    <3>. QED
      BY <1>1, <2>1, <3>1
  <2>2. \A s \in SUBSET S : Cardinality(s) <= n => Apart(s)
    BY <1>3
  <2>3. ASSUME NEW s \in SUBSET S, Cardinality(s) <= n + 1, s # {} PROVE Apart(s)
    <3>. DEFINE y == AnyOf(s)
    <3>1. y \in s /\ f[s] = v[y] + f[s \ {y}]
      BY <2>3, AddsFacts
    <3>. HIDE DEF y
    <3>2. v[y] \in Int /\ f[s \ {y}] \in Int
      BY <2>1, <2>2, <2>3, <3>1
    <3>3. ASSUME NEW x \in s, x # y PROVE f[s] = v[x] + f[s \ {x}]
      <4>. DEFINE t == (s \ {x}) \ {y}
      <4>1. (s \ {y}) \ {x} = t
        OBVIOUS
      <4>2. f[s \ {y}] = v[x] + f[t]
        <5>1. x \in s \ {y}
          BY <3>3
        <5>. QED
          BY <2>1, <2>2, <2>3, <3>1, <4>1, <5>1
      <4>3. f[s \ {x}] = v[y] + f[t]
        <5>1. y \in s \ {x}
          BY <3>1, <3>3
        <5>. QED
          BY <2>1, <2>2, <2>3, <5>1
      <4>4. v[x] \in Int /\ f[t] \in Int
        <5>1. t \in SUBSET S /\ Cardinality(t) <= n
          <6>1. /\ s \ {x} \in SUBSET S /\ IsFiniteSet(s \ {x}) /\ Cardinality(s \ {x}) <= n
                /\ Cardinality(s \ {x}) \in Nat /\ Cardinality(t) \in Nat
            BY <1>1, <2>1, <2>3
          <6>2. y \in s \ {x}
            BY <3>1, <3>3
          <6>3. Cardinality(t) = Cardinality(s \ {x}) - 1
            BY <6>1, <6>2, FS_RemoveElement
          <6>. QED
            BY <6>1, <6>3
        <5>. QED
          BY <2>2, <5>1
      <4>. HIDE DEF t
      <4>. QED
        BY <3>1, <3>2, <4>2, <4>3, <4>4
    <3>4. f[s] \in Int
      BY <3>1, <3>2
    <3>5. ASSUME NEW x \in s PROVE f[s] = v[x] + f[s \ {x}]
      BY <3>1, <3>3
    <3>. QED
      BY <3>4, <3>5
  <2>4. Apart({})
    BY AddsFacts
  <2>5. \A s \in SUBSET S : Cardinality(s) <= n + 1 => Apart(s)
    <3>. HIDE DEF Apart
    <3>. QED
      BY <2>3, <2>4
  <2>6. n + 1 \in Nat
    OBVIOUS
  <2>. QED
    BY <2>5, <2>6
<1>4. ASSUME NEW s \in SUBSET S PROVE Apart(s)
  <2>1. Cardinality(s) \in N
    <3>. HIDE DEF N
    <3>. QED
      BY <1>1, <1>2, <1>3, AllNumbers
  <2>. QED
    BY <1>1, <2>1
<1>. QED
  BY <1>4 DEF ComesApart

\* The sum of two sets that have nothing in common
LEMMA SetsAdd ==
  ASSUME NEW S, IsFiniteSet(S), NEW v \in [S -> Int], NEW f, Adds(f, v, S),
         NEW A \in SUBSET S, NEW B \in SUBSET S, A \cap B = {}
  PROVE  f[A \cup B] = f[A] + f[B]
<1>. DEFINE P == {s \in SUBSET B : f[A \cup s] = f[A] + f[s]}
<1>1. \A s \in SUBSET S : f[s] \in Int /\ \A x \in s : f[s] = v[x] + f[s \ {x}]
  <2>1. ComesApart(f, v, S)
    BY AnyOrder
  <2>. QED
    BY <2>1 DEF ComesApart
<1>2. {} \in P
  <2>1. A \cup {} = A /\ f[{}] = 0 /\ f[A] \in Int
    BY <1>1, AddsFacts
  <2>. QED
    BY <2>1
<1>3. ASSUME NEW s \in SUBSET B, s # {}, s \ {AnyOf(s)} \in P PROVE s \in P
  <2>. DEFINE x == AnyOf(s)
              t == s \ {x}
  <2>1. x \in s
    BY <1>3 DEF AnyOf
  <2>. HIDE DEF x
  <2>2. (A \cup s) \ {x} = A \cup t /\ x \in A \cup s /\ x \in S
    BY <2>1
  <2>3. s \in SUBSET S /\ t \in SUBSET S /\ A \cup s \in SUBSET S /\ A \cup t \in SUBSET S
    OBVIOUS
  <2>4. f[A \cup s] = v[x] + f[A \cup t] /\ f[s] = v[x] + f[t]
    BY <1>1, <2>1, <2>2, <2>3
  <2>5. f[A \cup t] = f[A] + f[t]
    BY <1>3 DEF x
  <2>6. f[A] \in Int /\ f[t] \in Int /\ v[x] \in Int
    BY <1>1, <2>2, <2>3
  <2>. QED
    BY <2>4, <2>5, <2>6
<1>4. IsFiniteSet(B)
  BY FS_Subset
<1>5. B \in P
  <2>. HIDE DEF P
  <2>1. SUBSET B \subseteq P
    BY <1>2, <1>3, <1>4, AllSubsets
  <2>. QED
    BY <2>1
<1>. QED
  BY <1>5

\* Balances!Tokens adds up any set of coins
LEMMA TokensAddUp ==
  \E f : Adds(f, CoinWorth, Coins) /\ \A A \in SUBSET Coins : Balances!Tokens(A) = f[A]
<1>1. IsFiniteSet(Coins) /\ CoinWorth \in [Coins -> Int]
  BY BalancesGiven DEF Balances!NodeFundsAssumption, Balances!IsFiniteSet, IsFiniteSet
<1>2. PICK f : Adds(f, CoinWorth, Coins)
  BY <1>1, SumIsFold
<1>3. ASSUME NEW A \in SUBSET Coins PROVE Balances!Tokens(A) = f[A]
  <2>. DEFINE v == [u \in A |-> CoinWorth[u]]
              g == CHOOSE h : Tally(h, v, A)
              Sums(h) == h = [s \in SUBSET A |->
                                IF s = {} THEN 0 ELSE CoinWorth[AnyOf(s)] + h[s \ {AnyOf(s)}]]
              sum == CHOOSE h : Sums(h)
  <2>1. IsFiniteSet(A) /\ v \in [A -> Int]
    BY <1>1, FS_Subset
  <2>2. \A s \in SUBSET A : s # {} => AnyOf(s) \in A /\ v[AnyOf(s)] = CoinWorth[AnyOf(s)]
    BY DEF AnyOf
  <2>. HIDE DEF v
  <2>3. PICK h : Tally(h, v, A)
    BY <2>1, TallyExists
  <2>4. Sums(h)
    BY <2>2, <2>3 DEF Tally
  <2>5. Sums(sum)
    <3>. HIDE DEF Sums
    <3>. QED
      BY <2>4
  <2>6. Adds(sum, v, A)
    <3>. HIDE DEF sum
    <3>. QED
      BY <2>2, <2>5 DEF Adds
  <2>7. Adds(f, v, A)
    BY <1>2, <2>2 DEF Adds
  <2>8. sum[A] = f[A]
    <3>. HIDE DEF sum
    <3>. QED
      BY <2>1, <2>6, <2>7, SumIsOnly
  <2>9. Balances!Tokens(A) = sum[A]
    BY DEF sum, Balances!Tokens, Balances!MapThenSumSet, Balances!MapThenFoldSet, AnyOf
  <2>. QED
    BY <2>8, <2>9
<1>. QED
  BY <1>2, <1>3

LEMMA TokensOfSets ==
  /\ \A A \in SUBSET Coins : Balances!Tokens(A) \in Nat
  /\ \A A, B \in SUBSET Coins : A \cap B = {} =>
       Balances!Tokens(A \cup B) = Balances!Tokens(A) + Balances!Tokens(B)
  /\ \A u \in Coins : Balances!Tokens({u}) = CoinWorth[u]
<1>1. PICK f : Adds(f, CoinWorth, Coins) /\ \A A \in SUBSET Coins : Balances!Tokens(A) = f[A]
  BY TokensAddUp
<1>2. IsFiniteSet(Coins) /\ CoinWorth \in [Coins -> Nat] /\ CoinWorth \in [Coins -> Int]
  <2>1. IsFiniteSet(Coins) /\ CoinWorth \in [Coins -> Nat]
    BY BalancesGiven DEF Balances!NodeFundsAssumption, Balances!IsFiniteSet, IsFiniteSet
  <2>2. [Coins -> Nat] \subseteq [Coins -> Int]
    OBVIOUS
  <2>. QED
    BY <2>1, <2>2
<1>3. \A s \in SUBSET Coins : f[s] \in Int /\ \A x \in s : f[s] = CoinWorth[x] + f[s \ {x}]
  <2>1. ComesApart(f, CoinWorth, Coins)
    BY <1>1, <1>2, AnyOrder
  <2>. QED
    BY <2>1 DEF ComesApart
<1>. DEFINE P == {s \in SUBSET Coins : f[s] \in Nat}
<1>4. {} \in P /\ f[{}] = 0
  BY <1>1, <1>2, AddsFacts
<1>5. ASSUME NEW s \in SUBSET Coins, s # {}, s \ {AnyOf(s)} \in P PROVE s \in P
  <2>1. AnyOf(s) \in s
    BY <1>5 DEF AnyOf
  <2>2. f[s] = CoinWorth[AnyOf(s)] + f[s \ {AnyOf(s)}] /\ CoinWorth[AnyOf(s)] \in Nat
    BY <1>2, <1>3, <2>1
  <2>. QED
    BY <1>5, <2>2
<1>6. SUBSET Coins \subseteq P
  <2>. HIDE DEF P
  <2>. QED
    BY <1>2, <1>4, <1>5, AllSubsets
<1>7. \A A, B \in SUBSET Coins : A \cap B = {} => f[A \cup B] = f[A] + f[B]
  BY <1>1, <1>2, SetsAdd
<1>8. ASSUME NEW u \in Coins PROVE f[{u}] = CoinWorth[u]
  <2>1. {u} \in SUBSET Coins /\ {u} \ {u} = {} /\ CoinWorth[u] \in Nat
    BY <1>2
  <2>2. f[{u}] = CoinWorth[u] + f[{u} \ {u}]
    BY <1>3, <2>1
  <2>3. f[{u} \ {u}] = 0
    BY <1>4, <2>1
  <2>. QED
    BY <2>1, <2>2, <2>3
<1>. QED
  BY <1>1, <1>6, <1>7, <1>8

LEMMA CoinsGiven ==
  /\ Spent \in [Txs -> SUBSET Coins] /\ Created \in [Txs -> SUBSET Coins]
  /\ \A u \in Coins : Balances!CreatorOf(u) \in Txs /\ u \in Created[Balances!CreatorOf(u)]
  /\ \A t \in Txs : \A u \in Created[t] : Balances!CreatorOf(u) = t
  /\ Funding \in Txs \ Mined /\ Sweep \in Txs \ Mined /\ Funding # Sweep
<1>1. /\ Spent \in [Txs -> SUBSET Coins] /\ Created \in [Txs -> SUBSET Coins]
      /\ \A t, u \in Txs : t # u => Created[t] \cap Created[u] = {}
      /\ \A u \in Coins : \E t \in Txs : u \in Created[t]
      /\ Funding \in Txs \ Mined /\ Sweep \in Txs \ Mined /\ Funding # Sweep
  BY BalancesGiven DEF Balances!NodeFundsAssumption
<1>2. \A u \in Coins : Balances!CreatorOf(u) \in Txs /\ u \in Created[Balances!CreatorOf(u)]
  BY <1>1 DEF Balances!CreatorOf
<1>3. \A t \in Txs : \A u \in Created[t] : Balances!CreatorOf(u) = t
  BY <1>1, <1>2
<1>. QED
  BY <1>1, <1>2, <1>3

LEMMA FewerTokens ==
  ASSUME NEW A \in SUBSET Coins, NEW B \in SUBSET Coins, A \subseteq B
  PROVE  Balances!Tokens(A) <= Balances!Tokens(B)
<1>1. B = A \cup (B \ A) /\ A \cap (B \ A) = {} /\ B \ A \in SUBSET Coins
  OBVIOUS
<1>2. Balances!Tokens(B) = Balances!Tokens(A) + Balances!Tokens(B \ A)
  BY <1>1, TokensOfSets
<1>3. Balances!Tokens(A) \in Nat /\ Balances!Tokens(B \ A) \in Nat
  BY <1>1, TokensOfSets
<1>. QED
  BY <1>2, <1>3

\* Two sets are counted for one: what differs, and what is counted twice, is among
\* some that are worth no more than a number
LEMMA Miscounted ==
  ASSUME NEW F \in SUBSET Coins, NEW L \in SUBSET Coins, NEW T \in SUBSET Coins,
         NEW X \in SUBSET Coins, NEW m \in Nat, Balances!Tokens(X) <= m,
         F \cap L \subseteq T \cap X, (F \cup L) \ X = T \ X
  PROVE  Balances!Tokens(F) + Balances!Tokens(L) - Balances!Tokens(T) \in -m..m
<1>. DEFINE V(A) == Balances!Tokens(A)
            both == F \cap L
            any == F \cup L
            rest == T \ X
            inT == T \cap X
            inAny == any \cap X
<1>1. /\ both \in SUBSET Coins /\ any \in SUBSET Coins /\ rest \in SUBSET Coins
      /\ inT \in SUBSET Coins /\ inAny \in SUBSET Coins /\ L \ F \in SUBSET Coins
  OBVIOUS
<1>2. /\ V(F) \in Nat /\ V(L) \in Nat /\ V(T) \in Nat /\ V(X) \in Nat /\ V(both) \in Nat
      /\ V(any) \in Nat /\ V(rest) \in Nat /\ V(inT) \in Nat /\ V(inAny) \in Nat
      /\ V(L \ F) \in Nat
  BY <1>1, TokensOfSets
<1>3. V(any) = V(F) + V(L \ F)
  <2>1. any = F \cup (L \ F) /\ F \cap (L \ F) = {}
    OBVIOUS
  <2>. QED
    BY <1>1, <2>1, TokensOfSets
<1>4. V(L) = V(both) + V(L \ F)
  <2>1. L = both \cup (L \ F) /\ both \cap (L \ F) = {}
    OBVIOUS
  <2>. QED
    BY <1>1, <2>1, TokensOfSets
<1>5. V(T) = V(rest) + V(inT)
  <2>1. T = rest \cup inT /\ rest \cap inT = {}
    OBVIOUS
  <2>. QED
    BY <1>1, <2>1, TokensOfSets
<1>6. V(any) = V(rest) + V(inAny)
  <2>1. any = rest \cup inAny /\ rest \cap inAny = {}
    OBVIOUS
  <2>. QED
    BY <1>1, <2>1, TokensOfSets
<1>7. V(both) <= V(inT) /\ V(inT) <= V(X) /\ V(inAny) <= V(X)
  BY <1>1, FewerTokens
<1>. HIDE DEF V, both, any, rest, inT, inAny
<1>8. V(F) + V(L) - V(T) \in -m..m
  <2>1. V(X) <= m
    BY DEF V
  <2>. QED
    BY <1>2, <1>3, <1>4, <1>5, <1>6, <1>7, <2>1
<1>. QED
  BY <1>8 DEF V

-----------------------------------------------------------------------------
(* The confirmed coins                                                       *)

Stagings == [Txs -> {"none", "pool", "mined", "gone"}]

KnownIn(s, t) == s[t] \in {"pool", "mined"}
ExistsIn(s, u) ==
  /\ KnownIn(s, Balances!CreatorOf(u))
  /\ ~\E t \in Txs : KnownIn(s, t) /\ u \in Spent[t]

\* Those that are there, those of them that LND lists, and the locked ones
Settled(s) == {u \in Coins : ExistsIn(s, u) /\ s[Balances!CreatorOf(u)] = "mined"}
FreeIn(s, l) == Settled(s) \ l
LockedIn(s, l) == {u \in l : s[Balances!CreatorOf(u)] = "mined"}

\* What LND answered before a move and after it comes to what is there after it,
\* but for so many tokens
NearTo(s, l, s1, l1, m) ==
  \A F \in {FreeIn(s, l), FreeIn(s1, l1)} :
    \A a \in {s, s1} : \A b \in {l, l1} :
      Balances!Tokens(F) + Balances!Tokens(LockedIn(a, b)) - Balances!Tokens(Settled(s1)) \in -m..m

AllThere(s, l) == s \in Stagings /\ l \in SUBSET Coins /\ \A u \in l : ExistsIn(s, u)

\* Locked coins are among those that are there
LEMMA LockedAreThere ==
  ASSUME NEW s, NEW l, AllThere(s, l)
  PROVE  LockedIn(s, l) = Settled(s) \cap l
BY DEF AllThere, LockedIn, Settled

LEMMA NearToItself ==
  ASSUME NEW s, NEW l, AllThere(s, l), NEW m \in Nat
  PROVE  NearTo(s, l, s, l, m)
<1>. DEFINE T == Settled(s)
<1>1. LockedIn(s, l) = T \cap l /\ FreeIn(s, l) = T \ l /\ T \in SUBSET Coins
  BY LockedAreThere DEF FreeIn, Settled
<1>. HIDE DEF T
<1>2. Balances!Tokens(T \ l) + Balances!Tokens(T \cap l) - Balances!Tokens(T) \in -m..m
  <2>. DEFINE X == {}
  <2>1. X \in SUBSET Coins /\ Balances!Tokens(X) <= m
    <3>1. X \in SUBSET Coins /\ X \cap X = {} /\ X \cup X = X
      OBVIOUS
    <3>. HIDE DEF X
    <3>2. Balances!Tokens(X) \in Nat
      BY <3>1, TokensOfSets
    <3>3. Balances!Tokens(X \cup X) = Balances!Tokens(X) + Balances!Tokens(X)
      BY <3>1, TokensOfSets
    <3>4. Balances!Tokens(X) = Balances!Tokens(X) + Balances!Tokens(X)
      BY <3>1, <3>3
    <3>. DEFINE n == Balances!Tokens(X)
    <3>5. n \in Nat /\ n = n + n
      BY <3>2, <3>4
    <3>. HIDE DEF n
    <3>6. n <= m
      BY <3>5
    <3>. QED
      BY <3>1, <3>6 DEF n
  <2>2. /\ (T \ l) \cap (T \cap l) \subseteq T \cap X
        /\ ((T \ l) \cup (T \cap l)) \ X = T \ X
    OBVIOUS
  <2>3. T \ l \in SUBSET Coins /\ T \cap l \in SUBSET Coins
    BY <1>1
  <2>. HIDE DEF X
  <2>. QED
    BY <1>1, <2>1, <2>2, <2>3, Miscounted
<1>. QED
  BY <1>1, <1>2 DEF NearTo, T

\* A coin is locked or its lock ends
OneLock(l, l1, u) == l1 \in {l \cup {u}, l \ {u}}

LEMMA NearWhenLocked ==
  ASSUME NEW s, NEW l, NEW l1, NEW u \in Coins, OneLock(l, l1, u),
         AllThere(s, l), AllThere(s, l1), NEW m \in Nat, CoinWorth[u] <= m
  PROVE  NearTo(s, l, s, l1, m)
<1>. DEFINE T == Settled(s)
<1>1. /\ LockedIn(s, l) = T \cap l /\ LockedIn(s, l1) = T \cap l1
      /\ FreeIn(s, l) = T \ l /\ FreeIn(s, l1) = T \ l1 /\ T \in SUBSET Coins
  BY LockedAreThere DEF FreeIn, Settled
<1>2. {u} \in SUBSET Coins /\ Balances!Tokens({u}) <= m
  BY TokensOfSets
<1>. HIDE DEF T
<1>3. ASSUME NEW a \in {l, l1}, NEW b \in {l, l1}
      PROVE  Balances!Tokens(T \ a) + Balances!Tokens(T \cap b) - Balances!Tokens(T) \in -m..m
  <2>1. /\ (T \ a) \cap (T \cap b) \subseteq T \cap {u}
        /\ ((T \ a) \cup (T \cap b)) \ {u} = T \ {u}
    BY DEF OneLock
  <2>2. T \ a \in SUBSET Coins /\ T \cap b \in SUBSET Coins
    BY <1>1
  <2>. QED
    BY <1>1, <1>2, <2>1, <2>2, Miscounted
<1>. QED
  BY <1>1, <1>3 DEF NearTo, T

\* Nothing is listed that is locked: what three lists of coins come to
ListedAs(s, l, s1, l1, L, X) ==
  /\ \A a \in {s, s1} : \A b \in {l, l1} :
       /\ (LockedIn(a, b) \cup L) \ X = L \ X
       /\ L \ X \subseteq LockedIn(a, b)
       /\ LockedIn(a, b) \cap FreeIn(s, l) = {} /\ LockedIn(a, b) \cap FreeIn(s1, l1) = {}
  /\ (FreeIn(s, l) \cup L) \ X = Settled(s1) \ X
  /\ (FreeIn(s1, l1) \cup L) \ X = Settled(s1) \ X

LEMMA NearLists ==
  ASSUME NEW s, NEW l, NEW s1, NEW l1, NEW L \in SUBSET Coins, NEW X \in SUBSET Coins,
         AllThere(s, l), AllThere(s1, l1), NEW m \in Nat, Balances!Tokens(X) <= m,
         ListedAs(s, l, s1, l1, L, X)
  PROVE  NearTo(s, l, s1, l1, m)
<1>. DEFINE T == Settled(s1)
<1>1. T \in SUBSET Coins /\ FreeIn(s, l) \in SUBSET Coins /\ FreeIn(s1, l1) \in SUBSET Coins
  BY DEF Settled, FreeIn
<1>2. ASSUME NEW F \in {FreeIn(s, l), FreeIn(s1, l1)}, NEW a \in {s, s1}, NEW b \in {l, l1}
      PROVE  Balances!Tokens(F) + Balances!Tokens(LockedIn(a, b)) - Balances!Tokens(T) \in -m..m
  <2>. DEFINE K == LockedIn(a, b)
  <2>1. K \in SUBSET Coins
    BY DEF AllThere, LockedIn
  <2>2. F \cap K = {} /\ (F \cup L) \ X = T \ X /\ (K \cup L) \ X = L \ X /\ L \ X \subseteq K
    BY DEF ListedAs
  <2>. HIDE DEF K, T
  <2>3. F \cap K \subseteq T \cap X /\ (F \cup K) \ X = T \ X
    BY <2>2
  <2>4. F \in SUBSET Coins
    BY <1>1
  <2>. QED
    BY <1>1, <2>1, <2>3, <2>4, Miscounted DEF K
<1>. QED
  BY <1>2 DEF NearTo, T

\* A transaction is seen: the coins it takes are not there any more
LEMMA NearWhenSeen ==
  ASSUME NEW s, NEW l, AllThere(s, l), NEW t \in Txs, s[t] # "mined",
         \A u \in Spent[t] : u \notin l, NEW m \in Nat, Balances!Tokens(Spent[t]) <= m
  PROVE  LET s1 == [s EXCEPT ![t] = "pool"]
         IN  AllThere(s1, l) /\ NearTo(s, l, s1, l, m)
<1>. DEFINE s1 == [s EXCEPT ![t] = "pool"]
            X == Spent[t]
            L == Settled(s) \cap l
<1>1. /\ s1 \in Stagings /\ s \in Stagings /\ s1[t] = "pool"
      /\ \A x \in Txs : x # t => s1[x] = s[x]
  BY DEF AllThere, Stagings
<1>2. X \in SUBSET Coins /\ l \in SUBSET Coins
  BY CoinsGiven DEF AllThere
<1>. HIDE DEF s1
<1>3. \A x \in Txs : KnownIn(s, x) => KnownIn(s1, x)
  BY <1>1 DEF KnownIn
<1>4. ASSUME NEW u \in Coins
      PROVE  /\ ExistsIn(s, u) /\ u \notin X => ExistsIn(s1, u)
             /\ ExistsIn(s1, u) => u \notin X
             /\ KnownIn(s, Balances!CreatorOf(u)) /\ ExistsIn(s1, u) => ExistsIn(s, u)
             /\ s1[Balances!CreatorOf(u)] = "mined" <=> s[Balances!CreatorOf(u)] = "mined"
             /\ s[Balances!CreatorOf(u)] = "mined" => KnownIn(s, Balances!CreatorOf(u))
  <2>1. Balances!CreatorOf(u) \in Txs
    BY CoinsGiven
  <2>. QED
    BY <1>1, <1>3, <2>1 DEF ExistsIn, KnownIn
<1>5. AllThere(s1, l)
  BY <1>1, <1>2, <1>4 DEF AllThere
<1>6. Settled(s1) = Settled(s) \ X
  BY <1>4 DEF Settled
<1>7. LockedIn(s1, l) = L /\ LockedIn(s, l) = L
  <2>1. LockedIn(s1, l) = LockedIn(s, l)
    BY <1>2, <1>4 DEF LockedIn
  <2>. QED
    BY <2>1, LockedAreThere
<1>8. FreeIn(s, l) = Settled(s) \ l /\ FreeIn(s1, l) = Settled(s1) \ l
  BY DEF FreeIn
<1>9. L \in SUBSET Coins
  BY <1>2
<1>10. NearTo(s, l, s1, l, m)
  <2>. HIDE DEF L, X
  <2>1. /\ (LockedIn(s, l) \cup L) \ X = L \ X /\ (LockedIn(s1, l) \cup L) \ X = L \ X
        /\ L \ X \subseteq LockedIn(s, l) /\ L \ X \subseteq LockedIn(s1, l)
    BY <1>7
  <2>2. /\ LockedIn(s, l) \cap FreeIn(s, l) = {} /\ LockedIn(s1, l) \cap FreeIn(s, l) = {}
        /\ LockedIn(s, l) \cap FreeIn(s1, l) = {} /\ LockedIn(s1, l) \cap FreeIn(s1, l) = {}
    BY <1>7, <1>8 DEF L
  <2>3. /\ (FreeIn(s, l) \cup L) \ X = Settled(s1) \ X
        /\ (FreeIn(s1, l) \cup L) \ X = Settled(s1) \ X
    BY <1>6, <1>8 DEF L
  <2>4. Balances!Tokens(X) <= m
    BY DEF X
  <2>5. ListedAs(s, l, s1, l, L, X)
    BY <2>1, <2>2, <2>3 DEF ListedAs
  <2>. QED
    BY <1>2, <1>5, <1>9, <2>4, <2>5, NearLists
<1>. QED
  BY <1>5, <1>10 DEF s1

\* A transaction is mined: the coins it makes are confirmed
LEMMA NearWhenMined ==
  ASSUME NEW s, NEW l, AllThere(s, l), NEW t \in Txs, s[t] = "pool",
         NEW m \in Nat, Balances!Tokens(Created[t]) <= m
  PROVE  LET s1 == [s EXCEPT ![t] = "mined"]
         IN  AllThere(s1, l) /\ NearTo(s, l, s1, l, m)
<1>. DEFINE s1 == [s EXCEPT ![t] = "mined"]
            X == Created[t]
            L == Settled(s1) \cap l
<1>1. /\ s1 \in Stagings /\ s \in Stagings /\ s1[t] = "mined"
      /\ \A x \in Txs : x # t => s1[x] = s[x]
  BY DEF AllThere, Stagings
<1>2. X \in SUBSET Coins /\ l \in SUBSET Coins
  BY CoinsGiven DEF AllThere
<1>. HIDE DEF s1
<1>3. \A x \in Txs : KnownIn(s1, x) <=> KnownIn(s, x)
  BY <1>1 DEF KnownIn
<1>4. ASSUME NEW u \in Coins
      PROVE  /\ ExistsIn(s1, u) <=> ExistsIn(s, u)
             /\ s[Balances!CreatorOf(u)] = "mined" => s1[Balances!CreatorOf(u)] = "mined"
             /\ u \notin X => s1[Balances!CreatorOf(u)] = s[Balances!CreatorOf(u)]
  <2>1. Balances!CreatorOf(u) \in Txs /\ u \in Created[Balances!CreatorOf(u)]
    BY CoinsGiven
  <2>. QED
    BY <1>1, <1>3, <2>1 DEF ExistsIn
<1>5. AllThere(s1, l)
  BY <1>1, <1>2, <1>4 DEF AllThere
<1>6. Settled(s) \subseteq Settled(s1) /\ Settled(s1) \ X \subseteq Settled(s)
  BY <1>4 DEF Settled
<1>7. LockedIn(s1, l) = Settled(s1) \cap l /\ LockedIn(s, l) = Settled(s) \cap l
  BY <1>5, LockedAreThere
<1>8. FreeIn(s, l) = Settled(s) \ l /\ FreeIn(s1, l) = Settled(s1) \ l
  BY DEF FreeIn
<1>9. L \in SUBSET Coins
  BY <1>2
<1>10. NearTo(s, l, s1, l, m)
  <2>. HIDE DEF L, X
  <2>1. /\ (LockedIn(s, l) \cup L) \ X = L \ X /\ (LockedIn(s1, l) \cup L) \ X = L \ X
        /\ L \ X \subseteq LockedIn(s, l) /\ L \ X \subseteq LockedIn(s1, l)
    BY <1>6, <1>7 DEF L
  <2>2. /\ LockedIn(s, l) \cap FreeIn(s, l) = {} /\ LockedIn(s1, l) \cap FreeIn(s, l) = {}
        /\ LockedIn(s, l) \cap FreeIn(s1, l) = {} /\ LockedIn(s1, l) \cap FreeIn(s1, l) = {}
    BY <1>7, <1>8
  <2>3. /\ (FreeIn(s, l) \cup L) \ X = Settled(s1) \ X
        /\ (FreeIn(s1, l) \cup L) \ X = Settled(s1) \ X
    BY <1>6, <1>8 DEF L
  <2>4. Balances!Tokens(X) <= m
    BY DEF X
  <2>5. ListedAs(s, l, s1, l, L, X)
    BY <2>1, <2>2, <2>3 DEF ListedAs
  <2>. QED
    BY <1>2, <1>5, <1>9, <2>4, <2>5, NearLists
<1>. QED
  BY <1>5, <1>10 DEF s1

\* A transaction is forgotten: the coins it took may be there again
LEMMA NearWhenForgotten ==
  ASSUME NEW s, NEW l, AllThere(s, l), NEW t \in Txs, s[t] = "pool",
         NEW m \in Nat, Balances!Tokens(Spent[t]) <= m
  PROVE  LET s1 == [s EXCEPT ![t] = "gone"]
             l1 == l \ Created[t]
         IN  AllThere(s1, l1) /\ NearTo(s, l, s1, l1, m)
<1>. DEFINE s1 == [s EXCEPT ![t] = "gone"]
            l1 == l \ Created[t]
            X == Spent[t]
            L == Settled(s) \cap l
<1>1. /\ s1 \in Stagings /\ s \in Stagings /\ s1[t] = "gone"
      /\ \A x \in Txs : x # t => s1[x] = s[x]
  BY DEF AllThere, Stagings
<1>2. X \in SUBSET Coins /\ l \in SUBSET Coins /\ l1 \in SUBSET Coins
  BY CoinsGiven DEF AllThere
<1>. HIDE DEF s1
<1>3. \A x \in Txs : KnownIn(s1, x) <=> KnownIn(s, x) /\ x # t
  BY <1>1 DEF KnownIn
<1>4. ASSUME NEW u \in Coins
      PROVE  /\ ExistsIn(s, u) /\ u \notin Created[t] => ExistsIn(s1, u)
             /\ ExistsIn(s1, u) /\ u \notin X => ExistsIn(s, u)
             /\ ExistsIn(s, u) => u \notin X
             /\ s[Balances!CreatorOf(u)] = "mined" <=> s1[Balances!CreatorOf(u)] = "mined"
             /\ u \in Created[t] => s[Balances!CreatorOf(u)] # "mined"
  <2>1. /\ Balances!CreatorOf(u) \in Txs /\ u \in Created[Balances!CreatorOf(u)]
        /\ u \in Created[t] => Balances!CreatorOf(u) = t
    BY CoinsGiven
  <2>2. KnownIn(s, t)
    BY DEF KnownIn
  <2>. QED
    BY <1>1, <1>3, <2>1, <2>2 DEF ExistsIn
<1>5. AllThere(s1, l1)
  BY <1>1, <1>2, <1>4 DEF AllThere
<1>6. /\ Settled(s) \subseteq Settled(s1) /\ Settled(s1) \ X \subseteq Settled(s)
      /\ Settled(s1) \cap Created[t] = {} /\ Settled(s) \cap X = {}
  BY <1>4 DEF Settled
<1>7. LockedIn(s, l) = L /\ LockedIn(s1, l) = L /\ LockedIn(s, l1) = L /\ LockedIn(s1, l1) = L
  <2>1. LockedIn(s, l) = L
    BY LockedAreThere
  <2>2. LockedIn(s1, l) = LockedIn(s, l) /\ LockedIn(s1, l1) = LockedIn(s, l1)
    BY <1>2, <1>4 DEF LockedIn
  <2>3. LockedIn(s, l1) = LockedIn(s, l)
    BY <1>2, <1>4 DEF LockedIn
  <2>. QED
    BY <2>1, <2>2, <2>3
<1>8. /\ FreeIn(s, l) = Settled(s) \ l /\ FreeIn(s1, l1) = Settled(s1) \ l
  BY <1>6 DEF FreeIn
<1>9. L \in SUBSET Coins
  BY <1>2
<1>10. NearTo(s, l, s1, l1, m)
  <2>. HIDE DEF L, X, l1
  <2>1. \A a \in {s, s1} : \A b \in {l, l1} : LockedIn(a, b) = L
    BY <1>7
  <2>2. L \cap FreeIn(s, l) = {} /\ L \cap FreeIn(s1, l1) = {}
    BY <1>8 DEF L
  <2>3. Settled(s1) \cap l \subseteq L \cup X
    BY <1>6 DEF L
  <2>4. /\ (FreeIn(s, l) \cup L) \ X = Settled(s1) \ X
        /\ (FreeIn(s1, l1) \cup L) \ X = Settled(s1) \ X
    BY <1>6, <1>8, <2>3 DEF L
  <2>5. Balances!Tokens(X) <= m
    BY DEF X
  <2>6. ListedAs(s, l, s1, l1, L, X)
    BY <2>1, <2>2, <2>4 DEF ListedAs
  <2>. QED
    BY <1>2, <1>5, <1>9, <2>5, <2>6, NearLists
<1>. QED
  BY <1>5, <1>10 DEF s1, l1

-----------------------------------------------------------------------------
(* The channel and its ledger                                                *)

ChanRec ==
  [at : {"none", "opening", "open", "closing", "closed"}, initiated : BOOLEAN, anchors : BOOLEAN,
   htlc : BOOLEAN, local : Nat, recovered : Nat]

\* What is counted of a channel that is listed as open, and of a pending one
OpenTokens(c) == IF c.at = "open" THEN Balances!ChannelBalance(c) ELSE 0
PendingTokens(c) ==
  IF c.at \in {"opening", "closing"} THEN Balances!PendingBalance(c) + Balances!Closing(c) ELSE 0

NearChan(c, d, m) ==
  /\ OpenTokens(c) - OpenTokens(d) \in -m..m
  /\ PendingTokens(c) - PendingTokens(d) \in -m..m
  /\ OpenTokens(c) + PendingTokens(c) - (OpenTokens(d) + PendingTokens(d)) \in -m..m

\* What the channel holds is what was put into it and has not left it
Ledger(c, k, s) ==
  /\ c \in ChanRec /\ k \in Int
  /\ c.anchors => c.initiated
  /\ k - Balances!LeftOut(c) = OpenTokens(c) + PendingTokens(c)
  /\ c.at \in {"none", "opening"} => c.local = Local /\ ~c.htlc
  /\ c.local + (IF c.htlc THEN Htlc ELSE 0) <= Local
  /\ c.at = "none" => s[Funding] = "none"
  /\ c.at \in {"none", "opening", "open"} => s[Sweep] = "none"
  /\ s[Sweep] # "mined" => c.recovered = 0
  /\ s[Sweep] = "pool" => c.at = "closing" /\ Balances!Tokens(Created[Sweep]) <= c.local
  /\ c.recovered <= c.local

LEMMA ChanAmounts ==
  /\ Local \in Nat /\ CommitFee \in Nat /\ Anchor \in Nat /\ Htlc \in Nat
BY BalancesGiven DEF Balances!NodeFundsAssumption

LEMMA ChanTokens ==
  ASSUME NEW c \in ChanRec
  PROVE  OpenTokens(c) \in Int /\ PendingTokens(c) \in Int
BY ChanAmounts DEF ChanRec, OpenTokens, PendingTokens, Balances!ChannelBalance,
   Balances!PendingBalance, Balances!Closing

LEMMA NearToItsChan ==
  ASSUME NEW c \in ChanRec, NEW m \in Nat
  PROVE  NearChan(c, c, m)
<1>. DEFINE a == OpenTokens(c)  b == PendingTokens(c)
<1>1. a \in Int /\ b \in Int
  BY ChanTokens
<1>. HIDE DEF a, b
<1>2. a - a \in -m..m /\ b - b \in -m..m /\ a + b - (a + b) \in -m..m
  BY <1>1
<1>. QED
  BY <1>2 DEF NearChan, a, b

\* A move of so many tokens keeps what is said of the coins and of the channel
MovedWell(m) ==
  /\ m \in Nat
  /\ AllThere(stage', locks') /\ Ledger(chan', staked', stage')
  /\ NearTo(stage, locks, stage', locks', m) /\ NearChan(chan, chan', m)

FundsInv == AllThere(stage, locks) /\ Ledger(chan, staked, stage)

LEMMA MovesOfTransactions ==
  ASSUME NEW t \in Txs
  PROVE  /\ Balances!Of(t) \in Nat
         /\ Balances!Tokens(Spent[t]) \in Nat /\ Balances!Tokens(Created[t]) \in Nat
         /\ Balances!Tokens(Spent[t]) <= Balances!Of(t)
         /\ Balances!Tokens(Created[t]) <= Balances!Of(t)
<1>1. Spent[t] \in SUBSET Coins /\ Created[t] \in SUBSET Coins
  BY CoinsGiven
<1>2. Balances!Tokens(Spent[t]) \in Nat /\ Balances!Tokens(Created[t]) \in Nat
  BY <1>1, TokensOfSets
<1>. QED
  BY <1>2 DEF Balances!Of

LEMMA CoinIsThere ==
  ASSUME NEW u \in Coins
  PROVE  Balances!Exists(u) <=> ExistsIn(stage, u)
BY DEF Balances!Exists, Balances!Known, Balances!IsSpent, ExistsIn, KnownIn

LEMMA TransactionIsSeen ==
  ASSUME FundsInv, NEW t \in Txs, Balances!Broadcast(t)
  PROVE  MovedWell(Balances!Of(t))
<1>1. /\ t # Funding /\ t # Sweep /\ stage[t] = "none"
      /\ \A u \in Spent[t] : u \notin locks
      /\ stage' = [stage EXCEPT ![t] = "pool"] /\ UNCHANGED <<locks, chan, staked>>
  BY DEF Balances!Broadcast
<1>2. Balances!Of(t) \in Nat /\ Balances!Tokens(Spent[t]) <= Balances!Of(t)
  BY MovesOfTransactions
<1>3. AllThere(stage', locks') /\ NearTo(stage, locks, stage', locks', Balances!Of(t))
  BY <1>1, <1>2, NearWhenSeen DEF FundsInv
<1>4. stage'[Funding] = stage[Funding] /\ stage'[Sweep] = stage[Sweep]
  BY <1>1, CoinsGiven DEF FundsInv, AllThere, Stagings
<1>5. Ledger(chan, staked, stage')
  BY <1>4 DEF FundsInv, Ledger
<1>6. NearChan(chan, chan, Balances!Of(t))
  BY <1>2, <1>5, NearToItsChan DEF Ledger
<1>. QED
  BY <1>1, <1>2, <1>3, <1>5, <1>6 DEF MovedWell

LEMMA TransactionIsForgotten ==
  ASSUME FundsInv, NEW t \in Txs, Balances!Forget(t)
  PROVE  MovedWell(Balances!Of(t))
<1>1. /\ stage[t] = "pool" /\ locks' = locks \ Created[t]
      /\ stage' = [stage EXCEPT ![t] = "gone"] /\ UNCHANGED <<chan, staked>>
  BY DEF Balances!Forget
<1>2. Balances!Of(t) \in Nat /\ Balances!Tokens(Spent[t]) <= Balances!Of(t)
  BY MovesOfTransactions
<1>3. AllThere(stage', locks') /\ NearTo(stage, locks, stage', locks', Balances!Of(t))
  BY <1>1, <1>2, NearWhenForgotten DEF FundsInv
<1>4. /\ stage'[Funding] = stage[Funding] \/ (stage[Funding] = "pool" /\ stage'[Funding] = "gone")
      /\ stage'[Sweep] = stage[Sweep] \/ (stage[Sweep] = "pool" /\ stage'[Sweep] = "gone")
  BY <1>1, CoinsGiven DEF FundsInv, AllThere, Stagings
<1>5. Ledger(chan, staked, stage')
  BY <1>4 DEF FundsInv, Ledger
<1>6. NearChan(chan, chan, Balances!Of(t))
  BY <1>2, <1>5, NearToItsChan DEF Ledger
<1>. QED
  BY <1>1, <1>2, <1>3, <1>5, <1>6 DEF MovedWell

LEMMA TransactionIsMined ==
  ASSUME FundsInv, NEW t \in Txs, Balances!Mine(t)
  PROVE  MovedWell(Balances!Of(t))
<1>. DEFINE x == Balances!Tokens(Created[t])
            m == Balances!Of(t)
<1>1. /\ stage[t] = "pool" /\ UNCHANGED locks
      /\ stage' = [stage EXCEPT ![t] = "mined"]
      /\ chan' = IF t = Sweep THEN [chan EXCEPT !.recovered = x] ELSE chan
      /\ staked' = IF t = Sweep THEN staked - x ELSE staked
  BY DEF Balances!Mine
<1>2. m \in Nat /\ x \in Nat /\ x <= m
  BY MovesOfTransactions
<1>3. AllThere(stage', locks') /\ NearTo(stage, locks, stage', locks', m)
  BY <1>1, <1>2, NearWhenMined DEF FundsInv
<1>4. stage'[t] = "mined" /\ \A y \in Txs : y # t => stage'[y] = stage[y]
  BY <1>1 DEF FundsInv, AllThere, Stagings
<1>5. CASE t # Sweep
  <2>1. chan' = chan /\ staked' = staked /\ stage'[Sweep] = stage[Sweep]
    BY <1>1, <1>4, <1>5, CoinsGiven
  <2>2. chan.at = "none" => stage'[Funding] = "none"
    <3>1. ASSUME chan.at = "none" PROVE t # Funding
      BY <1>1, <3>1 DEF FundsInv, Ledger
    <3>. QED
      BY <1>4, <3>1, CoinsGiven DEF FundsInv, Ledger
  <2>3. Ledger(chan, staked, stage')
    BY <2>1, <2>2 DEF FundsInv, Ledger
  <2>4. NearChan(chan, chan, m)
    BY <1>2, <2>3, NearToItsChan DEF Ledger
  <2>. QED
    BY <1>2, <1>3, <2>1, <2>3, <2>4 DEF MovedWell
<1>6. CASE t = Sweep
  <2>. DEFINE c == [chan EXCEPT !.recovered = x]
  <2>1. /\ chan \in ChanRec /\ staked \in Int /\ chan.at = "closing" /\ chan.recovered = 0
        /\ x <= chan.local
    BY <1>1, <1>6 DEF FundsInv, Ledger
  <2>. DEFINE left == Balances!LeftOut(chan)
  <2>2. PendingTokens(chan) \in Int /\ left \in Int /\ staked - left = PendingTokens(chan)
    <3>1. OpenTokens(chan) = 0
      BY <2>1 DEF OpenTokens
    <3>2. left \in Int
      BY ChanAmounts DEF Balances!LeftOut
    <3>3. staked - left = OpenTokens(chan) + PendingTokens(chan)
      BY DEF FundsInv, Ledger
    <3>. QED
      BY <3>1, <3>2, <3>3, <2>1, ChanTokens
  <2>3. /\ c \in ChanRec /\ c.recovered = x /\ c.at = "closing" /\ c.local = chan.local
        /\ c.htlc = chan.htlc /\ c.initiated = chan.initiated /\ c.anchors = chan.anchors
    BY <1>2, <2>1 DEF ChanRec
  <2>. HIDE DEF c, x, m
  <2>4. PendingTokens(c) = PendingTokens(chan) - x
    BY <1>2, <2>1, <2>3, ChanAmounts DEF PendingTokens, Balances!PendingBalance, Balances!Closing, ChanRec
  <2>5. OpenTokens(c) = 0 /\ OpenTokens(chan) = 0
    BY <2>1, <2>3 DEF OpenTokens
  <2>6. NearChan(chan, c, m)
    BY <1>2, <2>4, <2>5, <2>2 DEF NearChan
  <2>7. Ledger(c, staked - x, stage')
    <3>0. Balances!LeftOut(c) = left
      BY <2>1, <2>3 DEF Balances!LeftOut
    <3>1. staked - x \in Int /\ staked - x - Balances!LeftOut(c) = OpenTokens(c) + PendingTokens(c)
      <4>. HIDE DEF left
      <4>. QED
        BY <1>2, <2>1, <2>2, <2>4, <2>5, <3>0
    <3>2. stage'[Sweep] = "mined"
      BY <1>4, <1>6
    <3>3. chan.anchors => chan.initiated
      BY DEF FundsInv, Ledger
    <3>4. c.local + (IF c.htlc THEN Htlc ELSE 0) <= Local
      BY <2>3 DEF FundsInv, Ledger
    <3>. QED
      BY <2>1, <2>3, <3>1, <3>2, <3>3, <3>4 DEF Ledger
  <2>8. chan' = c /\ staked' = staked - x
    BY <1>1, <1>6 DEF c, x
  <2>. QED
    BY <1>2, <1>3, <2>6, <2>7, <2>8 DEF MovedWell, m
<1>. QED
  BY <1>5, <1>6

LEMMA CoinIsLocked ==
  ASSUME FundsInv, NEW u \in Coins, UNCHANGED <<stage, chan, staked>>,
         \/ locks' = locks \cup {u} /\ Balances!Exists(u)
         \/ locks' = locks \ {u}
  PROVE  MovedWell(CoinWorth[u])
<1>. DEFINE m == CoinWorth[u]
<1>1. m \in Nat
  BY BalancesGiven DEF Balances!NodeFundsAssumption
<1>2. AllThere(stage, locks) /\ AllThere(stage, locks')
  BY CoinIsThere DEF FundsInv, AllThere
<1>3. CoinWorth[u] <= m
  BY <1>1
<1>. HIDE DEF m
<1>4. OneLock(locks, locks', u)
  BY DEF OneLock
<1>5. NearTo(stage, locks, stage, locks', m)
  BY <1>1, <1>2, <1>3, <1>4, NearWhenLocked
<1>6. NearChan(chan, chan, m)
  BY <1>1, NearToItsChan DEF FundsInv, Ledger
<1>. QED
  BY <1>1, <1>2, <1>5, <1>6 DEF MovedWell, FundsInv, m

\* Only the channel moves
LEMMA ChannelMoves ==
  ASSUME FundsInv, UNCHANGED <<stage, locks>>, NEW m \in Nat,
         Ledger(chan', staked', stage), NearChan(chan, chan', m)
  PROVE  MovedWell(m)
BY NearToItself DEF FundsInv, MovedWell

\* What the ledger says of a channel by its state
LEMMA LedgerFacts ==
  ASSUME FundsInv
  PROVE  /\ chan \in ChanRec /\ staked \in Int
         /\ chan.local \in Nat /\ chan.recovered \in Nat
         /\ chan.initiated \in BOOLEAN /\ chan.anchors \in BOOLEAN /\ chan.htlc \in BOOLEAN
         /\ chan.anchors => chan.initiated
         /\ chan.local + (IF chan.htlc THEN Htlc ELSE 0) <= Local
         /\ chan.recovered <= chan.local
         /\ stage[Sweep] # "mined" => chan.recovered = 0
         /\ chan.at \in {"none", "opening"} => chan.local = Local /\ ~chan.htlc
         /\ chan.at = "opening" => 
              staked = IF chan.initiated
                       THEN Local + CommitFee + (IF chan.anchors THEN Anchor ELSE 0) ELSE 0
         /\ chan.at = "open" =>
              /\ stage[Sweep] = "none"
              /\ staked = chan.local + (IF chan.initiated THEN CommitFee ELSE 0)
                          + (IF chan.anchors THEN Anchor ELSE 0) + (IF chan.htlc THEN Htlc ELSE 0)
         /\ chan.at = "closing" =>
              staked = chan.local - chan.recovered + (IF chan.htlc THEN Htlc ELSE 0)
<1>1. chan \in ChanRec
  BY DEF FundsInv, Ledger
<1>2. CASE chan.at = "opening"
  BY <1>1, <1>2, ChanAmounts DEF FundsInv, Ledger, ChanRec, OpenTokens, PendingTokens,
     Balances!PendingBalance, Balances!Closing, Balances!LeftOut
<1>3. CASE chan.at = "open"
  BY <1>1, <1>3, ChanAmounts DEF FundsInv, Ledger, ChanRec, OpenTokens, PendingTokens,
     Balances!ChannelBalance, Balances!LeftOut
<1>4. CASE chan.at = "closing"
  BY <1>1, <1>4, ChanAmounts DEF FundsInv, Ledger, ChanRec, OpenTokens, PendingTokens,
     Balances!PendingBalance, Balances!Closing, Balances!LeftOut
<1>5. CASE chan.at \in {"none", "closed"}
  BY <1>1, <1>5 DEF FundsInv, Ledger, ChanRec
<1>. QED
  BY <1>1, <1>2, <1>3, <1>4, <1>5 DEF ChanRec

\* What is counted of a channel by its state
LEMMA TokensByState ==
  ASSUME NEW c \in ChanRec
  PROVE  /\ c.at \in {"none", "closed"} => OpenTokens(c) = 0 /\ PendingTokens(c) = 0
         /\ c.at = "opening" /\ ~c.htlc =>
              OpenTokens(c) = 0 /\ PendingTokens(c) = IF c.initiated THEN c.local + CommitFee ELSE 0
         /\ c.at = "open" /\ (c.anchors => c.initiated) =>
              /\ PendingTokens(c) = 0
              /\ OpenTokens(c) = c.local + (IF c.initiated THEN CommitFee ELSE 0)
                                 + (IF c.anchors THEN Anchor ELSE 0) + (IF c.htlc THEN Htlc ELSE 0)
         /\ c.at = "closing" =>
              OpenTokens(c) = 0 /\ PendingTokens(c) = c.local - c.recovered
BY ChanAmounts DEF ChanRec, OpenTokens, PendingTokens, Balances!ChannelBalance,
   Balances!PendingBalance, Balances!Closing

LEMMA StakeIsNumber ==
  ASSUME FundsInv
  PROVE  /\ Balances!Stake \in Nat
         /\ Balances!Stake = Local + CommitFee + (IF chan.anchors THEN Anchor ELSE 0)
BY ChanAmounts DEF Balances!Stake

LEMMA ChannelIsFunded ==
  ASSUME FundsInv, Balances!OpenChannel
  PROVE  MovedWell(Balances!Stake + Balances!Of(Funding))
<1>. DEFINE c == [chan EXCEPT !.at = "opening"]
            k == IF chan.initiated THEN Balances!Stake ELSE 0
            m == Balances!Stake + Balances!Of(Funding)
<1>1. /\ chan.at = "none" /\ \A u \in Spent[Funding] : u \notin locks
      /\ chan' = c /\ staked' = k /\ UNCHANGED locks
      /\ stage' = IF chan.initiated THEN [stage EXCEPT ![Funding] = "pool"] ELSE stage
  BY DEF Balances!OpenChannel
<1>2. /\ Funding \in Txs /\ Sweep # Funding /\ Balances!Of(Funding) \in Nat
      /\ Balances!Tokens(Spent[Funding]) \in Nat
      /\ Balances!Tokens(Spent[Funding]) <= Balances!Of(Funding)
  BY CoinsGiven, MovesOfTransactions
<1>3. /\ Balances!Stake \in Nat
      /\ Balances!Stake = Local + CommitFee + (IF chan.anchors THEN Anchor ELSE 0)
  BY StakeIsNumber
<1>4. m \in Nat /\ Balances!Stake <= m /\ Balances!Tokens(Spent[Funding]) <= m
  BY <1>2, <1>3
<1>. HIDE DEF m
<1>5. chan \in ChanRec /\ chan.local = Local /\ ~chan.htlc /\ chan.recovered = 0
      /\ (chan.anchors => chan.initiated) /\ stage[Sweep] = "none" /\ stage[Funding] = "none"
  BY <1>1 DEF FundsInv, Ledger
<1>6. /\ c \in ChanRec /\ c.at = "opening" /\ c.local = Local /\ ~c.htlc /\ c.recovered = 0
      /\ c.initiated = chan.initiated /\ c.anchors = chan.anchors
  BY <1>5 DEF ChanRec
<1>7. AllThere(stage', locks') /\ NearTo(stage, locks, stage', locks', m)
  <2>1. CASE chan.initiated
    <3>1. stage[Funding] # "mined" /\ AllThere(stage, locks)
      BY <1>5 DEF FundsInv
    <3>. QED
      BY <1>1, <1>2, <1>4, <2>1, <3>1, NearWhenSeen
  <2>2. CASE ~chan.initiated
    BY <1>1, <1>4, <2>2, NearToItself DEF FundsInv
  <2>. QED
    BY <2>1, <2>2
<1>8. stage'[Sweep] = "none"
  BY <1>1, <1>2, <1>5, CoinsGiven DEF FundsInv, AllThere, Stagings
<1>. HIDE DEF c
<1>9. /\ OpenTokens(chan) = 0 /\ PendingTokens(chan) = 0 /\ OpenTokens(c) = 0
      /\ PendingTokens(c) = IF chan.initiated THEN Local + CommitFee ELSE 0
  BY <1>1, <1>5, <1>6, TokensByState
<1>10. NearChan(chan, c, m)
  BY <1>3, <1>4, <1>9, ChanAmounts DEF NearChan
<1>11. Ledger(c, k, stage')
  <2>1. k - Balances!LeftOut(c) = OpenTokens(c) + PendingTokens(c)
    BY <1>3, <1>5, <1>6, <1>9, ChanAmounts DEF Balances!LeftOut
  <2>2. k \in Int
    BY <1>3
  <2>3. c.local + (IF c.htlc THEN Htlc ELSE 0) <= Local
    BY <1>6, ChanAmounts
  <2>. HIDE DEF k
  <2>. QED
    BY <1>5, <1>6, <1>8, <2>1, <2>2, <2>3, ChanAmounts DEF Ledger
<1>. QED
  BY <1>1, <1>4, <1>7, <1>10, <1>11 DEF MovedWell, m

LEMMA ChannelIsUsable ==
  ASSUME FundsInv, Balances!ChannelOpens
  PROVE  MovedWell(Balances!Stake)
<1>. DEFINE c == [chan EXCEPT !.at = "open"]
            k == IF chan.initiated THEN staked ELSE Local
            m == Balances!Stake
<1>1. chan.at = "opening" /\ chan' = c /\ staked' = k /\ UNCHANGED <<stage, locks>>
  BY DEF Balances!ChannelOpens
<1>2. m \in Nat /\ m = Local + CommitFee + (IF chan.anchors THEN Anchor ELSE 0)
  BY StakeIsNumber
<1>. HIDE DEF m
<1>3. /\ chan \in ChanRec /\ chan.local = Local /\ ~chan.htlc /\ chan.recovered = 0
      /\ (chan.anchors => chan.initiated) /\ stage[Sweep] = "none"
      /\ staked = IF chan.initiated
                  THEN Local + CommitFee + (IF chan.anchors THEN Anchor ELSE 0) ELSE 0
  <2>1. stage[Sweep] = "none"
    BY <1>1 DEF FundsInv, Ledger
  <2>. QED
    BY <1>1, <2>1, LedgerFacts
<1>4. /\ c \in ChanRec /\ c.at = "open" /\ c.local = Local /\ ~c.htlc /\ c.recovered = 0
      /\ c.initiated = chan.initiated /\ c.anchors = chan.anchors
  BY <1>3 DEF ChanRec
<1>. HIDE DEF c
<1>5. /\ OpenTokens(chan) = 0 /\ PendingTokens(c) = 0
      /\ PendingTokens(chan) = IF chan.initiated THEN Local + CommitFee ELSE 0
      /\ OpenTokens(c) = Local + (IF chan.initiated THEN CommitFee ELSE 0)
                         + (IF chan.anchors THEN Anchor ELSE 0)
  BY <1>1, <1>3, <1>4, TokensByState, ChanAmounts
<1>6. NearChan(chan, c, m)
  BY <1>2, <1>3, <1>5, ChanAmounts DEF NearChan
<1>7. Ledger(c, k, stage)
  <2>0. Balances!LeftOut(c) = 0
    BY <1>4 DEF Balances!LeftOut
  <2>1. k \in Int /\ k - Balances!LeftOut(c) = OpenTokens(c) + PendingTokens(c)
    BY <1>3, <1>5, <2>0, ChanAmounts
  <2>2. c.local + (IF c.htlc THEN Htlc ELSE 0) <= Local
    BY <1>4, ChanAmounts
  <2>. HIDE DEF k
  <2>. QED
    BY <1>3, <1>4, <2>1, <2>2, ChanAmounts DEF Ledger
<1>. QED
  BY <1>1, <1>2, <1>6, <1>7, ChannelMoves DEF m

\* A payment is added, is refunded or is paid
LEMMA PaymentOfChannel ==
  ASSUME FundsInv, Balances!AddHtlc \/ Balances!RefundHtlc \/ Balances!PayHtlc
  PROVE  MovedWell(Htlc)
<1>1. /\ chan \in ChanRec /\ staked \in Int /\ (chan.anchors => chan.initiated)
      /\ chan.local \in Nat /\ chan.recovered \in Nat
      /\ chan.local + (IF chan.htlc THEN Htlc ELSE 0) <= Local
      /\ chan.recovered <= chan.local
  BY LedgerFacts
<1>2. Htlc \in Nat /\ Local \in Nat /\ CommitFee \in Nat /\ Anchor \in Nat
  BY ChanAmounts
<1>3. ASSUME Balances!AddHtlc \/ Balances!RefundHtlc
      PROVE  MovedWell(Htlc)
  <2>1. PICK h \in BOOLEAN, l \in Nat :
          /\ chan.at = "open" /\ h # chan.htlc
          /\ l + (IF h THEN Htlc ELSE 0) = chan.local + (IF chan.htlc THEN Htlc ELSE 0)
          /\ chan' = [chan EXCEPT !.htlc = h, !.local = l] /\ UNCHANGED <<stage, locks, staked>>
    <3>1. CASE Balances!AddHtlc
      <4>1. /\ chan.at = "open" /\ ~chan.htlc /\ chan.local >= Htlc
            /\ chan' = [chan EXCEPT !.htlc = TRUE, !.local = chan.local - Htlc]
            /\ UNCHANGED <<stage, locks, staked>>
        BY <1>1, <3>1 DEF Balances!AddHtlc, ChanRec
      <4>2. chan.local - Htlc \in Nat /\ chan.local - Htlc + Htlc = chan.local + 0
        BY <1>1, <1>2, <4>1
      <4>. QED
        BY <4>1, <4>2
    <3>2. CASE Balances!RefundHtlc
      <4>1. /\ chan.at = "open" /\ chan.htlc
            /\ chan' = [chan EXCEPT !.htlc = FALSE, !.local = chan.local + Htlc]
            /\ UNCHANGED <<stage, locks, staked>>
        BY <1>1, <3>2 DEF Balances!RefundHtlc, ChanRec
      <4>2. chan.local + Htlc \in Nat /\ chan.local + Htlc + 0 = chan.local + Htlc
        BY <1>1, <1>2
      <4>. QED
        BY <4>1, <4>2
    <3>. QED
      BY <1>3, <3>1, <3>2
  <2>. DEFINE c == [chan EXCEPT !.htlc = h, !.local = l]
  <2>2. /\ stage[Sweep] = "none" /\ chan.recovered = 0
        /\ staked = chan.local + (IF chan.initiated THEN CommitFee ELSE 0)
                    + (IF chan.anchors THEN Anchor ELSE 0) + (IF chan.htlc THEN Htlc ELSE 0)
    BY <2>1, LedgerFacts
  <2>3. /\ c \in ChanRec /\ c.at = "open" /\ c.local = l /\ c.htlc = h /\ c.recovered = 0
        /\ c.initiated = chan.initiated /\ c.anchors = chan.anchors
    BY <1>1, <2>1, <2>2 DEF ChanRec
  <2>4. chan' = c
    BY <2>1
  <2>. HIDE DEF c
  <2>5. /\ PendingTokens(chan) = 0 /\ PendingTokens(c) = 0
        /\ OpenTokens(chan) = staked /\ OpenTokens(c) = staked
    BY <1>1, <1>2, <2>1, <2>2, <2>3, TokensByState
  <2>6. NearChan(chan, c, Htlc)
    BY <1>1, <1>2, <2>5 DEF NearChan
  <2>7. Ledger(c, staked, stage)
    <3>1. Balances!LeftOut(c) = 0
      BY <2>3 DEF Balances!LeftOut
    <3>. QED
      BY <1>1, <1>2, <2>1, <2>2, <2>3, <2>5, <3>1 DEF Ledger
  <2>. QED
    BY <1>2, <2>1, <2>4, <2>6, <2>7, ChannelMoves
<1>4. ASSUME Balances!PayHtlc PROVE MovedWell(Htlc)
  <2>. DEFINE c == [chan EXCEPT !.htlc = FALSE]
  <2>1. /\ chan.at \in {"open", "closing"} /\ chan.htlc /\ chan' = c
        /\ staked' = staked - Htlc /\ UNCHANGED <<stage, locks>>
    BY <1>4 DEF Balances!PayHtlc
  <2>2. /\ c \in ChanRec /\ c.at = chan.at /\ c.local = chan.local /\ ~c.htlc
        /\ c.recovered = chan.recovered
        /\ c.initiated = chan.initiated /\ c.anchors = chan.anchors
    BY <1>1 DEF ChanRec
  <2>. HIDE DEF c
  <2>3. CASE chan.at = "open"
    <3>1. /\ stage[Sweep] = "none" /\ chan.recovered = 0
          /\ staked = chan.local + (IF chan.initiated THEN CommitFee ELSE 0)
                      + (IF chan.anchors THEN Anchor ELSE 0) + Htlc
      BY <2>1, <2>3, LedgerFacts
    <3>2. /\ PendingTokens(chan) = 0 /\ PendingTokens(c) = 0
          /\ OpenTokens(chan) = staked /\ OpenTokens(c) = staked - Htlc
      BY <1>1, <1>2, <2>1, <2>2, <2>3, <3>1, TokensByState
    <3>3. NearChan(chan, c, Htlc)
      BY <1>1, <1>2, <3>2 DEF NearChan
    <3>4. Ledger(c, staked - Htlc, stage)
      <4>1. Balances!LeftOut(c) = 0
        BY <2>2, <2>3 DEF Balances!LeftOut
      <4>. QED
        BY <1>1, <1>2, <2>1, <2>2, <2>3, <3>1, <3>2, <4>1 DEF Ledger
    <3>. QED
      BY <1>2, <2>1, <3>3, <3>4, ChannelMoves
  <2>4. CASE chan.at = "closing"
    <3>1. staked = chan.local - chan.recovered + Htlc
      BY <2>1, <2>4, LedgerFacts
    <3>2. /\ OpenTokens(chan) = 0 /\ OpenTokens(c) = 0
          /\ PendingTokens(chan) = staked - Htlc /\ PendingTokens(c) = staked - Htlc
      BY <1>1, <1>2, <2>1, <2>2, <2>4, <3>1, TokensByState
    <3>3. NearChan(chan, c, Htlc)
      BY <1>1, <1>2, <3>2 DEF NearChan
    <3>4. /\ stage[Sweep] # "mined" => c.recovered = 0
          /\ stage[Sweep] = "pool" => Balances!Tokens(Created[Sweep]) <= c.local
      BY <2>2 DEF FundsInv, Ledger
    <3>5. Ledger(c, staked - Htlc, stage)
      <4>1. Balances!LeftOut(c) = 0
        BY <2>2, <2>4 DEF Balances!LeftOut
      <4>. QED
        BY <1>1, <1>2, <2>1, <2>2, <2>4, <3>1, <3>2, <3>4, <4>1 DEF Ledger
    <3>. QED
      BY <1>2, <2>1, <3>3, <3>5, ChannelMoves
  <2>. QED
    BY <2>1, <2>3, <2>4
<1>. QED
  BY <1>3, <1>4

LEMMA CommitmentIsPublished ==
  ASSUME FundsInv, Balances!CloseChannel
  PROVE  MovedWell(Balances!Stake)
<1>. DEFINE c == [chan EXCEPT !.at = "closing"]
            k == IF chan.initiated THEN staked - (Balances!Stake - Local) ELSE staked
            m == Balances!Stake
<1>1. chan.at = "open" /\ chan' = c /\ staked' = k /\ UNCHANGED <<stage, locks>>
  BY DEF Balances!CloseChannel
<1>2. m \in Nat /\ m = Local + CommitFee + (IF chan.anchors THEN Anchor ELSE 0)
  BY StakeIsNumber
<1>3. /\ chan \in ChanRec /\ chan.local \in Nat /\ chan.recovered = 0
      /\ (chan.anchors => chan.initiated) /\ stage[Sweep] = "none" /\ staked \in Int
      /\ chan.local + (IF chan.htlc THEN Htlc ELSE 0) <= Local
      /\ staked = chan.local + (IF chan.initiated THEN CommitFee ELSE 0)
                  + (IF chan.anchors THEN Anchor ELSE 0) + (IF chan.htlc THEN Htlc ELSE 0)
  BY <1>1, LedgerFacts
<1>4. /\ c \in ChanRec /\ c.at = "closing" /\ c.local = chan.local /\ c.htlc = chan.htlc
      /\ c.recovered = 0 /\ c.initiated = chan.initiated /\ c.anchors = chan.anchors
  BY <1>3 DEF ChanRec
<1>5. k \in Int /\ k = chan.local + (IF chan.htlc THEN Htlc ELSE 0)
  BY <1>2, <1>3, ChanAmounts DEF m
<1>. HIDE DEF c, m, k
<1>6. /\ PendingTokens(chan) = 0 /\ OpenTokens(c) = 0
      /\ OpenTokens(chan) = staked /\ PendingTokens(c) = chan.local
      /\ Balances!LeftOut(c) = IF chan.htlc THEN Htlc ELSE 0
  BY <1>1, <1>3, <1>4, <1>5, TokensByState, ChanAmounts DEF Balances!LeftOut
<1>7. chan.local <= m /\ staked <= m /\ chan.local <= staked
  BY <1>2, <1>3, <1>5, ChanAmounts
<1>8. NearChan(chan, c, m)
  BY <1>2, <1>3, <1>6, <1>7 DEF NearChan
<1>9. Ledger(c, k, stage)
  BY <1>3, <1>4, <1>5, <1>6, ChanAmounts DEF Ledger
<1>. QED
  BY <1>1, <1>2, <1>8, <1>9, ChannelMoves DEF m

LEMMA ChannelIsSwept ==
  ASSUME FundsInv, Balances!SweepChannel
  PROVE  MovedWell(Balances!Of(Sweep))
<1>. DEFINE m == Balances!Of(Sweep)
<1>1. /\ chan.at = "closing" /\ stage[Sweep] = "none" /\ UNCHANGED <<locks, chan, staked>>
      /\ Balances!Tokens(Created[Sweep]) <= chan.local
      /\ \A u \in Spent[Sweep] : u \notin locks
      /\ stage' = [stage EXCEPT ![Sweep] = "pool"]
  BY DEF Balances!SweepChannel
<1>2. Sweep \in Txs /\ m \in Nat /\ Balances!Tokens(Spent[Sweep]) <= m
  BY CoinsGiven, MovesOfTransactions
<1>. HIDE DEF m
<1>3. AllThere(stage', locks') /\ NearTo(stage, locks, stage', locks', m)
  BY <1>1, <1>2, NearWhenSeen DEF FundsInv
<1>4. stage'[Sweep] = "pool"
  BY <1>1, <1>2 DEF FundsInv, AllThere, Stagings
<1>5. Ledger(chan, staked, stage')
  BY <1>1, <1>4 DEF FundsInv, Ledger
<1>6. NearChan(chan, chan, m)
  BY <1>2, <1>5, NearToItsChan DEF Ledger
<1>. QED
  BY <1>1, <1>2, <1>3, <1>5, <1>6 DEF MovedWell, m

LEMMA ChannelIsResolved ==
  ASSUME FundsInv, Balances!ResolveChannel
  PROVE  MovedWell(chan.local)
<1>. DEFINE c == [chan EXCEPT !.at = "closed"]
            m == chan.local
<1>1. /\ chan.at = "closing" /\ chan.recovered > 0 /\ ~chan.htlc
      /\ chan' = c /\ staked' = 0 /\ UNCHANGED <<stage, locks>>
  BY DEF Balances!ResolveChannel
<1>2. /\ chan \in ChanRec /\ m \in Nat /\ chan.recovered \in Nat /\ chan.recovered <= m
      /\ (chan.anchors => chan.initiated) /\ stage[Sweep] = "mined"
      /\ chan.local + (IF chan.htlc THEN Htlc ELSE 0) <= Local
  BY <1>1, LedgerFacts
<1>3. /\ c \in ChanRec /\ c.at = "closed" /\ c.local = m /\ c.htlc = chan.htlc
      /\ c.recovered = chan.recovered /\ c.initiated = chan.initiated /\ c.anchors = chan.anchors
  BY <1>2 DEF ChanRec
<1>. HIDE DEF c
<1>4. /\ OpenTokens(chan) = 0 /\ PendingTokens(chan) = m - chan.recovered
      /\ OpenTokens(c) = 0 /\ PendingTokens(c) = 0
  <2>1. PendingTokens(chan) = m - chan.recovered + 0
    BY <1>1, <1>2, TokensByState
  <2>. QED
    BY <1>1, <1>2, <1>3, <2>1, TokensByState
<1>5. NearChan(chan, c, m)
  BY <1>2, <1>4 DEF NearChan
<1>6. Ledger(c, 0, stage)
  <2>1. Balances!LeftOut(c) = 0
    BY <1>3 DEF Balances!LeftOut
  <2>. QED
    BY <1>1, <1>2, <1>3, <1>4, <2>1 DEF Ledger
<1>. QED
  BY <1>1, <1>2, <1>5, <1>6, ChannelMoves

-----------------------------------------------------------------------------
(* The query                                                                 *)

\* LND lists the channel as open, as pending, or not at all
OpenOf(c) == IF c.at = "open" THEN {c} ELSE {}
PendingOf(c) == IF c.at \in {"opening", "closing"} THEN {c} ELSE {}

LEMMA OneOrNone ==
  ASSUME NEW c, NEW S, S \in {{}, {c}}, NEW s \in SUBSET S
  PROVE  s = {} \/ (s = {c} /\ S = {c} /\ AnyOf(s) = c /\ s \ {AnyOf(s)} = {})
BY DEF AnyOf

LEMMA OpenSum ==
  ASSUME NEW c, NEW S, S \in {{}, {c}}, Balances!ChannelBalance(c) \in Int
  PROVE  Balances!SumOf(S, Balances!ChannelBalance) = IF S = {} THEN 0 ELSE Balances!ChannelBalance(c)
<1>. DEFINE x == Balances!ChannelBalance(c)
            Sums(h) == h = [s \in SUBSET S |->
                              IF s = {} THEN 0 ELSE Balances!ChannelBalance(AnyOf(s)) + h[s \ {AnyOf(s)}]]
            sum == CHOOSE h : Sums(h)
            f == [s \in SUBSET S |-> IF s = {} THEN 0 ELSE x]
<1>1. Sums(f)
  <2>. HIDE DEF f
  <2>1. f = [s \in SUBSET S |-> IF s = {} THEN 0 ELSE x] /\ f[{}] = 0 /\ x + 0 = x
    BY DEF f
  <2>2. ASSUME NEW s \in SUBSET S, s # {}
        PROVE  x = Balances!ChannelBalance(AnyOf(s)) + f[s \ {AnyOf(s)}]
    <3>1. AnyOf(s) = c /\ s \ {AnyOf(s)} = {}
      BY <2>2, OneOrNone
    <3>2. Balances!ChannelBalance(AnyOf(s)) = x
      BY <3>1
    <3>. QED
      BY <2>1, <3>1, <3>2
  <2>3. \A s \in SUBSET S :
          (IF s = {} THEN 0 ELSE x)
            = IF s = {} THEN 0 ELSE Balances!ChannelBalance(AnyOf(s)) + f[s \ {AnyOf(s)}]
    BY <2>2
  <2>. QED
    BY <2>1, <2>3
<1>2. Sums(sum)
  <2>. HIDE DEF Sums
  <2>. QED
    BY <1>1
<1>3. Balances!SumOf(S, Balances!ChannelBalance) = sum[S]
  BY DEF Balances!SumOf, Balances!MapThenSumSet, Balances!MapThenFoldSet, AnyOf
<1>. HIDE DEF sum
<1>4. \A s \in SUBSET S : sum[s] = IF s = {} THEN 0
                                   ELSE Balances!ChannelBalance(AnyOf(s)) + sum[s \ {AnyOf(s)}]
  BY <1>2
<1>5. sum[{}] = 0
  BY <1>4
<1>6. S # {} => sum[S] = x
  <2>1. ASSUME S # {} PROVE S = {c} /\ AnyOf(S) = c /\ S \ {AnyOf(S)} = {}
    BY <2>1, OneOrNone
  <2>2. ASSUME S # {} PROVE sum[S] = x + 0
    <3>1. sum[S] = Balances!ChannelBalance(AnyOf(S)) + sum[S \ {AnyOf(S)}]
      BY <1>4, <2>2
    <3>. QED
      BY <1>5, <2>1, <2>2, <3>1
  <2>. QED
    BY <2>2
<1>. HIDE DEF x
<1>7. sum[S] = IF S = {} THEN 0 ELSE x
  BY <1>5, <1>6
<1>. QED
  BY <1>3, <1>7 DEF x

LEMMA PendingSum ==
  ASSUME NEW c, NEW S, S \in {{}, {c}}, Balances!PendingBalance(c) \in Int
  PROVE  Balances!SumOf(S, Balances!PendingBalance) = IF S = {} THEN 0 ELSE Balances!PendingBalance(c)
<1>. DEFINE x == Balances!PendingBalance(c)
            Sums(h) == h = [s \in SUBSET S |->
                              IF s = {} THEN 0 ELSE Balances!PendingBalance(AnyOf(s)) + h[s \ {AnyOf(s)}]]
            sum == CHOOSE h : Sums(h)
            f == [s \in SUBSET S |-> IF s = {} THEN 0 ELSE x]
<1>1. Sums(f)
  <2>. HIDE DEF f
  <2>1. f = [s \in SUBSET S |-> IF s = {} THEN 0 ELSE x] /\ f[{}] = 0 /\ x + 0 = x
    BY DEF f
  <2>2. ASSUME NEW s \in SUBSET S, s # {}
        PROVE  x = Balances!PendingBalance(AnyOf(s)) + f[s \ {AnyOf(s)}]
    <3>1. AnyOf(s) = c /\ s \ {AnyOf(s)} = {}
      BY <2>2, OneOrNone
    <3>2. Balances!PendingBalance(AnyOf(s)) = x
      BY <3>1
    <3>. QED
      BY <2>1, <3>1, <3>2
  <2>3. \A s \in SUBSET S :
          (IF s = {} THEN 0 ELSE x)
            = IF s = {} THEN 0 ELSE Balances!PendingBalance(AnyOf(s)) + f[s \ {AnyOf(s)}]
    BY <2>2
  <2>. QED
    BY <2>1, <2>3
<1>2. Sums(sum)
  <2>. HIDE DEF Sums
  <2>. QED
    BY <1>1
<1>3. Balances!SumOf(S, Balances!PendingBalance) = sum[S]
  BY DEF Balances!SumOf, Balances!MapThenSumSet, Balances!MapThenFoldSet, AnyOf
<1>. HIDE DEF sum
<1>4. \A s \in SUBSET S : sum[s] = IF s = {} THEN 0
                                   ELSE Balances!PendingBalance(AnyOf(s)) + sum[s \ {AnyOf(s)}]
  BY <1>2
<1>5. sum[{}] = 0
  BY <1>4
<1>6. S # {} => sum[S] = x
  <2>1. ASSUME S # {} PROVE S = {c} /\ AnyOf(S) = c /\ S \ {AnyOf(S)} = {}
    BY <2>1, OneOrNone
  <2>2. ASSUME S # {} PROVE sum[S] = x + 0
    <3>1. sum[S] = Balances!PendingBalance(AnyOf(S)) + sum[S \ {AnyOf(S)}]
      BY <1>4, <2>2
    <3>. QED
      BY <1>5, <2>1, <2>2, <3>1
  <2>. QED
    BY <2>2
<1>. HIDE DEF x
<1>7. sum[S] = IF S = {} THEN 0 ELSE x
  BY <1>5, <1>6
<1>. QED
  BY <1>3, <1>7 DEF x

LEMMA ClosingSum ==
  ASSUME NEW c, NEW S, S \in {{}, {c}}, Balances!Closing(c) \in Int
  PROVE  Balances!SumOf(S, Balances!Closing) = IF S = {} THEN 0 ELSE Balances!Closing(c)
<1>. DEFINE x == Balances!Closing(c)
            Sums(h) == h = [s \in SUBSET S |->
                              IF s = {} THEN 0 ELSE Balances!Closing(AnyOf(s)) + h[s \ {AnyOf(s)}]]
            sum == CHOOSE h : Sums(h)
            f == [s \in SUBSET S |-> IF s = {} THEN 0 ELSE x]
<1>1. Sums(f)
  <2>. HIDE DEF f
  <2>1. f = [s \in SUBSET S |-> IF s = {} THEN 0 ELSE x] /\ f[{}] = 0 /\ x + 0 = x
    BY DEF f
  <2>2. ASSUME NEW s \in SUBSET S, s # {}
        PROVE  x = Balances!Closing(AnyOf(s)) + f[s \ {AnyOf(s)}]
    <3>1. AnyOf(s) = c /\ s \ {AnyOf(s)} = {}
      BY <2>2, OneOrNone
    <3>2. Balances!Closing(AnyOf(s)) = x
      BY <3>1
    <3>. QED
      BY <2>1, <3>1, <3>2
  <2>3. \A s \in SUBSET S :
          (IF s = {} THEN 0 ELSE x)
            = IF s = {} THEN 0 ELSE Balances!Closing(AnyOf(s)) + f[s \ {AnyOf(s)}]
    BY <2>2
  <2>. QED
    BY <2>1, <2>3
<1>2. Sums(sum)
  <2>. HIDE DEF Sums
  <2>. QED
    BY <1>1
<1>3. Balances!SumOf(S, Balances!Closing) = sum[S]
  BY DEF Balances!SumOf, Balances!MapThenSumSet, Balances!MapThenFoldSet, AnyOf
<1>. HIDE DEF sum
<1>4. \A s \in SUBSET S : sum[s] = IF s = {} THEN 0
                                   ELSE Balances!Closing(AnyOf(s)) + sum[s \ {AnyOf(s)}]
  BY <1>2
<1>5. sum[{}] = 0
  BY <1>4
<1>6. S # {} => sum[S] = x
  <2>1. ASSUME S # {} PROVE S = {c} /\ AnyOf(S) = c /\ S \ {AnyOf(S)} = {}
    BY <2>1, OneOrNone
  <2>2. ASSUME S # {} PROVE sum[S] = x + 0
    <3>1. sum[S] = Balances!Closing(AnyOf(S)) + sum[S \ {AnyOf(S)}]
      BY <1>4, <2>2
    <3>. QED
      BY <1>5, <2>1, <2>2, <3>1
  <2>. QED
    BY <2>2
<1>. HIDE DEF x
<1>7. sum[S] = IF S = {} THEN 0 ELSE x
  BY <1>5, <1>6
<1>. QED
  BY <1>3, <1>7 DEF x

\* What the balances add up
LEMMA BalanceAdds ==
  ASSUME NEW q, NEW isConfirmed \in BOOLEAN
  PROVE  LET a == Balances!Balance(q, isConfirmed)
             utxos == [order |-> Balances!AnOrder(q.utxos.conf), conf |-> q.utxos.conf]
             tx == [t \in Txs |-> IF q.tx[t] = "mined" THEN "mined" ELSE "none"]
         IN  /\ a.offchain = Balances!SumOf(q.channels, Balances!ChannelBalance)
             /\ a.pending = Balances!SumOf(q.pending, Balances!PendingBalance)
             /\ a.closing = Balances!SumOf(q.pending, Balances!Closing)
             /\ a.onchainConfirmed = Balances!Tokens(q.utxos.conf)
                                     + Balances!Tokens(Balances!Change(utxos, tx))
                                     + Balances!LockedTokens(q)
BY DEF Balances!Balance, Balances!DetailedBalances

LEMMA ListedChannel ==
  ASSUME NEW c \in ChanRec
  PROVE  /\ Balances!SumOf(OpenOf(c), Balances!ChannelBalance) = OpenTokens(c)
         /\ Balances!SumOf(PendingOf(c), Balances!PendingBalance)
            + Balances!SumOf(PendingOf(c), Balances!Closing) = PendingTokens(c)
<1>1. /\ Balances!ChannelBalance(c) \in Int /\ Balances!PendingBalance(c) \in Int
      /\ Balances!Closing(c) \in Int
  BY ChanAmounts DEF ChanRec, Balances!ChannelBalance, Balances!PendingBalance, Balances!Closing
<1>2. /\ OpenOf(c) \in {{}, {c}} /\ (OpenOf(c) = {} <=> c.at # "open")
      /\ PendingOf(c) \in {{}, {c}} /\ (PendingOf(c) = {} <=> c.at \notin {"opening", "closing"})
  BY DEF OpenOf, PendingOf
<1>3. Balances!SumOf(OpenOf(c), Balances!ChannelBalance) = OpenTokens(c)
  BY <1>1, <1>2, OpenSum DEF OpenTokens
<1>4. Balances!SumOf(PendingOf(c), Balances!PendingBalance)
        = IF PendingOf(c) = {} THEN 0 ELSE Balances!PendingBalance(c)
  BY <1>1, <1>2, PendingSum
<1>5. Balances!SumOf(PendingOf(c), Balances!Closing)
        = IF PendingOf(c) = {} THEN 0 ELSE Balances!Closing(c)
  BY <1>1, <1>2, ClosingSum
<1>6. Balances!SumOf(PendingOf(c), Balances!PendingBalance)
      + Balances!SumOf(PendingOf(c), Balances!Closing) = PendingTokens(c)
  BY <1>1, <1>2, <1>4, <1>5 DEF PendingTokens
<1>. QED
  BY <1>3, <1>6

\* What is answered of the channel, listed by two calls about one move
LEMMA ChannelIsNear ==
  ASSUME NEW c \in ChanRec, NEW d \in ChanRec, NEW m \in Nat, NearChan(c, d, m),
         NEW q, NEW isConfirmed \in BOOLEAN,
         q.channels \in {OpenOf(c), OpenOf(d)}, q.pending \in {PendingOf(c), PendingOf(d)}
  PROVE  LET a == Balances!Balance(q, isConfirmed)
         IN  a.offchain + a.pending + a.closing - (OpenTokens(d) + PendingTokens(d)) \in -m..m
<1>. DEFINE a == Balances!Balance(q, isConfirmed)
<1>1. PICK x \in {c, d}, y \in {c, d} : q.channels = OpenOf(x) /\ q.pending = PendingOf(y)
  OBVIOUS
<1>2. x \in ChanRec /\ y \in ChanRec
  BY <1>1
<1>. DEFINE p == Balances!SumOf(PendingOf(y), Balances!PendingBalance)
            z == Balances!SumOf(PendingOf(y), Balances!Closing)
<1>3. /\ Balances!SumOf(OpenOf(x), Balances!ChannelBalance) = OpenTokens(x)
      /\ p + z = PendingTokens(y)
  BY <1>2, ListedChannel
<1>4. p \in Int /\ z \in Int
  <2>1. /\ Balances!PendingBalance(y) \in Int /\ Balances!Closing(y) \in Int
    BY <1>2, ChanAmounts DEF ChanRec, Balances!PendingBalance, Balances!Closing
  <2>2. PendingOf(y) \in {{}, {y}}
    BY DEF PendingOf
  <2>3. p = IF PendingOf(y) = {} THEN 0 ELSE Balances!PendingBalance(y)
    BY <2>1, <2>2, PendingSum
  <2>4. z = IF PendingOf(y) = {} THEN 0 ELSE Balances!Closing(y)
    BY <2>1, <2>2, ClosingSum
  <2>. QED
    BY <2>1, <2>3, <2>4
<1>5. a.offchain = OpenTokens(x) /\ a.pending = p /\ a.closing = z
  BY <1>1, <1>3, BalanceAdds
<1>. HIDE DEF a, p, z
<1>6. /\ OpenTokens(c) \in Int /\ PendingTokens(c) \in Int
      /\ OpenTokens(d) \in Int /\ PendingTokens(d) \in Int
  BY ChanTokens
<1>7. OpenTokens(x) + PendingTokens(y) - (OpenTokens(d) + PendingTokens(d)) \in -m..m
  <2>1. CASE x = c /\ y = c
    BY <2>1 DEF NearChan
  <2>2. CASE x = d /\ y = d
    BY <1>6, <2>2
  <2>3. CASE x = c /\ y = d
    BY <1>6, <2>3 DEF NearChan
  <2>4. CASE x = d /\ y = c
    BY <1>6, <2>4 DEF NearChan
  <2>. QED
    BY <1>1, <2>1, <2>2, <2>3, <2>4
<1>8. OpenTokens(x) + p + z = OpenTokens(x) + PendingTokens(y) /\ OpenTokens(x) \in Int
  BY <1>2, <1>3, <1>4, ChanTokens
<1>9. a.offchain + a.pending + a.closing - (OpenTokens(d) + PendingTokens(d)) \in -m..m
  <2>1. /\ a.offchain \in Int /\ a.pending \in Int /\ a.closing \in Int
        /\ a.pending + a.closing = PendingTokens(y) /\ PendingTokens(y) \in Int
    BY <1>2, <1>3, <1>4, <1>5, ChanTokens
  <2>2. a.offchain + a.pending + a.closing - (OpenTokens(d) + PendingTokens(d))
          = OpenTokens(x) + PendingTokens(y) - (OpenTokens(d) + PendingTokens(d))
    BY <1>5, <1>6, <2>1
  <2>. QED
    BY <1>7, <2>2
<1>. QED
  BY <1>9 DEF a

\* What is answered of the confirmed coins
LEMMA NoChange ==
  ASSUME NEW S \in SUBSET Coins, NEW tx
  PROVE  Balances!Tokens(Balances!Change([order |-> Balances!AnOrder(S), conf |-> S], tx)) = 0
<1>. DEFINE s == Balances!AnOrder(S)
            C == Balances!Change([order |-> s, conf |-> S], tx)
<1>1. IsFiniteSet(S)
  <2>1. IsFiniteSet(Coins)
    BY BalancesGiven DEF Balances!NodeFundsAssumption, Balances!IsFiniteSet, IsFiniteSet
  <2>. QED
    BY <2>1, FS_Subset
<1>2. s = Records!SetToSeq(S)
  BY DEF Balances!AnOrder, Records!SetToSeq, Balances!IsInjective, Records!IsInjective,
         Balances!Cardinality, Records!Cardinality
<1>3. s \in Seq(S)
  BY <1>1, <1>2, SetListed DEF Lists
<1>4. Balances!Range(s) \subseteq S
  BY <1>3 DEF Balances!Range
<1>. HIDE DEF s
<1>5. C = {}
  BY <1>4 DEF Balances!Change
<1>. HIDE DEF C
<1>6. C \in SUBSET Coins /\ C \cap C = {} /\ C \cup C = C
  BY <1>5
<1>7. Balances!Tokens(C) \in Nat /\ Balances!Tokens(C) = Balances!Tokens(C) + Balances!Tokens(C)
  <2>1. Balances!Tokens(C) \in Nat
    BY <1>6, TokensOfSets
  <2>2. Balances!Tokens(C \cup C) = Balances!Tokens(C) + Balances!Tokens(C)
    BY <1>6, TokensOfSets
  <2>. QED
    BY <1>6, <2>1, <2>2
<1>. DEFINE n == Balances!Tokens(C)
<1>8. n \in Nat /\ n = n + n
  BY <1>7
<1>. HIDE DEF n
<1>9. n = 0
  BY <1>8
<1>. QED
  BY <1>9 DEF n, C, s

LEMMA CoinsAreNear ==
  ASSUME NEW s, NEW l \in SUBSET Coins, NEW s1, NEW l1 \in SUBSET Coins, NEW m \in Nat,
         NearTo(s, l, s1, l1, m), NEW q, NEW isConfirmed \in BOOLEAN,
         q.utxos.conf \in {FreeIn(s, l), FreeIn(s1, l1)}, q.tx \in {s, s1}, q.locked \in {l, l1}
  PROVE  Balances!Balance(q, isConfirmed).onchainConfirmed - Balances!Tokens(Settled(s1)) \in -m..m
<1>. DEFINE F == q.utxos.conf
            K == LockedIn(q.tx, q.locked)
            tx == [t \in Txs |-> IF q.tx[t] = "mined" THEN "mined" ELSE "none"]
            C == Balances!Change([order |-> Balances!AnOrder(F), conf |-> F], tx)
            x == Balances!Balance(q, isConfirmed).onchainConfirmed
<1>1. F \in SUBSET Coins /\ K \in SUBSET Coins
  BY DEF FreeIn, Settled, LockedIn
<1>2. Balances!LockedTokens(q) = Balances!Tokens(K)
  BY DEF Balances!LockedTokens, LockedIn
<1>3. x = Balances!Tokens(F) + Balances!Tokens(C) + Balances!LockedTokens(q)
  BY BalanceAdds
<1>4. Balances!Tokens(C) = 0
  BY <1>1, NoChange
<1>5. Balances!Tokens(F) \in Nat /\ Balances!Tokens(K) \in Nat
  BY <1>1, TokensOfSets
<1>6. Balances!Tokens(F) + Balances!Tokens(K) - Balances!Tokens(Settled(s1)) \in -m..m
  BY DEF NearTo
<1>7. x = Balances!Tokens(F) + Balances!Tokens(K)
  <2>. HIDE DEF x, C, F, K
  <2>. QED
    BY <1>2, <1>3, <1>4, <1>5
<1>8. Settled(s1) \in SUBSET Coins
  BY DEF Settled
<1>9. Balances!Tokens(Settled(s1)) \in Nat
  BY <1>8, TokensOfSets
<1>. HIDE DEF x, F, K
<1>10. x - Balances!Tokens(Settled(s1)) \in -m..m
  BY <1>5, <1>6, <1>7, <1>9
<1>. QED
  BY <1>10 DEF x

\* What LND lists
LEMMA CoinsListed ==
  ASSUME AllThere(stage, locks), NEW order \in Balances!Listings
  PROVE  {u \in Balances!Range(order) : Balances!Confirmed(u)} = FreeIn(stage, locks)
<1>. DEFINE S == {u \in Coins : Balances!Exists(u) /\ u \notin locks}
            n == Cardinality(S)
<1>1. IsFiniteSet(S)
  <2>1. IsFiniteSet(Coins)
    BY BalancesGiven DEF Balances!NodeFundsAssumption, Balances!IsFiniteSet, IsFiniteSet
  <2>. QED
    BY <2>1, FS_Subset
<1>2. order \in {f \in [1..n -> S] : \A i, j \in 1..n : i # j => f[i] # f[j]}
  BY DEF Balances!Listings, Balances!Orders, Balances!Injection, Balances!IsInjective,
         Balances!Cardinality, Cardinality
<1>. HIDE DEF S
<1>3. n \in Nat /\ IsFiniteSet(1..n) /\ Cardinality(1..n) = n
  <2>1. n \in Nat
    BY <1>1, FS_CardinalityType
  <2>. HIDE DEF n
  <2>2. 1 \in Int /\ n \in Int
    BY <2>1
  <2>3. IsFiniteSet(1..n) /\ Cardinality(1..n) = IF 1 > n THEN 0 ELSE n - 1 + 1
    BY <2>2, FS_Interval
  <2>. QED
    BY <2>1, <2>3
<1>4. order \in Injection(1..n, S)
  BY <1>2 DEF Injection, IsInjective
<1>5. order \in Surjection(1..n, S)
  BY <1>1, <1>3, <1>4, FS_Injection
<1>6. Balances!Range(order) = S
  BY <1>2, <1>5 DEF Surjection, Balances!Range
<1>. QED
  BY <1>6, CoinIsThere DEF S, FreeIn, Settled, Balances!Confirmed

QueryRecord ==
  [at : {"idle", "asked", "done"}, still : BOOLEAN, moved : Nat, lockedFailed : BOOLEAN,
   channels : {balance.channels}, pending : {balance.pending}, tx : {balance.tx},
   utxos : {balance.utxos}, locked : {balance.locked}, answer : {balance.answer}]

\* The calls that have returned told of the coins and the channel as they were
SawFunds(s, l, c) ==
  /\ balance.channels \in {Unknown, OpenOf(c)}
  /\ balance.pending \in {Unknown, PendingOf(c)}
  /\ balance.tx \in {Unknown, s}
  /\ balance.utxos # Unknown => balance.utxos.conf = FreeIn(s, l)
  /\ ~balance.lockedFailed => balance.locked \in {Unknown, l, locks}

\* As they were is as they are, or as they were before one move
SeenBefore(s, l, c) ==
  /\ NearTo(s, l, stage, locks, balance.moved) /\ NearChan(c, chan, balance.moved)
  /\ balance.still => s = stage /\ l = locks /\ c = chan

QueryInv ==
  balance.at = "asked" =>
    \E s \in Stagings, l \in SUBSET Coins, c \in ChanRec : SawFunds(s, l, c) /\ SeenBefore(s, l, c)

FundsHeld == FundsInv /\ balance \in QueryRecord /\ QueryInv /\ Balances!SafelyCounted

LEMMA NotAnsweredYet ==
  ASSUME balance.at # "done"
  PROVE  Balances!SafelyCounted
BY DEF Balances!SafelyCounted, Balances!ChannelsAreCounted, Balances!ConfirmedAreCounted

\* A query under way, while a move of so many tokens is made
LEMMA FundsMove ==
  ASSUME FundsHeld, NEW m, MovedWell(m),
         \/ balance.at = "idle" /\ balance' = balance
         \/ /\ balance.at = "asked" /\ balance.still
            /\ balance' = [balance EXCEPT !.still = FALSE, !.moved = m]
  PROVE  FundsHeld'
<1>1. m \in Nat /\ FundsInv'
  BY DEF MovedWell, FundsInv
<1>2. balance \in QueryRecord
  BY DEF FundsHeld
<1>3. CASE balance.at = "idle"
  <2>1. balance' = balance
    BY <1>3
  <2>2. (balance \in QueryRecord)'
    BY <1>2, <2>1 DEF QueryRecord
  <2>3. QueryInv'
    BY <1>3, <2>1 DEF QueryInv
  <2>4. Balances!SafelyCounted'
    BY <1>3, <2>1, NotAnsweredYet DEF Balances!SafelyCounted, Balances!ChannelsAreCounted,
       Balances!ConfirmedAreCounted
  <2>. QED
    BY <1>1, <2>2, <2>3, <2>4 DEF FundsHeld
<1>4. CASE balance.at = "asked"
  <2>1. balance.still /\ balance' = [balance EXCEPT !.still = FALSE, !.moved = m]
    BY <1>4
  <2>2. PICK s \in Stagings, l \in SUBSET Coins, c \in ChanRec :
          SawFunds(s, l, c) /\ s = stage /\ l = locks /\ c = chan
    BY <1>4, <2>1 DEF FundsHeld, QueryInv, SeenBefore
  <2>3. /\ (balance \in QueryRecord)'
        /\ balance'.at = "asked" /\ balance'.still = FALSE /\ balance'.moved = m
        /\ balance'.lockedFailed = balance.lockedFailed /\ balance'.channels = balance.channels
        /\ balance'.pending = balance.pending /\ balance'.tx = balance.tx
        /\ balance'.utxos = balance.utxos /\ balance'.locked = balance.locked
    BY <1>1, <1>2, <1>4, <2>1 DEF QueryRecord
  <2>4. SawFunds(s, l, c)'
    BY <2>2, <2>3 DEF SawFunds
  <2>5. SeenBefore(s, l, c)'
    BY <2>2, <2>3 DEF SeenBefore, MovedWell
  <2>6. QueryInv'
    BY <2>4, <2>5 DEF QueryInv
  <2>7. Balances!SafelyCounted'
    BY <2>3 DEF Balances!SafelyCounted, Balances!ChannelsAreCounted, Balances!ConfirmedAreCounted
  <2>. QED
    BY <1>1, <2>3, <2>6, <2>7 DEF FundsHeld
<1>. QED
  BY <1>3, <1>4

LEMMA LockLapses ==
  ASSUME FundsHeld, NEW u \in Coins, Balances!LapseLock(u)
  PROVE  FundsHeld'
<1>1. /\ balance.at = "asked" /\ balance.still /\ balance.locked # Unknown
      /\ locks' = locks \ {u} /\ UNCHANGED <<stage, chan, staked>>
      /\ balance' = [balance EXCEPT !.still = FALSE, !.moved = CoinWorth[u],
                                    !.locked = balance.locked \ {u}]
  <2>1. balance \in QueryRecord
    BY DEF FundsHeld
  <2>2. [balance EXCEPT !.still = FALSE, !.moved = CoinWorth[u], !.locked = @ \ {u}]
          = [balance EXCEPT !.still = FALSE, !.moved = CoinWorth[u],
                            !.locked = balance.locked \ {u}]
    BY <2>1 DEF QueryRecord
  <2>. QED
    BY <2>2 DEF Balances!LapseLock
<1>. DEFINE m == CoinWorth[u]
<1>2. balance \in QueryRecord /\ FundsInv
  BY DEF FundsHeld
<1>3. MovedWell(m)
  BY <1>1, <1>2, CoinIsLocked
<1>4. m \in Nat /\ FundsInv'
  BY <1>3 DEF MovedWell, FundsInv
<1>. HIDE DEF m
<1>5. PICK s \in Stagings, l \in SUBSET Coins, c \in ChanRec :
        SawFunds(s, l, c) /\ s = stage /\ l = locks /\ c = chan
  BY <1>1 DEF FundsHeld, QueryInv, SeenBefore
<1>6. /\ (balance \in QueryRecord)'
      /\ balance'.at = "asked" /\ balance'.still = FALSE /\ balance'.moved = m
      /\ balance'.lockedFailed = balance.lockedFailed /\ balance'.channels = balance.channels
      /\ balance'.pending = balance.pending /\ balance'.tx = balance.tx
      /\ balance'.utxos = balance.utxos /\ balance'.locked = balance.locked \ {u}
  <2>1. balance' = [balance EXCEPT !.still = FALSE, !.moved = m, !.locked = balance.locked \ {u}]
    BY <1>1 DEF m
  <2>. QED
    BY <1>1, <1>2, <1>4, <2>1 DEF QueryRecord
<1>7. SawFunds(s, l, c)'
  <2>1. ~balance.lockedFailed => balance.locked \ {u} = locks'
    BY <1>1, <1>5 DEF SawFunds
  <2>. QED
    BY <1>5, <1>6, <2>1 DEF SawFunds
<1>8. SeenBefore(s, l, c)'
  BY <1>3, <1>5, <1>6 DEF SeenBefore, MovedWell, m
<1>9. QueryInv'
  BY <1>7, <1>8 DEF QueryInv
<1>10. Balances!SafelyCounted'
  BY <1>6 DEF Balances!SafelyCounted, Balances!ChannelsAreCounted, Balances!ConfirmedAreCounted
<1>. QED
  BY <1>4, <1>6, <1>9, <1>10 DEF FundsHeld

LEMMA CallsAreOver ==
  ASSUME FundsHeld, Balances!Return
  PROVE  FundsHeld'
<1>1. balance' = Balances!NoQuery /\ UNCHANGED <<stage, locks, chan, staked>>
  BY DEF Balances!Return
<1>2. (balance \in QueryRecord)' /\ balance'.at = "idle"
  BY <1>1 DEF Balances!NoQuery, QueryRecord
<1>3. FundsInv'
  BY <1>1 DEF FundsHeld, FundsInv
<1>4. QueryInv'
  BY <1>2 DEF QueryInv
<1>5. Balances!SafelyCounted'
  BY <1>2 DEF Balances!SafelyCounted, Balances!ChannelsAreCounted, Balances!ConfirmedAreCounted
<1>. QED
  BY <1>2, <1>3, <1>4, <1>5 DEF FundsHeld

QueryForm(q) ==
  [at : {"idle", "asked", "done"}, still : BOOLEAN, moved : Nat, lockedFailed : BOOLEAN,
   channels : {q.channels}, pending : {q.pending}, tx : {q.tx},
   utxos : {q.utxos}, locked : {q.locked}, answer : {q.answer}]

\* What a query has when some of its calls return now
HasReturned(r, q, S, fails) ==
  /\ r \in QueryForm(r)
  /\ r.at = q.at /\ r.still = q.still /\ r.moved = q.moved /\ r.answer = q.answer
  /\ r.lockedFailed = (q.lockedFailed \/ fails)
  /\ r.channels = IF "channels" \in S THEN OpenOf(chan) ELSE q.channels
  /\ r.pending = IF "pending" \in S THEN PendingOf(chan) ELSE q.pending
  /\ r.tx = IF "tx" \in S THEN stage ELSE q.tx
  /\ IF "utxos" \in S THEN r.utxos.conf = FreeIn(stage, locks) ELSE r.utxos = q.utxos
  /\ ~fails => r.locked = IF "locked" \in S THEN locks ELSE q.locked

LEMMA CallsReturn ==
  ASSUME AllThere(stage, locks), NEW q, q \in QueryForm(q), NEW S,
         NEW order \in Balances!Listings, NEW fails \in BOOLEAN, q.lockedFailed \in BOOLEAN
  PROVE  HasReturned(Balances!Returns(q, S, order, fails), q, S, fails)
<1>. DEFINE conf == {u \in Balances!Range(order) : Balances!Confirmed(u)}
            channels == IF "channels" \in S THEN OpenOf(chan) ELSE q.channels
            pending == IF "pending" \in S THEN PendingOf(chan) ELSE q.pending
            tx == IF "tx" \in S THEN stage ELSE q.tx
            utxos == IF "utxos" \in S THEN [order |-> order, conf |-> conf] ELSE q.utxos
            locked == IF "locked" \in S THEN IF fails THEN {} ELSE locks ELSE q.locked
            failed == q.lockedFailed \/ fails
            r == Balances!Returns(q, S, order, fails)
<1>1. conf = FreeIn(stage, locks)
  BY CoinsListed
<1>2. r = [q EXCEPT !.channels = channels, !.pending = pending, !.tx = tx, !.utxos = utxos,
                    !.locked = locked, !.lockedFailed = failed]
  BY DEF Balances!Returns, OpenOf, PendingOf, QueryForm
<1>3. failed \in BOOLEAN
  OBVIOUS
<1>4. /\ "utxos" \in S => utxos.conf = FreeIn(stage, locks)
      /\ "utxos" \notin S => utxos = q.utxos
      /\ ~fails => locked = IF "locked" \in S THEN locks ELSE q.locked
  BY <1>1
<1>5. failed = (q.lockedFailed \/ fails)
  OBVIOUS
<1>. HIDE DEF r, conf, utxos, locked, failed
<1>6. /\ r \in QueryForm(r)
      /\ r.at = q.at /\ r.still = q.still /\ r.moved = q.moved /\ r.answer = q.answer
      /\ r.lockedFailed = failed /\ r.channels = channels /\ r.pending = pending /\ r.tx = tx
      /\ r.utxos = utxos /\ r.locked = locked
  <2>. HIDE DEF channels, pending, tx
  <2>. QED
    BY <1>2, <1>3 DEF QueryForm
<1>7. IF "utxos" \in S THEN r.utxos.conf = FreeIn(stage, locks) ELSE r.utxos = q.utxos
  BY <1>4, <1>6
<1>8. ~fails => r.locked = IF "locked" \in S THEN locks ELSE q.locked
  BY <1>4, <1>6
<1>. QED
  BY <1>5, <1>6, <1>7, <1>8 DEF r, HasReturned

LEMMA CallsAreMade ==
  ASSUME FundsHeld, Balances!Ask
  PROVE  FundsHeld'
<1>1. PICK S \in SUBSET Balances!Calls, order \in Balances!Listings, fails \in BOOLEAN :
        /\ balance' = [Balances!Returns(Balances!NoQuery, S, order, fails) EXCEPT !.at = "asked"]
        /\ "locked" \notin S => ~fails
  BY DEF Balances!Ask
<1>2. UNCHANGED <<stage, locks, chan, staked>>
  BY DEF Balances!Ask
<1>. DEFINE q == Balances!NoQuery
            r == Balances!Returns(q, S, order, fails)
<1>3. /\ q \in QueryForm(q) /\ q.still = TRUE /\ q.moved = 0 /\ q.lockedFailed = FALSE
      /\ q.channels = Unknown /\ q.pending = Unknown /\ q.tx = Unknown /\ q.utxos = Unknown
      /\ q.locked = Unknown
  BY DEF Balances!NoQuery, QueryForm
<1>. HIDE DEF q
<1>4. FundsInv /\ AllThere(stage, locks) /\ chan \in ChanRec
  BY DEF FundsHeld, FundsInv, Ledger
<1>5. /\ r \in QueryForm(r) /\ r.still = TRUE /\ r.moved = 0 /\ r.lockedFailed = fails
      /\ r.channels \in {Unknown, OpenOf(chan)} /\ r.pending \in {Unknown, PendingOf(chan)}
      /\ r.tx \in {Unknown, stage} /\ (r.utxos # Unknown => r.utxos.conf = FreeIn(stage, locks))
      /\ (~fails => r.locked \in {Unknown, locks})
  <2>1. HasReturned(r, q, S, fails)
    <3>1. q.lockedFailed \in BOOLEAN
      BY <1>3
    <3>. QED
      BY <1>3, <1>4, <3>1, CallsReturn
  <2>. HIDE DEF r
  <2>. QED
    BY <1>3, <2>1 DEF HasReturned
<1>6. balance' = [r EXCEPT !.at = "asked"]
  BY <1>1 DEF q
<1>. HIDE DEF r
<1>7. /\ (balance \in QueryRecord)' /\ balance'.at = "asked" /\ balance'.still = TRUE
      /\ balance'.moved = 0 /\ balance'.lockedFailed = fails
      /\ balance'.channels = r.channels /\ balance'.pending = r.pending
      /\ balance'.tx = r.tx /\ balance'.utxos = r.utxos /\ balance'.locked = r.locked
  BY <1>5, <1>6 DEF QueryForm, QueryRecord
<1>8. PICK s \in Stagings, l \in SUBSET Coins, c \in ChanRec : s = stage /\ l = locks /\ c = chan
  BY <1>4 DEF AllThere
<1>9. SawFunds(s, l, c)'
  BY <1>2, <1>5, <1>7, <1>8 DEF SawFunds
<1>10. NearTo(s, l, s, l, 0) /\ NearChan(c, c, 0)
  BY <1>4, <1>8, NearToItself, NearToItsChan
<1>11. SeenBefore(s, l, c)'
  BY <1>2, <1>7, <1>8, <1>10 DEF SeenBefore
<1>12. QueryInv'
  BY <1>9, <1>11 DEF QueryInv
<1>13. Balances!SafelyCounted'
  BY <1>7 DEF Balances!SafelyCounted, Balances!ChannelsAreCounted, Balances!ConfirmedAreCounted
<1>14. FundsInv'
  BY <1>2, <1>4 DEF FundsInv
<1>. QED
  BY <1>7, <1>12, <1>13, <1>14 DEF FundsHeld

LEMMA FundsAreAnswered ==
  ASSUME FundsHeld, Balances!Answer
  PROVE  FundsHeld'
<1>. DEFINE missing == {x \in Balances!Calls : balance[x] = Unknown}
<1>1. PICK order \in Balances!Listings, isConfirmed \in BOOLEAN :
        balance' = [Balances!Returns(balance, missing, order, FALSE) EXCEPT
                      !.at = "done",
                      !.answer = Balances!Balance(Balances!Returns(balance, missing, order, FALSE),
                                                  isConfirmed)]
  BY DEF Balances!Answer
<1>2. balance.at = "asked" /\ UNCHANGED <<stage, locks, chan, staked>>
  BY DEF Balances!Answer
<1>. DEFINE q == Balances!Returns(balance, missing, order, FALSE)
            a == Balances!Balance(q, isConfirmed)
            m == balance.moved
<1>3. /\ FundsInv /\ AllThere(stage, locks) /\ chan \in ChanRec /\ locks \in SUBSET Coins
      /\ balance \in QueryForm(balance) /\ m \in Nat /\ balance.lockedFailed \in BOOLEAN
      /\ balance \in QueryRecord
  BY DEF FundsHeld, FundsInv, Ledger, AllThere, QueryForm, QueryRecord
<1>4. PICK s \in Stagings, l \in SUBSET Coins, c \in ChanRec :
        /\ SawFunds(s, l, c)
        /\ NearTo(s, l, stage, locks, m) /\ NearChan(c, chan, m)
  BY <1>2 DEF FundsHeld, QueryInv, SeenBefore
<1>5. /\ "channels" \in missing <=> balance.channels = Unknown
      /\ "pending" \in missing <=> balance.pending = Unknown
      /\ "tx" \in missing <=> balance.tx = Unknown
      /\ "utxos" \in missing <=> balance.utxos = Unknown
      /\ "locked" \in missing <=> balance.locked = Unknown
  BY <1>3 DEF Balances!Calls, QueryForm
<1>. HIDE DEF missing
<1>6. /\ q \in QueryForm(q) /\ q.moved = m /\ q.lockedFailed = balance.lockedFailed
      /\ q.channels \in {OpenOf(c), OpenOf(chan)} /\ q.pending \in {PendingOf(c), PendingOf(chan)}
      /\ q.tx \in {s, stage} /\ q.utxos.conf \in {FreeIn(s, l), FreeIn(stage, locks)}
      /\ ~balance.lockedFailed => q.locked \in {l, locks}
  <2>1. HasReturned(q, balance, missing, FALSE)
    BY <1>3, CallsReturn
  <2>. HIDE DEF q
  <2>. QED
    BY <1>3, <1>4, <1>5, <2>1 DEF SawFunds, HasReturned
<1>7. balance' = [q EXCEPT !.at = "done", !.answer = a]
  BY <1>1
<1>8. a.offchain + a.pending + a.closing - (OpenTokens(chan) + PendingTokens(chan)) \in -m..m
  <2>. HIDE DEF q, m
  <2>. QED
    BY <1>3, <1>4, <1>6, ChannelIsNear
<1>9. ~balance.lockedFailed => a.onchainConfirmed - Balances!Tokens(Settled(stage)) \in -m..m
  <2>. HIDE DEF q, m
  <2>. QED
    BY <1>3, <1>4, <1>6, CoinsAreNear
<1>. HIDE DEF q, a, m
<1>10. /\ (balance \in QueryRecord)' /\ balance'.at = "done" /\ balance'.moved = m
       /\ balance'.lockedFailed = balance.lockedFailed /\ balance'.answer = a
  BY <1>6, <1>7 DEF QueryForm, QueryRecord
<1>11. staked - Balances!Uncounted = OpenTokens(chan) + PendingTokens(chan)
  BY <1>3 DEF FundsInv, Ledger, Balances!Uncounted
<1>12. Balances!ChannelsAreCounted'
  <2>1. a.offchain + a.pending + a.closing - (staked - Balances!Uncounted) \in -m..m
    BY <1>8, <1>11
  <2>2. Balances!Uncounted' = Balances!Uncounted
    BY <1>2 DEF Balances!Uncounted, Balances!LeftOut
  <2>. QED
    BY <1>2, <1>10, <2>1, <2>2 DEF Balances!ChannelsAreCounted
<1>13. Balances!ConfirmedAreCounted'
  <2>1. {u \in Coins : Balances!Exists(u) /\ Balances!Confirmed(u)} = Settled(stage)
    BY CoinIsThere DEF Settled, Balances!Confirmed
  <2>2. {u \in Coins : Balances!Exists(u)' /\ Balances!Confirmed(u)'} = Settled(stage)
    BY <1>2, <2>1 DEF Balances!Exists, Balances!Confirmed, Balances!Known, Balances!IsSpent
  <2>. QED
    BY <1>9, <1>10, <2>2 DEF Balances!ConfirmedAreCounted
<1>14. QueryInv'
  BY <1>10 DEF QueryInv
<1>15. FundsInv'
  BY <1>2, <1>3 DEF FundsInv
<1>. QED
  BY <1>10, <1>12, <1>13, <1>14, <1>15 DEF FundsHeld, Balances!SafelyCounted

LEMMA FundsInit ==
  ASSUME MCInit
  PROVE  FundsHeld
<1>1. /\ stage \in Stagings /\ stage[Funding] = "none" /\ stage[Sweep] = "none"
      /\ locks = {} /\ staked = 0 /\ balance = Balances!NoQuery
      /\ chan \in ChanRec /\ chan.at = "none" /\ ~chan.htlc /\ chan.local = Local
      /\ chan.recovered = 0 /\ (chan.anchors => chan.initiated)
  <2>1. CASE NoBalances
    BY <2>1, ChanAmounts, CoinsGiven DEF NoBalances, Stagings, ChanRec
  <2>2. CASE Balances!Init
    <3>1. /\ stage = [t \in Txs |-> IF t \in Mined THEN "mined" ELSE "none"]
          /\ chan \in [at : {"none"}, initiated : BOOLEAN, anchors : BOOLEAN, htlc : {FALSE},
                       local : {Local}, recovered : {0}]
          /\ locks = {} /\ staked = 0 /\ balance = Balances!NoQuery
          /\ chan.anchors => chan.initiated
      BY <2>2 DEF Balances!Init
    <3>2. stage \in Stagings /\ stage[Funding] = "none" /\ stage[Sweep] = "none"
      BY <3>1, CoinsGiven DEF Stagings
    <3>3. /\ chan \in ChanRec /\ chan.at = "none" /\ ~chan.htlc /\ chan.local = Local
          /\ chan.recovered = 0
      <4>1. Local \in Nat /\ 0 \in Nat
        BY ChanAmounts
      <4>2. chan.at = "none" /\ chan.htlc = FALSE /\ chan.local = Local /\ chan.recovered = 0
        BY <3>1
      <4>3. {Local} \subseteq Nat /\ {0} \subseteq Nat
        BY <4>1
      <4>4. chan \in ChanRec
        BY <3>1, <4>3 DEF ChanRec
      <4>. QED
        BY <4>2, <4>4
    <3>. QED
      BY <3>1, <3>2, <3>3
  <2>. QED
    BY <2>1, <2>2 DEF MCInit
<1>2. AllThere(stage, locks)
  BY <1>1 DEF AllThere
<1>3. OpenTokens(chan) = 0 /\ PendingTokens(chan) = 0
  BY <1>1, TokensByState
<1>4. Ledger(chan, staked, stage)
  <2>1. Balances!LeftOut(chan) = 0
    BY <1>1 DEF Balances!LeftOut
  <2>. QED
    BY <1>1, <1>3, <2>1, ChanAmounts DEF Ledger
<1>5. balance \in QueryRecord /\ balance.at = "idle"
  BY <1>1 DEF Balances!NoQuery, QueryRecord
<1>6. Balances!SafelyCounted
  BY <1>5, NotAnsweredYet
<1>. QED
  BY <1>2, <1>4, <1>5, <1>6 DEF FundsHeld, FundsInv, QueryInv

\* A move of the wallet or of its channel
LEMMA FundsAreMoved ==
  ASSUME FundsHeld, NEW m, Balances!Moves(m), MovedWell(m)
  PROVE  FundsHeld'
BY FundsMove DEF Balances!Moves, FundsHeld, QueryRecord

LEMMA FundsStep ==
  ASSUME FundsHeld, [MCNext]_mcvars
  PROVE  FundsHeld'
<1>. FundsInv
  BY DEF FundsHeld
<1>1. CASE UNCHANGED balances
  <2>1. stage' = stage /\ locks' = locks /\ chan' = chan /\ staked' = staked /\ balance' = balance
    BY <1>1 DEF balances
  <2>2. FundsInv' /\ (balance \in QueryRecord)'
    BY <2>1 DEF FundsHeld, FundsInv, QueryRecord
  <2>3. QueryInv'
    BY <2>1 DEF FundsHeld, QueryInv, SawFunds, SeenBefore
  <2>4. Balances!SafelyCounted'
    BY <2>1 DEF FundsHeld, Balances!SafelyCounted, Balances!ChannelsAreCounted,
       Balances!ConfirmedAreCounted, Balances!Uncounted, Balances!LeftOut, Balances!Exists, Balances!Confirmed,
       Balances!Known, Balances!IsSpent
  <2>. QED
    BY <2>2, <2>3, <2>4 DEF FundsHeld
<1>2. CASE Balances!Next
  <2>1. ASSUME NEW t \in Txs, Balances!Broadcast(t) \/ Balances!Mine(t) \/ Balances!Forget(t)
        PROVE  FundsHeld'
    <3>1. Balances!Moves(Balances!Of(t))
      BY <2>1 DEF Balances!Broadcast, Balances!Mine, Balances!Forget
    <3>2. MovedWell(Balances!Of(t))
      BY <2>1, TransactionIsSeen, TransactionIsMined, TransactionIsForgotten
    <3>. QED
      BY <3>1, <3>2, FundsAreMoved
  <2>2. ASSUME NEW u \in Coins, Balances!LockCoin(u) \/ Balances!UnlockCoin(u)
        PROVE  FundsHeld'
    <3>1. Balances!Moves(CoinWorth[u])
      BY <2>2 DEF Balances!LockCoin, Balances!UnlockCoin
    <3>2. MovedWell(CoinWorth[u])
      BY <2>2, CoinIsLocked DEF Balances!LockCoin, Balances!UnlockCoin
    <3>. QED
      BY <3>1, <3>2, FundsAreMoved
  <2>3. ASSUME NEW u \in Coins, Balances!LapseLock(u) PROVE FundsHeld'
    BY <2>3, LockLapses
  <2>4. CASE Balances!OpenChannel
    BY <2>4, ChannelIsFunded, FundsAreMoved DEF Balances!OpenChannel
  <2>5. CASE Balances!ChannelOpens
    BY <2>5, ChannelIsUsable, FundsAreMoved DEF Balances!ChannelOpens
  <2>6. CASE Balances!AddHtlc \/ Balances!RefundHtlc \/ Balances!PayHtlc
    <3>1. Balances!Moves(Htlc)
      BY <2>6 DEF Balances!AddHtlc, Balances!RefundHtlc, Balances!PayHtlc
    <3>. QED
      BY <2>6, <3>1, PaymentOfChannel, FundsAreMoved
  <2>7. CASE Balances!CloseChannel
    BY <2>7, CommitmentIsPublished, FundsAreMoved DEF Balances!CloseChannel
  <2>8. CASE Balances!SweepChannel
    BY <2>8, ChannelIsSwept, FundsAreMoved DEF Balances!SweepChannel
  <2>9. CASE Balances!ResolveChannel
    BY <2>9, ChannelIsResolved, FundsAreMoved DEF Balances!ResolveChannel
  <2>. QED
    BY <1>2, <2>1, <2>2, <2>3, <2>4, <2>5, <2>6, <2>7, <2>8, <2>9, CallsAreMade,
       FundsAreAnswered, CallsAreOver DEF Balances!Next
<1>. QED
  BY <1>1, <1>2 DEF MCNext, mcvars

\* What getNodeFunds answers of the channel is what it holds of this node's tokens,
\* less the anchor while it is opening and the payment while it is closing; and it
\* counts each confirmed coin once, be it locked or not. Both but for what moved
\* while it asked, however many coins and transactions there are and whatever they
\* are worth
THEOREM BalancesHold == MCSpec => []Balances!SafelyCounted
<1>1. MCInit => FundsHeld
  BY FundsInit
<1>2. FundsHeld /\ [MCNext]_mcvars => FundsHeld'
  BY FundsStep
<1>3. FundsHeld => Balances!SafelyCounted
  BY DEF FundsHeld
<1>. QED
  BY <1>1, <1>2, <1>3, PTL DEF MCSpec

\* The three theorems about answers in one: of the wallet's balances, of liquidity
\* and of what a transaction was for, in every behaviour of the calls
THEOREM AnswersHold == MCSpec => []AnswersAreTrue
BY RecordsHold, LiquidityHolds, BalancesHold, PTL DEF AnswersAreTrue
=============================================================================
