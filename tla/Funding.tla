------------------------------- MODULE Funding -------------------------------
(***************************************************************************)
(* The calls that spend the wallet's coins without spending them yet, over *)
(* the table of locks LND keeps: fundPsbtDisallowingInputs,                *)
(* reserveTransitFunds with the calls it makes, getMaxFundAmount and       *)
(* signAndFundPsbt; and maintainUtxoLocks, which takes a lock again        *)
(* whenever it has lapsed. Several run at a time, each call to LND may     *)
(* fail, and a lock lapses by itself.                                      *)
(***************************************************************************)
EXTENDS Integers, FiniteSets, FiniteSetsExt

CONSTANTS
  Utxos,
  Worth,        \* the tokens of each
  MaxCalls,     \* bound: calls, numbered in the order they are made
  Keeper,       \* the call of maintainUtxoLocks
  Nobody,
  Tokens,       \* amounts asked for
  Fee,          \* of a funded transaction
  Dust,
  Adjustment,   \* of a maximum that LND refused
  RefundFees,   \* of a refund, at the rates of the day
  Rates, SlowRate, FastRate, Multiplier,
  LeaseTime     \* how long LND keeps a lock

FundingAssumption ==
  /\ IsFiniteSet(Utxos)
  /\ Worth \in [Utxos -> Nat]
  /\ MaxCalls \in Nat
  /\ {Keeper, Nobody} \cap (1..MaxCalls) = {} /\ Keeper # Nobody
  /\ Tokens \cup RefundFees \cup Rates \subseteq Nat
  /\ {Fee, Adjustment, SlowRate, FastRate, Multiplier} \subseteq Nat
  /\ Dust \in Nat \ {0}
  /\ LeaseTime \in Nat \ {0}

VARIABLES lease, spent, call, keeper

vars == <<lease, spent, call, keeper>>

Calls == 1..MaxCalls

(***************************************************************************)
(* LND's coins: a lock has an owner, what it is for, and the time it lasts *)
(***************************************************************************)
Free == [by |-> Nobody, use |-> "none", left |-> 0]

Held(u) == lease[u].by # Nobody
Available == {u \in Utxos \ spent : ~Held(u)}
Total(S) == MapThenSumSet(LAMBDA u : Worth[u], S)

Leased(S, who, use) ==
  lease' = [u \in Utxos |-> IF u \in S
                            THEN [by |-> who, use |-> use, left |-> LeaseTime]
                            ELSE lease[u]]

\* fundPsbt chooses coins for an amount, or takes those it is given, and locks
\* them
Funds(c, S, tokens) ==
  /\ S \subseteq Available
  /\ Total(S) >= tokens + Fee
  /\ Leased(S, c, "fund")

Releases(u, who, use) ==
  lease' = IF lease[u].by = who /\ lease[u].use = use
           THEN [lease EXCEPT ![u] = Free]
           ELSE lease

\* Time passes: locks whose time has come are gone. `lapsed' remembers whose
Tick ==
  /\ \E u \in Utxos : Held(u) \/ keeper.due[u] > 0
  /\ LET over == {u \in Utxos : lease[u].left = 1}
     IN  /\ lease' = [u \in Utxos |->
              IF u \in over \/ ~Held(u) THEN Free ELSE [lease[u] EXCEPT !.left = @ - 1]]
         /\ call' = [c \in Calls |->
              IF call[c].result # "failed" /\ \E u \in over : lease[u].by = c
              THEN [call[c] EXCEPT !.lapsed = TRUE]
              ELSE call[c]]
  /\ keeper' = [keeper EXCEPT !.due = [u \in Utxos |-> IF @[u] = 0 THEN 0 ELSE @[u] - 1]]
  /\ UNCHANGED spent

(***************************************************************************)
(* A call, what it asked for, its answer and what failed on its way        *)
(***************************************************************************)
NotCalled ==
  [kind |-> "none", at |-> "idle", then |-> "none", tokens |-> 0, named |-> {},
   todo |-> {}, inputs |-> {}, said |-> "none", gives |-> 0, partial |-> "none",
   result |-> "none", failed |-> {}, lapsed |-> FALSE]

Init ==
  /\ lease = [u \in Utxos |-> Free]
  /\ spent = {}
  /\ call = [c \in Calls |-> NotCalled]
  /\ keeper = [at |-> "off", inputs |-> {}, todo |-> {}, due |-> [u \in Utxos |-> 0]]

Becomes(c, r) ==
  /\ call' = [call EXCEPT ![c] = r]
  /\ UNCHANGED <<spent, keeper>>

Starts(c, r) ==
  /\ call[c].at = "idle"
  /\ \A d \in 1..c - 1 : call[d].at # "idle"
  /\ Becomes(c, r)
  /\ UNCHANGED lease

\* The first error is the answer
Fails(r, step) ==
  [r EXCEPT !.result = "failed", !.failed = @ \cup {step}]

\* What may leave a lock behind
Leaving == {"lock", "unlock", "sign", "refund"}

\* Of a call that is over, the answer and the transaction are left
Over(r) ==
  [NotCalled EXCEPT !.at = "done", !.result = r.result,
     !.inputs = IF r.result = "ok" THEN r.inputs ELSE {},
     !.failed = r.failed \cap Leaving, !.lapsed = r.lapsed /\ r.result = "ok"]

Ends(r, step) == Over(Fails(r, step))

Succeeds(r) ==
  Over([r EXCEPT !.result = IF r.failed = {} THEN "ok" ELSE "failed"])

Goes(r, stage) ==
  IF stage = "answer" THEN Succeeds(r) ELSE [r EXCEPT !.at = stage]

\* Each of a set of coins is unlocked, all at the same time, before the next
\* stage; when one fails the call is answered, and the others go on
Releasing(r, S, stage) ==
  IF S = {} THEN Goes(r, stage)
  ELSE [r EXCEPT !.at = "releasing", !.todo = S, !.then = stage]

AfterOne(r, u, step) ==
  LET left == r.todo \ {u}
  IN  IF left # {} THEN [r EXCEPT !.todo = left]
      ELSE IF step \in r.failed THEN Over(r)
      ELSE Goes([r EXCEPT !.todo = {}], r.then)

\* What the unlocked locks were for: keeping coins away, or funding
Use(r) == IF r.kind = "disallow" THEN "block" ELSE "fund"

UnlockUtxo(c, u) ==
  /\ call[c].at = "releasing"
  /\ u \in call[c].todo
  /\ Releases(u, c, Use(call[c]))
  /\ Becomes(c, AfterOne(call[c], u, "unlock"))

UnlockFails(c, u) ==
  /\ call[c].at = "releasing"
  /\ u \in call[c].todo
  /\ Becomes(c, AfterOne(Fails(call[c], "unlock"), u, "unlock"))
  /\ UNCHANGED lease

(***************************************************************************)
(* fundPsbtDisallowingInputs: what must not be spent is locked while LND   *)
(* chooses                                                                 *)
(***************************************************************************)
StartDisallowing(c) ==
  \E S \in SUBSET Utxos, tokens \in Tokens :
    Starts(c, [NotCalled EXCEPT !.kind = "disallow", !.tokens = tokens, !.named = S,
                 !.todo = S, !.then = "funding",
                 !.at = IF S = {} THEN "funding" ELSE "locking"])

\* A mistake: one lock is enough
LockFirst(c, u) ==
  /\ call[c].at = "locking"
  /\ u \in call[c].todo \cap Available
  /\ Leased({u}, c, "block")
  /\ Becomes(c, Goes(call[c], "funding"))

LockUtxo(c, u) ==
  /\ call[c].at = "locking"
  /\ u \in call[c].todo \cap Available
  /\ Leased({u}, c, "block")
  /\ Becomes(c, AfterOne(call[c], u, "lock"))

\* The first lock that fails is the answer: the others go on and stay
LockFails(c, u) ==
  /\ call[c].at = "locking"
  /\ u \in call[c].todo
  /\ Becomes(c, AfterOne(Fails(call[c], "lock"), u, "lock"))
  /\ UNCHANGED lease

FundAvoiding(c) ==
  /\ call[c].at = "funding"
  /\ \E S \in (SUBSET Utxos) \ {{}} :
       /\ Funds(c, S, call[c].tokens)
       /\ Becomes(c, Releasing([call[c] EXCEPT !.inputs = S], call[c].named, "answer"))

\* The failure is kept until the locks are gone (asyncReflect)
FundAvoidingFails(c) ==
  /\ call[c].at = "funding"
  /\ Becomes(c, Releasing([call[c] EXCEPT !.failed = {"fund"}], call[c].named, "answer"))
  /\ UNCHANGED lease

(***************************************************************************)
(* reserveTransitFunds: getFundedTransaction, of which isExternalFunding   *)
(* funds on trial and asks, then a refund of what was funded               *)
(***************************************************************************)
StartReserving(c) ==
  \E tokens \in Tokens, stage \in {"attempt", "rating", "pasting"} :
    Starts(c, [NotCalled EXCEPT !.kind = "reserve", !.tokens = tokens, !.at = stage])

\* The trial's locks are released while the user is asked
AttemptFunding(c) ==
  /\ call[c].at = "attempt"
  /\ \E S \in (SUBSET Utxos) \ {{}} :
       /\ Funds(c, S, call[c].tokens)
       /\ Becomes(c, Releasing(call[c], S, "confirmed"))

\* With no funds for it, whoever may hold them, nobody is asked
AttemptFails(c) ==
  /\ call[c].at = "attempt"
  /\ Becomes(c, [call[c] EXCEPT !.at = "pasting"])
  /\ UNCHANGED lease

ConfirmInternal(c) ==
  /\ call[c].then = "confirmed"
  /\ call[c].at \in {"releasing", "confirmed"}
  /\ call[c].said = "none"
  /\ \E said \in {"internal", "external"} :
       Becomes(c, [call[c] EXCEPT !.said = said])
  /\ UNCHANGED lease

IsExternal(c) ==
  /\ call[c].at = "confirmed"
  /\ call[c].said # "none"
  /\ Becomes(c, [call[c] EXCEPT !.at = IF call[c].said = "internal" THEN "rating" ELSE "pasting",
                                !.then = "none", !.said = "none"])
  /\ UNCHANGED lease

\* The rate given by the user is neither missing, nor beyond a hundred times
\* the fast one, nor below the slow one
RateIsSane(rate) == rate # 0 /\ rate <= FastRate * Multiplier /\ rate >= SlowRate

AskForFeeRate(c) ==
  /\ call[c].at = "rating"
  /\ \E rate \in Rates :
       Becomes(c, IF RateIsSane(rate)
                  THEN [call[c] EXCEPT !.at = "creating"]
                  ELSE Ends(call[c], "rate"))
  /\ UNCHANGED lease

CreatePsbt(c) ==
  /\ call[c].at = "creating"
  /\ \/ \E S \in (SUBSET Utxos) \ {{}} :
          /\ Funds(c, S, call[c].tokens)
          /\ Becomes(c, [call[c] EXCEPT !.at = "signing", !.inputs = S])
     \/ /\ Becomes(c, Ends(call[c], "fund"))
        /\ UNCHANGED lease

\* A transaction that cannot be signed leaves its inputs locked
SignPsbt(c) ==
  /\ call[c].at = "signing"
  /\ Becomes(c, [call[c] EXCEPT !.at = "refunding", !.gives = call[c].tokens])
  /\ UNCHANGED lease

SignFails(c) ==
  /\ call[c].at \in {"signing", "finalizing"}
  /\ Becomes(c, Ends(call[c], "sign"))
  /\ UNCHANGED lease

\* The user's transaction pays the address what it should, or less, or is a
\* PSBT that gives no transaction, or is missing
GetExternal(c) ==
  /\ call[c].at = "pasting"
  /\ \/ \E gives \in {0, call[c].tokens - 1, call[c].tokens} :
          Becomes(c, [call[c] EXCEPT !.at = "refunding", !.gives = gives])
     \/ Becomes(c, Ends(call[c], "paste"))
  /\ UNCHANGED lease

\* The refund spends the output of the exact amount, less its fee
GetRefund(c) ==
  /\ call[c].at = "refunding"
  /\ call[c].gives = call[c].tokens
  /\ \E fee \in RefundFees :
       /\ fee <= call[c].tokens
       /\ Becomes(c, Succeeds([call[c] EXCEPT !.gives = call[c].tokens - fee]))
  /\ UNCHANGED lease

\* No address, no signature, or not the output that was asked for
RefundFails(c) ==
  /\ call[c].at = "refunding"
  /\ Becomes(c, Ends(call[c], "refund"))
  /\ UNCHANGED lease

\* A fee above the amount is a negative output: bitcoinjs throws out of the
\* callback, and the call is never answered
RefundThrows(c) ==
  /\ call[c].at = "refunding"
  /\ call[c].gives = call[c].tokens
  /\ \E fee \in RefundFees : fee > call[c].tokens
  /\ Becomes(c, [call[c] EXCEPT !.at = "thrown"])
  /\ UNCHANGED lease

(***************************************************************************)
(* getMaxFundAmount, by itself or for the conflict of signAndFundPsbt      *)
(***************************************************************************)
StartMax(c) ==
  \E S \in (SUBSET Utxos) \ {{}} :
    Starts(c, [NotCalled EXCEPT !.kind = "max", !.named = S, !.at = "template"])

\* The conflict spends the highest of the coins
StartSigning(c) ==
  \E S \in (SUBSET Utxos) \ {{}} : \E u \in S :
    /\ \A v \in S : Worth[u] >= Worth[v]
    /\ Starts(c, [NotCalled EXCEPT !.kind = "sign", !.named = {u}, !.at = "template"])

Goal(r) == IF r.kind = "max" THEN "answer" ELSE "conflict"

CreateTemplate(c) ==
  /\ call[c].at = "template"
  /\ Funds(c, call[c].named, Dust)
  /\ Becomes(c, Releasing(call[c], call[c].named, "maximum"))

\* The template's outputs: dust, and change that is not dust; their sum is the
\* maximum, its fee that of a transaction with change
MaxOf(S) ==
  LET change == Total(S) - Fee - Dust
  IN  Dust + (IF change >= Dust THEN change ELSE 0)

CreateMaximum(c) ==
  /\ call[c].at = "maximum"
  /\ Funds(c, call[c].named, MaxOf(call[c].named))
  /\ Becomes(c, [call[c] EXCEPT !.at = "finalizing", !.gives = MaxOf(call[c].named)])

MaximumFails(c) ==
  /\ call[c].at = "maximum"
  /\ Becomes(c, [call[c] EXCEPT !.at = "adjusting"])
  /\ UNCHANGED lease

CreateAdjusted(c) ==
  LET max == MaxOf(call[c].named) - Adjustment
  IN  /\ call[c].at = "adjusting"
      /\ max >= Dust
      /\ Funds(c, call[c].named, max)
      /\ Becomes(c, [call[c] EXCEPT !.at = "finalizing", !.gives = max])

FundGivenFails(c) ==
  /\ call[c].at \in {"template", "adjusting"}
  /\ Becomes(c, Ends(call[c], "fund"))
  /\ UNCHANGED lease

FinalizeMaximum(c) ==
  /\ call[c].at = "finalizing"
  /\ Becomes(c, Releasing(call[c], call[c].named, Goal(call[c])))
  /\ UNCHANGED lease

(***************************************************************************)
(* signAndFundPsbt: the base is partially signed beside all this; after an *)
(* error the maximum is still looked for, but no conflict is signed        *)
(***************************************************************************)
PartiallySign(c) ==
  /\ call[c].kind = "sign"
  /\ call[c].at # "done"
  /\ call[c].partial = "none"
  /\ \/ Becomes(c, [call[c] EXCEPT !.partial = "signed"])
     \/ Becomes(c, [Fails(call[c], "partial") EXCEPT !.partial = "failed"])
  /\ UNCHANGED lease

SignConflict(c) ==
  /\ call[c].at = "conflict"
  /\ \/ /\ call[c].result = "none"
        /\ \/ Becomes(c, [call[c] EXCEPT !.at = "signed"])
           \/ Becomes(c, Ends(call[c], "conflict"))
     \/ /\ call[c].result = "failed"
        /\ Becomes(c, Over(call[c]))
  /\ UNCHANGED lease

SignedAndFunded(c) ==
  /\ call[c].at = "signed"
  /\ call[c].partial # "none"
  /\ Becomes(c, Succeeds(call[c]))
  /\ UNCHANGED lease

(***************************************************************************)
(* maintainUtxoLocks, for the inputs of a transaction that was funded      *)
(***************************************************************************)
KeeperBecomes(k) ==
  /\ keeper' = k
  /\ UNCHANGED call

StartKeeping(c) ==
  /\ keeper.at = "off"
  /\ call[c].result = "ok"
  /\ call[c].inputs # {}
  /\ KeeperBecomes([keeper EXCEPT !.at = "checking", !.inputs = call[c].inputs,
                      !.due = [u \in Utxos |-> IF lease[u].by = c THEN lease[u].left ELSE 0]])
  /\ UNCHANGED <<lease, spent>>

\* A failed getChainTransactions is a transaction that is not confirmed
CheckConfirmed(failing) ==
  /\ keeper.at = "checking"
  /\ KeeperBecomes(IF ~failing /\ keeper.inputs \subseteq spent
                   THEN [keeper EXCEPT !.at = "done"]
                   ELSE [keeper EXCEPT !.at = "relocking", !.todo = keeper.inputs])
  /\ UNCHANGED <<lease, spent>>

\* Every input waits for its lock to lapse, and the round for every input
Relocked(k, u) ==
  LET left == k.todo \ {u}
  IN  [k EXCEPT !.todo = left, !.at = IF left = {} THEN "resting" ELSE @]

Relock(u) ==
  /\ keeper.at = "relocking"
  /\ u \in keeper.todo
  /\ keeper.due[u] = 0
  /\ u \in Available \/ lease[u].by = Keeper
  /\ Leased({u}, Keeper, "keep")
  /\ KeeperBecomes([Relocked(keeper, u) EXCEPT !.due[u] = LeaseTime])
  /\ UNCHANGED spent

\* A mistake: the round is not over until every lock has been taken
RelockFailsForGood(u) ==
  /\ keeper.at = "relocking"
  /\ u \in keeper.todo
  /\ keeper.due[u] = 0
  /\ KeeperBecomes([keeper EXCEPT !.todo = @ \ {u}])
  /\ UNCHANGED <<lease, spent>>

RelockFails(u) ==
  /\ keeper.at = "relocking"
  /\ u \in keeper.todo
  /\ keeper.due[u] = 0
  /\ KeeperBecomes(Relocked(keeper, u))
  /\ UNCHANGED <<lease, spent>>

KeeperTimer ==
  /\ keeper.at = "resting"
  /\ KeeperBecomes([keeper EXCEPT !.at = "checking"])
  /\ UNCHANGED <<lease, spent>>

\* The transaction is confirmed
Confirmed ==
  /\ keeper.at \notin {"off", "done"}
  /\ keeper.inputs \cap spent = {}
  /\ spent' = keeper.inputs
  /\ lease' = [u \in Utxos |-> IF u \in keeper.inputs THEN Free ELSE lease[u]]
  /\ UNCHANGED <<call, keeper>>

DisallowStep(c) ==
  \/ \E u \in Utxos : LockUtxo(c, u) \/ LockFails(c, u)
  \/ FundAvoiding(c)
  \/ FundAvoidingFails(c)

ReserveStep(c) ==
  \/ AttemptFunding(c)
  \/ AttemptFails(c)
  \/ ConfirmInternal(c)
  \/ IsExternal(c)
  \/ AskForFeeRate(c)
  \/ CreatePsbt(c)
  \/ SignPsbt(c)
  \/ GetExternal(c)
  \/ GetRefund(c)
  \/ RefundFails(c)
  \/ RefundThrows(c)

MaxStep(c) ==
  \/ CreateTemplate(c)
  \/ CreateMaximum(c)
  \/ MaximumFails(c)
  \/ CreateAdjusted(c)
  \/ FundGivenFails(c)
  \/ FinalizeMaximum(c)
  \/ PartiallySign(c)
  \/ SignConflict(c)
  \/ SignedAndFunded(c)

CallStep(c) ==
  \/ \E u \in Utxos : UnlockUtxo(c, u) \/ UnlockFails(c, u)
  \/ SignFails(c)
  \/ DisallowStep(c)
  \/ ReserveStep(c)
  \/ MaxStep(c)

KeeperStep ==
  \/ \E failing \in BOOLEAN : CheckConfirmed(failing)
  \/ \E u \in Utxos : Relock(u)
  \/ KeeperTimer

Next ==
  \/ Tick
  \/ \E c \in Calls :
       \/ StartDisallowing(c)
       \/ StartReserving(c)
       \/ StartMax(c)
       \/ StartSigning(c)
       \/ CallStep(c)
       \/ StartKeeping(c)
  \/ KeeperStep
  \/ \E u \in Utxos : RelockFails(u)
  \/ Confirmed

-----------------------------------------------------------------------------
Stages ==
  {"idle", "locking", "funding", "releasing", "attempt", "confirmed", "rating",
   "creating", "signing", "pasting", "refunding", "thrown", "template", "maximum",
   "adjusting", "finalizing", "conflict", "signed", "done"}

TypeOK ==
  /\ \A u \in Utxos :
       /\ lease[u].by \in Calls \cup {Keeper, Nobody}
       /\ lease[u].use \in {"none", "block", "fund", "keep"}
       /\ lease[u].left \in 0..LeaseTime
       /\ Held(u) <=> lease[u].left > 0
  /\ spent \subseteq Utxos
  /\ \A c \in Calls :
       /\ call[c].at \in Stages
       /\ call[c].result \in {"none", "ok", "failed"}
       /\ call[c].todo \cup call[c].named \cup call[c].inputs \subseteq Utxos
  /\ keeper.at \in {"off", "checking", "relocking", "resting", "done"}
  /\ keeper.inputs \cup keeper.todo \subseteq Utxos

\* What fundPsbtDisallowingInputs answers spends none of the inputs it was told
\* to avoid, unless a lock lapsed while it ran
DisallowedAreSpared ==
  \A c \in Calls :
    (call[c].kind = "disallow" /\ call[c].inputs \cap call[c].named # {})
      => call[c].lapsed

\* Two calls that are answered with a funded transaction spend different coins,
\* unless a lock of one has lapsed
CoinsAreNotShared ==
  \A c, d \in Calls :
    (c # d /\ call[c].result = "ok" /\ call[d].result = "ok"
       /\ call[c].inputs \cap call[d].inputs # {})
      => call[c].lapsed \/ call[d].lapsed

\* The locks a call leaves: those of the transaction it answers with, or what a
\* failed lock, unlock, signature or refund has left behind. A call that finds
\* no funds, refuses a rate or is told to use other funds leaves none
LeavesNothingElse ==
  \A c \in Calls, u \in Utxos :
    (lease[u].by = c /\ call[c].at = "done") =>
      \/ lease[u].use = "fund" /\ u \in call[c].inputs /\ call[c].result = "ok"
      \/ call[c].failed \cap Leaving # {}

\* Besides the fee a maximum leaves less than the least output and what the
\* amount is adjusted by come to
MaximumIsNearlyAll ==
  \A c \in Calls :
    (call[c].kind = "max" /\ call[c].gives # 0)
      => Total(call[c].named) - Fee - call[c].gives \in 0..Dust + Adjustment - 1

\* The locks and the calls: TypeOK and the facts above. What lapses and what fails
\* is excepted where it is named
FundingInv ==
  /\ TypeOK
  /\ DisallowedAreSpared
  /\ CoinsAreNotShared
  /\ LeavesNothingElse
  /\ MaximumIsNearlyAll

\* An input whose lock has lapsed is locked again, if not by the keeper then by
\* whoever was faster, until the transaction is confirmed: locks that fail and
\* inputs that wait for one another delay it only
InputsAreRelocked ==
  \A u \in Utxos :
    (keeper.at \notin {"off", "done"} /\ u \in keeper.inputs /\ ~Held(u))
      ~> (Held(u) \/ u \in spent)

\* Time passes and the keeper goes on; a lock that can be taken again and again
\* is not refused for ever. The other calls may stop anywhere
Fairness ==
  /\ WF_vars(Tick)
  /\ WF_vars(KeeperStep)
  /\ \A u \in Utxos : SF_vars(Relock(u))

Spec == Init /\ [][Next]_vars /\ Fairness
=============================================================================
