------------------------------ MODULE Broadcast ------------------------------
(***************************************************************************)
(* broadcastTransaction waits until a transaction's lock time has passed,  *)
(* then sends it to the mempool at every block until it is confirmed;      *)
(* findConfirmedOutput waits for a payment of an amount to a script. Both  *)
(* end by a callback that several events may call.                         *)
(***************************************************************************)
EXTENDS Integers, Sequences

CONSTANTS
  Locktimes,   \* lock times, in blocks, a transaction may have
  ByTime,      \* a lock time that is a time (500000000 and above)
  Fuzz,        \* blocks before the start in which a confirmation is looked for
  MaxHeight,   \* bound: blocks
  MaxDeposits  \* bound: payments to the script looked for

BroadcastAssumption ==
  /\ Locktimes \subseteq Nat
  /\ Fuzz \in Nat
  /\ MaxHeight \in Nat \ {0}
  /\ MaxDeposits \in Nat

VARIABLES height, tx, cast, find, deposits

vars == <<height, tx, cast, find, deposits>>

\* The lock time is ignored when every sequence is final, and one that is a
\* time is left to LND
Constrained(t) == ~t.final /\ t.lock # ByTime

\* The transaction: its lock, whether every input has the final sequence, and
\* where it is: not sent, in the mempool (perhaps sent by someone else), or in
\* the block of a height
Transactions ==
  {t \in [lock : Locktimes \cup {ByTime}, final : BOOLEAN, sent : BOOLEAN, mined : {0}] :
     t.sent => ~Constrained(t) \/ t.lock <= 1}

NotCalled ==
  /\ height = 1
  /\ cast = [at |-> "idle", start |-> 0, blocks |-> <<>>, listening |-> FALSE,
             told |-> FALSE, sending |-> 0, early |-> FALSE, answers |-> <<>>]
  /\ find = [at |-> "idle", inbox |-> <<>>, timer |-> FALSE, answers |-> <<>>]
  /\ deposits = <<>>

Init == tx \in Transactions /\ NotCalled

\* A block arrives, with or without the transaction; each stream tells of it
Mine(included) ==
  /\ height < MaxHeight
  /\ included => tx.sent /\ tx.mined = 0
  /\ height' = height + 1
  /\ tx' = IF included THEN [tx EXCEPT !.mined = height + 1] ELSE tx
  /\ cast' = [cast EXCEPT
       !.blocks = IF cast.listening THEN Append(@, height + 1) ELSE @,
       !.told = @ \/ (included /\ cast.listening /\ cast.at = "pushing")]
  /\ UNCHANGED <<find, deposits>>

Becomes(c) ==
  /\ cast' = c
  /\ UNCHANGED <<height, tx, find, deposits>>

\* One of the two calls is made: they share nothing
Start ==
  /\ cast.at = "idle"
  /\ find.at = "idle"
  /\ Becomes([cast EXCEPT !.at = "asking", !.start = height])

\* The two streams of the pushing: blocks, beginning with the tip, and the
\* confirmation, found already if it lies at most Fuzz blocks before the start
Pushing(c) ==
  [c EXCEPT !.at = "pushing", !.blocks = <<height>>, !.listening = TRUE,
            !.told = tx.mined # 0 /\ tx.mined >= c.start - Fuzz]

\* A mistake: a block too early
WaitForLockTimeShort ==
  /\ cast.at = "asking"
  /\ Becomes(IF Constrained(tx) /\ tx.lock > cast.start + 1
             THEN [cast EXCEPT !.at = "waiting", !.blocks = <<height>>,
                               !.listening = TRUE]
             ELSE Pushing(cast))

\* The height asked for decides whether there is a lock to wait for
WaitForLockTime ==
  /\ cast.at = "asking"
  /\ Becomes(IF Constrained(tx) /\ tx.lock > cast.start
             THEN [cast EXCEPT !.at = "waiting", !.blocks = <<height>>,
                               !.listening = TRUE]
             ELSE Pushing(cast))

LockBlock ==
  /\ cast.at = "waiting"
  /\ cast.blocks # <<>>
  /\ Becomes(IF tx.lock <= Head(cast.blocks)
             THEN Pushing(cast)
             ELSE [cast EXCEPT !.blocks = Tail(@)])

Silent(c) == [c EXCEPT !.listening = FALSE, !.blocks = <<>>, !.told = FALSE]

Answer(c, result) ==
  [Silent(c) EXCEPT !.at = "done", !.answers = Append(@, result)]

\* A broadcast at each block: the handler waits for LND and the others go on
PushBlock ==
  /\ cast.at = "pushing"
  /\ cast.blocks # <<>>
  /\ Becomes([cast EXCEPT !.blocks = Tail(@), !.sending = @ + 1,
                          !.early = @ \/ (Constrained(tx) /\ tx.lock > height)])

SendWorks ==
  /\ cast.sending > 0
  /\ Constrained(tx) => tx.lock <= height
  /\ cast' = [cast EXCEPT !.sending = @ - 1]
  /\ tx' = [tx EXCEPT !.sent = TRUE]
  /\ UNCHANGED <<height, find, deposits>>

\* A broadcast that fails calls back, whatever has been answered before
SendFails ==
  /\ cast.sending > 0
  /\ Becomes([Answer(cast, "failed") EXCEPT !.sending = @ - 1])

Confirmation ==
  /\ cast.at = "pushing"
  /\ cast.told
  /\ Becomes(Answer(cast, "confirmed"))

StreamBreaks ==
  /\ cast.listening
  /\ Becomes(Answer(cast, "failed"))

(***************************************************************************)
(* findConfirmedOutput                                                     *)
(***************************************************************************)
\* A payment to the script is confirmed, of the amount looked for or not
Deposit(right) ==
  /\ find.at = "waiting"
  /\ Len(deposits) < MaxDeposits
  /\ deposits' = Append(deposits, right)
  /\ find' = [find EXCEPT !.inbox = Append(@, right)]
  /\ UNCHANGED <<height, tx, cast>>

FindBecomes(f) ==
  /\ find' = f
  /\ UNCHANGED <<height, tx, cast, deposits>>

FindStart ==
  /\ find.at = "idle"
  /\ cast.at = "idle"
  /\ FindBecomes([find EXCEPT !.at = "waiting", !.timer = TRUE])

\* done(): neither timer nor listener is left
Found(result) ==
  [at |-> "done", inbox |-> <<>>, timer |-> FALSE,
   answers |-> Append(find.answers, result)]

\* A payment of another amount is passed over
FindSees ==
  /\ find.inbox # <<>>
  /\ FindBecomes(IF Head(find.inbox)
                 THEN Found("found")
                 ELSE [find EXCEPT !.inbox = Tail(@)])

FindTimesOut ==
  /\ find.timer
  /\ FindBecomes(Found("timeout"))

FindBreaks ==
  /\ find.at = "waiting"
  /\ FindBecomes(Found("failed"))

CastStep ==
  WaitForLockTime \/ LockBlock \/ PushBlock \/ SendWorks \/ SendFails \/ Confirmation

FindStep == FindSees \/ FindTimesOut

Next ==
  \/ \E included \in BOOLEAN : Mine(included)
  \/ Start
  \/ CastStep
  \/ StreamBreaks
  \/ FindStart
  \/ \E right \in BOOLEAN : Deposit(right)
  \/ FindStep
  \/ FindBreaks

-----------------------------------------------------------------------------
TypeOK ==
  /\ height \in 1..MaxHeight
  /\ tx \in [lock : Locktimes \cup {ByTime}, final : BOOLEAN,
             sent : BOOLEAN, mined : 0..MaxHeight]
  /\ cast \in [at : {"idle", "asking", "waiting", "pushing", "done"},
               start : 0..MaxHeight, blocks : Seq(1..MaxHeight),
               listening : BOOLEAN, told : BOOLEAN, sending : Nat,
               early : BOOLEAN, answers : Seq({"confirmed", "failed"})]
  /\ find \in [at : {"idle", "waiting", "done"}, inbox : Seq(BOOLEAN),
               timer : BOOLEAN, answers : Seq({"found", "timeout", "failed"})]
  /\ deposits \in Seq(BOOLEAN)

\* A transaction is not sent before the height its lock time names, whether
\* the height asked for or the block of a stream has let it go on
NeverSentTooEarly == ~cast.early

\* The first answer of a broadcast stands: 'confirmed' is said of a confirmed
\* transaction, and after an answer no block is listened to. It is called back
\* again only by broadcasts under way at the first answer and with their failures,
\* which asyncAuto throws instead of answering once more
FirstAnswerStands ==
  /\ cast.answers # <<>> => ~cast.listening
  /\ \A i \in DOMAIN cast.answers :
       cast.answers[i] = "confirmed" => i = 1 /\ tx.mined # 0

\* The search answers once, finds only what was paid, and leaves nothing on
FoundIsPaid ==
  /\ Len(find.answers) <= 1
  /\ find.timer = (find.at = "waiting")
  /\ find.answers = <<"found">> => TRUE \in {deposits[i] : i \in DOMAIN deposits}

\* The broadcast and the search, in any order of blocks, answers and errors
BroadcastInv ==
  TypeOK /\ NeverSentTooEarly /\ FirstAnswerStands /\ FoundIsPaid

\* A lock that has passed is noticed although the block that passes it may come
\* before the subscription, and a confirmation is told although it may have
\* come before it too
BroadcastGoesOn ==
  /\ (cast.at = "waiting" /\ tx.lock <= height) ~> cast.at # "waiting"
  /\ (cast.at \in {"asking", "pushing"} /\ tx.mined # 0 /\ tx.mined >= cast.start - Fuzz)
       ~> cast.answers # <<>>
  /\ find.at = "waiting" ~> find.at = "done"

Fairness == WF_vars(CastStep) /\ WF_vars(FindStep)

Spec == Init /\ [][Next]_vars /\ Fairness
=============================================================================
