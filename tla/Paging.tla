-------------------------------- MODULE Paging --------------------------------
(***************************************************************************)
(* getPayments, getAllInvoices and getRebalancePayments: LND's rows are    *)
(* read page by page, the newest first, until one is older than the caller *)
(* wants; rows are added and settled meanwhile. A rebalance is a payment   *)
(* of one of the caller's nodes to an invoice of one of them.              *)
(***************************************************************************)
EXTENDS Integers, FiniteSetsExt, SequencesExt

CONSTANTS
  Lnds,      \* the nodes a caller reads
  Limit,     \* rows of a page
  MaxTime,   \* bound: times of LND's clock, from 1
  MaxRows,   \* bound: invoices and payments
  MaxNews    \* bound: changes of the rows and the clock during a call

PagingAssumption ==
  /\ Lnds # {}
  /\ Limit \in Nat \ {0}
  /\ MaxTime \in Nat \ {0}
  /\ MaxRows \in Nat
  /\ MaxNews \in Nat

VARIABLES
  clock, slipped,  \* LND's clock; was it set back?
  invoices,        \* of each node, in the order they were added
  payments,
  query,           \* a call
  reader           \* its place in the rows of each node

vars == <<clock, slipped, invoices, payments, query, reader>>

ledger == <<clock, slipped, invoices, payments>>

\* An invoice is told by its node and its place; `paid' is 0 until it is settled
Ids == UNION {{<<l, i>> : i \in DOMAIN invoices[l]} : l \in Lnds}
InvoiceOf(id) == invoices[id[1]][id[2]]

Unread == [at |-> "idle", offset |-> 0, got |-> <<>>]

NoQuery ==
  [at |-> "idle", news |-> 0, kind |-> "payments", after |-> 0, confirmed |-> 0, by |-> {},
   before |-> {}, looked |-> {}, found |-> {}]

NotCalled ==
  /\ clock = 1 /\ slipped = FALSE
  /\ invoices = [l \in Lnds |-> <<>>]
  /\ payments = [l \in Lnds |-> <<>>]
  /\ query = NoQuery
  /\ reader = [l \in Lnds |-> Unread]

Init == NotCalled

(***************************************************************************)
(* LND                                                                     *)
(***************************************************************************)
RowsOf(kind, l) == IF kind = "payments" THEN payments[l] ELSE invoices[l]

HasRoom ==
  MapThenSumSet(LAMBDA l : Len(invoices[l]) + Len(payments[l]), Lnds) < MaxRows

Meanwhile ==
  /\ \/ query.at = "idle" /\ UNCHANGED query
     \/ /\ query.at \in {"reading", "looking"}
        /\ query.news < MaxNews
        /\ query' = [query EXCEPT !.news = @ + 1]
  /\ UNCHANGED reader

ClockMoves ==
  /\ Meanwhile
  /\ \/ clock < MaxTime /\ clock' = clock + 1 /\ UNCHANGED slipped
     \/ clock > 1 /\ clock' = clock - 1 /\ slipped' = TRUE
  /\ UNCHANGED <<invoices, payments>>

AddInvoice(l) ==
  /\ Meanwhile
  /\ HasRoom
  /\ invoices' = [invoices EXCEPT ![l] = Append(@, [at |-> clock, paid |-> 0])]
  /\ UNCHANGED <<clock, slipped, payments>>

\* A node pays an invoice of its own or of another one, once
SendPayment(l) ==
  /\ Meanwhile
  /\ HasRoom
  /\ \E id \in Ids :
       /\ \A m \in Lnds : \A j \in DOMAIN payments[m] : payments[m][j].id # id
       /\ payments' = [payments EXCEPT ![l] = Append(@, [at |-> clock, id |-> id, done |-> FALSE])]
  /\ UNCHANGED <<clock, slipped, invoices>>

\* The payee is paid, by whom ever, before the payer knows it
Settle ==
  /\ Meanwhile
  /\ \E id \in Ids :
       /\ InvoiceOf(id).paid = 0
       /\ invoices' = [invoices EXCEPT ![id[1]][id[2]].paid = clock]
  /\ UNCHANGED <<clock, slipped, payments>>

Confirm ==
  /\ Meanwhile
  /\ \E l \in Lnds : \E j \in DOMAIN payments[l] :
       /\ ~payments[l][j].done
       /\ InvoiceOf(payments[l][j].id).paid # 0
       /\ payments' = [payments EXCEPT ![l][j].done = TRUE]
  /\ UNCHANGED <<clock, slipped, invoices>>

(***************************************************************************)
(* Paging                                                                  *)
(***************************************************************************)
\* A mistake: a row as old as is wanted ends the paging
IsOldOrSame(q, row) == q.after # 0 /\ row.at <= q.after

IsOld(q, row) == q.after # 0 /\ row.at < q.after

\* `confirmed' is asked of invoices only
IsWanted(q, row) ==
  /\ row.at >= q.after
  /\ q.confirmed # 0 => row.paid # 0 /\ row.paid >= q.confirmed

Rows(q, l) == {<<l, i>> : i \in {j \in DOMAIN RowsOf(q.kind, l) : IsWanted(q, RowsOf(q.kind, l)[j])}}

\* The confirmed payments of invoices that are wanted
Rebalances(q) ==
  {look \in q.by \X UNION {Rows(q, m) : m \in q.by} :
     \E j \in DOMAIN payments[look[1]] :
       payments[look[1]][j].id = look[2] /\ payments[look[1]][j].done}

Wanted(q) == IF q.kind = "rebalances" THEN Rebalances(q) ELSE UNION {Rows(q, l) : l \in q.by}

\* `before' remembers what could be answered as the call began
Call(q) ==
  /\ query.at = "idle"
  /\ query' = [q EXCEPT !.before = Wanted(q)]
  /\ reader' = [l \in Lnds |-> [Unread EXCEPT !.at = IF l \in q.by THEN "paging" ELSE "idle"]]
  /\ UNCHANGED ledger

\* The nodes are alike: one is asked. No row is older than 1, which is not asked for
AskedNode == CHOOSE l \in Lnds : TRUE
Starts == {0} \cup 2..MaxTime

GetPayments ==
  \E after \in Starts :
    Call([NoQuery EXCEPT !.at = "reading", !.after = after, !.by = {AskedNode}])

GetAllInvoices ==
  \E after, confirmed \in Starts :
    Call([NoQuery EXCEPT !.at = "reading", !.kind = "invoices", !.after = after,
                         !.confirmed = confirmed, !.by = {AskedNode}])

GetRebalances ==
  \E after \in Starts \ {0} :
    Call([NoQuery EXCEPT !.at = "reading", !.kind = "rebalances", !.after = after, !.by = Lnds])

\* The newest rows, or those before the last one of the page before
Page(l) ==
  LET rows == RowsOf(query.kind, l)
      top == IF reader[l].offset = 0 THEN Len(rows) + 1 ELSE reader[l].offset
  IN  {i \in DOMAIN rows : top - Limit <= i /\ i < top}

\* The rows of a page in LND's order
NewestFirst(S) ==
  CHOOSE s \in [1..Cardinality(S) -> S] :
    \A i, j \in 1..Cardinality(S) : i < j => s[i] > s[j]

\* A page is kept but for the rows not wanted; no row at all, or one that is too
\* old, is the end
ReadPage(l) ==
  LET rows == RowsOf(query.kind, l)
      kept == {i \in Page(l) : IsWanted(query, rows[i])}
      ends == Page(l) = {} \/ \E i \in Page(l) : IsOld(query, rows[i])
  IN  /\ query.at = "reading"
      /\ reader[l].at = "paging"
      /\ reader' = [reader EXCEPT ![l] =
           [at |-> IF ends THEN "read" ELSE "paging",
            offset |-> IF ends THEN 0 ELSE Min(Page(l)),
            got |-> reader[l].got \o NewestFirst(kept)]]
      /\ UNCHANGED <<ledger, query>>

Answered(q) == [q EXCEPT !.at = "done", !.looked = {}]

GotOf(l) == {<<l, i>> : i \in ToSet(reader[l].got)}
Got == UNION {GotOf(l) : l \in query.by}

\* All nodes are read: the rows are the answer, or the invoices to be looked for
AllRead ==
  /\ query.at = "reading"
  /\ \A l \in query.by : reader[l].at = "read"
  /\ query' = IF query.kind = "rebalances"
              THEN [query EXCEPT !.at = "looking"]
              ELSE [Answered(query) EXCEPT !.found = Got]
  /\ UNCHANGED <<ledger, reader>>

\* Each node is asked for a payment of each invoice; what is under way is none
LookUp ==
  /\ query.at = "looking"
  /\ \E look \in (query.by \X Got) \ query.looked :
       LET paid == \E j \in DOMAIN payments[look[1]] :
                     payments[look[1]][j].id = look[2] /\ payments[look[1]][j].done
       IN  query' = [query EXCEPT !.looked = @ \cup {look},
                                  !.found = IF paid THEN @ \cup {look} ELSE @]
  /\ UNCHANGED <<ledger, reader>>

AllLookedUp ==
  /\ query.at = "looking"
  /\ query.looked = query.by \X Got
  /\ query' = Answered(query)
  /\ UNCHANGED <<ledger, reader>>

\* An error is the answer, whatever was read
CallFails ==
  /\ query.at \in {"reading", "looking"}
  /\ query' = [NoQuery EXCEPT !.at = "failed"]
  /\ reader' = [l \in Lnds |-> Unread]
  /\ UNCHANGED ledger

QueryStep ==
  \/ \E l \in Lnds : ReadPage(l)
  \/ AllRead
  \/ LookUp
  \/ AllLookedUp

Next ==
  \/ ClockMoves
  \/ \E l \in Lnds :
       AddInvoice(l) \/ SendPayment(l) \/ GetPayments \/ GetAllInvoices
  \/ Settle
  \/ Confirm
  \/ GetRebalances
  \/ QueryStep
  \/ CallFails

-----------------------------------------------------------------------------
TypeOK ==
  /\ clock \in 1..MaxTime
  /\ slipped \in BOOLEAN
  /\ \A l \in Lnds :
       /\ invoices[l] \in Seq([at : 1..MaxTime, paid : 0..MaxTime])
       /\ payments[l] \in Seq([at : 1..MaxTime, id : Ids, done : BOOLEAN])
       /\ reader[l].at \in {"idle", "paging", "read"}
  /\ query.at \in {"idle", "reading", "looking", "done", "failed"}

\* However many pages it took, and whatever was added or settled meanwhile, an
\* answer has all rows that were wanted when it was asked for and none that are
\* not, each once, the newest first. Only when the clock was set back may rows
\* be missing: those behind an older one
PagesAreWhole ==
  query.at = "done" =>
    /\ query.found \subseteq Wanted(query)
    /\ (query.after = 0 \/ ~slipped) => query.before \subseteq query.found
    /\ \A l \in query.by : \A i, j \in DOMAIN reader[l].got :
         i < j => reader[l].got[i] > reader[l].got[j]

PagingInv == TypeOK /\ PagesAreWhole

\* A call ends although rows are added while it reads
PagingEnds == query.at = "reading" ~> query.at \in {"done", "failed"}

Fairness == WF_vars(QueryStep)

Spec == Init /\ [][Next]_vars /\ Fairness
=============================================================================
