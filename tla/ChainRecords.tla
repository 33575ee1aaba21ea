----------------------------- MODULE ChainRecords -----------------------------
(***************************************************************************)
(* getTransactionRecord: what LND's channels say of a transaction of the   *)
(* chain, by the channels that it or its parents open and close. Channels  *)
(* that are opened by one transaction go through their lives meanwhile.    *)
(***************************************************************************)
EXTENDS Integers, Sequences, FiniteSetsExt, SequencesExt

CONSTANTS
  Channels,
  Txs,
  Fund,           \* the transaction that opens the channels
  Vout,           \* the place of each among its outputs
  CloseTx,        \* the transaction that closes each
  Inputs,         \* what each transaction spends: [tx, vout] in order
  Resolves,       \* the transaction that resolves the payment of each, if any
  Owed,           \* the channels with a payment
  Kinds,          \* how each may be closed
  Wallet,         \* what the wallet's transactions may begin with
  Nothing

Spends(t, u) == \E i \in DOMAIN Inputs[t] : Inputs[t][i].tx = u

\* A transaction takes what another left, or what is left of that
Follows(t, u) == Spends(t, u) \/ \E v \in Txs : Spends(t, v) /\ Spends(v, u)

\* The funding output of a channel
SpendsOutput(t, k) ==
  \E i \in DOMAIN Inputs[t] : Inputs[t][i] = [tx |-> Fund, vout |-> Vout[k]]

\* A closing spends the output of its channel; a payment is resolved by what
\* comes after it
ChainRecordsAssumption ==
  /\ IsFiniteSet(Channels)
  /\ Fund \in Txs
  /\ Vout \in [Channels -> Nat]
  /\ CloseTx \in [Channels -> Txs]
  /\ Inputs \in [Txs -> Seq([tx : Txs \cup {Nothing}, vout : Nat])]
  /\ \A k, l \in Channels : k # l => Vout[k] # Vout[l] /\ CloseTx[k] # CloseTx[l]
  /\ \A k \in Channels : SpendsOutput(CloseTx[k], k)
  /\ Resolves \in [Owed -> Txs]
  /\ Owed \subseteq Channels
  /\ \A k \in Owed : Follows(Resolves[k], CloseTx[k])
  /\ Kinds \in [Channels -> SUBSET {"cooperative", "local", "remote"}]
  /\ Wallet \subseteq Seq(Txs)
  /\ Nothing \notin Channels \cup Txs

VARIABLES life, txs, ended, query

vars == <<life, txs, ended, query>>

(***************************************************************************)
(* LND's channels and transactions. A channel's `kind' is how it is        *)
(* closed, `theirs' that the partner opened it; its payment is resolved    *)
(* before or after the channel counts as closed.                           *)
(***************************************************************************)
NoQuery ==
  [at |-> "idle", id |-> Nothing, still |-> TRUE, before |-> Nothing, channels |-> Nothing,
   closed |-> Nothing, pending |-> Nothing, tx |-> Nothing, answer |-> Nothing]

Moves ==
  /\ \/ query.at = "idle"
     \/ query.at = "asked" /\ query.still
  /\ query' = IF query.at = "asked" THEN [query EXCEPT !.still = FALSE] ELSE query

Known(t) == t \in ToSet(txs)

\* LND lists the newest transaction last
Seen(t) ==
  /\ ~Known(t)
  /\ txs' = Append(txs, t)

OpenChannels ==
  /\ Moves
  /\ \A k \in Channels : life[k].at = "none"
  /\ Seen(Fund)
  /\ life' = [k \in Channels |-> [life[k] EXCEPT !.at = "opening"]]
  /\ UNCHANGED ended

ChannelOpens(k) ==
  /\ Moves
  /\ life[k].at = "opening"
  /\ life' = [life EXCEPT ![k].at = "open"]
  /\ UNCHANGED <<txs, ended>>

CloseChannel(k) ==
  /\ Moves
  /\ life[k].at = "open"
  /\ Seen(CloseTx[k])
  /\ \E kind \in Kinds[k] :
       life' = [life EXCEPT ![k].at = "closing", ![k].kind = kind]
  /\ UNCHANGED ended

\* A transaction that spends what is known: a sweep, the claim of a payment
Spend(t) ==
  /\ Moves
  /\ t \notin {Fund} \cup {CloseTx[k] : k \in Channels}
  /\ \A i \in DOMAIN Inputs[t] : Known(Inputs[t][i].tx)
  /\ Seen(t)
  /\ life' = [k \in Channels |->
       IF k \in Owed /\ Resolves[k] = t THEN [life[k] EXCEPT !.owed = "resolved"] ELSE life[k]]
  /\ UNCHANGED ended

ChannelClosed(k) ==
  /\ Moves
  /\ life[k].at = "closing"
  /\ life' = [life EXCEPT ![k].at = "closed"]
  /\ ended' = Append(ended, k)
  /\ UNCHANGED txs

(***************************************************************************)
(* transactionRecords                                                      *)
(***************************************************************************)
Told(action, k) == [action |-> action, channel |-> k, with |-> k]

\* Pending channels have no id yet
ToldPending(action, k) == [action |-> action, channel |-> Nothing, with |-> k]

Each(S, R(_)) == LET s == SetToSeq(S) IN [i \in DOMAIN s |-> R(s[i])]

ClosingOf(q) == {k \in Channels : q.pending[k].at = "closing"}
ClosedBy(q, id) == {k \in ToSet(q.closed.order) : CloseTx[k] = id}

HowClosed(q, k) ==
  CASE q.closed.life[k].kind = "cooperative" -> "cooperatively_closed_channel"
    [] q.closed.life[k].kind = "local" -> "force_closed_channel"
    [] q.closed.life[k].kind = "remote" -> "peer_force_closed_channel"

\* idFromHash turns the hash over in place each time it is compared, so that
\* only the first, the third, ... of a list can be found. `turned' counts the
\* comparisons so far
Finds(list, id, turned) == \E i \in DOMAIN list : list[i] = id /\ (turned + i) % 2 = 1

Comparisons(list, id) ==
  IF Finds(list, id, 0) THEN CHOOSE i \in DOMAIN list : list[i] = id ELSE Len(list)

FindsClosed(q, id) ==
  Finds([m \in DOMAIN q.closed.order |-> CloseTx[q.closed.order[m]]], id,
        Comparisons(q.tx, id))

\* A mistake: any output of the transaction will do
SpendAnyPendingOf(q, parent) == {k \in ClosingOf(q) : Fund = parent.tx}

SpendPendingOf(q, parent) ==
  {k \in ClosingOf(q) : Fund = parent.tx /\ Vout[k] = parent.vout}

SpendPending(q, parent) ==
  Each(SpendPendingOf(q, parent), LAMBDA k : ToldPending("channel_closing", k))

SpendClosing(q, parent) ==
  Each({k \in ClosingOf(q) : CloseTx[k] = parent.tx /\ q.pending[k].theirs},
       LAMBDA k : ToldPending("peer_force_closing_channel", k))

\* The grandparents of the transaction: its closing is told again for each input
\* of its parent, which is taken out later
Grandparents(q, parent) ==
  IF parent.tx \notin ToSet(q.tx) \/ q.id \notin ToSet(q.tx) THEN <<>>
  ELSE LET greats == {g \in Channels : \E i \in DOMAIN Inputs[q.id] :
                        LET grand == Inputs[q.id][i].tx
                        IN  /\ Finds(q.tx, grand, 0)
                            /\ \E j \in DOMAIN Inputs[grand] :
                                 /\ CloseTx[g] = Inputs[grand][j].tx
                                 /\ FindsClosed(q, CloseTx[g])}
       IN  Each({g \in greats : q.closed.life[g].kind = "local"},
                LAMBDA g : Told("force_closed_channel", g))

SpendClose(q, parent) ==
  Each(ClosedBy(q, parent.tx), LAMBDA k : Told(HowClosed(q, k), k))

TransactionRecords(q, parent) ==
  SpendPending(q, parent) \o SpendClosing(q, parent) \o Grandparents(q, parent)
  \o SpendClose(q, parent)

(***************************************************************************)
(* getTransactionRecord                                                    *)
(***************************************************************************)
Payments(q) ==
  Each({k \in Owed \cap ToSet(q.closed.order) :
          Resolves[k] = q.id /\ q.closed.life[k].owed = "resolved"},
       LAMBDA k : Told("payment", k))

Opening(q) ==
  Each({k \in Channels : q.pending[k].at = "opening" /\ Fund = q.id},
       LAMBDA k : ToldPending("opening_channel", k))

Opened(q) ==
  Each({k \in ToSet(q.closed.order) : Fund = q.id}, LAMBDA k : Told("opened_channel", k))
  \o Each({k \in q.channels : Fund = q.id}, LAMBDA k : Told("opened_channel", k))

Closed(q) ==
  Each(ClosedBy(q, q.id), LAMBDA k : Told(HowClosed(q, k), k))
  \o Each({k \in ToSet(q.closed.order) : Fund = q.id /\ q.closed.life[k].kind = "remote"},
          LAMBDA k : Told("peer_force_closed_channel", k))

Parents(q) ==
  IF q.id \notin ToSet(q.tx) THEN <<>>
  ELSE FlattenSeq([i \in DOMAIN Inputs[q.id] |-> TransactionRecords(q, Inputs[q.id][i])])

Records(q) == Payments(q) \o Opening(q) \o Opened(q) \o Closed(q) \o Parents(q)

\* An action of a channel is told once; one of a channel without an id always
Related(records) ==
  LET again == {i \in DOMAIN records :
                  /\ records[i].channel # Nothing
                  /\ \E j \in 1..i - 1 : /\ records[j].action = records[i].action
                                         /\ records[j].channel = records[i].channel}
  IN  FlattenSeq([i \in DOMAIN records |-> IF i \in again THEN <<>> ELSE <<records[i]>>])

\* Without a record it is the wallet's own transaction
Record(q) ==
  [related |-> Related(Records(q)),
   sent |-> Records(q) = <<>> /\ q.id \in ToSet(q.tx)]

Calls == {"channels", "closed", "pending", "tx"}

Returns(q, S) ==
  [q EXCEPT
     !.channels = IF "channels" \in S THEN {k \in Channels : life[k].at = "open"} ELSE @,
     !.closed = IF "closed" \in S THEN [order |-> ended, life |-> life] ELSE @,
     !.pending = IF "pending" \in S THEN life ELSE @,
     !.tx = IF "tx" \in S THEN txs ELSE @]

\* What the caller passes along is as if it had been returned first
Ask ==
  /\ query.at = "idle"
  /\ \E id \in Txs, S \in SUBSET Calls :
       query' = [Returns(NoQuery, S) EXCEPT !.at = "asked", !.id = id, !.before = life]
  /\ UNCHANGED <<life, txs, ended>>

Determine ==
  /\ query.at = "asked"
  /\ LET q == Returns(query, {c \in Calls : query[c] = Nothing})
     IN  query' = [q EXCEPT !.at = "details", !.answer = Record(q)]
  /\ UNCHANGED <<life, txs, ended>>

\* Aliases are looked up for the peers of the records; an error is passed over
Details ==
  /\ query.at = "details"
  /\ query' = NoQuery
  /\ UNCHANGED <<life, txs, ended>>

Init ==
  /\ \E theirs \in BOOLEAN :
       life = [k \in Channels |->
                 [at |-> "none", kind |-> "none", theirs |-> theirs, owed |-> "owed"]]
  /\ txs \in Wallet
  /\ ended = <<>>
  /\ query = NoQuery

Next ==
  \/ OpenChannels
  \/ \E k \in Channels : ChannelOpens(k) \/ CloseChannel(k) \/ ChannelClosed(k)
  \/ \E t \in Txs : Spend(t)
  \/ Ask \/ Determine \/ Details

Spec == Init /\ [][Next]_vars

(***************************************************************************)
(* Properties                                                              *)
(***************************************************************************)
\* What a transaction has to do with a channel: it opens or closes it, spends
\* its output, or comes one or two transactions after its closing
Concerns(t, k) ==
  \/ t = Fund \/ t = CloseTx[k]
  \/ SpendsOutput(t, k)
  \/ Follows(t, CloseTx[k])

Named(k) ==
  \E i \in DOMAIN query.answer.related : query.answer.related[i].with = k

\* An action fits the state of a channel. That a channel is being closed by its
\* peer is told of those that the peer has opened, whoever closes them
Fits(action, c) ==
  CASE action = "opening_channel" -> c.at = "opening"
    [] action = "opened_channel" -> c.at \in {"open", "closed"}
    [] action = "channel_closing" -> c.at = "closing"
    [] action = "peer_force_closing_channel" -> c.at = "closing" /\ c.theirs
    [] action = "cooperatively_closed_channel" -> c.at = "closed" /\ c.kind = "cooperative"
    [] action = "force_closed_channel" -> c.at = "closed" /\ c.kind = "local"
    [] action = "peer_force_closed_channel" -> c.at = "closed" /\ c.kind = "remote"
    [] action = "payment" -> c.at = "closed" /\ c.owed = "resolved"

\* What is told is of a channel that the transaction concerns, and was so when
\* the question was asked or when it was answered
OnlyRelated ==
  \A i \in DOMAIN query.answer.related :
    LET r == query.answer.related[i]
    IN  /\ Concerns(query.id, r.with)
        /\ Fits(r.action, query.before[r.with]) \/ Fits(r.action, life[r.with])

\* A record of a channel that has an id is told once; one of a pending channel may
\* be told for each input of the transaction
ToldOnce ==
  \A i, j \in DOMAIN query.answer.related :
    LET r == query.answer.related[i]
    IN  i # j /\ r.channel # Nothing => query.answer.related[j] # r

\* A channel that did not move itself between the lists, whatever others did, is
\* named by the transaction that opens it, by the one that closes it and by one
\* that spends that, but for the opening while the channel is closing; only a
\* transaction that concerns no such channel is presented as a spend
AllAreNamed ==
  \A k \in Channels :
    life[k].at = query.before[k].at =>
      /\ query.id = Fund /\ life[k].at \in {"opening", "open", "closed"} => Named(k)
      /\ query.id = CloseTx[k] /\ life[k].at \in {"closing", "closed"} => Named(k)
      /\ Spends(query.id, CloseTx[k]) /\ query.id \in ToSet(query.tx) /\ life[k].at = "closed"
           => Named(k)

\* What getTransactionRecord tells of a transaction is related to it, fits the
\* channels, is told once when it has an id, and leaves out only a channel that
\* moved from one list to another between their answers
RecordsInv ==
  query.at = "details" =>
    OnlyRelated /\ ToldOnce /\ AllAreNamed /\ (query.answer.sent => query.answer.related = <<>>)
=============================================================================
