------------------------------ MODULE FeeUpdate ------------------------------
(***************************************************************************)
(* updateChannelFee: the policy of a channel is read, completed with what  *)
(* the caller asks for, written whole and read again. Several updates may  *)
(* run over one channel, which itself goes from opening to open to closed. *)
(***************************************************************************)
EXTENDS Naturals

CONSTANTS
  Updates,   \* calls of updateChannelFee
  Fields,    \* base fee, CLTV delta, fee rate, discounts, HTLC limits
  Checked,   \* those compared after the write: not the HTLC limits
  FeeRate,   \* the field that has to be named
  Values     \* the values each field may have

FeeAssumption ==
  /\ Checked \subseteq Fields
  /\ FeeRate \in Checked
  /\ Values \in [Fields -> SUBSET Nat]

FeeRateBuffer == 1

VARIABLES channel, policy, update

vars == <<channel, policy, update>>

NoPolicy == [f \in {} |-> 0]
Choices(named) ==
  {c \in [named -> UNION {Values[f] : f \in named}] : \A f \in named : c[f] \in Values[f]}
Policies == Choices(Fields)

\* What a caller asks for: the fields it names, with their values
Changes == UNION {Choices(named) : named \in {n \in SUBSET Fields : FeeRate \in n}}

\* A fee rate may be off by the buffer
IsNear(f, x, y) ==
  IF f = FeeRate THEN x <= y + FeeRateBuffer /\ y <= x + FeeRateBuffer ELSE x = y

\* A mistake: what is not asked is not read before
MergedAfresh(change, read) ==
  [f \in Fields |-> IF f \in DOMAIN change THEN change[f] ELSE 0]

\* The policy written: the fields not named are those read before
Merged(change, read) ==
  [f \in Fields |-> IF f \in DOMAIN change THEN change[f] ELSE read[f]]

\* What LND may make of a policy
Applied(p) == {q \in Policies : \A f \in Fields : IsNear(f, q[f], p[f])}

Idle == [at |-> "idle", change |-> NoPolicy, read |-> NoPolicy,
         before |-> NoPolicy, alone |-> TRUE, result |-> "none"]

Init ==
  /\ channel = "opening"
  /\ policy = NoPolicy
  /\ update = [u \in Updates |-> Idle]

Running(u) == update[u].at \notin {"idle", "done"}

\* The channel opens, its policy enters the graph, the channel closes
Opens ==
  /\ channel = "opening"
  /\ channel' = "open"
  /\ UNCHANGED <<policy, update>>

PolicyKnown ==
  /\ channel = "open"
  /\ policy = NoPolicy
  /\ \E p \in Policies :
       /\ policy' = p
       /\ update' = [u \in Updates |->
            IF Running(u) /\ update[u].alone
            THEN [update[u] EXCEPT !.before = p]
            ELSE update[u]]
  /\ UNCHANGED channel

Closes ==
  /\ channel = "open"
  /\ channel' = "closed"
  /\ UNCHANGED <<policy, update>>

Becomes(u, r) ==
  /\ update' = [update EXCEPT ![u] = r]
  /\ UNCHANGED <<channel, policy>>

\* What an update knew is gone when it ends
Ends(u, result) ==
  Becomes(u, [Idle EXCEPT !.at = "done", !.result = result])

\* `alone' and `before' remember that no other update has run at the same time,
\* and the policy as it was when this one began
InCompany(r) == [r EXCEPT !.alone = FALSE, !.before = NoPolicy]

Start(u) ==
  /\ update[u].at = "idle"
  /\ \E change \in Changes :
       LET company == {v \in Updates \ {u} : Running(v)}
           begun == [Idle EXCEPT !.at = "pending", !.change = change, !.before = policy]
       IN  update' = [v \in Updates |->
             IF v = u THEN IF company = {} THEN begun ELSE InCompany(begun)
             ELSE IF v \in company THEN InCompany(update[v]) ELSE update[v]]
  /\ UNCHANGED <<channel, policy>>

\* A channel that is still opening is an error of its own
CheckPending(u) ==
  /\ update[u].at = "pending"
  /\ IF channel = "opening"
     THEN Ends(u, "pending")
     ELSE Becomes(u, [update[u] EXCEPT !.at = "listing"])

GetChannelId(u) ==
  /\ update[u].at = "listing"
  /\ IF channel # "open"
     THEN Ends(u, "unknown")
     ELSE Becomes(u, [update[u] EXCEPT !.at = "reading"])

ReadPolicy(u) ==
  /\ update[u].at = "reading"
  /\ IF policy = NoPolicy
     THEN Ends(u, "unknown")
     ELSE Becomes(u, [update[u] EXCEPT !.at = "writing", !.read = policy])

\* LND takes the whole policy, its fee rate off by a little perhaps, or leaves
\* the old one without an error
UpdateFeeRate(u) ==
  /\ update[u].at = "writing"
  /\ \E p \in {policy} \cup Applied(Merged(update[u].change, update[u].read)) : policy' = p
  /\ update' = [update EXCEPT ![u].at = "checking", ![u].read = NoPolicy]
  /\ UNCHANGED channel

\* Only the fields that were asked for are compared, and not all of those
CheckUpdated(u) ==
  /\ update[u].at = "checking"
  /\ Ends(u, IF \E f \in DOMAIN update[u].change \cap Checked :
                  ~IsNear(f, policy[f], update[u].change[f])
             THEN "unapplied"
             ELSE "ok")

CallFails(u) ==
  /\ Running(u)
  /\ Ends(u, "failed")

UpdateStep(u) ==
  \/ CheckPending(u)
  \/ GetChannelId(u)
  \/ ReadPolicy(u)
  \/ UpdateFeeRate(u)
  \/ CheckUpdated(u)

Next ==
  \/ Opens
  \/ PolicyKnown
  \/ Closes
  \/ \E u \in Updates : Start(u) \/ UpdateStep(u) \/ CallFails(u)

-----------------------------------------------------------------------------
\* An update that is answered with success and ran alone has changed what was
\* asked and nothing else, but for the HTLC limits, which LND may have left as
\* they were, and for a fee rate that is off by the buffer. Of two updates at a
\* time, each may undo the other's field
FeeChangeIsKept ==
  [][\A u \in Updates :
       LET asked == update[u].change  before == update[u].before
       IN  (update[u].result = "none" /\ update'[u].result = "ok" /\ update[u].alone)
             => \A f \in Fields :
                  \/ f \in DOMAIN asked /\ IsNear(f, policy'[f], asked[f])
                  \/ f \notin DOMAIN asked \cap Checked /\ policy'[f] = before[f]]_vars

Spec == Init /\ [][Next]_vars
=============================================================================
