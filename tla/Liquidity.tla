------------------------------ MODULE Liquidity ------------------------------
(***************************************************************************)
(* getPeerLiquidity sums what can be sent to and received from a peer;     *)
(* getLiquidity lists what can be sent or received over each channel, of   *)
(* peers that do not ask too much for it. Both ask LND several questions,  *)
(* between which channels open and payments move.                          *)
(***************************************************************************)
EXTENDS Integers, Sequences, FiniteSetsExt

CONSTANTS
  Channels,
  PeerOf,      \* the peer of each
  Capacity,    \* tokens of each channel
  Payments,    \* payments over the channels, of one token each
  Offline,     \* channels whose peer may not be there
  Rates,       \* fee rates the peers may ask for over channels that the graph has
  NoRate,      \* the policy of a channel that is not known
  Maximums     \* fee rates a caller may allow

LiquidityAssumption ==
  /\ IsFiniteSet(Channels)
  /\ Capacity \in Nat
  /\ \A rate \in Rates :
       DOMAIN rate \subseteq Channels /\ rate \in [DOMAIN rate -> Nat \cup {NoRate}]
  /\ NoRate \notin Nat
  /\ Maximums \subseteq Nat

VARIABLES
  chans,    \* LND's channels
  ask       \* a call

vars == <<chans, ask>>

\* The orders of a set, and one of them
Orders(S) == Injection(1..Cardinality(S), S)
AnOrder(S) == CHOOSE o \in [1..Cardinality(S) -> S] : IsInjective(o)

Sum(view, f(_)) == MapThenSumSet(LAMBDA k : f(view[k]), DOMAIN view)

\* A pending payment is in neither balance
Held(c) == Cardinality(c.htlcs)
Outgoing(c, ids) == Cardinality({h \in c.htlcs : h.out /\ h.id \in ids})
Incoming(c, ids) == Cardinality({h \in c.htlcs : ~h.out /\ h.id \in ids})

Nothing == [k \in {} |-> 0]

NoAsk ==
  [at |-> "idle", peer |-> {}, known |-> {}, left |-> {}, moved |-> "nothing", outbound |-> FALSE,
   most |-> NoRate, channels |-> Nothing, opening |-> Nothing, policies |-> <<>>, answer |-> Nothing]

NotCalled ==
  /\ chans = [k \in Channels |-> [at |-> "opening", local |-> Capacity, remote |-> 0, htlcs |-> {}]]
  /\ ask = NoAsk

Init == NotCalled

(***************************************************************************)
(* LND. `moved' tells what happened during a call: one thing at most       *)
(***************************************************************************)
Meanwhile(what) ==
  \/ ask.at = "idle" /\ UNCHANGED ask
  \/ /\ ask.at \in {"asked", "liquidity"}
     /\ ask.moved = "nothing"
     /\ ask' = [ask EXCEPT !.moved = what]

ChannelOpens(k) ==
  /\ Meanwhile("opening")
  /\ chans[k].at = "opening"
  /\ chans' = [chans EXCEPT ![k].at = "open"]

\* A payment of one token is offered, by this node or by its peer, over a
\* channel or through two of them
Offer(k, p, out) ==
  /\ Meanwhile("payment")
  /\ chans[k].at = "open"
  /\ \A h \in chans[k].htlcs : h.id # p
  /\ IF out THEN chans[k].local > 0 ELSE chans[k].remote > 0
  /\ chans' = [chans EXCEPT
       ![k].htlcs = @ \cup {[id |-> p, out |-> out]},
       ![k].local = IF out THEN @ - 1 ELSE @,
       ![k].remote = IF out THEN @ ELSE @ - 1]

Resolve(k, h, settles) ==
  /\ Meanwhile("payment")
  /\ h \in chans[k].htlcs
  /\ chans' = [chans EXCEPT
       ![k].htlcs = @ \ {h},
       ![k].local = IF h.out # settles THEN @ + 1 ELSE @,
       ![k].remote = IF h.out = settles THEN @ + 1 ELSE @]

(***************************************************************************)
(* getPeerLiquidity and peerLiquidity                                      *)
(***************************************************************************)
\* A payment known to be settled counts as received, on the side it goes to,
\* though its channel still holds it
Inbound(view, known) == Sum(view, LAMBDA c : c.remote + Outgoing(c, known))
Outbound(view, known) == Sum(view, LAMBDA c : c.local + Incoming(c, known))

\* What is not known to be settled is pending
InboundPending(view, known) == Sum(view, LAMBDA c : Outgoing(c, Payments \ known))
OutboundPending(view, known) == Sum(view, LAMBDA c : Incoming(c, Payments \ known))

PeerLiquidity(channels, opening, known) ==
  [inbound |-> Inbound(channels, known),
   inbound_opening |-> Sum(opening, LAMBDA c : c.remote),
   inbound_pending |-> InboundPending(channels, known),
   outbound |-> Outbound(channels, known),
   outbound_opening |-> Sum(opening, LAMBDA c : c.local),
   outbound_pending |-> OutboundPending(channels, known)]

View(p, state) ==
  [k \in {l \in Channels : PeerOf[l] = p /\ chans[l].at = state} |-> chans[k]]

\* The caller may know of a payment that it is settled
GetPeerLiquidity ==
  /\ ask.at = "idle"
  /\ \E p \in {PeerOf[k] : k \in Channels}, known \in {{}} \cup {{x} : x \in Payments} :
       ask' = [NoAsk EXCEPT !.at = "asked", !.peer = p, !.known = known,
                            !.left = {"open", "opening"}]
  /\ UNCHANGED chans

GetChannels ==
  /\ "open" \in ask.left
  /\ ask' = [ask EXCEPT !.left = @ \ {"open"}, !.channels = View(ask.peer, "open")]
  /\ UNCHANGED chans

GetPendingChannels ==
  /\ "opening" \in ask.left
  /\ ask' = [ask EXCEPT !.left = @ \ {"opening"}, !.opening = View(ask.peer, "opening")]
  /\ UNCHANGED chans

Answer ==
  /\ ask.at = "asked"
  /\ ask.left = {}
  /\ ask' = [ask EXCEPT !.at = "peer",
       !.answer = PeerLiquidity(ask.channels, ask.opening, ask.known)]
  /\ UNCHANGED chans

CallFails ==
  /\ ask.at \in {"asked", "liquidity"}
  /\ ask' = NoAsk
  /\ UNCHANGED chans

(***************************************************************************)
(* getLiquidity and liquidityTokens                                        *)
(***************************************************************************)
\* The lowest rate is kept (the comment at liquidity_tokens.js:41 speaks of a
\* higher one); but a rate that is not known replaces it, and zero is taken for none
LowerRate(known, new) ==
  IF known # NoRate /\ known # 0 /\ new # NoRate /\ new > known THEN known ELSE new

\* A channel that is not among the policies changes nothing
InboundFeeRate(policies, p) ==
  FoldFunction(LAMBDA policy, known : IF policy.peer = p THEN LowerRate(known, policy.rate)
                                      ELSE known,
          NoRate, policies)

IsCheap(policies, p, most) ==
  LET known == InboundFeeRate(policies, p)
  IN  known # NoRate /\ known # 0 /\ known <= most

\* The channels counted: `with' and `most' may be left out
Counted(view, policies, with, outbound, most) ==
  {k \in DOMAIN view : /\ with # {} => PeerOf[k] \in with
                       /\ outbound \/ most = NoRate \/ IsCheap(policies, PeerOf[k], most)}

Sorted(tokens) ==
  LET place == CHOOSE p \in Orders(DOMAIN tokens) :
                 \A i, j \in DOMAIN tokens : i < j => tokens[p[i]] <= tokens[p[j]]
  IN  [i \in DOMAIN tokens |-> tokens[place[i]]]

\* percentile: nine tenths of the way through what is sorted, in tenths
Ninth(tokens) ==
  LET a == Sorted(tokens)
      start == 9 * (Len(a) - 1)
      below == (start \div 10) + 1
      part == start % 10
  IN  IF a = <<>> THEN 0
      ELSE IF below = Len(a) THEN a[below] * 10
      ELSE a[below] * (10 - part) + a[below + 1] * part

Tokens(view, counted, outbound) ==
  LET s == AnOrder(counted)
  IN  [i \in DOMAIN s |-> IF outbound THEN view[s[i]].local ELSE view[s[i]].remote]

\* A maximum is not taken for what goes out
GetLiquidity ==
  /\ ask.at = "idle"
  /\ \E with \in {{}} \cup {{PeerOf[k]} : k \in Channels},
        outbound \in BOOLEAN, most \in Maximums \cup {NoRate} :
       /\ outbound => most = NoRate
       /\ ask' = [NoAsk EXCEPT !.at = "liquidity", !.peer = with, !.outbound = outbound,
                               !.most = most, !.left = {"channels", "wallet"}]
  /\ UNCHANGED chans

Open == {k \in Channels : chans[k].at = "open"}

\* Only the channels whose peer is there are looked at
GetActiveChannels ==
  /\ "channels" \in ask.left
  /\ \E off \in SUBSET Offline :
       ask' = [ask EXCEPT !.left = @ \ {"channels"}, !.channels = [k \in Open \ off |-> chans[k]]]
  /\ UNCHANGED chans

\* The policies are asked for with the key that the wallet has
GetWalletInfo ==
  /\ "wallet" \in ask.left
  /\ ask' = [ask EXCEPT !.left = (@ \ {"wallet"}) \cup (IF ask.most = NoRate THEN {} ELSE {"node"})]
  /\ UNCHANGED chans

\* The graph has some of the channels, in some order
GetNode ==
  /\ "node" \in ask.left
  /\ \E rate \in Rates : \E order \in Orders(Open \cap DOMAIN rate) :
       ask' = [ask EXCEPT !.left = @ \ {"node"},
                 !.policies = [i \in DOMAIN order |->
                                 [peer |-> PeerOf[order[i]], rate |-> rate[order[i]]]]]
  /\ UNCHANGED chans

AnswerTokens ==
  /\ ask.at = "liquidity"
  /\ ask.left = {}
  /\ LET counted == Counted(ask.channels, ask.policies, ask.peer, ask.outbound, ask.most)
         tokens == Tokens(ask.channels, counted, ask.outbound)
     IN  ask' = [ask EXCEPT !.at = "tokens", !.known = counted,
                            !.answer = [tokens |-> tokens, top |-> (Ninth(tokens) + 5) \div 10]]
  /\ UNCHANGED chans

Next ==
  \/ \E k \in Channels :
       \/ ChannelOpens(k)
       \/ \E p \in Payments, out \in BOOLEAN : Offer(k, p, out)
       \/ \E h \in chans[k].htlcs, settles \in BOOLEAN : Resolve(k, h, settles)
  \/ GetPeerLiquidity \/ GetChannels \/ GetPendingChannels \/ Answer \/ CallFails
  \/ GetLiquidity \/ GetActiveChannels \/ GetWalletInfo \/ GetNode \/ AnswerTokens

Spec == Init /\ [][Next]_vars

-----------------------------------------------------------------------------
Total(p) == Capacity * Cardinality({k \in Channels : PeerOf[k] = p})

\* A channel once the payments known to be settled have left it
Cleared(c, known) ==
  [c EXCEPT !.local = @ + Incoming(c, known), !.remote = @ + Outgoing(c, known),
            !.htlcs = {h \in @ : h.id \notin known}]

\* What can be sent, received, is pending and opening comes to all of the
\* channels' tokens, but for a channel that opened between the questions; and
\* knowing a payment to be settled is as good as asking when it is
PeerIsCounted ==
  ask.at = "peer" =>
    LET a == ask.answer
        sum == a.inbound + a.inbound_pending + a.inbound_opening
               + a.outbound + a.outbound_pending + a.outbound_opening
        cleared == [k \in DOMAIN ask.channels |-> Cleared(ask.channels[k], ask.known)]
        torn == IF ask.moved = "opening" THEN Capacity ELSE 0
    IN  /\ sum - Total(ask.peer) \in {-torn, 0, torn}
        /\ a = PeerLiquidity(cleared, ask.opening, {})

\* No channel is counted whose peer asks for more than the maximum over each of
\* its channels that the graph has, nor one whose peer is not in the graph; and each
\* is whose peer asks for less over one, if all it asks for is known and none is
\* zero. A channel may open between the two answers: it goes by the others
CheapAreCounted ==
  ask.at = "tokens" /\ ask.most # NoRate =>
    \A k \in DOMAIN ask.channels :
      LET ofPeer == {i \in DOMAIN ask.policies : ask.policies[i].peer = PeerOf[k]}
          asks == {i \in ofPeer : /\ ask.policies[i].rate # NoRate
                                  /\ ask.policies[i].rate <= ask.most}
      IN  (ask.peer # {} => PeerOf[k] \in ask.peer) =>
            /\ k \in ask.known => asks # {}
            /\ asks # {} /\ (\A i \in ofPeer : ask.policies[i].rate \notin {NoRate, 0}) =>
                 k \in ask.known

\* The top is no more than the most and no less than the least of them
TopIsOfThem ==
  ask.at = "tokens" /\ ask.answer.tokens # <<>> =>
    LET all == Range(ask.answer.tokens)
    IN  ask.answer.top \in Min(all)..Max(all)

LiquidityInv == PeerIsCounted /\ CheapAreCounted /\ TopIsOfThem
=============================================================================
