----------------------------- MODULE MCHtlcSync -----------------------------
EXTENDS HtlcSync

S(kind, reports) == [kind |-> kind, reports |-> reports]

\* An HTLC may fail at once, without having been in flight; a receive is only
\* reported when it is resolved
EveryScript ==
  {S(kind, <<"inflight", outcome>>) :
     kind \in {"payment", "forward"}, outcome \in {"settled", "failed"}}
  \cup {S(kind, <<"failed">>) : kind \in Kinds}
  \cup {S("receive", <<"settled">>)}

Payments == {S("payment", <<"inflight", "settled">>)}

=============================================================================
