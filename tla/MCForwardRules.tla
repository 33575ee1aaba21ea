--------------------------- MODULE MCForwardRules ---------------------------
EXTENDS ForwardRules, TLC

CONSTANTS p, q, us, toP, alsoP, toQ

\* LND orders the keys of a channel: p < us < q
MCKeysOf == (toP :> <<p, us>>) @@ (alsoP :> <<p, us>>) @@ (toQ :> <<us, q>>)

\* toP confirmed a block later than the others
MCConfirmed == (toP :> 1) @@ (alsoP :> 0) @@ (toQ :> 0)

NoRules == [stops |-> FALSE, stop |-> {}, kind |-> "none", pairs |-> {}, limit |-> NoLimit,
            minAge |-> 0, maxAge |-> 0]

\* In and out over different peers, and back to the same peer
MCRoutes == {<<alsoP, toQ>>, <<toQ, alsoP>>, <<alsoP, toP>>}

\* One kind of rule at a time
MCRuleSets ==
  { [NoRules EXCEPT !.stops = TRUE, !.stop = {toP}],
    [NoRules EXCEPT !.kind = "allow", !.pairs = {<<q, p>>}],
    [NoRules EXCEPT !.kind = "disallow", !.pairs = {<<q, p>>}],
    [NoRules EXCEPT !.limit = 1],
    [NoRules EXCEPT !.minAge = 1] }

\* A recent block is asked for
RecentBlockRule == {[NoRules EXCEPT !.maxAge = 1]}

=============================================================================
