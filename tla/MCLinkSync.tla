----------------------------- MODULE MCLinkSync -----------------------------
EXTENDS LinkSync

CONSTANTS x, y, none

At(state, other) == [state |-> state, other |-> other]

\* Three changes of a link.  A peer is there or not, a policy may lack its
\* details at first, and each may take up an earlier state again. A peer may tell
\* other features, or none. What a policy or a peer has first is called x
StatesOf(kind) ==
  CASE kind = "peer" -> {At("absent", x), At("up", x), At("up", y), At("up", none)}
    [] kind = "policy" -> {At("bare", x), At("down", x), At("up", x), At("up", y)}
    [] kind = "channel" -> {At("absent", x), At("down", x), At("up", y)}

Changes(kind) ==
  {s \in [1..3 -> StatesOf(kind)] :
     /\ s[1].state # "absent"
     /\ kind # "channel" => s[1].other = x
     /\ s[1] # s[2] /\ s[2] # s[3]
     /\ s[2].state # "bare" /\ s[3].state # "bare"
     /\ \A i, j \in 1..3 : s[i].other = y => s[j].other # none}

EveryScript == UNION {[kind : {kind}, states : Changes(kind)] : kind \in Kinds}

=============================================================================
