----------------------------- MODULE MCNodeSync -----------------------------
EXTENDS NodeSync

CONSTANTS a, b, c, f, k

D(alias, features) == [alias |-> alias, features |-> features]

\* A node that renames itself, drops its features, repeats itself, and keeps
\* its alias when its features change
Steady == {<<D(a, {f}), D(b, {}), D(c, {f})>>,
           <<D(a, {f}), D(a, {f}), D(b, {})>>,
           <<D(a, {f}), D(a, {k}), D(a, {})>>}

\* A node that changes its alias and changes it back
Flapping == Steady \cup {<<D(a, {f}), D(b, {f}), D(a, {f})>>}

=============================================================================
