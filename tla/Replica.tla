------------------------------- MODULE Replica -------------------------------
(***************************************************************************)
(* What the library promises about every table it keeps: a copy of a       *)
(* source that moves on by itself.  The copy of a key lags the source, it  *)
(* never runs ahead of it and it never goes back to an older version.      *)
(***************************************************************************)
EXTENDS Naturals

CONSTANT Keys

VARIABLES
  source,   \* source[k] is how many versions of k the source has published
  copy      \* copy[k] is the version the database reflects, 0 for none

replicaVars == <<source, copy>>

ReplicaInit ==
  /\ source = [k \in Keys |-> 0]
  /\ copy = [k \in Keys |-> 0]

\* The Lightning node learns another version of k
Publish(k) ==
  /\ source' = [source EXCEPT ![k] = @ + 1]
  /\ UNCHANGED copy

\* The copy catches up, to any version between its own and the latest
Refresh(k) ==
  /\ \E v \in (copy[k] + 1)..source[k] : copy' = [copy EXCEPT ![k] = v]
  /\ UNCHANGED source

ReplicaNext == \E k \in Keys : Publish(k) \/ Refresh(k)

ReplicaSpec == ReplicaInit /\ [][ReplicaNext]_replicaVars

=============================================================================
