------------------------------ MODULE Database ------------------------------
(***************************************************************************)
(* The database that is handed to every sync method as `db`.  It is not    *)
(* part of the repository: its contract is the one src/sync relies on.     *)
(* getItem returns the record under a key, or none.  putItem with a        *)
(* `fresh` attribute only succeeds when no record is there yet.            *)
(* updateItem with `expect: {_rev}` only succeeds when the stored record   *)
(* still has that revision.  One call on one key takes effect at a single  *)
(* moment between the call and its callback.                               *)
(***************************************************************************)

CONSTANT NoRecord   \* what getItem answers for an absent key

\* putItem({fresh, key, record}) goes through
MayPut(stored) == stored = NoRecord

\* updateItem({expect: {_rev: rev}, key}) goes through
MayUpdate(stored, rev) ==
  /\ stored # NoRecord
  /\ stored.rev = rev

=============================================================================
