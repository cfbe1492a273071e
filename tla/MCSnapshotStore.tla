--------------------------- MODULE MCSnapshotStore ---------------------------
(* A small instance of SnapshotStore. *)
EXTENDS SnapshotStore, TLC

(* A document that sets every field, and one that omits the stateful ones. *)
MCDocs == {[watched |-> 1, stateful |-> 1], [watched |-> 2]}
Symmetry == Permutations(Writers) \union Permutations(Readers) \union Permutations(Handles)
=============================================================================
