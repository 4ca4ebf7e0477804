------------------------- MODULE MCRepositoryServer -------------------------
(***************************************************************************)
(* Small instances of RepositoryServer for TLC.                            *)
(***************************************************************************)
EXTENDS RepositoryServer

CONSTANTS s1, s2

\* One change of any kind but the loss of the repository, and one failure.
AnyChange == [kinds |-> Kind \ {"delete"}, faults |-> 1, edits |-> 1]

\* The repository is deleted and created again.
Recreated == [kinds |-> {"delete"}, faults |-> 0, edits |-> 1]

Scenarios == {AnyChange, Recreated}

\* The certificate gets old.
Aging == {[kinds |-> {"expire"}, faults |-> 0, edits |-> 1]}
=============================================================================
