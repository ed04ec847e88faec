----------------------------- MODULE MCPagedList -----------------------------
(* Instances of PagedList for TLC.                                         *)
EXTENDS PagedList, TLC

\* Rows are alike for the list: what tells them apart is their state.
RowSymmetry == Permutations(Rows)

\* A client asks for numbers when it has seen a page of something.
MCListNext == ListNext /\ (reports' # reports => page > 0 /\ visible # {})

MCListSpec == ListInit /\ [][MCListNext]_listVars

=============================================================================
