---------------------------- MODULE MCRunIngest -----------------------------
(* Small instances of RunIngest for TLC. *)
EXTENDS RunIngest, TLC

\* The handlers are interchangeable; safety properties only.
HandlerSymmetry == Permutations(Handlers)
=============================================================================
