-------------------------- MODULE MCIngestionPipeline --------------------------
(* Bounds with which TLC explores IngestionPipeline. *)
EXTENDS IngestionPipeline, TLC

CONSTANTS f1, f2, f3, h1, h2

\* Two copies of one content, and another file.
CopyAndOther == (f1 :> h1) @@ (f2 :> h1) @@ (f3 :> h2)
OneFile == f1 :> h1
TwoFiles == (f1 :> h1) @@ (f2 :> h2)

ChainSymmetry == Permutations(Chains)

=============================================================================
