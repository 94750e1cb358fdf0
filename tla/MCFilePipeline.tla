--------------------------- MODULE MCFilePipeline ---------------------------
(***************************************************************************)
(* FilePipeline for TLC.  Files, entry ids and batches are interchangeable *)
(* in every invariant and action property.  FirstEntry chooses among the   *)
(* entries of a file, a set of at most one (OneEntryPerFile).              *)
(***************************************************************************)
EXTENDS FilePipeline, TLC

Symmetry ==
    Permutations(Files) \cup Permutations(EntryIds) \cup Permutations(Batches)
=============================================================================
