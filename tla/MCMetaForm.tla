----------------------------- MODULE MCMetaForm -----------------------------
(* An instance of MetaForm for TLC: a form opened for two matches. *)
EXTENDS MetaForm, TLC

\* Both properties are about the time before it.
NotCrossed == ~crossed

Symmetry == Permutations(Matches) \union Permutations(Loads) \union Permutations(Saves)
=============================================================================
