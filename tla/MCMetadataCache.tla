--------------------------- MODULE MCMetadataCache --------------------------
(***************************************************************************)
(* MetadataCache for TLC: keys and metadata are interchangeable.           *)
(***************************************************************************)
EXTENDS MetadataCache, TLC

Symmetry == Permutations(Keys) \cup Permutations(Metas)
=============================================================================
