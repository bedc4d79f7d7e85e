--------------------------- MODULE MCSymbolCatalog ---------------------------
EXTENDS SymbolCatalog, TLC

(* Callers and symbols are interchangeable.                                  *)
Symmetry == Permutations(Callers) \cup Permutations(Symbols)
=============================================================================
