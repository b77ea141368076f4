---------------------------- MODULE MCReplacements ---------------------------
EXTENDS Replacements, TLC

\* Callers are alike, and so are the decisions they own; only for invariants.
Alike == Permutations(Callers) \cup Permutations(Decisions)
=============================================================================
