----------------------------- MODULE MCIPRecords -----------------------------
\* Small instances of IPRecords for TLC.
EXTENDS IPRecords, TLC

\* Users are only ever compared with each other, and so are ids.
Symmetry == Permutations(Users) \union Permutations(Ids)
==============================================================================
