---------------------------- MODULE MCUserAccounts ----------------------------
EXTENDS UserAccounts, TLC

CONSTANTS a, b, i1, i2, i3, i4, w1, w2

MCNames == Names \ {Root}
Symmetry == Permutations(Ids) \union Permutations(MCNames) \union Permutations(Workers)

=============================================================================
