----------------------------- MODULE MCSubnetTree -----------------------------
(* SubnetTree on small instances: a network of four addresses, its halves, and *)
(* a single address in each; "half" is also written in a second way.           *)
EXTENDS SubnetTree, TLC

MCCover == [net |-> {1, 2, 3, 4}, half |-> {1, 2}, half2 |-> {1, 2}, other |-> {3, 4},
            one |-> {1}, two |-> {2}]
MCLen == [net |-> 0, half |-> 1, half2 |-> 1, other |-> 1, one |-> 2, two |-> 2]

\* In two plans the tree grows, shrinks and has parents named by users: over
\* two branches, and on one branch with IP records in it.  In the third one,
\* importers and moves between VRFs run beside creations and deletions.
MCPlans ==
    {[uses |-> {"create", "explicit", "delete", "fail"},
      cidrs |-> {"net", "half", "other", "one"}, vrfs |-> {}],
     [uses |-> {"create", "explicit", "delete", "record", "fail"},
      cidrs |-> {"net", "half", "one"}, vrfs |-> {}],
     [uses |-> {"create", "import", "delete", "move", "vrf", "fail"},
      cidrs |-> {"half", "other", "one"}, vrfs |-> Vrfs]}

Symmetry == Permutations(Ids) \union Permutations(Workers)

==============================================================================
