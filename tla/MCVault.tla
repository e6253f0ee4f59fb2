-------------------------------- MODULE MCVault --------------------------------
(* Vault with an Operator, an Administrator and a SuperAdmin. *)
EXTENDS Vault, TLC

CONSTANTS op, admin, super

MCRole == (op :> "Operator") @@ (admin :> "Administrator") @@ (super :> "SuperAdmin")
MCRoleOf == [u \in Users |-> MCRole[u]]

\* Everything with two folders; folders three deep on their own.
MCPlans == {[uses |-> AllUses, folders |-> 2],
            [uses |-> {"folder", "rename", "drop_folder", "fail"}, folders |-> 3]}

Symmetry == Permutations(Cabinets) \union Permutations(Folders) \union Permutations(Entries)
              \union Permutations(Names) \union Permutations(Workers)

=============================================================================
