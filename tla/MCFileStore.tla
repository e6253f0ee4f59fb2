----------------------------- MODULE MCFileStore -----------------------------
(* FileStore on small instances. *)
EXTENDS FileStore, TLC

\* Files are interchangeable and so are requests.
Symmetry == Permutations(Files) \union Permutations(Requests)

==============================================================================
