----------------------------- MODULE MCSearchIndex -----------------------------
(* SearchIndex on two directories and two files.                            *)
EXTENDS SearchIndex, TLC

CONSTANTS d, e, f, g

MCFileIds == {d, e, f, g}
MCDirectories == {d, e}

At(dir, name, deleted_at) == [parent_id |-> dir, name |-> name, deleted_at |-> deleted_at]

\* Nothing but the identifiers in S is left to be given to nodes.
Free(S) == [n \in MCFileIds |-> IF n \in S THEN Unused ELSE Purged]

\* A new space; a file in a directory, with room for a copy; a file in the trash
\* whose name is taken; a directory in another.
MCDatabases == {
  Free({d, f}),
  d :> At(Root, "a", "None") @@ f :> At(d, "a", "None") @@ Free({g}),
  f :> At(Root, "b", "Some") @@ g :> At(Root, "b", "None") @@ Free({}),
  d :> At(Root, "a", "None") @@ e :> At(d, "a", "None") @@ Free({})}
===============================================================================
