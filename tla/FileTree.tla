-------------------------------- MODULE FileTree --------------------------------
(***************************************************************************)
(* The tree of file nodes: the operations VfsService declares              *)
(* (traits/vfs.rs) on the records of models/file.rs.                       *)
(*                                                                         *)
(* No implementation of the trait exists yet.  Each operation is what its  *)
(* declaration fixes: the nodes it changes, and the errors that keep it    *)
(* from changing any.  An operation is one transaction.  One that fails is *)
(* a step that is not taken; so is one that is Forbidden, which AuthTokens *)
(* decides.  No declaration asks that a new parent be a directory, and no  *)
(* operation here does: a file may be given children.                      *)
(***************************************************************************)
EXTENDS FiniteSets, Functions

CONSTANTS
  FileIds,        \* the identifiers that nodes are ever given
  Directories,    \* those of them that are given to directories (NodeType)
  Root,           \* the root node of the space, which stays
  Names,          \* the names nodes may have
  Unused,         \* no node has had the identifier yet
  Purged          \* the node has been permanently deleted

\* FileNode: where a node is, what it is called, and Option::is_some of deleted_at.
FileNodes == [parent_id : FileIds \cup {Root}, name : Names, deleted_at : {"None", "Some"}]

ASSUME FileTreeAssumption ==
  /\ Directories \subseteq FileIds
  /\ Root \notin FileIds
  /\ Unused \notin FileNodes /\ Purged \notin FileNodes

VARIABLE tree     \* the FileNode that each identifier stands for

Stored(n) == tree[n] \notin {Unused, Purged}

IsDeleted(n) == tree[n].deleted_at = "Some"

\* get_node: Ok for a node that exists and is not deleted, NotFound otherwise.
Live(n) == n = Root \/ (n \in FileIds /\ Stored(n) /\ ~ IsDeleted(n))

IsDirectory(n) == n \in Directories

\* Another live node than n has the name in the directory.
NameTaken(n, dir, name) ==
  \E m \in FileIds \ {n} : Live(m) /\ tree[m].parent_id = dir /\ tree[m].name = name

StoredNodes == {n \in FileIds : Stored(n)}
LiveNodes == {n \in FileIds : Live(n)}

\* The nodes in S at and below n: the least set with n that holds a member's children in S.
Below(n, S) ==
  {m \in FileIds :
     \A T \in SUBSET FileIds :
       n \in T /\ (\A c \in S : tree[c].parent_id \in T => c \in T) => m \in T}

Descendants(n) == Below(n, StoredNodes)

-------------------------------------------------------------------------------
NewNode(dir, name) == [parent_id |-> dir, name |-> name, deleted_at |-> "None"]

\* create_directory; for a file, the record that a finished upload makes visible.
Create(n, dir, name) ==
  /\ tree[n] = Unused
  /\ Live(dir) /\ ~ NameTaken(n, dir, name)
  /\ tree' = [tree EXCEPT ![n] = NewNode(dir, name)]

Rename(n, name) ==
  /\ Live(n) /\ ~ NameTaken(n, tree[n].parent_id, name)
  /\ tree' = [tree EXCEPT ![n].name = name]

\* Slip: no cycle prevention.
MoveAnywhere(n, dir) ==
  /\ Live(n) /\ Live(dir)
  /\ ~ NameTaken(n, dir, tree[n].name)
  /\ tree' = [tree EXCEPT ![n].parent_id = dir]

\* Into n itself is refused like into what is below n: both would tie a cycle.
Move(n, dir) ==
  /\ Live(n) /\ Live(dir)
  /\ dir \notin Descendants(n)
  /\ ~ NameTaken(n, dir, tree[n].name)
  /\ tree' = [tree EXCEPT ![n].parent_id = dir]

\* Slip: the descendants stay.
SoftDeleteNode(n) ==
  /\ Live(n)
  /\ tree' = [tree EXCEPT ![n].deleted_at = "Some"]

SoftDelete(n) ==
  /\ Live(n)
  /\ tree' = [m \in FileIds |-> IF m \in Descendants(n)
                                  THEN [tree[m] EXCEPT !.deleted_at = "Some"]
                                  ELSE tree[m]]

\* Slip: the name may have been taken since.
RestoreUnchecked(n) ==
  /\ Stored(n) /\ IsDeleted(n)
  /\ tree' = [tree EXCEPT ![n].deleted_at = "None"]

\* The node alone, to where it was, whether or not that is in the trash itself.
Restore(n) ==
  /\ Stored(n) /\ IsDeleted(n)
  /\ ~ NameTaken(n, tree[n].parent_id, tree[n].name)
  /\ tree' = [tree EXCEPT ![n].deleted_at = "None"]

\* In the trash or not; the descendants with it, restored ones too.
PermanentDelete(n) ==
  /\ Stored(n)
  /\ tree' = [m \in FileIds |-> IF m \in Descendants(n) THEN Purged ELSE tree[m]]

\* The tree with node m, for each m in T, as the copy of origin[m].
WithCopies(n, dir, T, origin) ==
  [m \in FileIds |->
     IF m \notin T THEN tree[m]
     ELSE NewNode(IF origin[m] = n THEN dir
                  ELSE CHOOSE p \in T : origin[p] = tree[origin[m]].parent_id,
                  tree[origin[m]].name)]

\* The live part of the subtree, under new identifiers.  In the directory that the
\* node is in, its name is taken by the node itself.
Copy(n, dir) ==
  /\ Live(n) /\ Live(dir)
  /\ ~ NameTaken(n, dir, tree[n].name) /\ tree[n].parent_id # dir
  /\ \E T \in SUBSET {m \in FileIds : tree[m] = Unused} :
     \E origin \in Bijection(T, Below(n, LiveNodes)) :
       /\ \A m \in T : IsDirectory(m) <=> IsDirectory(origin[m])
       /\ tree' = WithCopies(n, dir, T, origin)

TreeEdit ==
  \E n \in FileIds :
    \/ \E dir \in FileIds \cup {Root} :
         (\E name \in Names : Create(n, dir, name)) \/ Move(n, dir)
    \/ \E name \in Names : Rename(n, name)
    \/ SoftDelete(n) \/ Restore(n) \/ PermanentDelete(n)

TreeCopy == \E n \in FileIds, dir \in FileIds \cup {Root} : Copy(n, dir)

TreeNext == TreeEdit \/ TreeCopy

\* A new space, and every sequence of operations on it.
TreeInit == tree = [n \in FileIds |-> Unused]

TreeSpec == TreeInit /\ [][TreeNext]_tree

-------------------------------------------------------------------------------
(* Properties. *)

TreeTypeOK == tree \in [FileIds -> FileNodes \cup {Unused, Purged}]

(* Two live nodes in one directory never have the same name, although a     *)
(* name is free again as soon as its node is in the trash, from where the   *)
(* node may come back (the Conflict errors of VfsService).                  *)
NamesUnique ==
  \A m, n \in FileIds :
    m # n /\ Live(m) /\ Live(n) /\ tree[m].parent_id = tree[n].parent_id
      => tree[m].name # tree[n].name

(* From every stored node, in the trash too, the way up ends at the root:   *)
(* no moves, deletions and restorations in any order tie a cycle or leave a *)
(* node without its parent (move_node's cycle prevention, permanent_delete, *)
(* "None only for the root node").                                          *)
Rooted ==
  /\ \A n \in FileIds : Stored(n) => tree[n].parent_id \in StoredNodes \cup {Root}
  /\ \A S \in SUBSET StoredNodes : S # {} => \E n \in S : tree[n].parent_id \notin S

\* A live node whose directory is in the trash: get_node finds it, no listing shows it.
Stray(n) == Stored(n) /\ Live(n) /\ ~ Live(tree[n].parent_id)

(* Only a restoration makes a node stray, the restored one, which is the    *)
(* one case that VfsService leaves open: nothing is created, moved or       *)
(* copied into the trash, and a directory takes its subtree with it.        *)
StraysAreRestored ==
  [][\A n \in FileIds : ~ Stray(n) /\ Stray(n)' => tree[n] # Unused /\ IsDeleted(n)]_tree
===============================================================================
