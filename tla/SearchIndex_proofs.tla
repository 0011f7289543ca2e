--------------------------- MODULE SearchIndex_proofs ---------------------------
(***************************************************************************)
(* Theorems about SearchIndex and the FileTree it follows, and their       *)
(* proofs.  The tree needs two invariants, each kept by every operation on *)
(* its own; the index needs that what has been read is the latest, or is   *)
(* going to be read again, or is known to be outdated; a rebuild that is   *)
(* not disturbed, that every node it is done with is right.                *)
(***************************************************************************)
EXTENDS SearchIndex, TLAPS

USE FileTreeAssumption, SearchIndexAssumption

-------------------------------------------------------------------------------
(* What lies below a node.                                                 *)

\* A node is below itself, and so are the children, in S, of what is below it.
LEMMA BelowClosed ==
  ASSUME NEW n \in FileIds, NEW S \in SUBSET FileIds
  PROVE  /\ n \in Below(n, S)
         /\ \A c \in S : tree[c].parent_id \in Below(n, S) => c \in Below(n, S)
BY DEF Below

\* Whatever else is below a node is a member of S with its parent below.
LEMMA BelowLeast ==
  ASSUME NEW n \in FileIds, NEW S \in SUBSET FileIds,
         NEW m \in Below(n, S), m # n
  PROVE  m \in S /\ tree[m].parent_id \in Below(n, S)
<1> DEFINE T == {x \in Below(n, S) : x = n \/ (x \in S /\ tree[x].parent_id \in Below(n, S))}
<1>1. n \in T
  BY BelowClosed
<1>2. ASSUME NEW c \in S, tree[c].parent_id \in T
      PROVE  c \in T
  BY <1>2, BelowClosed
<1>3. T \in SUBSET FileIds
  BY DEF Below
<1>4. m \in T
  <2> HIDE DEF T
  <2> QED BY <1>1, <1>2, <1>3 DEF Below
<1> QED BY <1>4

LEMMA BelowStored ==
  ASSUME NEW n \in FileIds, Stored(n)
  PROVE  Below(n, StoredNodes) \subseteq StoredNodes
<1>1. n \in StoredNodes /\ StoredNodes \in SUBSET FileIds
  BY DEF StoredNodes
<1> QED BY <1>1, BelowLeast

LEMMA BelowLive ==
  ASSUME NEW n \in FileIds, Live(n)
  PROVE  Below(n, LiveNodes) \subseteq LiveNodes
<1>1. n \in LiveNodes /\ LiveNodes \in SUBSET FileIds
  BY DEF LiveNodes
<1> QED BY <1>1, BelowLeast

-------------------------------------------------------------------------------
(* The type of the tree.                                                   *)

\* The copy of a node in a subtree goes where the copy of its parent is.
LEMMA CopyParents ==
  ASSUME NEW n \in FileIds, Live(n),
         NEW T \in SUBSET FileIds, NEW origin \in Bijection(T, Below(n, LiveNodes)),
         NEW m \in T, origin[m] # n
  PROVE  LET p == CHOOSE p \in T : origin[p] = tree[origin[m]].parent_id
         IN  p \in T /\ origin[p] = tree[origin[m]].parent_id
<1>1. origin[m] \in Below(n, LiveNodes)
  BY DEF Bijection, Injection, Surjection
<1>2. tree[origin[m]].parent_id \in Below(n, LiveNodes)
  BY <1>1, BelowLeast DEF LiveNodes
<1>3. \E p \in T : origin[p] = tree[origin[m]].parent_id
  BY <1>2 DEF Bijection, Injection, Surjection
<1> QED BY <1>3

\* The identifiers of a subtree's copies: a copy is of a live node below the original,
\* and is placed below the copy of that node's parent.
CopyOf(n, dir, T, origin) ==
  /\ \A m \in T :
       /\ tree[m] = Unused
       /\ tree'[m] \in FileNodes
       /\ tree'[m].deleted_at = "None" /\ tree'[m].name = tree[origin[m]].name
       /\ origin[m] = n => tree'[m].parent_id = dir
       /\ origin[m] # n => /\ tree'[m].parent_id \in T
                          /\ origin[tree'[m].parent_id] = tree[origin[m]].parent_id
  /\ \A m \in FileIds \ T : tree'[m] = tree[m]
  /\ \A l, m \in T : origin[l] = origin[m] => l = m

LEMMA Copies ==
  ASSUME NEW n \in FileIds, NEW dir \in FileIds \cup {Root}, TreeTypeOK, Copy(n, dir)
  PROVE  \E T \in SUBSET FileIds : \E origin \in [T -> LiveNodes] : CopyOf(n, dir, T, origin)
<1> DEFINE S == Below(n, LiveNodes)
<1>1. Live(n)
  BY DEF Copy
<1>2. PICK T \in SUBSET {m \in FileIds : tree[m] = Unused} :
        \E origin \in Bijection(T, S) : tree' = WithCopies(n, dir, T, origin)
  BY DEF Copy
<1>3. PICK origin \in Bijection(T, S) : tree' = WithCopies(n, dir, T, origin)
  BY <1>2
<1>4. origin \in [T -> LiveNodes] /\ \A l, m \in T : origin[l] = origin[m] => l = m
  <2>1. S \subseteq LiveNodes
    BY <1>1, BelowLive
  <2>2. origin \in [T -> S] /\ \A l, m \in T : origin[l] = origin[m] => l = m
    <3> HIDE DEF S
    <3> QED BY DEF Bijection, Injection, IsInjective
  <2> QED BY <2>1, <2>2
<1>5. ASSUME NEW m \in T
      PROVE  /\ tree[m] = Unused
             /\ tree'[m] \in FileNodes
             /\ tree'[m].deleted_at = "None" /\ tree'[m].name = tree[origin[m]].name
             /\ origin[m] = n => tree'[m].parent_id = dir
             /\ origin[m] # n => /\ tree'[m].parent_id \in T
                                /\ origin[tree'[m].parent_id] = tree[origin[m]].parent_id
  <2>1. tree[origin[m]].name \in Names
    BY <1>4 DEF TreeTypeOK, LiveNodes, Live, Stored, FileNodes
  <2>2. CASE origin[m] = n
    BY <1>3, <2>1, <2>2 DEF WithCopies, NewNode, FileNodes
  <2>3. CASE origin[m] # n
    <3> DEFINE p == CHOOSE p \in T : origin[p] = tree[origin[m]].parent_id
    <3>1. p \in T /\ origin[p] = tree[origin[m]].parent_id
      BY <1>1, <2>3, CopyParents
    <3>2. tree'[m] = NewNode(p, tree[origin[m]].name)
      BY <1>3, <2>3 DEF WithCopies
    <3> HIDE DEF p
    <3> QED BY <2>1, <2>3, <3>1, <3>2 DEF NewNode, FileNodes
  <2> QED BY <2>2, <2>3
<1>6. \A m \in FileIds \ T : tree'[m] = tree[m]
  BY <1>3 DEF WithCopies
<1> QED BY <1>4, <1>5, <1>6 DEF CopyOf

LEMMA TreeTyped ==
  ASSUME TreeTypeOK, TreeNext
  PROVE  TreeTypeOK'
<1> USE DEF TreeTypeOK
<1>1. PICK n \in FileIds :
        \/ \E dir \in FileIds \cup {Root} :
             (\E name \in Names : Create(n, dir, name)) \/ Move(n, dir) \/ Copy(n, dir)
        \/ \E name \in Names : Rename(n, name)
        \/ SoftDelete(n) \/ Restore(n) \/ PermanentDelete(n)
  BY DEF TreeNext, TreeEdit, TreeCopy
<1>2. ASSUME NEW dir \in FileIds \cup {Root}, NEW name \in Names, Create(n, dir, name)
      PROVE  TreeTypeOK'
  BY <1>2 DEF Create, NewNode, FileNodes
<1>3. ASSUME NEW dir \in FileIds \cup {Root}, Move(n, dir)
      PROVE  TreeTypeOK'
  BY <1>3 DEF Move, Live, Stored, FileNodes
<1>4. ASSUME NEW dir \in FileIds \cup {Root}, Copy(n, dir)
      PROVE  TreeTypeOK'
  <2>1. DOMAIN tree' = FileIds /\ tree' = [m \in FileIds |-> tree'[m]]
    BY <1>4 DEF Copy, WithCopies
  <2>2. PICK T \in SUBSET FileIds : \E origin \in [T -> LiveNodes] : CopyOf(n, dir, T, origin)
    BY <1>4, Copies
  <2> QED BY <2>1, <2>2 DEF CopyOf
<1>5. ASSUME NEW name \in Names, Rename(n, name)
      PROVE  TreeTypeOK'
  BY <1>5 DEF Rename, Live, Stored, FileNodes
<1>6. CASE SoftDelete(n)
  <2>1. Descendants(n) \subseteq StoredNodes
    BY <1>6, BelowStored DEF SoftDelete, Live, Descendants
  <2> QED BY <1>6, <2>1 DEF SoftDelete, StoredNodes, Stored, FileNodes
<1>7. CASE Restore(n)
  BY <1>7 DEF Restore, Stored, FileNodes
<1>8. CASE PermanentDelete(n)
  BY <1>8 DEF PermanentDelete
<1> QED BY <1>1, <1>2, <1>3, <1>4, <1>5, <1>6, <1>7, <1>8

-------------------------------------------------------------------------------
(* The two invariants of the tree, and what it takes to be stray.          *)

\* Which operation it was.
OneOf(n) ==
  \/ \E dir \in FileIds \cup {Root} :
       (\E name \in Names : Create(n, dir, name)) \/ Move(n, dir) \/ Copy(n, dir)
  \/ \E name \in Names : Rename(n, name)
  \/ SoftDelete(n) \/ Restore(n) \/ PermanentDelete(n)

LEMMA NamesKept ==
  ASSUME TreeTypeOK, NamesUnique, Rooted, TreeNext
  PROVE  NamesUnique'
<1> SUFFICES ASSUME NEW l \in FileIds, NEW m \in FileIds, l # m, Live(l)', Live(m)',
                    (tree[l].parent_id = tree[m].parent_id)'
             PROVE  (tree[l].name # tree[m].name)'
  BY DEF NamesUnique
<1> USE DEF TreeTypeOK
<1>1. PICK n \in FileIds : OneOf(n)
  BY DEF TreeNext, TreeEdit, TreeCopy, OneOf
<1>2. ASSUME NEW dir \in FileIds \cup {Root}, NEW name \in Names, Create(n, dir, name)
      PROVE  (tree[l].name # tree[m].name)'
  BY <1>2 DEF Create, NewNode, NameTaken, NamesUnique, Live, Stored, IsDeleted
<1>3. ASSUME NEW dir \in FileIds \cup {Root}, Move(n, dir)
      PROVE  (tree[l].name # tree[m].name)'
  <2>1. Live(n) /\ Stored(n) /\ tree[n] \in FileNodes
    BY <1>3 DEF Move, Live, Stored
  <2>2. /\ tree'[n].parent_id = dir /\ tree'[n].name = tree[n].name
        /\ \A x \in FileIds \ {n} : tree'[x] = tree[x]
    BY <1>3, <2>1 DEF Move, FileNodes
  <2>3. \A x \in FileIds \ {n} : Live(x)' <=> Live(x)
    BY <2>2 DEF Live, Stored, IsDeleted
  <2> QED BY <1>3, <2>1, <2>2, <2>3 DEF Move, NameTaken, NamesUnique
<1>4. ASSUME NEW dir \in FileIds \cup {Root}, Copy(n, dir)
      PROVE  (tree[l].name # tree[m].name)'
  <2>1. PICK T \in SUBSET FileIds : \E origin \in [T -> LiveNodes] : CopyOf(n, dir, T, origin)
    BY <1>4, Copies
  <2>2. PICK origin \in [T -> LiveNodes] : CopyOf(n, dir, T, origin)
    BY <2>1
  <2>3. \A x \in FileIds \ T : tree'[x] = tree[x] /\ (Live(x)' <=> Live(x))
    BY <2>2 DEF CopyOf, Live, Stored, IsDeleted
  <2>4. /\ Live(n) /\ Live(dir) /\ tree[n].parent_id # dir /\ dir \notin T
        /\ ~ NameTaken(n, dir, tree[n].name)
    BY <1>4, <2>2 DEF Copy, CopyOf, Live, Stored
  <2>5. \A x \in FileIds \ T : Live(x) => tree[x].parent_id \notin T
    BY <2>2 DEF CopyOf, Rooted, StoredNodes, Live, Stored
  <2>6. CASE l \notin T /\ m \notin T
    BY <2>3, <2>6 DEF NamesUnique
  <2>7. ASSUME NEW x \in T, NEW y \in FileIds \ T, Live(y),
               tree'[x].parent_id = tree[y].parent_id
        PROVE  tree'[x].name # tree[y].name
    <3>1. origin[x] = n
      BY <2>2, <2>5, <2>7 DEF CopyOf
    <3>2. tree[y].parent_id = dir /\ tree'[x].name = tree[n].name
      BY <2>2, <2>7, <3>1 DEF CopyOf
    <3> QED BY <2>4, <2>7, <3>2 DEF NameTaken
  <2>8. CASE l \in T /\ m \in T
    <3>1. origin[l] # origin[m] /\ origin[l] \in LiveNodes /\ origin[m] \in LiveNodes
      BY <2>2, <2>8 DEF CopyOf
    <3>2. origin[l] # n /\ origin[m] # n
      BY <2>2, <2>4, <2>8, <3>1 DEF CopyOf
    <3>3. tree[origin[l]].parent_id = tree[origin[m]].parent_id
      BY <2>2, <2>8, <3>2 DEF CopyOf
    <3> QED BY <2>2, <2>8, <3>1, <3>3 DEF CopyOf, NamesUnique, LiveNodes
  <2> QED BY <2>3, <2>6, <2>7, <2>8
<1>5. ASSUME NEW name \in Names, Rename(n, name)
      PROVE  (tree[l].name # tree[m].name)'
  <2>1. Live(n) /\ Stored(n) /\ tree[n] \in FileNodes
    BY <1>5 DEF Rename, Live, Stored
  <2>2. /\ tree'[n].parent_id = tree[n].parent_id /\ tree'[n].name = name
        /\ \A x \in FileIds \ {n} : tree'[x] = tree[x]
    BY <1>5, <2>1 DEF Rename, FileNodes
  <2>3. \A x \in FileIds \ {n} : Live(x)' <=> Live(x)
    BY <2>2 DEF Live, Stored, IsDeleted
  <2> QED BY <1>5, <2>1, <2>2, <2>3 DEF Rename, NameTaken, NamesUnique
<1>6. CASE SoftDelete(n)
  <2>1. \A x \in FileIds : Live(x)' => Live(x) /\ tree'[x] = tree[x]
    <3>1. Descendants(n) \subseteq StoredNodes
      BY <1>6, BelowStored DEF SoftDelete, Live, Descendants
    <3> QED BY <1>6, <3>1 DEF SoftDelete, Live, Stored, IsDeleted, StoredNodes, FileNodes
  <2> QED BY <2>1 DEF NamesUnique
<1>7. CASE Restore(n)
  <2>1. /\ tree'[n].parent_id = tree[n].parent_id /\ tree'[n].name = tree[n].name
        /\ \A x \in FileIds \ {n} : tree'[x] = tree[x]
    BY <1>7 DEF Restore, Stored, FileNodes
  <2>2. \A x \in FileIds \ {n} : Live(x)' <=> Live(x)
    BY <2>1 DEF Live, Stored, IsDeleted
  <2> QED BY <1>7, <2>1, <2>2 DEF Restore, NameTaken, NamesUnique
<1>8. CASE PermanentDelete(n)
  <2>1. \A x \in FileIds : Live(x)' => Live(x) /\ tree'[x] = tree[x]
    BY <1>8 DEF PermanentDelete, Live, Stored, IsDeleted
  <2> QED BY <2>1 DEF NamesUnique
<1> QED BY <1>1, <1>2, <1>3, <1>4, <1>5, <1>6, <1>7, <1>8 DEF OneOf

\* Rooted, of a set of nodes that has every member's parent in it.
LEMMA NoLoop ==
  ASSUME Rooted, NEW S \in SUBSET StoredNodes, \A m \in S : tree[m].parent_id \in S
  PROVE  S = {}
BY DEF Rooted

LEMMA RootedKept ==
  ASSUME TreeTypeOK, Rooted, TreeNext
  PROVE  Rooted'
<1> USE DEF TreeTypeOK
<1>1. PICK n \in FileIds : OneOf(n)
  BY DEF TreeNext, TreeEdit, TreeCopy, OneOf
\* An operation that leaves every remaining node where it is.
<1>2. ASSUME \A m \in StoredNodes' : m \in StoredNodes /\ tree'[m].parent_id = tree[m].parent_id,
             \A m \in StoredNodes' : tree[m].parent_id \in StoredNodes' \cup {Root}
      PROVE  Rooted'
  <2>1. ASSUME NEW S \in SUBSET StoredNodes', \A m \in S : tree'[m].parent_id \in S
        PROVE  S = {}
    BY <1>2, <2>1, NoLoop
  <2> QED BY <1>2, <2>1 DEF Rooted, StoredNodes
<1>3. ASSUME NEW dir \in FileIds \cup {Root}, NEW name \in Names, Create(n, dir, name)
      PROVE  Rooted'
  <2>1. /\ n \notin StoredNodes /\ dir \in StoredNodes \cup {Root} /\ dir # n
        /\ StoredNodes' = StoredNodes \cup {n} /\ tree'[n].parent_id = dir
        /\ \A m \in StoredNodes : tree'[m] = tree[m]
    BY <1>3 DEF Create, NewNode, StoredNodes, Stored, Live, FileNodes
  <2>2. \A m \in StoredNodes : tree[m].parent_id \in StoredNodes \cup {Root}
    BY DEF Rooted, StoredNodes
  <2>3. ASSUME NEW S \in SUBSET StoredNodes', \A m \in S : tree'[m].parent_id \in S
        PROVE  S = {}
    <3>1. S \ {n} = {}
      <4>1. \A m \in S \ {n} : tree[m].parent_id \in S \ {n}
        BY <2>1, <2>2, <2>3
      <4> QED BY <2>1, <4>1, NoLoop
    <3> QED BY <2>1, <2>3, <3>1
  <2>4. \A m \in StoredNodes' : tree'[m].parent_id \in StoredNodes' \cup {Root}
    BY <2>1, <2>2
  <2> QED BY <2>3, <2>4 DEF Rooted, StoredNodes
<1>4. ASSUME NEW dir \in FileIds \cup {Root}, Move(n, dir)
      PROVE  Rooted'
  <2>1. /\ n \in StoredNodes /\ dir \in StoredNodes \cup {Root}
        /\ StoredNodes' = StoredNodes /\ tree'[n].parent_id = dir
        /\ \A m \in StoredNodes \ {n} : tree'[m] = tree[m]
    BY <1>4 DEF Move, StoredNodes, Stored, Live, FileNodes
  <2>2. \A m \in StoredNodes : tree[m].parent_id \in StoredNodes \cup {Root}
    BY DEF Rooted, StoredNodes
  <2>3. n \in Descendants(n) /\ dir \notin Descendants(n)
    BY <1>4, <2>1, BelowClosed DEF Move, Descendants, StoredNodes
  <2>4. \A m \in StoredNodes : tree[m].parent_id \in Descendants(n) => m \in Descendants(n)
    <3>1. StoredNodes \in SUBSET FileIds
      BY DEF StoredNodes
    <3> QED BY <3>1, BelowClosed DEF Descendants
  <2>5. ASSUME NEW S \in SUBSET StoredNodes, \A m \in S : tree'[m].parent_id \in S
        PROVE  S = {}
    <3>1. \A m \in S \ Descendants(n) : tree[m].parent_id \in S \ Descendants(n)
      BY <2>1, <2>3, <2>4, <2>5
    <3>2. S \ Descendants(n) = {}
      BY <3>1, NoLoop
    <3>3. n \notin S
      BY <2>1, <2>3, <2>5, <3>2
    <3> QED BY <2>1, <2>5, <3>3, NoLoop
  <2> QED BY <2>1, <2>2, <2>5 DEF Rooted, StoredNodes
<1>5. ASSUME NEW dir \in FileIds \cup {Root}, Copy(n, dir)
      PROVE  Rooted'
  <2>1. PICK T \in SUBSET FileIds : \E origin \in [T -> LiveNodes] : CopyOf(n, dir, T, origin)
    BY <1>5, Copies
  <2>2. PICK origin \in [T -> LiveNodes] : CopyOf(n, dir, T, origin)
    BY <2>1
  <2>3. /\ StoredNodes' = StoredNodes \cup T /\ StoredNodes \cap T = {}
        /\ \A m \in StoredNodes : tree'[m] = tree[m]
    BY <2>2 DEF CopyOf, StoredNodes, Stored
  <2>4. \A m \in StoredNodes : tree[m].parent_id \in StoredNodes \cup {Root}
    BY DEF Rooted, StoredNodes
  <2>5. dir \in StoredNodes \cup {Root} /\ Root \notin T
    BY <1>5 DEF Copy, Live, StoredNodes
  <2>6. \A m \in T : tree'[m].parent_id \in T \cup {dir}
    BY <2>2 DEF CopyOf
  <2>7. ASSUME NEW S \in SUBSET StoredNodes', \A m \in S : tree'[m].parent_id \in S
        PROVE  S = {}
    <3>1. S \ T = {}
      <4>1. \A m \in S \ T : tree[m].parent_id \in S \ T
        BY <2>3, <2>4, <2>5, <2>7
      <4> QED BY <2>3, <4>1, NoLoop
    <3>2. \A m \in S : m \in T /\ origin[m] # n
      BY <2>2, <2>3, <2>5, <2>7, <3>1 DEF CopyOf
    <3> DEFINE O == {origin[m] : m \in S}
    <3>3. O \subseteq StoredNodes
      BY <3>2 DEF LiveNodes, Live, StoredNodes
    <3>4. \A o \in O : tree[o].parent_id \in O
      <4> SUFFICES ASSUME NEW m \in S
                   PROVE  tree[origin[m]].parent_id \in O
        OBVIOUS
      <4>1. origin[tree'[m].parent_id] = tree[origin[m]].parent_id
        BY <2>2, <3>2 DEF CopyOf
      <4> QED BY <2>7, <4>1
    <3>5. O = {}
      <4> HIDE DEF O
      <4> QED BY <3>3, <3>4, NoLoop
    <3> QED BY <3>5
  <2>8. \A m \in StoredNodes' : tree'[m].parent_id \in StoredNodes' \cup {Root}
    BY <2>3, <2>4, <2>5, <2>6
  <2> QED BY <2>7, <2>8 DEF Rooted, StoredNodes
<1>6. ASSUME NEW name \in Names, Rename(n, name)
      PROVE  Rooted'
  <2>1. StoredNodes' = StoredNodes /\ \A m \in StoredNodes : tree'[m].parent_id = tree[m].parent_id
    BY <1>6 DEF Rename, Live, StoredNodes, Stored, FileNodes
  <2> QED BY <1>2, <2>1 DEF Rooted, StoredNodes
<1>7. CASE SoftDelete(n)
  <2>1. Descendants(n) \subseteq StoredNodes
    BY <1>7, BelowStored DEF SoftDelete, Live, Descendants
  <2>2. StoredNodes' = StoredNodes /\ \A m \in StoredNodes : tree'[m].parent_id = tree[m].parent_id
    BY <1>7, <2>1 DEF SoftDelete, StoredNodes, Stored, FileNodes
  <2> QED BY <1>2, <2>2 DEF Rooted, StoredNodes
<1>8. CASE Restore(n)
  <2>1. StoredNodes' = StoredNodes /\ \A m \in StoredNodes : tree'[m].parent_id = tree[m].parent_id
    BY <1>8 DEF Restore, StoredNodes, Stored, FileNodes
  <2> QED BY <1>2, <2>1 DEF Rooted, StoredNodes
<1>9. CASE PermanentDelete(n)
  <2>1. /\ StoredNodes' = StoredNodes \ Descendants(n)
        /\ \A m \in StoredNodes' : tree'[m] = tree[m]
    BY <1>9 DEF PermanentDelete, StoredNodes, Stored
  <2>2. \A m \in StoredNodes : tree[m].parent_id \in Descendants(n) => m \in Descendants(n)
    <3>1. StoredNodes \in SUBSET FileIds
      BY DEF StoredNodes
    <3> QED BY <3>1, BelowClosed DEF Descendants
  <2>3. \A m \in StoredNodes : tree[m].parent_id \in StoredNodes \cup {Root}
    BY DEF Rooted, StoredNodes
  <2> QED BY <1>2, <2>1, <2>2, <2>3
<1> QED BY <1>1, <1>3, <1>4, <1>5, <1>6, <1>7, <1>8, <1>9 DEF OneOf

LEMMA StraysRestored ==
  ASSUME TreeTypeOK, Rooted, TreeNext, NEW m \in FileIds, ~ Stray(m), Stray(m)'
  PROVE  tree[m] # Unused /\ IsDeleted(m)
<1> USE DEF TreeTypeOK
<1>1. PICK n \in FileIds : OneOf(n)
  BY DEF TreeNext, TreeEdit, TreeCopy, OneOf
<1>2. Stored(m) => tree[m].parent_id \in StoredNodes \cup {Root}
  BY DEF Rooted
\* An operation after which the node's directory is live again if it was before.
<1>3. ASSUME tree'[m] = tree[m], Live(tree[m].parent_id) => Live(tree[m].parent_id)'
      PROVE  FALSE
  BY <1>3 DEF Stray, Stored, Live, IsDeleted
<1>4. ASSUME NEW dir \in FileIds \cup {Root}, NEW name \in Names, Create(n, dir, name)
      PROVE  FALSE
  BY <1>2, <1>4 DEF Create, NewNode, Stray, Live, Stored, IsDeleted, FileNodes
<1>5. ASSUME NEW dir \in FileIds \cup {Root}, Move(n, dir)
      PROVE  FALSE
  <2>1. Live(n) /\ Live(dir) /\ Stored(n) /\ tree[n] \in FileNodes
    BY <1>5 DEF Move, Live, Stored
  <2>2. /\ tree'[n].parent_id = dir /\ tree'[n].deleted_at = tree[n].deleted_at
        /\ tree'[n] \in FileNodes /\ \A x \in FileIds \ {n} : tree'[x] = tree[x]
    BY <1>5, <2>1 DEF Move, FileNodes
  <2>3. \A x \in FileIds \cup {Root} : Live(x) => Live(x)'
    BY <2>1, <2>2 DEF Live, Stored, IsDeleted
  <2>4. CASE m = n
    BY <2>1, <2>2, <2>3, <2>4 DEF Stray
  <2>5. CASE m # n
    <3>1. tree'[m] = tree[m] /\ Stored(m)
      BY <2>2, <2>5 DEF Stray, Stored
    <3> QED BY <1>2, <1>3, <2>3, <3>1 DEF StoredNodes
  <2> QED BY <2>4, <2>5
<1>6. ASSUME NEW dir \in FileIds \cup {Root}, Copy(n, dir)
      PROVE  FALSE
  <2>1. PICK T \in SUBSET FileIds : \E origin \in [T -> LiveNodes] : CopyOf(n, dir, T, origin)
    BY <1>6, Copies
  <2>2. PICK origin \in [T -> LiveNodes] : CopyOf(n, dir, T, origin)
    BY <2>1
  <2>3. \A x \in FileIds \cup {Root} : Live(x) \/ x \in T => Live(x)'
    BY <2>2 DEF CopyOf, Live, Stored, IsDeleted
  <2>4. Live(dir)
    BY <1>6 DEF Copy
  <2>5. CASE m \in T
    BY <2>2, <2>3, <2>4, <2>5 DEF CopyOf, Stray
  <2>6. CASE m \notin T
    <3>1. tree'[m] = tree[m] /\ Stored(m)
      BY <2>2, <2>6 DEF CopyOf, Stray, Stored
    <3> QED BY <1>2, <1>3, <2>3, <3>1 DEF StoredNodes
  <2> QED BY <2>5, <2>6
<1>7. ASSUME NEW name \in Names, Rename(n, name)
      PROVE  FALSE
  <2>1. \A x \in FileIds : /\ Stored(x)' <=> Stored(x)
                           /\ Stored(x) => /\ tree'[x].parent_id = tree[x].parent_id
                                           /\ tree'[x].deleted_at = tree[x].deleted_at
    BY <1>7 DEF Rename, Live, Stored, FileNodes
  <2> QED BY <1>2, <2>1 DEF Stray, Live, IsDeleted, StoredNodes
<1>8. CASE SoftDelete(n)
  <2>1. n \in StoredNodes /\ Descendants(n) \subseteq StoredNodes
    BY <1>8, BelowStored DEF SoftDelete, Live, Descendants, StoredNodes
  <2>2. /\ \A x \in Descendants(n) : ~ Live(x)'
        /\ \A x \in FileIds \ Descendants(n) : tree'[x] = tree[x] /\ (Live(x) => Live(x)')
    BY <1>8, <2>1 DEF SoftDelete, StoredNodes, Live, Stored, IsDeleted, FileNodes
  <2>3. m \notin Descendants(n) /\ Stored(m) /\ tree'[m] = tree[m]
    BY <2>2 DEF Stray, Stored
  <2>4. tree[m].parent_id \notin Descendants(n)
    <3>1. StoredNodes \in SUBSET FileIds /\ m \in StoredNodes
      BY <2>3 DEF StoredNodes
    <3> QED BY <2>3, <3>1, BelowClosed DEF Descendants
  <2>5. Live(Root)'
    BY DEF Live
  <2> QED BY <1>2, <1>3, <2>2, <2>3, <2>4, <2>5 DEF StoredNodes
<1>9. CASE Restore(n)
  <2>1. tree[n] # Unused /\ IsDeleted(n) /\ tree[n] \in FileNodes
    BY <1>9 DEF Restore, Stored
  <2>2. tree'[n] # Unused /\ \A x \in FileIds \ {n} : tree'[x] = tree[x]
    BY <1>9, <2>1 DEF Restore, FileNodes
  <2>3. \A x \in FileIds \cup {Root} : Live(x) => Live(x)'
    BY <2>1, <2>2 DEF Live, Stored, IsDeleted
  <2>4. CASE m # n
    <3>1. tree'[m] = tree[m] /\ Stored(m)
      BY <2>2, <2>4 DEF Stray, Stored
    <3> QED BY <1>2, <1>3, <2>3, <3>1 DEF StoredNodes
  <2> QED BY <2>1, <2>4
<1>10. CASE PermanentDelete(n)
  <2>1. /\ \A x \in Descendants(n) : x \in FileIds => ~ Stored(x)'
        /\ \A x \in FileIds \ Descendants(n) : tree'[x] = tree[x] /\ (Live(x) => Live(x)')
    BY <1>10 DEF PermanentDelete, Live, Stored, IsDeleted
  <2>2. m \notin Descendants(n) /\ Stored(m) /\ tree'[m] = tree[m]
    BY <2>1 DEF Stray, Stored
  <2>3. tree[m].parent_id \notin Descendants(n)
    <3>1. StoredNodes \in SUBSET FileIds /\ m \in StoredNodes
      BY <2>2 DEF StoredNodes
    <3> QED BY <2>2, <3>1, BelowClosed DEF Descendants
  <2>4. Live(Root)'
    BY DEF Live
  <2> QED BY <1>2, <1>3, <2>1, <2>2, <2>3, <2>4 DEF StoredNodes
<1> QED BY <1>1, <1>4, <1>5, <1>6, <1>7, <1>8, <1>9, <1>10 DEF OneOf

-------------------------------------------------------------------------------
(* The index.                                                              *)

\* What has been read is the latest, or will be read again, or is known to be outdated.
ReadsAccounted ==
  /\ Outdated(held) => held.id \in bus \cup lost
  /\ Outdated(copy) => copy.id \in overtaken

\* Without a disturbance, the index is right about all that the rebuild is done with.
Healing ==
  /\ rebuilding => status # "completed"
  /\ ~ disturbed =>
       /\ ~ Outdated(held) /\ ~ Outdated(copy)
       /\ \A n \in FileIds \ (todo \cup Ids(copy)) : index[n] = Doc(n)

TreeInv == NamesUnique /\ Rooted

Inv == TypeOK /\ TreeInv /\ ReadsAccounted /\ StaleIsExplained /\ Healing

LEMMA ReadTyped ==
  ASSUME TreeTypeOK, NEW n \in FileIds
  PROVE  /\ Doc(n) \in Docs
         /\ Read(n) \in Reads /\ Read(n) # Nothing
         /\ Read(n).id = n /\ Read(n).doc = Doc(n) /\ Ids(Read(n)) = {n}
BY DEF TreeTypeOK, Doc, Docs, Read, Reads, Ids, Live, Stored, FileNodes

LEMMA NothingRead == Nothing \notin Reads /\ Ids(Nothing) = {} /\ \A r \in Reads : Ids(r) = {r.id}
BY DEF Reads, Docs, Ids

LEMMA TreeKept ==
  ASSUME TreeTypeOK, TreeInv, [TreeNext]_tree
  PROVE  TreeTypeOK' /\ TreeInv'
<1>1. CASE TreeNext
  BY <1>1, TreeTyped, NamesKept, RootedKept DEF TreeInv
<1>2. CASE UNCHANGED tree
  BY <1>2 DEF TreeTypeOK, TreeInv, NamesUnique, Rooted, StoredNodes, Live, Stored, IsDeleted
<1> QED BY <1>1, <1>2

\* What the operations keep of the tree alone.
THEOREM TreeInvariant == TreeSpec => [](TreeTypeOK /\ TreeInv)
<1>1. TreeInit => TreeTypeOK /\ TreeInv
  <2> SUFFICES ASSUME TreeInit
               PROVE  TreeTypeOK /\ TreeInv
    OBVIOUS
  <2>1. StoredNodes = {} /\ \A n \in FileIds : ~ Live(n)
    BY DEF TreeInit, StoredNodes, Live, Stored
  <2> QED BY <2>1 DEF TreeInit, TreeTypeOK, TreeInv, NamesUnique, Rooted, StoredNodes
<1> QED BY <1>1, TreeKept, PTL DEF TreeSpec

LEMMA Initially == Init => Inv
<1> SUFFICES ASSUME Init
             PROVE  Inv
  OBVIOUS
<1>1. TreeTypeOK /\ TreeInv
  BY DEF Init, TreeTypeOK, TreeInv
<1>2. index \in [FileIds -> Docs]
  BY <1>1, ReadTyped DEF Init
<1>3. TypeOK
  <2>1. /\ bus = {} /\ held = Nothing /\ status = Nothing /\ rebuilding = FALSE
        /\ todo = {} /\ copy = Nothing /\ changes = 0 /\ crashes = 0
        /\ lost = {} /\ overtaken = {} /\ disturbed = TRUE
    BY DEF Init
  <2>2. changes \in 0..MaxChanges /\ crashes \in 0..MaxCrashes
    BY <2>1
  <2> QED BY <1>1, <1>2, <2>1, <2>2, Zenon DEF TypeOK, TreeTypeOK
<1>4. ReadsAccounted /\ StaleIsExplained /\ Healing
  BY DEF Init, ReadsAccounted, Outdated, StaleIsExplained, Pending, Healing
<1> QED BY <1>1, <1>3, <1>4 DEF Inv

\* A document changes only with its node.
LEMMA DocKept ==
  ASSUME NEW n \in FileIds, tree'[n] = tree[n]
  PROVE  Doc(n)' = Doc(n)
BY DEF Doc, Live, Stored, IsDeleted

LEMMA ChangeKeeps ==
  ASSUME Inv, Change
  PROVE  Inv'
<1>1. TreeNext /\ TreeTypeOK
  BY DEF Change, TreeNext, Inv, TypeOK, TreeTypeOK
<1>2. TreeTypeOK' /\ TreeInv'
  BY <1>1, TreeKept DEF Inv
<1>3. /\ Changed \subseteq FileIds
      /\ bus \subseteq bus' /\ bus' \subseteq FileIds
      /\ lost' = lost \cup (Changed \ bus')
      /\ overtaken' = overtaken \cup (Changed \cap Ids(copy)) /\ disturbed' = TRUE
      /\ changes' \in 0..MaxChanges
      /\ UNCHANGED <<index, held, status, rebuilding, todo, copy, crashes>>
  <2>1. PICK announced \in SUBSET (Changed \ NewDirectories) :
          bus' = bus \cup announced /\ lost' = lost \cup (Changed \ bus')
    BY DEF Change, Publish
  <2> QED BY <2>1 DEF Change, Changed, worker, Inv, TypeOK
<1>4. \A n \in FileIds : n \in Changed \/ Doc(n)' = Doc(n)
  BY DocKept DEF Changed
<1>5. TypeOK'
  BY <1>2, <1>3 DEF Inv, TypeOK, TreeTypeOK
<1>6. ReadsAccounted'
  <2>1. Outdated(held)' => held.id \in bus' \cup lost'
    BY <1>3, <1>4 DEF Inv, TypeOK, ReadsAccounted, Outdated, Reads
  <2>2. Outdated(copy)' => copy.id \in overtaken'
    BY <1>3, <1>4 DEF Inv, TypeOK, ReadsAccounted, Outdated, Reads, Ids
  <2> QED BY <1>3, <2>1, <2>2 DEF ReadsAccounted, Outdated
<1>7. StaleIsExplained'
  <2> SUFFICES ASSUME NEW n \in FileIds, n \notin lost', n \notin overtaken', n \notin Pending'
               PROVE  index[n] = Doc(n)'
    BY <1>3 DEF StaleIsExplained
  <2> QED BY <1>3, <1>4 DEF Inv, StaleIsExplained, Pending
<1>8. Healing'
  BY <1>3 DEF Inv, Healing
<1> QED BY <1>2, <1>5, <1>6, <1>7, <1>8 DEF Inv

\* What a step keeps that leaves the tree alone.
LEMMA SameTree ==
  ASSUME Inv, UNCHANGED tree
  PROVE  /\ TreeInv'
         /\ \A m \in FileIds : Doc(m)' = Doc(m)
BY DEF Inv, TreeInv, NamesUnique, Rooted, StoredNodes, Doc, Live, Stored, IsDeleted

LEMMA IndexerKeeps ==
  ASSUME Inv, Index \/ IndexError \/ \E n \in FileIds : Lag(n) \/ Receive(n)
  PROVE  Inv'
<1> USE NothingRead
<1>1. TreeTypeOK
  BY DEF Inv, TypeOK, TreeTypeOK
<1>2. UNCHANGED tree /\ TreeInv' /\ \A m \in FileIds : Doc(m)' = Doc(m)
  BY SameTree DEF Index, IndexError, Lag, Receive
<1>3. ASSUME NEW n \in FileIds, Lag(n)
      PROVE  Inv'
  <2>1. /\ bus' = bus \ {n} /\ lost' = lost \cup {n}
        /\ UNCHANGED <<index, held, status, rebuilding, todo, copy, overtaken, disturbed,
                       changes, crashes>>
    BY <1>3 DEF Lag, worker
  <2>2. TypeOK'
    BY <1>2, <2>1 DEF Inv, TypeOK
  <2>3. ReadsAccounted'
    BY <1>2, <2>1 DEF Inv, TypeOK, ReadsAccounted, Outdated, Reads
  <2>4. StaleIsExplained'
    BY <1>2, <2>1 DEF Inv, StaleIsExplained, Pending
  <2>5. Healing'
    BY <1>2, <2>1 DEF Inv, TypeOK, Healing, Outdated, Reads
  <2> QED BY <1>2, <2>2, <2>3, <2>4, <2>5 DEF Inv
<1>4. ASSUME NEW n \in FileIds, Receive(n)
      PROVE  Inv'
  <2>1. /\ held = Nothing /\ held' = Read(n) /\ bus' = bus \ {n}
        /\ lost' = lost \ {n} /\ overtaken' = overtaken \ ({n} \ Ids(copy))
        /\ UNCHANGED <<index, status, rebuilding, todo, copy, disturbed, changes, crashes>>
    BY <1>4 DEF Receive, Revisited, worker
  <2>2. TypeOK'
    BY <1>1, <1>2, <2>1, ReadTyped DEF Inv, TypeOK
  <2>3. ReadsAccounted'
    BY <1>1, <1>2, <2>1, ReadTyped DEF Inv, TypeOK, ReadsAccounted, Outdated, Reads
  <2>4. StaleIsExplained'
    BY <1>1, <1>2, <2>1, ReadTyped DEF Inv, StaleIsExplained, Pending
  <2>5. Healing'
    BY <1>1, <1>2, <2>1, ReadTyped DEF Inv, TypeOK, Healing, Outdated, Reads
  <2> QED BY <1>2, <2>2, <2>3, <2>4, <2>5 DEF Inv
<1>5. CASE Index
  <2>1. /\ held \in Reads /\ held' = Nothing /\ index' = [index EXCEPT ![held.id] = held.doc]
        /\ UNCHANGED <<bus, status, rebuilding, todo, copy, lost, overtaken, disturbed,
                       changes, crashes>>
    BY <1>5 DEF Index, Write, worker, history, Inv, TypeOK
  <2>2. TypeOK'
    BY <1>2, <2>1 DEF Inv, TypeOK, Reads
  <2>3. ReadsAccounted'
    BY <1>2, <2>1 DEF Inv, TypeOK, ReadsAccounted, Outdated, Reads
  <2>4. StaleIsExplained'
    <3> SUFFICES ASSUME NEW m \in FileIds, m \notin lost, m \notin overtaken, m \notin Pending'
                 PROVE  index'[m] = Doc(m)
      BY <1>2, <2>1 DEF StaleIsExplained
    <3>1. CASE m = held.id
      BY <2>1, <3>1 DEF Inv, TypeOK, ReadsAccounted, Outdated, Pending
    <3>2. CASE m # held.id
      BY <2>1, <3>2 DEF Inv, TypeOK, StaleIsExplained, Pending
    <3> QED BY <3>1, <3>2
  <2>5. Healing'
    <3> SUFFICES ASSUME ~ disturbed
                 PROVE  /\ ~ Outdated(copy)
                        /\ \A m \in FileIds \ (todo \cup Ids(copy)) : index'[m] = Doc(m)
      BY <1>2, <2>1 DEF Inv, TypeOK, Healing, Outdated, Reads
    <3>1. held.doc = Doc(held.id) /\ ~ Outdated(copy)
      BY <2>1 DEF Inv, Healing, Outdated
    <3> QED BY <2>1, <3>1 DEF Inv, TypeOK, Healing
  <2> QED BY <1>2, <2>2, <2>3, <2>4, <2>5 DEF Inv
<1>6. CASE IndexError
  <2>1. /\ held \in Reads /\ held' = Nothing /\ lost' = lost \cup {held.id}
        /\ UNCHANGED <<index, bus, status, rebuilding, todo, copy, overtaken, disturbed,
                       changes, crashes>>
    BY <1>6 DEF IndexError, worker, Inv, TypeOK
  <2>2. TypeOK'
    BY <1>2, <2>1 DEF Inv, TypeOK, Reads
  <2>3. ReadsAccounted'
    BY <1>2, <2>1 DEF Inv, TypeOK, ReadsAccounted, Outdated, Reads
  <2>4. StaleIsExplained'
    BY <1>2, <2>1 DEF Inv, StaleIsExplained, Pending
  <2>5. Healing'
    BY <1>2, <2>1 DEF Inv, TypeOK, Healing, Outdated, Reads
  <2> QED BY <1>2, <2>2, <2>3, <2>4, <2>5 DEF Inv
<1> QED BY <1>3, <1>4, <1>5, <1>6

LEMMA TaskKeeps ==
  ASSUME Inv, Schedule \/ Cancel \/ Work \/ Abandon \/ Crash
  PROVE  Inv'
<1> USE NothingRead
<1>1. /\ TreeTypeOK /\ LiveNodes \subseteq FileIds
      /\ \A m \in FileIds \ LiveNodes : Doc(m) = Nothing
  BY DEF Inv, TypeOK, TreeTypeOK, LiveNodes, Doc
<1>2. UNCHANGED tree /\ TreeInv' /\ \A m \in FileIds : Doc(m)' = Doc(m)
  <2>1. UNCHANGED tree
    BY DEF Schedule, Cancel, Work, Start, RebuildRead, RebuildWrite, Finish, Abandon, Crash
  <2> QED BY <2>1, SameTree
<1>9. Ids(held) \subseteq FileIds /\ Ids(copy) \subseteq FileIds
  BY DEF Inv, TypeOK, Reads
<1>3. CASE Schedule \/ Cancel \/ Finish
  <2>1. /\ UNCHANGED <<index, bus, held, todo, copy, lost, overtaken, changes, crashes>>
        /\ status' \in TaskStatus /\ disturbed' \in {TRUE, disturbed}
        /\ \/ UNCHANGED rebuilding /\ status' # "completed" /\ disturbed' = TRUE
           \/ rebuilding' = FALSE /\ todo = {} /\ copy = Nothing
    BY <1>3 DEF Schedule, Cancel, Finish, indexer, history, TaskStatus
  <2>2. TypeOK'
    <3>0. disturbed' \in BOOLEAN
      BY <2>1 DEF Inv, TypeOK
    <3>1. CASE UNCHANGED rebuilding
      BY <1>2, <2>1, <3>0, <3>1, Zenon DEF Inv, TypeOK
    <3>2. CASE rebuilding' = FALSE /\ todo = {} /\ copy = Nothing
      BY <1>2, <2>1, <3>0, <3>2, Zenon DEF Inv, TypeOK
    <3> QED BY <2>1, <3>1, <3>2
  <2>3. ReadsAccounted'
    BY <1>2, <2>1 DEF Inv, TypeOK, ReadsAccounted, Outdated, Reads
  <2>4. StaleIsExplained'
    BY <1>2, <2>1 DEF Inv, StaleIsExplained, Pending
  <2>5. Healing'
    <3>1. CASE disturbed' = TRUE /\ status' # "completed"
      BY <3>1 DEF Healing
    <3>2. CASE rebuilding' = FALSE /\ todo = {} /\ copy = Nothing
      <4>1. ~ disturbed' => ~ disturbed
        BY <2>1
      <4>2. (~ Outdated(held) /\ ~ Outdated(copy))' <=> ~ Outdated(held) /\ ~ Outdated(copy)
        BY <1>2, <2>1 DEF Inv, TypeOK, Outdated, Reads
      <4> QED BY <1>2, <2>1, <3>2, <4>1, <4>2 DEF Inv, Healing
    <3> QED BY <2>1, <3>1, <3>2
  <2> QED BY <1>2, <2>2, <2>3, <2>4, <2>5 DEF Inv
<1>4. CASE Start
  <2>1. /\ ~ rebuilding /\ rebuilding' = TRUE /\ status' = "running"
        /\ index' = [m \in FileIds |-> Nothing] /\ todo' = LiveNodes
        /\ lost' = lost \cap Ids(held) /\ overtaken' = {} /\ disturbed' = Outdated(held)
        /\ copy = Nothing
        /\ UNCHANGED <<bus, held, copy, changes, crashes>>
    BY <1>4 DEF Start, Restarted, Inv, TypeOK
  <2>2. TypeOK'
    <3>1. disturbed' \in BOOLEAN
      BY <2>1 DEF Outdated
    <3> QED BY <1>1, <1>2, <2>1, <3>1 DEF Inv, TypeOK, TaskStatus, Docs
  <2>3. ReadsAccounted'
    BY <1>2, <2>1 DEF Inv, TypeOK, ReadsAccounted, Outdated, Reads
  <2>4. StaleIsExplained'
    BY <1>1, <1>2, <2>1 DEF StaleIsExplained, Pending
  <2>5. Healing'
    BY <1>1, <1>2, <2>1 DEF Inv, TypeOK, Healing, Outdated, Reads
  <2> QED BY <1>2, <2>2, <2>3, <2>4, <2>5 DEF Inv
<1>5. ASSUME NEW n \in FileIds, RebuildRead(n)
      PROVE  Inv'
  <2>1. /\ rebuilding /\ copy = Nothing /\ copy' = Read(n) /\ todo' = todo \ {n}
        /\ UNCHANGED <<index, bus, held, status, rebuilding, lost, overtaken, disturbed,
                       changes, crashes>>
    BY <1>5 DEF RebuildRead, indexer, history
  <2>2. TypeOK'
    BY <1>1, <1>2, <2>1, ReadTyped DEF Inv, TypeOK
  <2>3. ReadsAccounted'
    BY <1>1, <1>2, <2>1, ReadTyped DEF Inv, TypeOK, ReadsAccounted, Outdated, Reads
  <2>4. StaleIsExplained'
    BY <1>1, <1>2, <2>1, ReadTyped DEF Inv, StaleIsExplained, Pending
  <2>5. Healing'
    BY <1>1, <1>2, <2>1, ReadTyped DEF Inv, TypeOK, Healing, Outdated, Reads
  <2> QED BY <1>2, <2>2, <2>3, <2>4, <2>5 DEF Inv
<1>6. CASE RebuildWrite
  <2>1. /\ rebuilding /\ copy \in Reads /\ copy' = Nothing
        /\ index' = [index EXCEPT ![copy.id] = copy.doc]
        /\ UNCHANGED <<bus, held, status, rebuilding, todo, lost, overtaken, disturbed,
                       changes, crashes>>
    BY <1>6 DEF RebuildWrite, Write, history, Inv, TypeOK
  <2>2. TypeOK'
    BY <1>2, <2>1 DEF Inv, TypeOK, Reads
  <2>3. ReadsAccounted'
    BY <1>2, <2>1 DEF Inv, TypeOK, ReadsAccounted, Outdated, Reads
  <2>4. StaleIsExplained'
    <3> SUFFICES ASSUME NEW m \in FileIds, m \notin lost, m \notin overtaken, m \notin Pending'
                 PROVE  index'[m] = Doc(m)
      BY <1>2, <2>1 DEF StaleIsExplained
    <3>1. CASE m = copy.id
      BY <2>1, <3>1 DEF Inv, TypeOK, ReadsAccounted, Outdated
    <3>2. CASE m # copy.id
      BY <2>1, <3>2 DEF Inv, TypeOK, StaleIsExplained, Pending
    <3> QED BY <3>1, <3>2
  <2>5. Healing'
    <3> SUFFICES ASSUME ~ disturbed
                 PROVE  /\ ~ Outdated(held)
                        /\ \A m \in FileIds \ todo : index'[m] = Doc(m)
      BY <1>2, <2>1 DEF Inv, TypeOK, Healing, Outdated, Reads
    <3>1. copy.doc = Doc(copy.id) /\ ~ Outdated(held)
      BY <2>1 DEF Inv, Healing, Outdated
    <3> QED BY <2>1, <3>1 DEF Inv, TypeOK, Healing
  <2> QED BY <1>2, <2>2, <2>3, <2>4, <2>5 DEF Inv
<1>7. CASE Abandon
  <2>1. /\ rebuilding' = FALSE /\ status' \in TaskStatus \cup {Nothing}
        /\ lost' = lost \cup todo \cup Ids(copy) /\ todo' = {} /\ copy' = Nothing
        /\ disturbed' = TRUE
        /\ UNCHANGED <<index, bus, held, overtaken, changes, crashes>>
    BY <1>7 DEF Abandon, indexer, Inv, TypeOK, TaskStatus
  <2>2. TypeOK'
    BY <1>2, <1>9, <2>1 DEF Inv, TypeOK, Reads
  <2>3. ReadsAccounted'
    BY <1>2, <2>1 DEF Inv, TypeOK, ReadsAccounted, Outdated, Reads
  <2>4. StaleIsExplained'
    BY <1>2, <2>1 DEF Inv, StaleIsExplained, Pending
  <2>5. Healing'
    BY <2>1 DEF Healing
  <2> QED BY <1>2, <2>2, <2>3, <2>4, <2>5 DEF Inv
<1>8. CASE Crash
  <2>1. /\ crashes' \in 0..MaxCrashes
        /\ lost' = lost \cup bus \cup Ids(held) \cup todo \cup Ids(copy)
        /\ bus' = {} /\ held' = Nothing
        /\ rebuilding' = FALSE /\ todo' = {} /\ copy' = Nothing
        /\ disturbed' = (disturbed \/ status # "completed")
        /\ UNCHANGED <<index, status, overtaken, changes>>
    BY <1>8 DEF Crash, Inv, TypeOK
  <2>2. TypeOK'
    BY <1>2, <1>9, <2>1 DEF Inv, TypeOK, Reads
  <2>3. ReadsAccounted'
    BY <2>1 DEF ReadsAccounted, Outdated
  <2>4. StaleIsExplained'
    BY <1>2, <2>1 DEF Inv, StaleIsExplained, Pending
  <2>5. Healing'
    BY <1>2, <2>1 DEF Inv, TypeOK, Healing, Outdated
  <2> QED BY <1>2, <2>2, <2>3, <2>4, <2>5 DEF Inv
<1> QED BY <1>3, <1>4, <1>5, <1>6, <1>7, <1>8 DEF Work

LEMMA StutterKeeps ==
  ASSUME Inv, UNCHANGED vars
  PROVE  Inv'
<1>1. TreeInv' /\ \A m \in FileIds : Doc(m)' = Doc(m)
  BY SameTree DEF vars
<1>2. TypeOK' /\ ReadsAccounted' /\ StaleIsExplained' /\ Healing'
  BY <1>1, NothingRead DEF vars, indexer, worker, history, Inv, TypeOK, ReadsAccounted, Reads,
     StaleIsExplained, Pending, Healing, Outdated
<1> QED BY <1>1, <1>2 DEF Inv

\* The inductive invariant holds: the base of the theorems below.
THEOREM Invariant == Spec => []Inv
<1>1. Inv /\ [Next]_vars => Inv'
  <2> SUFFICES ASSUME Inv, [Next]_vars
               PROVE  Inv'
    OBVIOUS
  <2> QED BY ChangeKeeps, IndexerKeeps, TaskKeeps, StutterKeeps DEF Next
<1> QED BY <1>1, Initially, PTL DEF Spec

\* Every variable keeps its type, and a worker without a task holds nothing.
THEOREM TypeCorrect == Spec => []TypeOK
BY Invariant, PTL DEF Inv

\* No two live nodes in one directory ever have the same name (VfsService).
THEOREM NamesStayUnique == (TreeSpec => []NamesUnique) /\ (Spec => []NamesUnique)
BY TreeInvariant, Invariant, PTL DEF Inv, TreeInv

\* The way up from every stored node ends at the root (move_node, permanent_delete).
THEOREM StaysRooted == (TreeSpec => []Rooted) /\ (Spec => []Rooted)
BY TreeInvariant, Invariant, PTL DEF Inv, TreeInv

\* The index is wrong only about nodes still to be written, nodes whose last change was
\* lost, and nodes that the rebuild wrote although they had changed (SearchEngine).
THEOREM IndexIsRight == Spec => []StaleIsExplained
BY Invariant, PTL DEF Inv

\* A completed rebuild leaves the index right about every node, if the tree has stood
\* still since it began and the indexer held no old read by then (rebuild_index).
THEOREM CompletedRebuildIsRight == Spec => []RebuildHeals
<1>1. Inv => RebuildHeals
  <2> SUFFICES ASSUME Inv, status = "completed", ~ disturbed
               PROVE  \A n \in FileIds : index[n] = Doc(n)
    BY DEF RebuildHeals
  <2>1. ~ rebuilding /\ todo = {} /\ copy = Nothing
    BY DEF Inv, Healing, TypeOK
  <2> QED BY <2>1, NothingRead DEF Inv, Healing
<1> QED BY <1>1, Invariant, PTL

\* Only a restored node can end up alive in a directory in the trash (restore).
THEOREM OnlyRestoredStray == (TreeSpec => StraysAreRestored) /\ (Spec => StraysAreRestored)
<1> DEFINE Step == \A n \in FileIds : ~ Stray(n) /\ Stray(n)' => tree[n] # Unused /\ IsDeleted(n)
<1>1. TreeTypeOK /\ TreeInv /\ [TreeNext]_tree => [Step]_tree
  BY StraysRestored DEF TreeInv
<1>2. Inv /\ [Next]_vars => TreeTypeOK /\ TreeInv /\ [TreeNext]_tree
  BY DEF vars, Next, Work, Change, TreeNext, Lag, Receive, Index, IndexError, Schedule, Cancel,
         Start, RebuildRead, RebuildWrite, Finish, Abandon, Crash, Inv, TypeOK, TreeTypeOK
<1> QED BY <1>1, <1>2, TreeInvariant, Invariant, PTL DEF Spec, TreeSpec, StraysAreRestored

\* A terminal status is never overwritten (TaskStatus::is_terminal).
THEOREM TerminalStays == Spec => TerminalIsFinal
<1>1. [Next]_vars => [IsTerminal(status) => status' \in {status, "pending"}]_status
  BY DEF Next, vars, worker, indexer, Change, Lag, Receive, Index, IndexError, Schedule, Cancel,
         Work, Start, RebuildRead, RebuildWrite, Finish, Abandon, Crash, IsTerminal
<1> QED BY <1>1, PTL DEF Spec, TerminalIsFinal
===============================================================================
