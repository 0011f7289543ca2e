------------------------------ MODULE SearchIndex ------------------------------
(***************************************************************************)
(* The search index and how it follows the file tree: the domain events    *)
(* that announce changed nodes (events.rs), the indexer that subscribes to *)
(* them, SearchEngine (traits/search.rs), and the background task that     *)
(* rebuilds the index from the database (models/task.rs).                  *)
(*                                                                         *)
(* An event carries a node's identifier and not its record, so the indexer *)
(* reads the node with get_node and then writes the index: two steps, with *)
(* anything in between.  So does the rebuild, one node at a time.  The tree*)
(* and the task are in the database and survive a crash, as the index on   *)
(* disk does; events and what was read are in memory and do not.           *)
(***************************************************************************)
EXTENDS FileTree, Naturals

CONSTANTS
  Databases,     \* the trees that earlier servers may have left
  Nothing,       \* no document for the node; nothing read; no task
  MaxChanges,    \* bound: changes of the tree
  MaxCrashes     \* bound: crashes of the server

ASSUME SearchIndexAssumption ==
  /\ Nothing \notin Names
  /\ \A n \in FileIds, doc \in Names \cup {Nothing} : Nothing # [id |-> n, doc |-> doc]
  /\ Databases \subseteq [FileIds -> FileNodes \cup {Unused, Purged}]
  /\ MaxChanges \in Nat /\ MaxCrashes \in Nat

VARIABLES
  index,        \* the indexed document of each node: its name, or Nothing
  bus,          \* the nodes in events that the indexer has not received
  held,         \* what the indexer has read and not yet written
  status,       \* the TaskStatus of the rebuild task
  rebuilding,   \* a worker is executing the task
  todo,         \* the nodes the worker has not read
  copy,         \* what the worker has read and not yet written
  lost,         \* history: nodes whose last change no event or read brings any more
  overtaken,    \* history: nodes that changed after the worker read them
  disturbed,    \* history: no rebuild runs or has completed, or the tree has changed
                \* since it began, or the indexer held an old read by then
  changes, crashes

indexer == <<index, bus, held>>
worker == <<status, rebuilding, todo, copy>>
history == <<lost, overtaken, disturbed>>
vars == <<tree, indexer, worker, history, changes, crashes>>

Docs == Names \cup {Nothing}

\* get_node, and the document made of the node.
Doc(n) == IF Live(n) THEN tree[n].name ELSE Nothing

Read(n) == [id |-> n, doc |-> Doc(n)]
Reads == [id : FileIds, doc : Docs]

Ids(read) == IF read = Nothing THEN {} ELSE {read.id}

\* The node has changed since it was read.
Outdated(read) == read # Nothing /\ read.doc # Doc(read.id)

\* index_document overwrites, delete_document of no document is a no-op.
Write(read) == index' = [index EXCEPT ![read.id] = read.doc]

TaskStatus == {"pending", "running", "completed", "failed", "cancelled"}

IsTerminal(s) == s \in {"completed", "failed", "cancelled"}

\* The server comes up on the database of earlier ones, with an index that is right.
Init ==
  /\ tree \in Databases /\ NamesUnique /\ Rooted
  /\ index = [n \in FileIds |-> Doc(n)] /\ bus = {} /\ held = Nothing
  /\ status = Nothing /\ rebuilding = FALSE /\ todo = {} /\ copy = Nothing
  /\ lost = {} /\ overtaken = {} /\ disturbed = TRUE
  /\ changes = 0 /\ crashes = 0

-------------------------------------------------------------------------------
(* The tree changes, and the events of the change are published.           *)

Changed == {n \in FileIds : tree'[n] # tree[n]}

\* DomainEvent has no variant for a directory that is created or copied.
NewDirectories == {n \in Changed : tree[n] = Unused /\ IsDirectory(n)}

\* An event for the node that an operation was called for, and any or none for
\* those that changed with it: how many a subtree has is not fixed.
Topmost ==
  {n \in Changed \ NewDirectories : tree[n] = Unused \/ tree[n].parent_id \notin Changed}

Publish(required) ==
  \E announced \in SUBSET (Changed \ NewDirectories) :
    /\ required \subseteq announced
    /\ bus' = bus \cup announced
    /\ lost' = lost \cup (Changed \ bus')

\* No variant speaks of a copy: its files may be announced as uploaded, or not.
Change ==
  /\ changes < MaxChanges /\ changes' = changes + 1
  /\ \/ TreeEdit /\ Publish(Topmost)
     \/ TreeCopy /\ Publish({})
  /\ overtaken' = overtaken \cup (Changed \cap Ids(copy))
  /\ disturbed' = TRUE
  /\ UNCHANGED <<index, held, worker, crashes>>

\* A subscriber that lags behind the channel loses the oldest events.
Lag(n) ==
  /\ n \in bus /\ bus' = bus \ {n}
  /\ lost' = lost \cup {n}
  /\ UNCHANGED <<tree, index, held, worker, overtaken, disturbed, changes, crashes>>

-------------------------------------------------------------------------------
(* The indexer.                                                            *)

\* What the node was before no longer matters, unless the worker is about to write it.
Revisited(n) ==
  /\ lost' = lost \ {n}
  /\ overtaken' = overtaken \ ({n} \ Ids(copy))

\* Slip: the index is asked first, and only a node it does not hold is read.
ReceiveNew(n) ==
  /\ held = Nothing /\ n \in bus
  /\ held' = IF index[n] = Nothing THEN Read(n) ELSE [id |-> n, doc |-> index[n]]
  /\ bus' = bus \ {n} /\ Revisited(n)
  /\ UNCHANGED <<tree, index, worker, disturbed, changes, crashes>>

Receive(n) ==
  /\ held = Nothing /\ n \in bus
  /\ held' = Read(n)
  /\ bus' = bus \ {n} /\ Revisited(n)
  /\ UNCHANGED <<tree, index, worker, disturbed, changes, crashes>>

Index ==
  /\ held # Nothing /\ held' = Nothing
  /\ Write(held)
  /\ UNCHANGED <<tree, bus, worker, history, changes, crashes>>

\* AppError::Internal from the index; the event has been consumed.
IndexError ==
  /\ held # Nothing /\ held' = Nothing
  /\ lost' = lost \cup Ids(held)
  /\ UNCHANGED <<tree, index, bus, worker, overtaken, disturbed, changes, crashes>>

-------------------------------------------------------------------------------
(* The rebuild task and its worker.                                        *)

Schedule ==
  /\ status = Nothing \/ IsTerminal(status)
  /\ status' = "pending"
  /\ disturbed' = TRUE
  /\ UNCHANGED <<tree, indexer, rebuilding, todo, copy, lost, overtaken, changes, crashes>>

\* Cancelled in the database; the worker finds out when it next looks.
Cancel ==
  /\ status \in {"pending", "running"} /\ status' = "cancelled"
  /\ disturbed' = TRUE
  /\ UNCHANGED <<tree, indexer, rebuilding, todo, copy, lost, overtaken, changes, crashes>>

\* From here on the worker makes up for whatever was lost before, but not for what
\* the indexer has read and has yet to write.
Restarted ==
  /\ lost' = lost \cap Ids(held) /\ overtaken' = {}
  /\ disturbed' = Outdated(held)

\* Slip: a task that was running when the server went down is nobody's.
StartPending ==
  /\ ~ rebuilding /\ rebuilding' = TRUE
  /\ status = "pending" /\ status' = "running"
  /\ index' = [n \in FileIds |-> Nothing]
  /\ todo' = LiveNodes
  /\ Restarted
  /\ UNCHANGED <<tree, bus, held, copy, changes, crashes>>

\* Slip: the documents that are there are overwritten one by one, and none is deleted.
StartWithoutDeleting ==
  /\ ~ rebuilding /\ rebuilding' = TRUE
  /\ status \in {"pending", "running"} /\ status' = "running"
  /\ todo' = LiveNodes
  /\ Restarted
  /\ UNCHANGED <<tree, index, bus, held, copy, changes, crashes>>

\* rebuild_index deletes all documents first.  The indexer goes on, and may
\* still write what it read of a node before.
Start ==
  /\ ~ rebuilding /\ rebuilding' = TRUE
  /\ status \in {"pending", "running"} /\ status' = "running"
  /\ index' = [n \in FileIds |-> Nothing]
  /\ todo' = LiveNodes
  /\ Restarted
  /\ UNCHANGED <<tree, bus, held, copy, changes, crashes>>

RebuildRead(n) ==
  /\ rebuilding /\ status = "running" /\ copy = Nothing
  /\ n \in todo /\ todo' = todo \ {n}
  /\ copy' = Read(n)
  /\ UNCHANGED <<tree, indexer, status, rebuilding, history, changes, crashes>>

\* What the indexer has written since the read is overwritten (index_document).
RebuildWrite ==
  /\ rebuilding /\ copy # Nothing /\ copy' = Nothing
  /\ Write(copy)
  /\ UNCHANGED <<tree, bus, held, status, rebuilding, todo, history, changes, crashes>>

\* Slip: the last document may still have to be written.
FinishEarly ==
  /\ rebuilding /\ rebuilding' = FALSE
  /\ todo = {}
  /\ status = "running" /\ status' = "completed"
  /\ UNCHANGED <<tree, indexer, todo, copy, history, changes, crashes>>

\* Slip: the outcome is saved over whatever the status is by now.
FinishAnyway ==
  /\ rebuilding /\ rebuilding' = FALSE
  /\ todo = {} /\ copy = Nothing
  /\ status' = "completed"
  /\ UNCHANGED <<tree, indexer, todo, copy, history, changes, crashes>>

Finish ==
  /\ rebuilding /\ rebuilding' = FALSE
  /\ todo = {} /\ copy = Nothing
  /\ status = "running" /\ status' = "completed"
  /\ UNCHANGED <<tree, indexer, todo, copy, history, changes, crashes>>

\* The worker gives up: on an index error, or as its task has been cancelled.
\* The documents it deleted and has not written yet stay away.
Abandon ==
  /\ rebuilding /\ rebuilding' = FALSE
  /\ status' = IF status = "running" THEN "failed" ELSE status
  /\ lost' = lost \cup todo \cup Ids(copy) /\ disturbed' = TRUE
  /\ todo' = {} /\ copy' = Nothing
  /\ UNCHANGED <<tree, indexer, overtaken, changes, crashes>>

\* The server stops and comes back.
Crash ==
  /\ crashes < MaxCrashes /\ crashes' = crashes + 1
  /\ lost' = lost \cup bus \cup Ids(held) \cup todo \cup Ids(copy)
  /\ bus' = {} /\ held' = Nothing
  /\ rebuilding' = FALSE /\ todo' = {} /\ copy' = Nothing
  /\ disturbed' = (disturbed \/ status # "completed")
  /\ UNCHANGED <<tree, index, status, overtaken, changes>>

Work ==
  \/ Start \/ RebuildWrite \/ Finish
  \/ \E n \in FileIds : RebuildRead(n)

GiveUp == Abandon /\ status # "running"

Next ==
  \/ Change \/ Index \/ IndexError
  \/ Schedule \/ Cancel \/ Work \/ Abandon \/ Crash
  \/ \E n \in FileIds : Lag(n) \/ Receive(n)

\* A worker looks for tasks to execute and executes them, one step at a time.
Spec == Init /\ [][Next]_vars /\ WF_vars(Work) /\ WF_vars(GiveUp)

-------------------------------------------------------------------------------
(* Properties.                                                             *)

TypeOK ==
  /\ tree \in [FileIds -> FileNodes \cup {Unused, Purged}]
  /\ index \in [FileIds -> Docs]
  /\ bus \subseteq FileIds /\ todo \subseteq FileIds
  /\ lost \subseteq FileIds /\ overtaken \subseteq FileIds /\ disturbed \in BOOLEAN
  /\ held \in Reads \cup {Nothing} /\ copy \in Reads \cup {Nothing}
  /\ status \in TaskStatus \cup {Nothing} /\ rebuilding \in BOOLEAN
  /\ ~ rebuilding => todo = {} /\ copy = Nothing
  /\ changes \in 0..MaxChanges /\ crashes \in 0..MaxCrashes

\* What is still going to be written.
Pending == bus \cup Ids(held) \cup todo \cup Ids(copy)

(* The index is wrong about a node only if the node is still to be written, *)
(* or its last change was lost (not announced, lagged behind, failed, or    *)
(* given up with a crash or a rebuild), or it changed between the rebuild's *)
(* reading and writing it, which the rebuild then does over the indexer's   *)
(* newer document.  The other way round nothing is excused: whatever the    *)
(* indexer writes over the rebuild's document, it has or will put right     *)
(* (SearchEngine::index_document overwrites, rebuild_index).                *)
StaleIsExplained ==
  \A n \in FileIds \ (lost \cup overtaken \cup Pending) : index[n] = Doc(n)

(* A rebuild that completes makes up for everything that went wrong before  *)
(* it, losses, overwritten documents and failed rebuilds: as long as the    *)
(* tree has not changed since it began, and the indexer did not hold an old *)
(* read by then, the index is right about every node, although events keep  *)
(* coming, are lost or fail all the while ("Delete all documents and        *)
(* rebuild the index from scratch", rebuild_index).                         *)
RebuildHeals ==
  status = "completed" /\ ~ disturbed => \A n \in FileIds : index[n] = Doc(n)

(* A task that has reached a terminal state stays in it, whichever of       *)
(* completion, failure and cancellation came first; only a new task         *)
(* replaces it (TaskStatus::is_terminal).                                   *)
TerminalIsFinal == [][IsTerminal(status) => status' \in {status, "pending"}]_status

(* Every rebuild task that is scheduled ends, although the server may go    *)
(* down while it runs ("so they survive server restarts").                  *)
TaskEnds == status = "pending" ~> IsTerminal(status)
===============================================================================
