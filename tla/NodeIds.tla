-------------------------------- MODULE NodeIds --------------------------------
(***************************************************************************)
(* Building file nodes concurrently: FileNodeBuilder (models/file.rs), the *)
(* identifiers it draws (types.rs) and the two clock readings in between.  *)
(*                                                                         *)
(* FileNodeBuilder::build first reads the wall clock for created_at and    *)
(* only then, when the caller gave no identifier, draws one from           *)
(* FileId::new().  Uuid::now_v7 behind it reads the wall clock again and   *)
(* then enters the lock around the process-wide UUIDv7 context.  The three *)
(* moments are separate steps, so the threads of the server interleave     *)
(* between them, and the clock may move, even backwards, in the meantime.  *)
(***************************************************************************)
EXTENDS Integers, Sequences

CONSTANTS
  Threads,            \* the server's worker threads
  TicksPerMs,         \* readings of chrono::Utc::now() that share a millisecond
  Seeds,              \* counter values the UUIDv7 context may be reseeded with
  MaxCtr,             \* the largest counter value
  FieldChoices,       \* the sets of required fields that callers fill in
  NoId,               \* Option::None in the builder's id field
  MaxClock,           \* bound on the wall clock
  MaxBuilds,          \* bound on the number of builders made
  MaxBoots            \* bound on the number of times the server starts

(***************************************************************************)
(* The fields build() cannot do without: it panics when one is missing.    *)
(***************************************************************************)
Required == {"space_id", "owner_id", "name", "node_type"}

Ids == [ms : Nat, ctr : 0..MaxCtr]

ASSUME NodeIdsAssumption ==
  /\ TicksPerMs \in Nat \ {0}
  /\ MaxCtr \in Nat
  /\ Seeds \subseteq 0..MaxCtr /\ Seeds # {}
  /\ FieldChoices \subseteq SUBSET Required
  /\ NoId \notin Ids
  /\ MaxClock \in Nat /\ MaxBuilds \in Nat /\ MaxBoots \in Nat

VARIABLES
  clock,     \* the wall clock, in ticks
  ctx,       \* the last identifier the UUIDv7 context of this process produced
  boot,      \* how many times the server has been started
  builds,    \* how many builders have been made
  pc,        \* where each thread is
  call,      \* the builder and the locals of each thread's current build
  nodes,     \* the nodes built, in the order in which build() returned them
  issued,    \* history: the identifiers this process has issued, in order
  setback    \* history: has the wall clock ever been set back?

vars == <<clock, ctx, boot, builds, pc, call, nodes, issued, setback>>

-------------------------------------------------------------------------------
Source == INSTANCE IdSource WITH issued <- issued

Older(a, b) == Source!Older(a, b)

Fresh == [ms |-> 0, ctr |-> 0]

(***************************************************************************)
(* A UUIDv7 keeps the milliseconds of the clock reading it was given.      *)
(***************************************************************************)
Ms(t) == t \div TicksPerMs

(***************************************************************************)
(* What the context may produce for a reading of ms: a new millisecond     *)
(* reseeds the counter; one not later than the last counts on, and borrows *)
(* from the next millisecond when the counter is used up.                  *)
(***************************************************************************)
NextIds(last, ms) ==
  IF ms > last.ms
    THEN {[ms |-> ms, ctr |-> s] : s \in Seeds}
    ELSE IF last.ctr < MaxCtr
           THEN {[last EXCEPT !.ctr = @ + 1]}
           ELSE {[ms |-> last.ms + 1, ctr |-> s] : s \in Seeds}

NewCall(S, n) == [fields |-> S, id |-> NoId, now |-> 0, raw |-> 0, began |-> n]

NoCall == NewCall({}, 0)

Calls == [fields : SUBSET Required, id : Ids \cup {NoId}, now : Nat, raw : Nat,
          began : Nat]

Nodes == [id : Ids, own : BOOLEAN, created_at : Nat, boot : Nat, began : Nat]

States == {"idle", "fluent", "minting", "default", "drawing", "given", "drawn"}

Init ==
  /\ clock = 0
  /\ ctx = Fresh
  /\ boot = 1
  /\ builds = 0
  /\ pc = [t \in Threads |-> "idle"]
  /\ call = [t \in Threads |-> NoCall]
  /\ nodes = <<>>
  /\ issued = <<>>
  /\ setback = FALSE

-------------------------------------------------------------------------------
(* The builder. *)

(***************************************************************************)
(* FileNodeBuilder::new() and the chain of setters.  The builder is moved  *)
(* from call to call, so no other thread sees it and one step fills it.    *)
(* "began" records, for the properties, how many nodes existed already.    *)
(***************************************************************************)
New(t) ==
  /\ pc[t] = "idle"
  /\ builds < MaxBuilds
  /\ builds' = builds + 1
  /\ pc' = [pc EXCEPT ![t] = "fluent"]
  /\ \E S \in FieldChoices :
       call' = [call EXCEPT ![t] = NewCall(S, Len(nodes))]
  /\ UNCHANGED <<clock, ctx, boot, nodes, issued, setback>>

(***************************************************************************)
(* Uuid::now_v7(), first half: the wall clock is read before the lock.     *)
(***************************************************************************)
ReadClock(t, from, to) ==
  /\ pc[t] = from
  /\ pc' = [pc EXCEPT ![t] = to]
  /\ call' = [call EXCEPT ![t].raw = Ms(clock)]
  /\ UNCHANGED <<clock, ctx, boot, builds, nodes, issued, setback>>

\* Slip: the identifier is made from the thread's own reading and a random counter.
DrawIdUnshared(t, from, to) ==
  /\ pc[t] = from
  /\ pc' = [pc EXCEPT ![t] = to]
  /\ \E s \in Seeds :
       LET id == [ms |-> call[t].raw, ctr |-> s]
       IN  /\ ctx' = id
           /\ call' = [call EXCEPT ![t].id = id]
           /\ issued' = Append(issued, id)
  /\ UNCHANGED <<clock, boot, builds, nodes, setback>>

(***************************************************************************)
(* Uuid::now_v7(), second half: the context, under its lock.               *)
(***************************************************************************)
DrawId(t, from, to) ==
  /\ pc[t] = from
  /\ pc' = [pc EXCEPT ![t] = to]
  /\ \E id \in NextIds(ctx, call[t].raw) :
       /\ ctx' = id
       /\ call' = [call EXCEPT ![t].id = id]
       /\ issued' = Append(issued, id)
  /\ UNCHANGED <<clock, boot, builds, nodes, setback>>

(***************************************************************************)
(* The caller draws the identifier itself and hands it over with .id().    *)
(***************************************************************************)
Mint(t) ==
  \/ call[t].id = NoId /\ ReadClock(t, "fluent", "minting")
  \/ DrawId(t, "minting", "fluent")

\* Slip: build() takes the identifier field as it is.
StampWithoutDefault(t) ==
  /\ pc[t] = "fluent"
  /\ pc' = [pc EXCEPT ![t] = "given"]
  /\ call' = [call EXCEPT ![t].now = clock]
  /\ UNCHANGED <<clock, ctx, boot, builds, nodes, issued, setback>>

(***************************************************************************)
(* build(), first line: let now = Utc::now().                              *)
(***************************************************************************)
Stamp(t) ==
  /\ pc[t] = "fluent"
  /\ pc' = [pc EXCEPT ![t] = IF call[t].id = NoId THEN "default" ELSE "given"]
  /\ call' = [call EXCEPT ![t].now = clock]
  /\ UNCHANGED <<clock, ctx, boot, builds, nodes, issued, setback>>

(***************************************************************************)
(* build(): self.id.unwrap_or_default(), the first field of the literal.   *)
(***************************************************************************)
DefaultId(t) ==
  \/ ReadClock(t, "default", "drawing")
  \/ DrawId(t, "drawing", "drawn")

(***************************************************************************)
(* build(): the rest of the literal.  A missing field panics, after the    *)
(* identifier has been drawn; otherwise the node is returned.              *)
(***************************************************************************)
Return(t) ==
  /\ pc[t] \in {"given", "drawn"}
  /\ pc' = [pc EXCEPT ![t] = "idle"]
  /\ call' = [call EXCEPT ![t] = NoCall]
  /\ \/ /\ Required \subseteq call[t].fields
        /\ nodes' = Append(nodes, [id |-> call[t].id, own |-> pc[t] = "drawn",
                                   created_at |-> call[t].now, boot |-> boot,
                                   began |-> call[t].began])
     \/ /\ ~ (Required \subseteq call[t].fields)
        /\ UNCHANGED nodes
  /\ UNCHANGED <<clock, ctx, boot, builds, issued, setback>>

-------------------------------------------------------------------------------
(* The environment. *)

Tick ==
  /\ clock < MaxClock
  /\ clock' = clock + 1
  /\ UNCHANGED <<ctx, boot, builds, pc, call, nodes, issued, setback>>

StepBack ==
  /\ \E c \in 0..(clock - 1) : clock' = c
  /\ setback' = TRUE
  /\ UNCHANGED <<ctx, boot, builds, pc, call, nodes, issued>>

(***************************************************************************)
(* The server stops or crashes and starts again: the calls in progress are *)
(* lost, and the context is the static one of a new process.               *)
(***************************************************************************)
Restart ==
  /\ boot < MaxBoots
  /\ boot' = boot + 1
  /\ ctx' = Fresh
  /\ pc' = [t \in Threads |-> "idle"]
  /\ call' = [t \in Threads |-> NoCall]
  /\ issued' = <<>>
  /\ UNCHANGED <<clock, builds, nodes, setback>>

Build(t) == New(t) \/ Mint(t) \/ Stamp(t) \/ DefaultId(t) \/ Return(t)

Next ==
  \/ \E t \in Threads : Build(t)
  \/ Tick
  \/ StepBack
  \/ Restart

Spec == Init /\ [][Next]_vars

-------------------------------------------------------------------------------
(* Properties. *)

(* Every variable keeps its type: identifiers stay within the counter's     *)
(* range and a thread that is about to return holds an identifier           *)
(* (FileNodeBuilder::build, Uuid::now_v7).                                  *)
TypeOK ==
  /\ clock \in Nat
  /\ ctx \in Ids
  /\ boot \in Nat
  /\ builds \in Nat
  /\ pc \in [Threads -> States]
  /\ call \in [Threads -> Calls]
  /\ nodes \in Seq(Nodes)
  /\ issued \in Seq(Ids)
  /\ setback \in BOOLEAN
  /\ \A t \in Threads : pc[t] \in {"given", "drawn"} => call[t].id # NoId

(* No two nodes built by the same server process have the same identifier,  *)
(* whichever threads built them, whether the caller or build() drew it, and *)
(* wherever the clock went meanwhile ("auto-generated IDs must be unique",  *)
(* file.rs).                                                                *)
UniqueIds ==
  \A j, k \in 1..Len(nodes) :
    j # k /\ nodes[j].boot = nodes[k].boot => nodes[j].id # nodes[k].id

(* A node that existed before another's builder was made has the older      *)
(* identifier, when build() drew the later one in the same process: the     *)
(* time order types.rs promises for identifiers, which must survive a clock *)
(* that is set back and a thread that sleeps between its two readings.      *)
IdsFollowRealTime ==
  \A j, k \in 1..Len(nodes) :
    /\ j <= nodes[k].began
    /\ nodes[j].boot = nodes[k].boot
    /\ nodes[k].own
    => Older(nodes[j].id, nodes[k].id)

(* While the clock never went back, the nodes on which identifier order and *)
(* created_at disagree are only those whose builds overlapped: of two nodes *)
(* of one process with build()'s own identifiers, the one with the older    *)
(* identifier and the later created_at did not exist when the other was     *)
(* begun, nor the other way round.                                          *)
InversionsOverlap ==
  \A j, k \in 1..Len(nodes) :
    /\ ~ setback
    /\ nodes[j].own /\ nodes[k].own
    /\ nodes[j].boot = nodes[k].boot
    /\ Older(nodes[j].id, nodes[k].id)
    /\ nodes[j].created_at > nodes[k].created_at
    => j > nodes[k].began /\ k > nodes[j].began

(* What types.rs says of the identifiers, "client-sortable without an extra *)
(* timestamp column": sorting nodes by identifier sorts them by created_at. *)
IdOrderIsCreationOrder ==
  \A j, k \in 1..Len(nodes) :
    /\ ~ setback
    /\ nodes[j].own /\ nodes[k].own
    /\ nodes[j].boot = nodes[k].boot
    /\ Older(nodes[j].id, nodes[k].id)
    => nodes[j].created_at <= nodes[k].created_at

(* The threads' identifiers come out as if each had been issued in one step *)
(* (types.rs, newtype_uuid_id!).                                            *)
IdSourceSpec == Source!Spec
===============================================================================
