---------------------------- MODULE NodeIds_proofs ----------------------------
(***************************************************************************)
(* Proofs about NodeIds, for any number of threads, any clock resolution   *)
(* and any counter width of the identifiers.                               *)
(***************************************************************************)
EXTENDS NodeIds, TLAPS

USE NodeIdsAssumption

-------------------------------------------------------------------------------
(* Facts about identifiers and the clock. *)

\* The order of identifiers (types.rs, derived Ord of the id types) is a strict order.
LEMMA OlderStrict ==
  ASSUME NEW a \in Ids, NEW b \in Ids, NEW c \in Ids
  PROVE  /\ ~ Older(a, a)
         /\ Older(a, b) => ~ Older(b, a)
         /\ Older(a, b) /\ Older(b, c) => Older(a, c)
BY DEF Older, Source!Older, Ids

\* Uuid::now_v7 returns an identifier later than the last one, and not earlier than
\* the clock reading it was given.
LEMMA NextIdLater ==
  ASSUME NEW last \in Ids, NEW ms \in Nat, NEW id \in NextIds(last, ms)
  PROVE  /\ id \in Ids
         /\ Older(last, id)
         /\ ms <= id.ms
<1>1. CASE ms > last.ms
  BY <1>1 DEF NextIds, Ids, Older, Source!Older
<1>2. CASE ms <= last.ms /\ last.ctr < MaxCtr
  BY <1>2 DEF NextIds, Ids, Older, Source!Older
<1>3. CASE ms <= last.ms /\ ~ (last.ctr < MaxCtr)
  BY <1>3 DEF NextIds, Ids, Older, Source!Older
<1> QED
  BY <1>1, <1>2, <1>3 DEF Ids

\* A later clock reading has no earlier millisecond (Uuid::now_v7).
LEMMA MsMonotone ==
  ASSUME NEW a \in Nat, NEW b \in Nat
  PROVE  /\ Ms(a) \in Nat
         /\ a <= b => Ms(a) <= Ms(b)
BY DEF Ms

\* A thread's locals keep their types when a builder is made and filled
\* (FileNodeBuilder::new and the setters).
LEMMA NewCallTyped ==
  /\ NoCall \in Calls
  /\ \A S \in FieldChoices, n \in Nat : NewCall(S, n) \in Calls
BY DEF NoCall, NewCall, Calls

\* A thread's locals keep their types when a clock reading or an identifier is
\* written to them (FileNodeBuilder::build).
LEMMA CallUpdateTyped ==
  ASSUME NEW c \in Calls
  PROVE  /\ \A n \in Nat : [c EXCEPT !.raw = n] \in Calls /\ [c EXCEPT !.now = n] \in Calls
         /\ \A id \in Ids : [c EXCEPT !.id = id] \in Calls
BY DEF Calls

-------------------------------------------------------------------------------
(* Type correctness. *)

LEMMA TypeOKInit == Init => TypeOK
<1> SUFFICES ASSUME Init PROVE TypeOK
  OBVIOUS
<1>1. setback \in BOOLEAN
  BY DEF Init
<1>2. /\ clock \in Nat /\ ctx \in Ids /\ boot \in Nat /\ builds \in Nat
      /\ nodes \in Seq(Nodes) /\ issued \in Seq(Ids)
  BY DEF Init, Ids, Fresh
<1>3. pc \in [Threads -> States] /\ call \in [Threads -> Calls]
  BY DEF Init, NoCall, NewCall, Calls, States, Required
<1>4. \A t \in Threads : pc[t] = "idle"
  BY DEF Init
<1> QED
  BY <1>1, <1>2, <1>3, <1>4 DEF TypeOK

LEMMA TypeOKNext == TypeOK /\ [Next]_vars => TypeOK'
<1> SUFFICES ASSUME TypeOK, [Next]_vars
             PROVE  TypeOK'
  OBVIOUS
<1> USE DEF TypeOK
<1>1. ASSUME NEW t \in Threads, New(t)
      PROVE  TypeOK'
  <2>1. PICK S \in FieldChoices :
          call' = [call EXCEPT ![t] = NewCall(S, Len(nodes))]
    BY <1>1 DEF New
  <2>2. NewCall(S, Len(nodes)) \in Calls
    BY NewCallTyped
  <2>3. call' \in [Threads -> Calls]
    BY <2>1, <2>2
  <2>4. pc' \in [Threads -> States]
    BY <1>1 DEF New, States
  <2>5. \A u \in Threads : pc'[u] \in {"given", "drawn"} => call'[u].id # NoId
    BY <1>1, <2>1 DEF New
  <2> QED
    BY <1>1, <2>3, <2>4, <2>5 DEF New
<1>2. ASSUME NEW t \in Threads, NEW from \in States, NEW to \in States \ {"given", "drawn"},
             ReadClock(t, from, to)
      PROVE  TypeOK'
  <2>1. [call[t] EXCEPT !.raw = Ms(clock)] \in Calls
    BY MsMonotone, CallUpdateTyped
  <2>2. call' \in [Threads -> Calls]
    BY <1>2, <2>1 DEF ReadClock
  <2>3. \A u \in Threads : pc'[u] \in {"given", "drawn"} => call'[u].id # NoId
    BY <1>2 DEF ReadClock
  <2> QED
    BY <1>2, <2>2, <2>3 DEF ReadClock
<1>3. ASSUME NEW t \in Threads, NEW from \in States, NEW to \in States,
             DrawId(t, from, to)
      PROVE  TypeOK'
  <2>1. PICK id \in NextIds(ctx, call[t].raw) :
          /\ ctx' = id
          /\ call' = [call EXCEPT ![t].id = id]
          /\ issued' = Append(issued, id)
    BY <1>3 DEF DrawId
  <2>2. id \in Ids
    BY <2>1, NextIdLater DEF Calls
  <2>3. [call[t] EXCEPT !.id = id] \in Calls
    BY <2>2, CallUpdateTyped
  <2>4. call' \in [Threads -> Calls]
    BY <2>1, <2>3
  <2>5. \A u \in Threads : pc'[u] \in {"given", "drawn"} => call'[u].id # NoId
    BY <1>3, <2>1, <2>2 DEF DrawId
  <2>6. issued' \in Seq(Ids)
    BY <2>1, <2>2
  <2> QED
    BY <1>3, <2>1, <2>2, <2>4, <2>5, <2>6 DEF DrawId
<1>4. ASSUME NEW t \in Threads, Stamp(t)
      PROVE  TypeOK'
  <2>1. [call[t] EXCEPT !.now = clock] \in Calls
    BY CallUpdateTyped
  <2>2. call' \in [Threads -> Calls]
    BY <1>4, <2>1 DEF Stamp
  <2>3. pc' \in [Threads -> States]
    BY <1>4 DEF Stamp, States
  <2>4. \A u \in Threads : pc'[u] \in {"given", "drawn"} => call'[u].id # NoId
    BY <1>4 DEF Stamp
  <2> QED
    BY <1>4, <2>2, <2>3, <2>4 DEF Stamp
<1>5. ASSUME NEW t \in Threads, Return(t)
      PROVE  TypeOK'
  <2>1. [id |-> call[t].id, own |-> pc[t] = "drawn", created_at |-> call[t].now,
         boot |-> boot, began |-> call[t].began] \in Nodes
    BY <1>5 DEF Return, Nodes, Calls
  <2>2. call' \in [Threads -> Calls]
    BY <1>5, NewCallTyped DEF Return
  <2>3. pc' \in [Threads -> States]
    BY <1>5 DEF Return, States
  <2>4. \A u \in Threads : pc'[u] \in {"given", "drawn"} => call'[u].id # NoId
    BY <1>5 DEF Return
  <2>5. nodes' \in Seq(Nodes)
    <3>1. nodes \in Seq(Nodes)
      OBVIOUS
    <3>2. nodes' = nodes \/ nodes' = Append(nodes,
            [id |-> call[t].id, own |-> pc[t] = "drawn", created_at |-> call[t].now,
             boot |-> boot, began |-> call[t].began])
      BY <1>5, Zenon DEF Return
    <3> HIDE DEF TypeOK
    <3> QED
      BY <2>1, <3>1, <3>2
  <2>6. UNCHANGED <<clock, ctx, boot, builds, issued, setback>>
    BY <1>5 DEF Return
  <2> QED
    BY <2>2, <2>3, <2>4, <2>5, <2>6
<1>6. CASE Tick
  BY <1>6 DEF Tick
<1>7. CASE StepBack
  BY <1>7 DEF StepBack
<1>8. CASE Restart
  BY <1>8, NewCallTyped DEF Restart, Fresh, Ids, States
<1>9. CASE UNCHANGED vars
  BY <1>9 DEF vars
<1> QED
  BY <1>1, <1>2, <1>3, <1>4, <1>5, <1>6, <1>7, <1>8, <1>9
     DEF Next, Build, Mint, DefaultId, States

\* Every step of every thread keeps the types of NodeIds, and a build never returns
\* without an identifier (FileNodeBuilder::build).
THEOREM TypeCorrect == Spec => []TypeOK
BY TypeOKInit, TypeOKNext, PTL DEF Spec

-------------------------------------------------------------------------------
(* Uniqueness.  The context never goes back and every identifier of this     *)
(* process, in a builder or in a node, lies behind it; so whatever it issues *)
(* next differs from all of them.                                            *)

NotAfter(a, b) == a = b \/ Older(a, b)

BehindCtx ==
  /\ \A t \in Threads : call[t].id # NoId => NotAfter(call[t].id, ctx)
  /\ \A k \in 1..Len(nodes) :
       /\ nodes[k].boot <= boot
       /\ nodes[k].boot = boot => NotAfter(nodes[k].id, ctx)

HeldDistinct ==
  /\ \A t, u \in Threads : t # u /\ call[t].id # NoId => call[t].id # call[u].id
  /\ \A t \in Threads, k \in 1..Len(nodes) :
       nodes[k].boot = boot => nodes[k].id # call[t].id

UniqueInv == TypeOK /\ BehindCtx /\ HeldDistinct /\ UniqueIds

\* An identifier issued after the context's last one is later than whatever lay
\* behind the context (Uuid::now_v7).
LEMMA LaterThanBehind ==
  ASSUME NEW a \in Ids, NEW last \in Ids, NEW id \in Ids,
         NotAfter(a, last), Older(last, id)
  PROVE  Older(a, id) /\ a # id
BY OlderStrict DEF NotAfter

\* What the drawing of an identifier does to the calls and the context (DrawId).
LEMMA DrawIdEffect ==
  ASSUME TypeOK, NEW t \in Threads, NEW from, NEW to, DrawId(t, from, to)
  PROVE  /\ pc[t] = from
         /\ pc' = [pc EXCEPT ![t] = to]
         /\ ctx' \in Ids
         /\ Older(ctx, ctx')
         /\ call[t].raw <= ctx'.ms
         /\ call' = [call EXCEPT ![t].id = ctx']
         /\ issued' = Append(issued, ctx')
         /\ UNCHANGED <<clock, boot, builds, nodes, setback>>
<1>1. PICK id \in NextIds(ctx, call[t].raw) :
        ctx' = id /\ call' = [call EXCEPT ![t].id = id] /\ issued' = Append(issued, id)
  BY DEF DrawId
<1>2. ctx \in Ids /\ call[t].raw \in Nat
  BY DEF TypeOK, Calls
<1>3. id \in Ids /\ Older(ctx, id) /\ call[t].raw <= id.ms
  BY <1>2, NextIdLater
<1> QED
  BY <1>1, <1>3 DEF DrawId

\* The fields of a node and of a builder have their types (FileNode, FileNodeBuilder).
LEMMA FieldTypes ==
  ASSUME TypeOK
  PROVE  /\ Len(nodes) \in Nat
         /\ \A k \in 1..Len(nodes) :
              /\ nodes[k].id \in Ids /\ nodes[k].id # NoId
              /\ nodes[k].boot \in Nat /\ nodes[k].began \in Nat
              /\ nodes[k].created_at \in Nat /\ nodes[k].own \in BOOLEAN
         /\ \A t \in Threads :
              /\ call[t].id # NoId => call[t].id \in Ids
              /\ call[t].now \in Nat /\ call[t].raw \in Nat /\ call[t].began \in Nat
<1>1. Len(nodes) \in Nat /\ \A k \in 1..Len(nodes) : nodes[k] \in Nodes
  BY DEF TypeOK
<1>2. \A n \in Nodes : /\ n.id \in Ids /\ n.boot \in Nat /\ n.began \in Nat
                       /\ n.created_at \in Nat /\ n.own \in BOOLEAN
  BY DEF Nodes
<1>3. \A id \in Ids : id # NoId
  OBVIOUS
<1>4. \A t \in Threads : call[t] \in Calls
  BY DEF TypeOK
<1>5. \A c \in Calls : /\ c.id \in Ids \cup {NoId}
                       /\ c.now \in Nat /\ c.raw \in Nat /\ c.began \in Nat
  BY DEF Calls
<1> QED
  BY <1>1, <1>2, <1>3, <1>4, <1>5

LEMMA UniqueInit == Init => UniqueInv
<1> SUFFICES ASSUME Init PROVE UniqueInv
  OBVIOUS
<1>1. TypeOK
  BY TypeOKInit
<1>2. \A t \in Threads : call[t].id = NoId
  BY DEF Init, NoCall, NewCall
<1>3. Len(nodes) = 0
  BY DEF Init
<1> QED
  BY <1>1, <1>2, <1>3 DEF UniqueInv, BehindCtx, HeldDistinct, UniqueIds

LEMMA UniqueNext == UniqueInv /\ [Next]_vars => UniqueInv'
<1> SUFFICES ASSUME UniqueInv, [Next]_vars
             PROVE  UniqueInv'
  OBVIOUS
<1>0. TypeOK /\ TypeOK'
  BY TypeOKNext DEF UniqueInv
<1> USE DEF UniqueInv
<1>1. ASSUME NEW t \in Threads, New(t)
      PROVE  UniqueInv'
  <2>1. PICK S \in FieldChoices : call' = [call EXCEPT ![t] = NewCall(S, Len(nodes))]
    BY <1>1 DEF New
  <2>2. \A u \in Threads : call'[u].id = IF u = t THEN NoId ELSE call[u].id
    BY <1>0, <2>1 DEF TypeOK, NewCall
  <2>3. \A k \in 1..Len(nodes) : nodes[k].id # NoId
    BY <1>0, FieldTypes
  <2>4. UNCHANGED <<ctx, boot, nodes>>
    BY <1>1 DEF New
  <2>5. BehindCtx'
    BY <2>2, <2>4 DEF BehindCtx
  <2>6. HeldDistinct'
    BY <2>2, <2>3, <2>4 DEF HeldDistinct
  <2> QED
    BY <1>0, <2>4, <2>5, <2>6 DEF UniqueIds
<1>2. ASSUME NEW t \in Threads, NEW from, NEW to, ReadClock(t, from, to)
      PROVE  UniqueInv'
  <2>1. \A u \in Threads : call'[u].id = call[u].id
    BY <1>0, <1>2 DEF ReadClock, TypeOK, Calls
  <2>2. UNCHANGED <<ctx, boot, nodes>>
    BY <1>2 DEF ReadClock
  <2> QED
    BY <1>0, <2>1, <2>2 DEF BehindCtx, HeldDistinct, UniqueIds
<1>3. ASSUME NEW t \in Threads, NEW from, NEW to, DrawId(t, from, to)
      PROVE  UniqueInv'
  <2>1. /\ ctx \in Ids /\ ctx' \in Ids /\ Older(ctx, ctx')
        /\ UNCHANGED <<boot, nodes>>
    BY <1>0, <1>3, DrawIdEffect DEF TypeOK
  <2>2. \A u \in Threads : call'[u].id = IF u = t THEN ctx' ELSE call[u].id
    <3>1. call' = [call EXCEPT ![t].id = ctx'] /\ call \in [Threads -> Calls]
      BY <1>0, <1>3, DrawIdEffect DEF TypeOK
    <3> QED
      BY <3>1 DEF Calls
  <2>3. \A u \in Threads : call[u].id # NoId =>
          call[u].id \in Ids /\ Older(call[u].id, ctx') /\ call[u].id # ctx'
    BY <1>0, <2>1, FieldTypes, LaterThanBehind DEF BehindCtx
  <2>4. \A k \in 1..Len(nodes) : nodes[k].boot = boot =>
          nodes[k].id \in Ids /\ Older(nodes[k].id, ctx') /\ nodes[k].id # ctx'
    BY <1>0, <2>1, FieldTypes, LaterThanBehind DEF BehindCtx
  <2>5. BehindCtx'
    BY <2>1, <2>2, <2>3, <2>4 DEF BehindCtx, NotAfter
  <2>6. HeldDistinct'
    BY <2>1, <2>2, <2>3, <2>4 DEF HeldDistinct
  <2> QED
    BY <1>0, <2>1, <2>5, <2>6 DEF UniqueIds
<1>4. ASSUME NEW t \in Threads, Stamp(t)
      PROVE  UniqueInv'
  <2>1. \A u \in Threads : call'[u].id = call[u].id
    BY <1>0, <1>4 DEF Stamp, TypeOK, Calls
  <2>2. UNCHANGED <<ctx, boot, nodes>>
    BY <1>4 DEF Stamp
  <2> QED
    BY <1>0, <2>1, <2>2 DEF BehindCtx, HeldDistinct, UniqueIds
<1>5. ASSUME NEW t \in Threads, Return(t)
      PROVE  UniqueInv'
  <2>1. \A u \in Threads : call'[u].id = IF u = t THEN NoId ELSE call[u].id
    BY <1>0, <1>5 DEF Return, TypeOK, NoCall, NewCall
  <2>2. UNCHANGED <<ctx, boot>>
    BY <1>5 DEF Return
  <2>3. \A k \in 1..Len(nodes) : nodes[k].id # NoId
    BY <1>0, FieldTypes
  <2>4. CASE UNCHANGED nodes
    BY <1>0, <2>1, <2>2, <2>3, <2>4 DEF BehindCtx, HeldDistinct, UniqueIds
  <2>5. CASE Required \subseteq call[t].fields
    <3>1. /\ Len(nodes') = Len(nodes) + 1
          /\ \A k \in 1..Len(nodes) : nodes'[k] = nodes[k]
          /\ nodes'[Len(nodes) + 1].id = call[t].id
          /\ nodes'[Len(nodes) + 1].boot = boot
      BY <1>0, <1>5, <2>5 DEF Return, TypeOK
    <3>2. call[t].id # NoId
      BY <1>0, <1>5 DEF Return, TypeOK
    <3>3. \A k \in 1..Len(nodes') : k \in 1..Len(nodes) \/ k = Len(nodes) + 1
      BY <1>0, <3>1 DEF TypeOK
    <3>4. BehindCtx'
      <4>1. boot \in Nat /\ NotAfter(call[t].id, ctx)
        BY <1>0, <3>2 DEF TypeOK, BehindCtx
      <4>2. \A u \in Threads : call'[u].id # NoId => NotAfter(call'[u].id, ctx')
        BY <2>1, <2>2 DEF BehindCtx
      <4>3. \A k \in 1..Len(nodes') :
              /\ nodes'[k].boot <= boot'
              /\ nodes'[k].boot = boot' => NotAfter(nodes'[k].id, ctx')
        BY <2>2, <3>1, <3>3, <4>1 DEF BehindCtx
      <4> QED
        BY <4>2, <4>3 DEF BehindCtx
    <3>5. HeldDistinct'
      BY <2>1, <2>2, <2>3, <3>1, <3>2, <3>3 DEF HeldDistinct
    <3>6. UniqueIds'
      BY <3>1, <3>2, <3>3 DEF UniqueIds, HeldDistinct
    <3> QED
      BY <1>0, <3>4, <3>5, <3>6
  <2> QED
    BY <1>5, <2>4, <2>5 DEF Return
<1>6. CASE Tick
  BY <1>0, <1>6 DEF Tick, BehindCtx, HeldDistinct, UniqueIds
<1>7. CASE StepBack
  BY <1>0, <1>7 DEF StepBack, BehindCtx, HeldDistinct, UniqueIds
<1>8. CASE Restart
  <2>1. \A u \in Threads : call'[u].id = NoId
    BY <1>8 DEF Restart, NoCall, NewCall
  <2>2. /\ boot \in Nat /\ boot' = boot + 1 /\ UNCHANGED nodes
        /\ \A k \in 1..Len(nodes) : nodes[k].boot \in Nat /\ nodes[k].id # NoId
    BY <1>0, <1>8, FieldTypes DEF Restart, TypeOK
  <2>3. \A k \in 1..Len(nodes) : nodes[k].boot < boot'
    BY <2>2 DEF BehindCtx
  <2>4. BehindCtx' /\ HeldDistinct'
    BY <2>1, <2>2, <2>3 DEF BehindCtx, HeldDistinct
  <2> QED
    BY <1>0, <2>2, <2>4 DEF UniqueIds
<1>9. CASE UNCHANGED vars
  BY <1>0, <1>9 DEF vars, BehindCtx, HeldDistinct, UniqueIds
<1> QED
  BY <1>1, <1>2, <1>3, <1>4, <1>5, <1>6, <1>7, <1>8, <1>9
     DEF Next, Build, Mint, DefaultId

\* Every two nodes that one server process builds have different identifiers, for
\* any number of threads and whatever the wall clock does
\* (FileNodeBuilder::build, FileId::new).
THEOREM IdsUnique == Spec => []UniqueIds
<1>1. Spec => []UniqueInv
  BY UniqueInit, UniqueNext, PTL DEF Spec
<1>2. UniqueInv => UniqueIds
  BY DEF UniqueInv
<1> QED
  BY <1>1, <1>2, PTL

-------------------------------------------------------------------------------
(* Identifier order.  What a builder's identifier must follow is what existed *)
(* when the builder was made: that many nodes, all behind the context.        *)

OrderInv ==
  /\ \A t \in Threads : call[t].began <= Len(nodes)
  /\ \A k \in 1..Len(nodes) : nodes[k].began <= Len(nodes)
  /\ \A t \in Threads : pc[t] = "drawn" =>
       \A j \in 1..Len(nodes) :
         j <= call[t].began /\ nodes[j].boot = boot => Older(nodes[j].id, call[t].id)
  /\ IdsFollowRealTime

\* OrderInv holds of a state in which a step left the nodes alone and changed of the
\* calls only what it does not speak of (FileNodeBuilder::build).
LEMMA OrderUnchanged ==
  ASSUME TypeOK, OrderInv, UNCHANGED <<boot, nodes>>,
         \A u \in Threads : call'[u].began = call[u].began \/ call'[u].began <= Len(nodes),
         \A u \in Threads : pc'[u] = "drawn" =>
           pc[u] = "drawn" /\ call'[u].began = call[u].began /\ call'[u].id = call[u].id
  PROVE  OrderInv'
<1>1. \A t \in Threads : call'[t].began <= Len(nodes')
  BY DEF OrderInv
<1>2. \A k \in 1..Len(nodes') : nodes'[k].began <= Len(nodes')
  BY DEF OrderInv
<1>3. \A t \in Threads : pc'[t] = "drawn" =>
        \A j \in 1..Len(nodes') :
          j <= call'[t].began /\ nodes'[j].boot = boot' => Older(nodes'[j].id, call'[t].id)
  BY DEF OrderInv
<1>4. IdsFollowRealTime'
  BY DEF OrderInv, IdsFollowRealTime
<1> QED
  BY <1>1, <1>2, <1>3, <1>4 DEF OrderInv

LEMMA OrderInit == Init => OrderInv
<1> SUFFICES ASSUME Init PROVE OrderInv
  OBVIOUS
<1>1. Len(nodes) = 0
  BY DEF Init
<1>2. \A t \in Threads : call[t].began = 0 /\ pc[t] = "idle"
  BY DEF Init, NoCall, NewCall
<1> QED
  BY <1>1, <1>2 DEF OrderInv, IdsFollowRealTime

LEMMA OrderNext == TypeOK /\ BehindCtx /\ OrderInv /\ [Next]_vars => OrderInv'
<1> SUFFICES ASSUME TypeOK, BehindCtx, OrderInv, [Next]_vars
             PROVE  OrderInv'
  OBVIOUS
<1>0. call \in [Threads -> Calls] /\ pc \in [Threads -> States] /\ Len(nodes) \in Nat
  BY FieldTypes DEF TypeOK
<1>1. ASSUME NEW t \in Threads, New(t)
      PROVE  OrderInv'
  <2>1. PICK S \in FieldChoices : call' = [call EXCEPT ![t] = NewCall(S, Len(nodes))]
    BY <1>1 DEF New
  <2>2. \A u \in Threads : call'[u] = call[u] \/ (u = t /\ call'[u].began = Len(nodes))
    BY <1>0, <2>1 DEF NewCall
  <2>3. pc' = [pc EXCEPT ![t] = "fluent"] /\ UNCHANGED <<boot, nodes>>
    BY <1>1 DEF New
  <2> QED
    BY <1>0, <2>2, <2>3, OrderUnchanged
<1>2. ASSUME NEW t \in Threads, NEW from, NEW to, ReadClock(t, from, to), to # "drawn"
      PROVE  OrderInv'
  <2>1. \A u \in Threads : call'[u].began = call[u].began /\ call'[u].id = call[u].id
    BY <1>0, <1>2 DEF ReadClock, Calls
  <2>2. pc' = [pc EXCEPT ![t] = to] /\ UNCHANGED <<boot, nodes>>
    BY <1>2 DEF ReadClock
  <2> QED
    BY <1>0, <1>2, <2>1, <2>2, OrderUnchanged
<1>3. ASSUME NEW t \in Threads, NEW from, NEW to, DrawId(t, from, to)
      PROVE  OrderInv'
  <2>1. /\ ctx \in Ids /\ ctx' \in Ids /\ Older(ctx, ctx')
        /\ pc' = [pc EXCEPT ![t] = to]
        /\ call' = [call EXCEPT ![t].id = ctx']
        /\ UNCHANGED <<boot, nodes>>
    BY <1>3, DrawIdEffect DEF TypeOK
  <2>2. \A u \in Threads :
          /\ call'[u].began = call[u].began
          /\ call'[u].id = IF u = t THEN ctx' ELSE call[u].id
    BY <1>0, <2>1 DEF Calls
  <2>3. \A j \in 1..Len(nodes) : nodes[j].boot = boot => Older(nodes[j].id, ctx')
    BY <2>1, FieldTypes, LaterThanBehind DEF BehindCtx
  <2>4. \A u \in Threads : pc'[u] = "drawn" =>
          \A j \in 1..Len(nodes) :
            j <= call'[u].began /\ nodes[j].boot = boot => Older(nodes[j].id, call'[u].id)
    BY <1>0, <2>1, <2>2, <2>3 DEF OrderInv
  <2> QED
    BY <2>1, <2>2, <2>4 DEF OrderInv, IdsFollowRealTime
<1>4. ASSUME NEW t \in Threads, Stamp(t)
      PROVE  OrderInv'
  <2>1. \A u \in Threads : call'[u].began = call[u].began /\ call'[u].id = call[u].id
    BY <1>0, <1>4 DEF Stamp, Calls
  <2>2. \A u \in Threads : pc'[u] = "drawn" => pc[u] = "drawn"
    BY <1>0, <1>4 DEF Stamp
  <2> QED
    BY <1>4, <2>1, <2>2, OrderUnchanged DEF Stamp
<1>5. ASSUME NEW t \in Threads, Return(t)
      PROVE  OrderInv'
  <2>1. \A u \in Threads : call'[u] = IF u = t THEN NoCall ELSE call[u]
    BY <1>0, <1>5 DEF Return
  <2>2. \A u \in Threads : pc'[u] = IF u = t THEN "idle" ELSE pc[u]
    BY <1>0, <1>5 DEF Return
  <2>3. NoCall.began = 0
    BY DEF NoCall, NewCall
  <2>4. CASE UNCHANGED nodes
    <3>1. \A u \in Threads : call'[u].began = call[u].began \/ call'[u].began <= Len(nodes)
      BY <1>0, <2>1, <2>3
    <3> QED
      BY <1>5, <2>1, <2>2, <2>4, <3>1, OrderUnchanged DEF Return
  <2>5. CASE Required \subseteq call[t].fields
    <3>1. /\ Len(nodes') = Len(nodes) + 1
          /\ \A k \in 1..Len(nodes) : nodes'[k] = nodes[k]
          /\ nodes'[Len(nodes) + 1].id = call[t].id
          /\ nodes'[Len(nodes) + 1].own = (pc[t] = "drawn")
          /\ nodes'[Len(nodes) + 1].boot = boot
          /\ nodes'[Len(nodes) + 1].began = call[t].began
      BY <1>5, <2>5 DEF Return, TypeOK
    <3>2. \A k \in 1..Len(nodes') : k \in 1..Len(nodes) \/ k = Len(nodes) + 1
      BY <1>0, <3>1
    <3>3. \A u \in Threads : call'[u].began <= Len(nodes')
      BY <1>0, <2>1, <2>3, <3>1, FieldTypes DEF OrderInv
    <3>4. \A k \in 1..Len(nodes') : nodes'[k].began <= Len(nodes')
      BY <1>0, <3>1, <3>2, FieldTypes DEF OrderInv
    <3>5. \A u \in Threads : pc'[u] = "drawn" =>
            \A j \in 1..Len(nodes') :
              j <= call'[u].began /\ nodes'[j].boot = boot' => Older(nodes'[j].id, call'[u].id)
      <4> SUFFICES ASSUME NEW u \in Threads, pc'[u] = "drawn",
                          NEW j \in 1..Len(nodes'), j <= call'[u].began,
                          nodes'[j].boot = boot'
                   PROVE  Older(nodes'[j].id, call'[u].id)
        OBVIOUS
      <4>1. u # t /\ call'[u] = call[u] /\ pc[u] = "drawn" /\ boot' = boot
        BY <1>5, <2>1, <2>2 DEF Return
      <4>2. j \in 1..Len(nodes)
        BY <1>0, <3>1, <3>2, <4>1, FieldTypes DEF OrderInv
      <4> QED
        BY <3>1, <4>1, <4>2 DEF OrderInv
    <3>6. IdsFollowRealTime'
      <4> SUFFICES ASSUME NEW j \in 1..Len(nodes'), NEW k \in 1..Len(nodes'),
                          j <= nodes'[k].began, nodes'[j].boot = nodes'[k].boot,
                          nodes'[k].own
                   PROVE  Older(nodes'[j].id, nodes'[k].id)
        BY DEF IdsFollowRealTime
      <4>1. j \in 1..Len(nodes)
        BY <1>0, <3>1, <3>2, FieldTypes DEF OrderInv
      <4>2. CASE k \in 1..Len(nodes)
        BY <3>1, <4>1, <4>2 DEF OrderInv, IdsFollowRealTime
      <4>3. CASE k = Len(nodes) + 1
        BY <3>1, <4>1, <4>3 DEF OrderInv
      <4> QED
        BY <3>2, <4>2, <4>3
    <3> QED
      BY <3>3, <3>4, <3>5, <3>6 DEF OrderInv
  <2> QED
    BY <1>5, <2>4, <2>5 DEF Return
<1>6. CASE Tick
  BY <1>6, OrderUnchanged DEF Tick
<1>7. CASE StepBack
  BY <1>7, OrderUnchanged DEF StepBack
<1>8. CASE Restart
  <2>1. \A u \in Threads : call'[u].began = 0 /\ pc'[u] = "idle"
    BY <1>8 DEF Restart, NoCall, NewCall
  <2> QED
    BY <1>0, <1>8, <2>1 DEF Restart, OrderInv, IdsFollowRealTime
<1>9. CASE UNCHANGED vars
  BY <1>9, OrderUnchanged DEF vars
<1> QED
  BY <1>1, <1>2, <1>3, <1>4, <1>5, <1>6, <1>7, <1>8, <1>9
     DEF Next, Build, Mint, DefaultId

\* Wherever the wall clock goes, a node that existed before a builder was made has an
\* older identifier than the one build() then draws (FileNodeBuilder::build,
\* FileId::new).
THEOREM IdsInRealTimeOrder == Spec => []IdsFollowRealTime
<1>1. Spec => [](TypeOK /\ BehindCtx)
  <2>1. UniqueInv => TypeOK /\ BehindCtx
    BY DEF UniqueInv
  <2> QED
    BY <2>1, UniqueInit, UniqueNext, PTL DEF Spec
<1>2. Spec => []OrderInv
  BY <1>1, OrderInit, OrderNext, PTL DEF Spec
<1>3. OrderInv => IdsFollowRealTime
  BY DEF OrderInv
<1> QED
  BY <1>2, <1>3, PTL

-------------------------------------------------------------------------------
(* The two clock readings of build(), while the clock never went back.  The   *)
(* first is behind the clock and behind the second; and whatever existed when *)
(* the builder was made was stamped before it.                                *)

Stamped == {"given", "default", "drawing", "drawn"}

CreatedFirst ==
  \A k \in 1..Len(nodes) :
    nodes[k].own => Ms(nodes[k].created_at) <= nodes[k].id.ms

StampInv ==
  /\ \A t \in Threads : pc[t] \in Stamped => call[t].now <= clock
  /\ \A t \in Threads : pc[t] = "drawing" => Ms(call[t].now) <= call[t].raw
  /\ \A t \in Threads : pc[t] = "drawn" => Ms(call[t].now) <= call[t].id.ms
  /\ CreatedFirst

LEMMA StampNext == TypeOK /\ StampInv /\ ~ setback' /\ [Next]_vars => StampInv'
<1> SUFFICES ASSUME TypeOK, StampInv, ~ setback', [Next]_vars
             PROVE  StampInv'
  OBVIOUS
<1>0. /\ call \in [Threads -> Calls] /\ pc \in [Threads -> States]
      /\ Len(nodes) \in Nat /\ nodes \in Seq(Nodes) /\ clock \in Nat
  BY FieldTypes DEF TypeOK
<1>1. ASSUME NEW t \in Threads, New(t)
      PROVE  StampInv'
  <2>1. \A u \in Threads : pc'[u] \in Stamped => pc[u] = pc'[u] /\ call'[u] = call[u]
    BY <1>0, <1>1 DEF New, Stamped
  <2> QED
    BY <1>1, <2>1 DEF New, StampInv, Stamped, CreatedFirst
<1>2. ASSUME NEW t \in Threads, ReadClock(t, "fluent", "minting")
      PROVE  StampInv'
  <2>1. \A u \in Threads : pc'[u] \in Stamped => pc[u] = pc'[u] /\ call'[u] = call[u]
    BY <1>0, <1>2 DEF ReadClock, Stamped
  <2> QED
    BY <1>2, <2>1 DEF ReadClock, StampInv, Stamped, CreatedFirst
<1>3. ASSUME NEW t \in Threads, ReadClock(t, "default", "drawing")
      PROVE  StampInv'
  <2>1. \A u \in Threads : u # t => pc'[u] = pc[u] /\ call'[u] = call[u]
    BY <1>0, <1>3 DEF ReadClock
  <2>2. /\ pc[t] = "default" /\ pc'[t] = "drawing" /\ UNCHANGED <<clock, nodes>>
        /\ call'[t].now = call[t].now /\ call'[t].raw = Ms(clock)
    BY <1>0, <1>3 DEF ReadClock, Calls
  <2>3. call[t].now <= clock /\ call[t].now \in Nat
    BY <2>2, FieldTypes DEF StampInv, Stamped
  <2>4. Ms(call'[t].now) <= call'[t].raw
    BY <1>0, <2>2, <2>3, MsMonotone
  <2> QED
    BY <2>1, <2>2, <2>3, <2>4 DEF StampInv, Stamped, CreatedFirst
<1>4. ASSUME NEW t \in Threads, DrawId(t, "minting", "fluent")
      PROVE  StampInv'
  <2>1. \A u \in Threads : pc'[u] \in Stamped => pc[u] = pc'[u] /\ call'[u] = call[u]
    BY <1>0, <1>4, DrawIdEffect DEF Stamped
  <2> QED
    BY <1>4, <2>1, DrawIdEffect DEF StampInv, Stamped, CreatedFirst
<1>5. ASSUME NEW t \in Threads, DrawId(t, "drawing", "drawn")
      PROVE  StampInv'
  <2>1. /\ pc[t] = "drawing" /\ pc' = [pc EXCEPT ![t] = "drawn"] /\ UNCHANGED <<clock, nodes>>
        /\ ctx' \in Ids /\ call[t].raw <= ctx'.ms
        /\ call' = [call EXCEPT ![t].id = ctx']
    BY <1>5, DrawIdEffect
  <2>2. \A u \in Threads : u # t => pc'[u] = pc[u] /\ call'[u] = call[u]
    BY <1>0, <2>1
  <2>3. pc'[t] = "drawn" /\ call'[t].now = call[t].now /\ call'[t].id = ctx'
    BY <1>0, <2>1 DEF Calls
  <2>4. call[t].now <= clock /\ Ms(call[t].now) <= call[t].raw
    BY <2>1 DEF StampInv, Stamped
  <2>5. ctx'.ms \in Nat /\ call[t].raw \in Nat /\ Ms(call[t].now) \in Nat
    BY <2>1, FieldTypes, MsMonotone DEF Ids
  <2>6. Ms(call'[t].now) <= call'[t].id.ms /\ call'[t].now <= clock'
    BY <2>1, <2>3, <2>4, <2>5
  <2> QED
    BY <2>1, <2>2, <2>3, <2>6 DEF StampInv, Stamped, CreatedFirst
<1>6. ASSUME NEW t \in Threads, Stamp(t)
      PROVE  StampInv'
  <2>1. \A u \in Threads : u # t => pc'[u] = pc[u] /\ call'[u] = call[u]
    BY <1>0, <1>6 DEF Stamp
  <2>2. /\ pc'[t] \in {"default", "given"} /\ call'[t].now = clock
        /\ UNCHANGED <<clock, nodes>>
    BY <1>0, <1>6 DEF Stamp, Calls
  <2> QED
    BY <1>0, <2>1, <2>2 DEF StampInv, Stamped, CreatedFirst
<1>7. ASSUME NEW t \in Threads, Return(t)
      PROVE  StampInv'
  <2>1. \A u \in Threads : pc'[u] \in Stamped => pc[u] = pc'[u] /\ call'[u] = call[u]
    BY <1>0, <1>7 DEF Return, Stamped
  <2>2. CreatedFirst'
    <3>1. CASE UNCHANGED nodes
      BY <3>1 DEF StampInv, CreatedFirst
    <3>2. CASE Required \subseteq call[t].fields
      <4>1. /\ Len(nodes') = Len(nodes) + 1
            /\ \A k \in 1..Len(nodes) : nodes'[k] = nodes[k]
            /\ nodes'[Len(nodes) + 1].id = call[t].id
            /\ nodes'[Len(nodes) + 1].own = (pc[t] = "drawn")
            /\ nodes'[Len(nodes) + 1].created_at = call[t].now
        BY <1>0, <1>7, <3>2 DEF Return
      <4>2. \A k \in 1..Len(nodes') : k \in 1..Len(nodes) \/ k = Len(nodes) + 1
        BY <1>0, <4>1
      <4> QED
        BY <4>1, <4>2 DEF StampInv, CreatedFirst
    <3> QED
      BY <1>7, <3>1, <3>2 DEF Return
  <2> QED
    BY <1>7, <2>1, <2>2 DEF Return, StampInv, Stamped
<1>8. CASE Tick
  <2>1. clock <= clock' /\ \A t \in Threads : call[t].now \in Nat
    BY <1>0, <1>8, FieldTypes DEF Tick
  <2>2. \A t \in Threads : pc[t] \in Stamped => call[t].now <= clock'
    BY <1>0, <1>8, <2>1 DEF StampInv, Tick
  <2> QED
    BY <1>8, <2>2 DEF Tick, StampInv, CreatedFirst
<1>9. CASE Restart
  BY <1>9 DEF Restart, StampInv, Stamped, CreatedFirst
<1>10. CASE UNCHANGED vars
  BY <1>10 DEF vars, StampInv, CreatedFirst
<1>11. ~ StepBack
  BY DEF StepBack
<1> QED
  BY <1>1, <1>2, <1>3, <1>4, <1>5, <1>6, <1>7, <1>8, <1>9, <1>10, <1>11
     DEF Next, Build, Mint, DefaultId

LEMMA StampInit == Init => StampInv
<1> SUFFICES ASSUME Init PROVE StampInv
  OBVIOUS
<1>1. Len(nodes) = 0 /\ \A t \in Threads : pc[t] = "idle"
  BY DEF Init
<1> QED
  BY <1>1 DEF StampInv, Stamped, CreatedFirst

\* Whether the clock was ever set back is not forgotten (the history variable).
LEMMA SetBackForGood == setback /\ [Next]_vars => setback'
BY DEF Next, Build, New, Mint, ReadClock, DrawId, Stamp, DefaultId, Return, Tick, StepBack,
       Restart, vars

(* While the clock never went back, the millisecond in an identifier that   *)
(* build() drew is not before the node's created_at, across restarts too:   *)
(* the two readings of build() are in that order.                           *)
CreatedBeforeId ==
  ~ setback =>
    \A k \in 1..Len(nodes) :
      nodes[k].own => Ms(nodes[k].created_at) <= nodes[k].id.ms

\* While the server's clock has not been set back, an identifier that build() drew is never
\* of an earlier millisecond than the node's created_at (FileNodeBuilder::build).
THEOREM CreationStampFirst == Spec => []CreatedBeforeId
<1>1. Spec => [](setback \/ StampInv)
  BY TypeCorrect, StampInit, StampNext, SetBackForGood, PTL DEF Spec
<1>2. (setback \/ StampInv) => CreatedBeforeId
  BY DEF StampInv, CreatedFirst, CreatedBeforeId
<1> QED
  BY <1>1, <1>2, PTL

TimesInv ==
  /\ \A k \in 1..Len(nodes) : nodes[k].created_at <= clock
  /\ \A t \in Threads : pc[t] \in Stamped =>
       \A j \in 1..Len(nodes) : j <= call[t].began => nodes[j].created_at <= call[t].now
  /\ \A j, k \in 1..Len(nodes) :
       j <= nodes[k].began => nodes[j].created_at <= nodes[k].created_at

\* TimesInv holds after a step that leaves the nodes alone, never sets the clock back
\* and stamps no builder (FileNodeBuilder::build).
LEMMA TimesUnchanged ==
  ASSUME TypeOK, TimesInv, UNCHANGED nodes, clock' \in Nat, clock <= clock',
         \A u \in Threads : pc'[u] \in Stamped =>
           pc[u] \in Stamped /\ call'[u].began = call[u].began /\ call'[u].now = call[u].now
  PROVE  TimesInv'
<1>1. \A k \in 1..Len(nodes) : nodes[k].created_at <= clock'
  BY FieldTypes DEF TimesInv, TypeOK
<1>2. \A t \in Threads : pc'[t] \in Stamped =>
        \A j \in 1..Len(nodes') :
          j <= call'[t].began => nodes'[j].created_at <= call'[t].now
  BY DEF TimesInv
<1> QED
  BY <1>1, <1>2 DEF TimesInv

LEMMA TimesInit == Init => TimesInv
<1> SUFFICES ASSUME Init PROVE TimesInv
  OBVIOUS
<1>1. Len(nodes) = 0 /\ \A t \in Threads : pc[t] = "idle"
  BY DEF Init
<1> QED
  BY <1>1 DEF TimesInv, Stamped

LEMMA TimesNext ==
  TypeOK /\ OrderInv /\ StampInv /\ TimesInv /\ ~ setback' /\ [Next]_vars => TimesInv'
<1> SUFFICES ASSUME TypeOK, OrderInv, StampInv, TimesInv, ~ setback', [Next]_vars
             PROVE  TimesInv'
  OBVIOUS
<1>0. /\ call \in [Threads -> Calls] /\ pc \in [Threads -> States]
      /\ Len(nodes) \in Nat /\ nodes \in Seq(Nodes) /\ clock \in Nat
  BY FieldTypes DEF TypeOK
<1>1. ASSUME NEW t \in Threads, New(t)
      PROVE  TimesInv'
  <2>1. \A u \in Threads : pc'[u] \in Stamped => pc[u] = pc'[u] /\ call'[u] = call[u]
    BY <1>0, <1>1 DEF New, Stamped
  <2> QED
    BY <1>0, <1>1, <2>1, TimesUnchanged DEF New
<1>2. ASSUME NEW t \in Threads, NEW from, NEW to, ReadClock(t, from, to),
             to \in Stamped => from \in Stamped
      PROVE  TimesInv'
  <2>1. \A u \in Threads : call'[u].began = call[u].began /\ call'[u].now = call[u].now
    BY <1>0, <1>2 DEF ReadClock, Calls
  <2>2. \A u \in Threads : pc'[u] \in Stamped => pc[u] \in Stamped
    BY <1>0, <1>2 DEF ReadClock
  <2> QED
    BY <1>0, <1>2, <2>1, <2>2, TimesUnchanged DEF ReadClock
<1>3. ASSUME NEW t \in Threads, NEW from, NEW to, DrawId(t, from, to),
             to \in Stamped => from \in Stamped
      PROVE  TimesInv'
  <2>1. /\ pc[t] = from /\ pc' = [pc EXCEPT ![t] = to] /\ UNCHANGED <<clock, nodes>>
        /\ call' = [call EXCEPT ![t].id = ctx']
    BY <1>3, DrawIdEffect
  <2>2. \A u \in Threads : call'[u].began = call[u].began /\ call'[u].now = call[u].now
    BY <1>0, <2>1 DEF Calls
  <2>3. \A u \in Threads : pc'[u] \in Stamped => pc[u] \in Stamped
    BY <1>0, <1>3, <2>1
  <2> QED
    BY <1>0, <2>1, <2>2, <2>3, TimesUnchanged
<1>4. ASSUME NEW t \in Threads, Stamp(t)
      PROVE  TimesInv'
  <2>1. \A u \in Threads : u # t => pc'[u] = pc[u] /\ call'[u] = call[u]
    BY <1>0, <1>4 DEF Stamp
  <2>2. call'[t].now = clock /\ UNCHANGED <<clock, nodes>>
    BY <1>0, <1>4 DEF Stamp, Calls
  <2>3. \A u \in Threads : pc'[u] \in Stamped =>
          \A j \in 1..Len(nodes') :
            j <= call'[u].began => nodes'[j].created_at <= call'[u].now
    BY <2>1, <2>2 DEF TimesInv
  <2> QED
    BY <2>2, <2>3 DEF TimesInv
<1>5. ASSUME NEW t \in Threads, Return(t)
      PROVE  TimesInv'
  <2>1. \A u \in Threads : pc'[u] \in Stamped => u # t /\ pc[u] = pc'[u] /\ call'[u] = call[u]
    BY <1>0, <1>5 DEF Return, Stamped
  <2>2. CASE UNCHANGED nodes
    BY <1>0, <1>5, <2>1, <2>2, TimesUnchanged DEF Return
  <2>3. CASE Required \subseteq call[t].fields
    <3>1. /\ Len(nodes') = Len(nodes) + 1
          /\ \A k \in 1..Len(nodes) : nodes'[k] = nodes[k]
          /\ nodes'[Len(nodes) + 1].created_at = call[t].now
          /\ nodes'[Len(nodes) + 1].began = call[t].began
          /\ clock' = clock
      BY <1>0, <1>5, <2>3 DEF Return
    <3>2. \A k \in 1..Len(nodes') : k \in 1..Len(nodes) \/ k = Len(nodes) + 1
      BY <1>0, <3>1
    <3>3. /\ pc[t] \in Stamped /\ call[t].now <= clock
          /\ call[t].now \in Nat
      BY <1>5, FieldTypes DEF Return, Stamped, StampInv
    <3>4. \A k \in 1..Len(nodes') : nodes'[k].created_at <= clock'
      BY <3>1, <3>2, <3>3 DEF TimesInv
    <3>5. \A u \in Threads : pc'[u] \in Stamped =>
            \A j \in 1..Len(nodes') :
              j <= call'[u].began => nodes'[j].created_at <= call'[u].now
      <4> SUFFICES ASSUME NEW u \in Threads, pc'[u] \in Stamped,
                          NEW j \in 1..Len(nodes'), j <= call'[u].began
                   PROVE  nodes'[j].created_at <= call'[u].now
        OBVIOUS
      <4>1. pc[u] \in Stamped /\ call'[u] = call[u]
        BY <2>1
      <4>2. j \in 1..Len(nodes)
        BY <1>0, <3>1, <3>2, <4>1, FieldTypes DEF OrderInv
      <4> QED
        BY <3>1, <4>1, <4>2 DEF TimesInv
    <3>6. \A j, k \in 1..Len(nodes') :
            j <= nodes'[k].began => nodes'[j].created_at <= nodes'[k].created_at
      <4> SUFFICES ASSUME NEW j \in 1..Len(nodes'), NEW k \in 1..Len(nodes'),
                          j <= nodes'[k].began
                   PROVE  nodes'[j].created_at <= nodes'[k].created_at
        OBVIOUS
      <4>1. j \in 1..Len(nodes)
        BY <1>0, <3>1, <3>2, FieldTypes DEF OrderInv
      <4>2. CASE k \in 1..Len(nodes)
        BY <3>1, <4>1, <4>2 DEF TimesInv
      <4>3. CASE k = Len(nodes) + 1
        BY <3>1, <3>3, <4>1, <4>3 DEF TimesInv
      <4> QED
        BY <3>2, <4>2, <4>3
    <3> QED
      BY <3>4, <3>5, <3>6 DEF TimesInv
  <2> QED
    BY <1>5, <2>2, <2>3 DEF Return
<1>6. CASE Tick
  BY <1>0, <1>6, TimesUnchanged DEF Tick
<1>7. CASE Restart
  <2>1. \A u \in Threads : pc'[u] \notin Stamped
    BY <1>7 DEF Restart, Stamped
  <2> QED
    BY <1>0, <1>7, <2>1, TimesUnchanged DEF Restart
<1>8. CASE UNCHANGED vars
  BY <1>0, <1>8, TimesUnchanged DEF vars
<1>9. ~ StepBack
  BY DEF StepBack
<1>10. ASSUME NEW t \in Threads, Build(t)
       PROVE  TimesInv'
  <2>1. ReadClock(t, "fluent", "minting") \/ ReadClock(t, "default", "drawing") => TimesInv'
    BY <1>2 DEF Stamped
  <2>2. DrawId(t, "minting", "fluent") \/ DrawId(t, "drawing", "drawn") => TimesInv'
    BY <1>3 DEF Stamped
  <2> QED
    BY <1>1, <1>4, <1>5, <1>10, <2>1, <2>2 DEF Build, Mint, DefaultId
<1> QED
  BY <1>6, <1>7, <1>8, <1>9, <1>10 DEF Next

\* While the server's clock has not been set back, identifier order and created_at disagree
\* only about nodes whose builds overlapped (FileNodeBuilder::build, FileId::new).
THEOREM InversionsOnlyOverlap == Spec => []InversionsOverlap
<1>1. Spec => [](TypeOK /\ BehindCtx)
  <2>1. UniqueInv => TypeOK /\ BehindCtx
    BY DEF UniqueInv
  <2> QED
    BY <2>1, UniqueInit, UniqueNext, PTL DEF Spec
<1>2. Spec => [](OrderInv /\ (setback \/ StampInv))
  BY <1>1, OrderInit, OrderNext, StampInit, StampNext, SetBackForGood, PTL DEF Spec
<1>3. Spec => [](setback \/ TimesInv)
  BY <1>1, <1>2, TimesInit, TimesNext, SetBackForGood, PTL DEF Spec
<1>4. TypeOK /\ OrderInv /\ (setback \/ TimesInv) => InversionsOverlap
  <2> SUFFICES ASSUME TypeOK, OrderInv, TimesInv,
                      NEW j \in 1..Len(nodes), NEW k \in 1..Len(nodes),
                      nodes[j].own, nodes[k].own, nodes[j].boot = nodes[k].boot,
                      Older(nodes[j].id, nodes[k].id),
                      nodes[j].created_at > nodes[k].created_at
               PROVE  j > nodes[k].began /\ k > nodes[j].began
    BY DEF InversionsOverlap
  <2>1. ~ (j <= nodes[k].began)
    BY FieldTypes DEF TimesInv
  <2>2. ~ (k <= nodes[j].began)
    BY FieldTypes, OlderStrict DEF OrderInv, IdsFollowRealTime
  <2> QED
    BY <2>1, <2>2, FieldTypes
<1> QED
  BY <1>1, <1>2, <1>3, <1>4, PTL

-------------------------------------------------------------------------------
(* Refinement of IdSource. *)

IssuedBehindCtx == \A k \in 1..Len(issued) : NotAfter(issued[k], ctx)

LEMMA IssuedNext == TypeOK /\ IssuedBehindCtx /\ [Next]_vars => IssuedBehindCtx'
<1> SUFFICES ASSUME TypeOK, IssuedBehindCtx, [Next]_vars
             PROVE  IssuedBehindCtx'
  OBVIOUS
<1>1. ASSUME NEW t \in Threads, NEW from, NEW to, DrawId(t, from, to)
      PROVE  IssuedBehindCtx'
  <2>1. ctx \in Ids /\ ctx' \in Ids /\ Older(ctx, ctx') /\ issued' = Append(issued, ctx')
    BY <1>1, DrawIdEffect DEF TypeOK
  <2>2. /\ Len(issued) \in Nat /\ Len(issued') = Len(issued) + 1
        /\ \A k \in 1..Len(issued) : issued[k] \in Ids /\ issued'[k] = issued[k]
        /\ issued'[Len(issued) + 1] = ctx'
    BY <2>1 DEF TypeOK
  <2>3. \A k \in 1..Len(issued) : Older(issued[k], ctx')
    BY <2>1, <2>2, LaterThanBehind DEF IssuedBehindCtx
  <2>4. \A k \in 1..Len(issued') : k \in 1..Len(issued) \/ k = Len(issued) + 1
    BY <2>2
  <2> QED
    BY <2>2, <2>3, <2>4 DEF IssuedBehindCtx, NotAfter
<1>2. CASE Restart
  BY <1>2 DEF Restart, IssuedBehindCtx
<1>3. CASE UNCHANGED <<ctx, issued>>
  BY <1>3 DEF IssuedBehindCtx
<1> QED
  BY <1>1, <1>2, <1>3
     DEF Next, Build, New, Mint, ReadClock, Stamp, DefaultId, Return, Tick, StepBack, vars

LEMMA IssueStep == TypeOK /\ IssuedBehindCtx /\ [Next]_vars => [Source!Next]_issued
<1> SUFFICES ASSUME TypeOK, IssuedBehindCtx, [Next]_vars
             PROVE  [Source!Next]_issued
  OBVIOUS
<1>1. ASSUME NEW t \in Threads, NEW from, NEW to, DrawId(t, from, to)
      PROVE  Source!Issue
  <2>1. /\ ctx \in Ids /\ ctx' \in Ids /\ Older(ctx, ctx') /\ issued' = Append(issued, ctx')
        /\ issued \in Seq(Ids)
    BY <1>1, DrawIdEffect DEF TypeOK
  <2>2. /\ Len(issued') = Len(issued) + 1
        /\ issued'[Len(issued')] = ctx'
        /\ SubSeq(issued', 1, Len(issued)) = issued
    BY <2>1
  <2>3. \A k \in 1..Len(issued) : Older(issued[k], ctx')
    BY <2>1, LaterThanBehind DEF IssuedBehindCtx
  <2> QED
    BY <2>2, <2>3 DEF Source!Issue, Older
<1>2. CASE Restart
  BY <1>2 DEF Restart, Source!Restart, Source!Next
<1>3. CASE UNCHANGED issued
  BY <1>3
<1> QED
  BY <1>1, <1>2, <1>3
     DEF Next, Build, New, Mint, ReadClock, Stamp, DefaultId, Return, Tick, StepBack, vars,
         Source!Next

\* However the threads interleave around the context's lock, a process hands its
\* identifiers out one at a time, each later than all before it (types.rs,
\* newtype_uuid_id!, over Uuid::now_v7).
THEOREM ImplementsIdSource == Spec => IdSourceSpec
<1>1. Init => Source!Init /\ IssuedBehindCtx
  BY DEF Init, Source!Init, IssuedBehindCtx
<1>2. Spec => []IssuedBehindCtx
  BY <1>1, TypeCorrect, IssuedNext, PTL DEF Spec
<1>3. Spec => Source!Spec
  BY <1>1, <1>2, TypeCorrect, IssueStep, PTL DEF Spec, Source!Spec
<1> QED
  BY <1>3 DEF IdSourceSpec
===============================================================================
