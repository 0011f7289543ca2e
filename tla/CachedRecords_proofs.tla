-------------------------- MODULE CachedRecords_proofs --------------------------
(***************************************************************************)
(* Proofs about CachedRecords: a record of which serde skips no field is   *)
(* read through the cache as if from the database, for any number of       *)
(* readers and of updates.                                                 *)
(***************************************************************************)
EXTENDS CachedRecords, TLAPS

(* A record whose JSON has all its fields is read back as it was written.   *)
LEMMA RoundTrip ==
  ASSUME Record = "FileNode", NEW r \in Records
  PROVE  FromJson(ToJson(r)) = Ok(r)
<1>1. Fields = {"data", "parent_id"} /\ DOMAIN ToJson(r) = Fields
  BY DEF Fields, ToJson, SkipSerializing
<1>2. r = [f \in Fields |-> r[f]]
  BY DEF Records, Fields
<1>3. \A f \in Fields : ToJson(r)[f] = r[f]
  BY DEF Fields, ToJson, SkipSerializing
<1>4. [f \in Fields |-> IF f \in DOMAIN ToJson(r) THEN ToJson(r)[f] ELSE "none"] = r
  BY <1>1, <1>2, <1>3
<1> QED
  BY <1>1, <1>4 DEF FromJson

(* What is in the cache was written by some reader from a record of the     *)
(* database, and a reader that has loaded one holds such a record.          *)
CacheInv ==
  /\ store \in past /\ past \subseteq Records
  /\ copy \in [Readers -> past]
  /\ cache = NoEntry \/ \E r \in past : cache = ToJson(r)
  /\ result \in [Readers -> {InternalError} \cup {Ok(r) : r \in past}]

LEMMA CacheInvHolds ==
  ASSUME Record = "FileNode"
  PROVE  Spec => []CacheInv
<1>1. Init => CacheInv
  BY DEF Init, CacheInv
<1>2. CacheInv /\ [Next]_vars => CacheInv'
  <2> SUFFICES ASSUME CacheInv, [Next]_vars
               PROVE  CacheInv'
    OBVIOUS
  <2> USE DEF CacheInv
  <2>1. ASSUME NEW t \in Readers, Get(t)
        PROVE  CacheInv'
    <3>1. CASE cache = NoEntry
      BY <2>1, <3>1 DEF Get
    <3>2. CASE cache # NoEntry
      <4>1. PICK r \in past : cache = ToJson(r)
        BY <3>2
      <4>2. FromJson(cache) = Ok(r)
        BY <4>1, RoundTrip
      <4> QED
        BY <2>1, <3>2, <4>2 DEF Get
    <3> QED
      BY <3>1, <3>2
  <2>2. ASSUME NEW t \in Readers, Load(t)
        PROVE  CacheInv'
    BY <2>2 DEF Load
  <2>3. ASSUME NEW t \in Readers, Set(t)
        PROVE  CacheInv'
    BY <2>3 DEF Set
  <2>8. ASSUME NEW t \in Readers, GetError(t)
        PROVE  CacheInv'
    BY <2>8 DEF GetError
  <2>9. ASSUME NEW t \in Readers, SetError(t)
        PROVE  CacheInv'
    BY <2>9 DEF SetError
  <2>4. ASSUME Update
        PROVE  CacheInv'
    BY <2>4 DEF Update
  <2>5. ASSUME Invalidate \/ InvalidateError
        PROVE  CacheInv'
    BY <2>5 DEF Invalidate, InvalidateError
  <2>6. ASSUME Expire
        PROVE  CacheInv'
    BY <2>6 DEF Expire
  <2>7. ASSUME UNCHANGED vars
        PROVE  CacheInv'
    BY <2>7 DEF vars
  <2> QED
    BY <2>1, <2>2, <2>3, <2>4, <2>5, <2>6, <2>7, <2>8, <2>9 DEF Next
<1> QED
  BY <1>1, <1>2, PTL DEF Spec

(* Whatever readers, the writer and expiry do, a reader of file nodes gets  *)
(* a node that the database has held (CacheProvider, FileNode's derives).   *)
THEOREM NodesReadWereStored ==
  ASSUME Record = "FileNode"
  PROVE  Spec => []ReadsWereStored
<1>1. CacheInv => ReadsWereStored
  BY DEF CacheInv, ReadsWereStored, Ok, InternalError
<1> QED
  BY <1>1, CacheInvHolds, PTL

-------------------------------------------------------------------------------
(* The types, for every record. *)

LEMMA FieldTypes ==
  ASSUME NEW r \in Records
  PROVE  /\ r.data \in 0..MaxVersion
         /\ Record = "FileNode" => r.parent_id \in Options
         /\ Record = "ShareLink" => r.password_hash \in Options
         /\ Record = "User" => r.password_hash = "some"
<1>1. CASE Record = "FileNode"
  BY <1>1 DEF Records
<1>2. CASE Record = "ShareLink"
  BY <1>2 DEF Records
<1>3. CASE Record = "User"
  BY <1>3 DEF Records
<1> QED
  BY <1>1, <1>2, <1>3, CachedRecordsAssumption

(* What can be read from JSON that lacks no required field is a record.     *)
LEMMA FromJsonType ==
  ASSUME NEW j \in Jsons
  PROVE  FromJson(j) \in {SerializationError} \cup {Ok(r) : r \in Records}
<1>1. PICK S \in SUBSET Fields, r \in Records : j = [f \in S |-> r[f]]
  BY DEF Jsons
<1>2. DOMAIN j = S /\ \A f \in S : j[f] = r[f]
  BY <1>1
<1>3. SUFFICES ASSUME Fields \ Optional \subseteq S
               PROVE  [f \in Fields |-> IF f \in S THEN r[f] ELSE "none"] \in Records
  <2>1. [f \in Fields |-> IF f \in S THEN r[f] ELSE "none"]
          = [f \in Fields |-> IF f \in DOMAIN j THEN j[f] ELSE "none"]
    BY <1>2
  <2> QED
    BY <1>2, <1>3, <2>1 DEF FromJson
<1>4. CASE Record = "FileNode"
  BY <1>3, <1>4, FieldTypes DEF Records, Fields, Optional, Options
<1>5. CASE Record = "ShareLink"
  BY <1>3, <1>5, FieldTypes DEF Records, Fields, Optional, Options
<1>6. CASE Record = "User"
  BY <1>3, <1>6, FieldTypes DEF Records, Fields, Optional, Options
<1> QED
  BY <1>4, <1>5, <1>6, CachedRecordsAssumption

LEMMA ToJsonType ==
  ASSUME NEW r \in Records
  PROVE  ToJson(r) \in Jsons
<1> DEFINE S == Fields \ SkipSerializing
<1>1. S \in SUBSET Fields
  OBVIOUS
<1>2. \A T \in SUBSET Fields : [f \in T |-> r[f]] \in Jsons
  BY DEF Jsons
<1>3. ToJson(r) = [f \in S |-> r[f]]
  BY DEF ToJson
<1> HIDE DEF S
<1> QED
  BY <1>1, <1>2, <1>3

(* Whatever a reader gets back is typed, a missing field included.          *)
THEOREM TypeCorrect == Spec => []TypeOK
<1>1. Init => TypeOK
  BY DEF Init, TypeOK
<1>2. TypeOK /\ [Next]_vars => TypeOK'
  <2> SUFFICES ASSUME TypeOK, [Next]_vars
               PROVE  TypeOK'
    OBVIOUS
  <2> USE DEF TypeOK
  <2>1. ASSUME NEW t \in Readers, Get(t)
        PROVE  TypeOK'
    <3>1. CASE cache = NoEntry
      BY <2>1, <3>1 DEF Get
    <3>2. CASE cache # NoEntry
      <4>1. FromJson(cache) \in {SerializationError} \cup {Ok(r) : r \in Records}
        BY <3>2, FromJsonType
      <4> QED
        BY <2>1, <3>2, <4>1 DEF Get
    <3> QED
      BY <3>1, <3>2
  <2>2. ASSUME NEW t \in Readers, Load(t)
        PROVE  TypeOK'
    BY <2>2 DEF Load
  <2>3. ASSUME NEW t \in Readers, Set(t)
        PROVE  TypeOK'
    <3>1. copy[t] \in Records /\ ToJson(copy[t]) \in Jsons
      BY <2>3, ToJsonType
    <3> QED
      BY <2>3, <3>1 DEF Set
  <2>8. ASSUME NEW t \in Readers, GetError(t)
        PROVE  TypeOK'
    BY <2>8 DEF GetError
  <2>9. ASSUME NEW t \in Readers, SetError(t)
        PROVE  TypeOK'
    <3>1. copy[t] \in Records /\ ToJson(copy[t]) \in Jsons
      BY <2>9, ToJsonType
    <3> QED
      BY <2>9, <3>1 DEF SetError
  <2>4. ASSUME Update
        PROVE  TypeOK'
    BY <2>4 DEF Update
  <2>5. ASSUME Invalidate \/ InvalidateError
        PROVE  TypeOK'
    BY <2>5 DEF Invalidate, InvalidateError
  <2>6. ASSUME Expire
        PROVE  TypeOK'
    BY <2>6 DEF Expire
  <2>7. ASSUME UNCHANGED vars
        PROVE  TypeOK'
    BY <2>7 DEF vars
  <2> QED
    BY <2>1, <2>2, <2>3, <2>4, <2>5, <2>6, <2>7, <2>8, <2>9 DEF Next
<1> QED
  BY <1>1, <1>2, PTL DEF Spec

-------------------------------------------------------------------------------
(* Reading what was written, when no required field is skipped. *)

ReadableInv ==
  /\ cache # NoEntry => Fields \ Optional \subseteq DOMAIN cache
  /\ result = [t \in Readers |-> result[t]]
  /\ \A t \in Readers : result[t] # SerializationError

(* A share link or a file node that was put into the cache can always be    *)
(* deserialised, though the link's hash is skipped: the hash is optional       *)
(* (ShareLink's and FileNode's derives, CacheProvider).                     *)
THEOREM EntriesAreReadable ==
  ASSUME Record # "User"
  PROVE  Spec => []EntriesReadable
<1>0. InternalError # SerializationError /\ \A r : Ok(r) # SerializationError
  <2>1. InternalError.error # SerializationError.error
    BY DEF InternalError, SerializationError
  <2>2. \A r : Ok(r).ok /\ ~ SerializationError.ok
    BY DEF Ok, SerializationError
  <2> QED
    BY <2>1, <2>2
<1>1. Init => ReadableInv
  BY <1>0 DEF Init, ReadableInv
<1>2. \A r : Fields \ Optional \subseteq DOMAIN ToJson(r)
  <2>1. Fields \ Optional \subseteq Fields \ SkipSerializing
    <3>1. CASE Record = "FileNode"
      BY <3>1 DEF Fields, Optional, SkipSerializing
    <3>2. CASE Record = "ShareLink"
      BY <3>2 DEF Fields, Optional, SkipSerializing
    <3> QED
      BY <3>1, <3>2, CachedRecordsAssumption
  <2> QED
    BY <2>1 DEF ToJson
<1>3. ReadableInv /\ [Next]_vars => ReadableInv'
  <2> SUFFICES ASSUME ReadableInv, [Next]_vars
               PROVE  ReadableInv'
    OBVIOUS
  <2> USE DEF ReadableInv
  <2>1. ASSUME NEW t \in Readers, Get(t)
        PROVE  ReadableInv'
    <3>1. CASE cache = NoEntry
      BY <2>1, <3>1 DEF Get
    <3>2. CASE cache # NoEntry
      <4>1. FromJson(cache) # SerializationError
        BY <1>0, <3>2 DEF FromJson
      <4> QED
        BY <2>1, <3>2, <4>1 DEF Get
    <3> QED
      BY <3>1, <3>2
  <2>2. ASSUME NEW t \in Readers, Set(t)
        PROVE  ReadableInv'
    BY <1>0, <1>2, <2>2 DEF Set
  <2>5. ASSUME NEW t \in Readers, GetError(t) \/ SetError(t)
        PROVE  ReadableInv'
    <3>1. CASE GetError(t)
      BY <1>0, <3>1 DEF GetError
    <3>2. CASE SetError(t)
      BY <1>0, <1>2, <3>2 DEF SetError
    <3> QED
      BY <2>5, <3>1, <3>2
  <2>3. ASSUME \/ \E t \in Readers : Load(t)
               \/ Update
               \/ UNCHANGED vars
        PROVE  ReadableInv'
    BY <2>3 DEF Load, Update, vars
  <2>4. ASSUME Invalidate \/ InvalidateError \/ Expire
        PROVE  ReadableInv'
    BY <2>4 DEF Invalidate, InvalidateError, Expire
  <2> QED
    BY <2>1, <2>2, <2>3, <2>4, <2>5 DEF Next
<1>4. ReadableInv => EntriesReadable
  BY DEF ReadableInv, EntriesReadable
<1> QED
  BY <1>1, <1>3, <1>4, PTL DEF Spec
===============================================================================
