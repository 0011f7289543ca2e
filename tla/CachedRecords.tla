------------------------------ MODULE CachedRecords ------------------------------
(***************************************************************************)
(* Records read through the JSON cache: the serde attributes of the models *)
(* (file.rs, share.rs, user.rs) and the CacheProvider contract (cache.rs). *)
(*                                                                         *)
(* A field is skipped when a record is written as JSON, and a missing      *)
(* field is None or an error when it is read back; both are decided by     *)
(* each record's derives.  The cache, the database behind it and the       *)
(* callers that use them in turn are external: a reader asks the cache,    *)
(* loads from the database on a miss and puts the record into the cache; a *)
(* writer changes the database and then invalidates the entry.  Each call  *)
(* of the cache may fail on the backend; its caller then goes on without   *)
(* the cache, or gives up.                                                 *)
(***************************************************************************)
EXTENDS Naturals

CONSTANTS
  Record,       \* the type of the record: "FileNode", "ShareLink" or "User"
  Readers,      \* the tasks that read through the cache
  NoEntry,      \* a cache miss
  MaxVersion    \* bound on the updates of the record

VARIABLES
  store,     \* the record in the database
  past,      \* history: every record the database has held
  cache,     \* the JSON under the record's key
  stale,     \* has the writer yet to invalidate the entry?
  pc,        \* where each reader is
  copy,      \* the record each reader loaded
  result     \* what each reader's last read returned

vars == <<store, past, cache, stale, pc, copy, result>>

-------------------------------------------------------------------------------
(* The records and their JSON. *)

Options == {"none", "some"}

(***************************************************************************)
(* Of each record, "data" for the fields that are always there, and the    *)
(* one that may be None or that serde treats apart.                        *)
(***************************************************************************)
Records ==
  CASE Record = "FileNode"  -> [data : 0..MaxVersion, parent_id : Options]
    [] Record = "ShareLink" -> [data : 0..MaxVersion, password_hash : Options]
    [] Record = "User"      -> [data : 0..MaxVersion, password_hash : {"some"}]

Fields == IF Record = "FileNode" THEN {"data", "parent_id"} ELSE {"data", "password_hash"}

\* Slip: the parent of a node is left out of its JSON like a password.
SkipParent == {"password_hash", "parent_id"}

\* Slip: a field is skipped that no record can be read without.
SkipRequired == {"password_hash", "data"}

SkipSerializing == {"password_hash"}

\* The fields of type Option: None when they are missing.
Optional ==
  CASE Record = "FileNode" -> {"parent_id"}
    [] Record = "ShareLink" -> {"password_hash"}
    [] OTHER -> {}

ToJson(r) == [f \in Fields \ SkipSerializing |-> r[f]]

Ok(r) == [ok |-> TRUE, record |-> r]

\* AppError::Serialization, from serde_json::Error, and AppError::Internal.
SerializationError == [ok |-> FALSE, error |-> "Serialization"]
InternalError == [ok |-> FALSE, error |-> "Internal"]

\* Slip: only the required fields are read back.
FromJsonRequired(j) ==
  IF Fields \ Optional \subseteq DOMAIN j
    THEN Ok([f \in Fields \ Optional |-> j[f]])
    ELSE SerializationError

FromJson(j) ==
  IF Fields \ Optional \subseteq DOMAIN j
    THEN Ok([f \in Fields |-> IF f \in DOMAIN j THEN j[f] ELSE "none"])
    ELSE SerializationError

IsPasswordProtected(link) == link.password_hash = "some"

Jsons == UNION {{[f \in S |-> r[f]] : S \in SUBSET Fields} : r \in Records}

ASSUME CachedRecordsAssumption ==
  /\ Record \in {"FileNode", "ShareLink", "User"}
  /\ MaxVersion \in Nat
  /\ NoEntry \notin Jsons

Init ==
  /\ store \in {r \in Records : r.data = 0}
  /\ past = {store}
  /\ cache = NoEntry
  /\ stale = FALSE
  /\ pc = [r \in Readers |-> "idle"]
  /\ copy = [r \in Readers |-> store]
  /\ result = [r \in Readers |-> Ok(store)]

-------------------------------------------------------------------------------
(* CacheProvider::get: a miss, or what can be read from the entry. *)
Get(r) ==
  /\ pc[r] = "idle"
  /\ \/ /\ cache = NoEntry
        /\ pc' = [pc EXCEPT ![r] = "missed"]
        /\ UNCHANGED result
     \/ /\ cache # NoEntry
        /\ result' = [result EXCEPT ![r] = FromJson(cache)]
        /\ UNCHANGED pc
  /\ UNCHANGED <<store, past, cache, stale, copy>>

(* A backend error: the reader fails, or asks the database. *)
GetError(r) ==
  /\ pc[r] = "idle"
  /\ \/ result' = [result EXCEPT ![r] = InternalError] /\ UNCHANGED pc
     \/ pc' = [pc EXCEPT ![r] = "missed"] /\ UNCHANGED result
  /\ UNCHANGED <<store, past, cache, stale, copy>>

Load(r) ==
  /\ pc[r] = "missed"
  /\ pc' = [pc EXCEPT ![r] = "loaded"]
  /\ copy' = [copy EXCEPT ![r] = store]
  /\ UNCHANGED <<store, past, cache, stale, result>>

(* CacheProvider::set of the record just loaded, which is also returned. *)
Set(r) ==
  /\ pc[r] = "loaded"
  /\ pc' = [pc EXCEPT ![r] = "idle"]
  /\ cache' = ToJson(copy[r])
  /\ result' = [result EXCEPT ![r] = Ok(copy[r])]
  /\ UNCHANGED <<store, past, stale, copy>>

(* A backend error, before or after the entry was written; none of these *)
(* records fails to be serialised. *)
SetError(r) ==
  /\ pc[r] = "loaded"
  /\ pc' = [pc EXCEPT ![r] = "idle"]
  /\ cache' \in {cache, ToJson(copy[r])}
  /\ \E answer \in {Ok(copy[r]), InternalError} : result' = [result EXCEPT ![r] = answer]
  /\ UNCHANGED <<store, past, stale, copy>>

Update ==
  /\ ~ stale
  /\ \E new \in Records :
       /\ new.data = store.data + 1
       /\ store' = new
       /\ past' = past \cup {new}
  /\ stale' = TRUE
  /\ UNCHANGED <<cache, pc, copy, result>>

(* CacheProvider::delete after an update. *)
Invalidate ==
  /\ stale
  /\ stale' = FALSE
  /\ cache' = NoEntry
  /\ UNCHANGED <<store, past, pc, copy, result>>

(* A backend error: the writer has done its update, and the entry stays. *)
InvalidateError ==
  /\ stale
  /\ stale' = FALSE
  /\ UNCHANGED <<store, past, cache, pc, copy, result>>

\* Slip: the time to live begins anew while somebody may read the entry.
ExpireUnread ==
  /\ cache # NoEntry /\ \A r \in Readers : pc[r] # "idle"
  /\ cache' = NoEntry
  /\ UNCHANGED <<store, past, stale, pc, copy, result>>

(* The entry's time to live has passed, or the cache is full. *)
Expire ==
  /\ cache # NoEntry
  /\ cache' = NoEntry
  /\ UNCHANGED <<store, past, stale, pc, copy, result>>

Next ==
  \/ \E r \in Readers : Get(r) \/ GetError(r) \/ Load(r) \/ Set(r) \/ SetError(r)
  \/ Update
  \/ Invalidate \/ InvalidateError
  \/ Expire

\* Readers and the writer finish what they have begun, and an entry that stays expires.
Fairness ==
  /\ \A r \in Readers : WF_vars(Load(r)) /\ WF_vars(Set(r) \/ SetError(r))
  /\ WF_vars(Invalidate \/ InvalidateError)
  /\ WF_vars(Expire)

Spec == Init /\ [][Next]_vars /\ Fairness

-------------------------------------------------------------------------------
(* Properties. *)

(* Every variable keeps its type.                                           *)
TypeOK ==
  /\ store \in Records /\ past \subseteq Records /\ store \in past
  /\ cache \in Jsons \cup {NoEntry}
  /\ stale \in BOOLEAN
  /\ pc \in [Readers -> {"idle", "missed", "loaded"}]
  /\ copy \in [Readers -> past]
  /\ result \in [Readers -> {SerializationError, InternalError} \cup {Ok(r) : r \in Records}]

(* A reader gets a record that the database has held, whether it came from  *)
(* the cache or not: the cache's JSON is "opaque to callers" (cache.rs).    *)
ReadsWereStored == \A r \in Readers : result[r].ok => result[r].record \in past

(* A link that is read through the cache requires a password if the link of *)
(* the database did: "Return `true` if this link requires a password to     *)
(* access" (ShareLink::is_password_protected).                              *)
ProtectionKept ==
  \A r \in Readers : result[r].ok =>
    \E link \in past :
      /\ link.data = result[r].record.data
      /\ IsPasswordProtected(link) <=> IsPasswordProtected(result[r].record)

(* What a caller has put into the cache it can read back: get() fails with  *)
(* AppError::Serialization for no entry that set() stored (cache.rs).       *)
EntriesReadable == \A r \in Readers : result[r] # SerializationError

(* Once updates cease, the cache in the end misses or yields the record in  *)
(* the database, and stays so, though a reader may have put an old copy     *)
(* into it after it was invalidated, or the invalidation has failed         *)
(* (CacheProvider: set, delete).                                            *)
FreshAgain ==
  <>[][~ Update]_vars => <>[](cache # NoEntry => FromJson(cache) = Ok(store))
===============================================================================
