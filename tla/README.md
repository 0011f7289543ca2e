# Verification of jiezi-cloud

TLA+ models of Jiezi Cloud's core vocabulary crate, the TLC runs that check them on small
instances, and TLAPS proofs of the theorems that hold for all of them.

## 1. The system

Jiezi Cloud is a Rust workspace for a self-hosted cloud drive. At this commit only one of its
crates, `jiezi-cloud-core`, has code; it defines the types, records, events and service traits that
all others will share. The other crates (auth, vfs, storage, search, share, sync, preview, ai,
migration) are module declarations and a line announcing the phase that will implement them, and
the server sets up logging and returns. So the checkable logic is what core computes and decides,
and the hard part is that it is written to be called by many threads at once, on copies of shared
records, with clocks read at different moments.

| Component | State | Operations | Interacts with | What makes it correct |
|---|---|---|---|---|
| identifiers (`types.rs`) | the UUIDv7 context, one per process, inside the `uuid` crate | `new`, `default`, order | every record; the wall clock | unique; ordered as issued, whatever the clock and the threads do |
| file nodes (`models/file.rs`) | a builder moved from call to call | setters, `build` | identifiers, the wall clock (read a second time) | the stamps of one node and the identifiers of several agree as far as they can |
| pagination (`types.rs`) | none | `offset`, `limit`, `total_pages`, `has_next` | listings, search results | no overflow; windows tile the listing; `has_next` exact |
| listings (`traits/vfs.rs`, `traits/search.rs`) | external | `list_children`, `search` | pagination; concurrent changes | a walk loses or repeats no more than the changes explain, and ends |
| share links (`models/share.rs`) | a record in a store | `is_valid_at`, `is_password_protected` | sessions holding copies; the clock | bounded overshoot; an invalid link is revived by nothing but the clock; no wrong refusal |
| spaces (`models/space.rs`) | a record with quota and usage | `is_quota_exceeded`, `remaining_quota` | uploads | bounded overshoot |
| chunks, uploads (`models/chunk.rs`) | a session record | `is_complete`, `progress` | storage, retries | complete exactly once all chunks are there |
| file tree (`traits/vfs.rs`, `models/file.rs`) | the nodes in the database | create, rename, move, soft delete, restore, permanent delete, copy; `is_deleted`, `is_directory` | events, listings | unique names; no cycle, no orphan; the trash takes whole subtrees |
| search index (`traits/search.rs`) | the indexed documents | `index_document`, `delete_document`, `rebuild_index` | events, the tree, tasks | a document for every live node, and it is the current one |
| events (`events.rs`) | what is published and not received | publish, receive | the tree, the indexer | no change goes unnoticed unless its event is lost |
| tasks (`models/task.rs`) | a record with a status | `is_terminal` | workers, restarts | terminal states are final; every task ends |
| users, tokens (`models/user.rs`) | accounts, issued pairs | none | cache, auth | survive serialisation; old claims expire |
| cache (`traits/cache.rs`) | external | `get`, `set`, `delete`, `invalidate_prefix` | every record, serde | what comes out is what went in |
| authorisation (`traits/auth.rs`) | refresh tokens stored and revoked | `login`, `verify_token`, `refresh_token`, `revoke_token`, `assert_permission` over `check_permission` | roles, every operation | one live refresh token per family; a replay ends the family; an error is never taken for a permission |
| errors, health, storage trait | none here | conversions and signatures | all | - |

The hard behaviours are: a clock read before a lock and used inside it; two clock readings in one
operation; a clock that is set back; restarts; decisions on copies that are stale when used; windows
over a listing that moves; events that come late, out of order or not at all; background work
that a restart interrupts; and integers at their limits. `PROJECT.json` lists each hazard at its
line with the properties that would notice it going wrong.

## 2. Plan

In the order of importance, and what is left of each:

1. `IdSource`, `NodeIds`, `NodeIds_proofs` - identifiers and the node builder. Done.
2. `Paging`, `PageWalk`, `Paging_proofs` - pagination and walks. Done.
3. `ShareDownloads`, `ShareDownloads_proofs` - share links. Done.
4. `SpaceQuota`, `SpaceQuota_proofs` - quotas. Done. `WholeUpload`, `UploadSessions`,
   `UploadSessions_proofs` - multipart uploads and what they promise. Done; left: a composition of
   both, an upload that is let in by a quota.
5. `CachedRecords`, `CachedRecords_proofs` - which records survive the JSON of the cache. Done for
   `FileNode`, `ShareLink` and `User`; left: `invalidate_prefix` and the other conversions of
   `error.rs`.
6. `FileTree`, `SearchIndex`, `SearchIndex_proofs` - the tree of nodes, the events of its changes,
   the index that follows them and the task that rebuilds it. Done; left: operations on the tree in
   more than one transaction, once there is an implementation that has them, the other task kinds,
   spaces and their members, which have no operations yet.
7. `AuthTokens`, `AuthTokens_proofs` - tokens and permissions of one user. Done; left: grants scoped
   to a space, registration.
8. Chunks shared by copies and their collection, once something collects them.

Every module is written to be proved about: constants with named assumptions, one action per
operation, invariants as conjunctions of named parts and no recursive operator.

Three traits are modelled although nothing implements them: `VfsService`, `SearchEngine` and
`AuthService`. There the code is the declaration: the errors under which an operation changes
nothing, what it changes otherwise, what its signature passes on, and that it is async. Where a
declaration leaves a choice, the model takes every outcome (an index error, a failed check, a lost
event) or says in a comment which one it takes. `assert_permission` has a body and is modelled from
it.

## 3. The modules

**`IdSource`** is the abstract specification: a process issues identifiers one at a time, each
later than all before; a restart forgets them. Its only variable is the sequence issued.

**`NodeIds`** is how the code does it. A thread's `pc` and `call` are the stack frame of
`FileNodeBuilder` and of `build`. `New` is the constructor and the chain of setters (the builder is
owned by one thread, so the chain is one step); `Mint` is a caller that draws an identifier and
passes it with `.id()`; `Stamp` is the first line of `build`, `let now = Utc::now()`; `DefaultId` is
`self.id.unwrap_or_default()`; `Return` is the rest of the literal, which panics when a required
field is missing. Drawing an identifier takes two steps, `ReadClock` and `DrawId`, because
`Uuid::now_v7` (uuid 1.21, external) reads the clock before it locks the process-wide context.
`NextIds` is that context: a later millisecond reseeds the counter, any other reading counts on, and
a full counter borrows from the next millisecond. `Tick`, `StepBack` and `Restart` are the
environment; `setback` remembers that the clock was set back. `issued`, and the fields `began`, `boot` and `own` of a node, are history for the
properties. Identifiers are a millisecond and a counter; the random rest is left out, so the model
is stricter than the code about uniqueness within a process and says nothing across processes.

**`Paging`** is `offset`, `limit`, `total_pages` and `has_next`, with `MaxU32` for `u32::MAX` and
`u64` twice as wide; the multiplication in `offset` wraps there as in a release build.

**`PageWalk`** is a client that starts at page 1 and asks for the next page while `has_next()` says
so, with one `PageRequest` per `Fetch`, and other users who add and remove entries anywhere in the
order. The listing service is external: an answer is a window of one state with the total of that
same state. A service that counts and selects in two transactions would be weaker, and its
walks can lose entries without any removal.

**`ShareDownloads`** is `ShareLink::is_valid_at` (`Expired`, `Exhausted`, `IsValidAt`) in use: a
session loads the record, judges its copy at the current time, and counts the download afterwards,
or breaks off. Store and sessions are external: loading is atomic and counting is an increment in
the store. `is_valid_at` borrows a record and takes the time as an argument, so a decision on a copy
is what its signature offers. The time is the host's wall clock, the one of `NodeIds`: it ticks and is
set back (`Tick`, `StepBack`). The link's limits do not change.

**`SpaceQuota`** is `remaining_quota` and `is_quota_exceeded` in the same use: a session loads the
space, decides, and adds what it stored to `storage_used` later. Sessions in `sized` know the size
of their file and ask `remaining_quota`; the others ask `is_quota_exceeded`, the only question that
needs no size. Deletions shrink the usage at any time. `MaxU64` is `u64::MAX`.

**`UploadSessions`** is `UploadSession::is_complete` and `progress` while a file is uploaded: the
client sends chunks, repeats them and asks for the state; a handler writes its chunk (`PutChunk`,
idempotent), records and counts it (`Record`), loads the session, judges its copy (`Judge`) and
assembles the file and deletes the session. The store may fail (`PutChunkError`), with the chunk
written or not, and the handler then gives its request up. Handlers crash anywhere, and the session
may expire.
Everything but the two functions and the documented `put_chunk` is external. `Record` is one
transaction that counts a chunk only once. The code does not say how the count is kept, but
`is_complete`, an equality, needs it kept like this: counting in a step of its own loses a chunk in
a crash, and counting every arrival overshoots (slip `RecordEvery`).

**`WholeUpload`** is what an upload session promises its client: each chunk is received for good, the
upload ends once, whole or expired, and when everything has been received it does not stay open for
ever. `UploadSessions` implements it (`Upload`, an `INSTANCE` with a refinement mapping): the upload
is open while the session's record exists, and has received what has been recorded. A step of a
handler is a step of the upload or nothing to it; in particular a handler that found its copy
complete, and acts after another has assembled the file or the session has expired, changes nothing.

**`CachedRecords`** is one record read through the JSON cache. `SkipSerializing` and `Optional` are
the serde attributes of `FileNode`, `ShareLink` and `User`; `ToJson` and `FromJson` are what their
derives do with them, and `Get`, `Set` and `Invalidate` are the methods of `CacheProvider`. Of a
record's fields it keeps one that stands for all that are always present (its version), and the one
that may be missing. Readers ask the cache, load on a miss and put what they loaded; a writer
updates the database and then invalidates. Each of the three calls may fail with `AppError::Internal`
(`GetError`, `SetError`, `InvalidateError`): the reader then fails or goes on without the cache, the
entry may have been written or not, and the writer leaves the old entry where it is. No caller exists
yet: this is the use the trait offers.

**`FileTree`** is the tree of file nodes under the operations of `VfsService`, each a transaction that
does all or, on one of its declared errors, nothing. A node is where it is, its name, and whether
`deleted_at` is set. `Live` is `get_node`. `Below` is what the documented closure table answers, as
the least set closed under children. `SoftDelete` and `PermanentDelete` take what is below along;
`Restore` brings back the node alone, to its parent whether or not that is live, which is what its
declaration says; `Copy` copies the live part of a subtree under new identifiers. A file appears by
`Create` when its upload is complete, as `FileUploaded` says. No declaration asks that a parent be a
directory, so a node may be put below a file. `Forbidden` is an operation that does not take place;
who may do what is in `AuthTokens`. A move below the node is refused as declared, and so is a move
into the node itself, which the declaration does not mention and which would tie the shortest cycle.
Operations are atomic: the declarations show no step within one, so two that check before either
writes are not covered.

**`SearchIndex`** extends it with the index and all that feeds it. `Change` is any operation on the tree
and publishes events: one for the node the operation was called for (`Topmost`), and one or none for
each node below it that changes too, since events.rs does not say how many a subtree has. There is no
variant of `DomainEvent` for a directory that comes into being, nor for a copy, whose files may be
announced as uploaded or not. The indexer takes events in any order, reads the node with
`get_node`, because an event carries no record, and then writes or deletes the document: two
steps, with anything in between. A lagging subscriber loses events and an index error loses one. The
rebuild task is a `BackgroundTask` with its `TaskStatus`: scheduled, cancelled at any time, started by
a worker, which deletes all documents, lists the live nodes, and reads and writes them one at a time
while the indexer goes on; it completes, fails, or notices the cancellation. Where task.rs has only
the states, the saves of the status are the worker's and the task store's, marked external. A crash
loses what is in memory (events, what was read, the worker's list) and keeps what is in the database
or on disk (tree, index, status). Three variables are history. `lost`: nodes whose last change no
event or read will bring to the index. `overtaken`: nodes that changed after the rebuild had read
them, which no lost event explains. `disturbed`: the rebuild has not had the tree to itself.

**`AuthTokens`** is `AuthService` for one user. A token pair carries its family, its time of issue and
the role in its claims. `refresh_token` is two steps, `LookUp` and `Rotate`, since it is async; what
the look-up found is checked again in the transaction that rotates, as "has already been used" demands
of calls that overlap (slip `RotateUnchecked`). A token found revoked, at either step, is a replay and
ends its family. `revoke_token` revokes one token. Permissions: a request is authorised by
`assert_permission`, with the three outcomes `check_permission` can have, and performed later; roles
and suspensions change in between. Tokens expire by the host's wall clock, which may be set back;
`latest` is the latest time it has shown, and what the bounds on old tokens are relative to.
Suspension stops logins; no declaration says that it stops refreshing, and the model does not either.

Each module holds, just before the definition concerned, variants marked *Slip*: the mistakes that
the properties must notice. They are used by no specification.

## 4. The runs

| Run | Shows | Bounds |
|---|---|---|
| `ids_clock` | `UniqueIds` and `IdsFollowRealTime` with a clock set back at any moment, `InversionsOverlap` as long as it is not, and the refinement `IdSourceSpec` | 2 threads, 3 builds, 2 ticks per millisecond, clock up to 2, counter of 2 values, one restart |
| `ids_sortable` | identifier order is not creation order (finding) | the same with 1 tick per millisecond |
| `walk_churn` | `MissedAtMostRemoved`, `RepeatsAtMostAdded`, `FaithfulWhileQuiet`, `NextPageExists` from page 1 on, and `WalkEnds` under weak fairness of the client | 5 entries, pages of 0 to 3, page numbers up to 4, so that walks of single entries run out of page numbers |
| `walk_page_zero` | `has_next()` at page 0 (finding) | 3 entries, nobody changes them |
| `cache_files` | `ReadsWereStored`, `EntriesReadable`, `FreshAgain` for file nodes | 2 readers, 2 updates, any number of failures of the cache |
| `cache_link_hash` | a share link loses its password in the cache (finding) | the same |
| `cache_users` | a user cannot be read back, `EntriesReadable` (finding) | the same |
| `quota_race` | `OvershootBounded`, `OverrunOnOldCopies` | 3 sessions, any of which know their sizes, files of 0 to 2, quotas 0, 1 and none |
| `uploads` | `AssembledWhole`, `ProgressInRange`, `EventuallyAssembled` and the refinement `WholeUploadSpec`, with its liveness | 2 handlers, files of 0, 1 and 2 chunks, one crash, any number of store failures |
| `search_rebuild` | `NamesUnique`, `Rooted`, `StraysAreRestored` of the tree; `StaleIsExplained` and `RebuildHeals` of the index; `TerminalIsFinal` and `TaskEnds` of the task | 2 directories, 2 files, 2 names, 4 initial trees, 2 changes, one crash, any number of rebuilds |
| `tokens` | `OneLivePerFamily`, `ReplayEndsFamily`, `StaleRoleBounded`, `PermittedByRole` | 2 overlapping refreshes, 3 token pairs in one to three families, access tokens of 1 second, refresh tokens of 2, clock up to 2 and set back at any time, 2 roles, one request at a time |
| `share_race` | `OvershootBounded`, `RevivedByClockOnly`, `RefusalIsRight` | 3 sessions, limits 0, 1, 2 and none, expiry at 0, 1 and never, clock up to 2 and set back at any time |

Why these bounds are enough: an inversion needs two overlapping builds, and a contradiction with
real time a third that comes after; a counter of two values is full after two identifiers of a
millisecond, so borrowing happens with three builds; one tick on either side of a millisecond
boundary is both cases of `Ms`. Entries move one place per change, so a walk over five entries with
pages of one to three meets changes before, inside and after its window. With three sessions two can
be let in besides the last one allowed. Two readers and two updates are a stale copy put after an
invalidation, with a second update under way; a file of two bytes does not fit a quota of one even
alone; two handlers hold the same chunk, or the last two, and the crash may hit either, also the one
that counts the last chunk, with the other to take over. The initial trees of `search_rebuild` are chosen so that two changes reach what the operations distinguish and
what matters to the index: a subtree to delete, restore or copy; a name that was given away while its
node was in the trash; a directory to move below its own child; a node created, renamed or deleted
between a read and a write. Longer sequences of operations on the tree are left to the theorems,
which hold for `TreeSpec`, every sequence on a new space. Two changes are also what two events
need to overtake each other. Three pairs are a login, the refresh of one call and the refresh of the
other. The theorems below remove the bounds from most of these.

`CHECK_DEADLOCK FALSE` is set where the system may stop: builders, walks and downloads end at their
bounds or when the clients are done, an upload ends with its session, the tree's changes are
bounded, and a user's tokens stop when the pairs run out. The cache and the quota go on for ever and
are checked for deadlock.

Fairness. `PageWalk`: `WF_vars(Fetch)`, the client's own loop goes on. Nobody is obliged to change
the listing, and `WalkEnds` assumes only that entries are no longer added after some moment; without
that, a listing that grows as fast as it is read is read for ever. `CachedRecords`: readers and the
writer finish what they began, with an error of the cache or without, and an entry that stays
expires, which is what `set`'s `ttl` is for; nobody is obliged to read or to update, and `FreshAgain`
assumes that updates cease.
`UploadSessions`: a handler that has begun goes on unless it crashes, and the client keeps sending
every chunk and keeps asking (strong fairness, since handlers are busy with other requests now and
then) until the session is gone; the store, asked again and again for the same chunk, does not fail
every time (strong fairness of `PutChunk` for each chunk). `EventuallyAssembled` assumes that the
session does not expire first. The abstract `WholeUpload` asks for weak fairness of its completion
only, and `UploadSessions` implements that too. `SearchIndex`: a worker looks for tasks and executes them step by step, and gives
up a task that has been cancelled; `Abandon` on an error is never required, events need not be
received, and no task need be scheduled. `TaskEnds` rests on the next server taking up a task that is
marked running, which is what "so they survive server restarts" asks for; a worker that only looks
for pending tasks leaves it running for ever (slip `StartPending`). All other properties are safety
properties.

Findings. `ids_sortable`: types.rs says the identifiers make records "client-sortable without an
extra timestamp column"; `build` stamps `created_at` first and draws the identifier afterwards, so
overlapping builds can be sorted differently by the two. What does hold is `InversionsOverlap`.
`walk_page_zero`: `has_next()` is documented to "Return `true` if there is a next page"; page 0 is
accepted, `offset()` answers it with the first page, and `has_next()` counts it as a page before the
first, so it announces a page where none is left. From page 1 on it is exact (`HasNextExact`), and a
client that begins there is never sent on in vain (`NextPageIsThere`).
`cache_link_hash` and `cache_users`: values are cached as JSON "so that the underlying cache store is
always opaque to callers" (cache.rs), but `password_hash` is skipped when a record is written. In
`ShareLink` it is an `Option`, so a protected link comes back with `is_password_protected()` FALSE; in
`User` it is required, so every read of a cached user fails with `AppError::Serialization`. Leaving
the hash out of what clients see is intended; the derive cannot tell the two uses apart.

Observations that no run refutes. user.rs:111 says a reuse "immediately revokes all tokens for the
user", auth.rs:19-20 that it "invalidates the entire token family"; the model takes the second, which
is what the family is for. user.rs:97 calls the role in the claims "current"; it is current when the
token is issued, and `StaleRoleBounded` says for how long it may not be. restore() of a node whose
directory is in the trash is not refused by its declaration, and leaves a live node that no listing
shows. A rebuild that has read a node, and writes it after the indexer has written the node's next
state, puts the old document back (`index_document` overwrites): nothing was lost, the rebuild
completes, and the index stays wrong about the node until its next change or the next rebuild. No
document promises otherwise, so this is not a finding; `StaleIsExplained` allows it by name
(`overtaken`) and nothing beyond it. An expired share link is valid again when the clock is set back.

## 5. The proofs

All proofs are checked by TLAPS from `TLAPS.tla`, `FiniteSetTheorems`, `SequenceTheorems` and the
named assumptions on constants (`NodeIdsAssumption`, `PagingAssumption`, `PageWalkAssumption`,
`ShareAssumption`, `CachedRecordsAssumption`,
`UploadAssumption`, `QuotaAssumption`, `FileTreeAssumption`, `SearchIndexAssumption`,
`AuthTokensAssumption`), which the runs evaluate.

* `NodeIds_proofs`. `TypeCorrect` is inductive by itself. `IdsUnique` needs that every identifier in
  a builder or a node of this process lies not after the context (`BehindCtx`) and that all of them
  differ (`HeldDistinct`): the context only moves forward (`NextIdLater`), so what it issues next is
  later than all (`LaterThanBehind`). `IdsInRealTimeOrder` adds `OrderInv`: a thread that has drawn
  its identifier in `build` has one later than every node that existed when it began. Both hold for
  any clock. As long as the clock has not been set back, `CreationStampFirst` carries the order of the two
  readings through the steps of `build` (`StampInv`), and `InversionsOnlyOverlap` combines this with
  `TimesInv`, that what existed when a builder was made was stamped no later.
  `ImplementsIdSource` maps `DrawId` to `Issue`, `Restart` to `Restart` and everything else to a
  stutter; it needs that everything issued lies behind the context.
* `Paging_proofs`. For every `MaxU32`: `OffsetNeverWraps`, `HasNextExact`, `WindowsTile` and
  `PagesCoverListing`, from a characterisation of rounded-up division (`DivCeilBounds`). The theorems
  about `PageWalk` hold for any entries, page sizes and changes; `WalkTypeCorrect` also for any page a
  client begins with, the others for page 1, because types.rs counts pages from 1 and a client that
  begins with page 0 is sent the first page twice. None of the properties is inductive: none
  says where in the listing an entry is. `WalkInv` does, relative to `Asked`, the number of positions
  asked for. `BehindRemoved`: the entries that have been there all along, lie before the next window
  and have not been received (`Behind`) are no more than were removed; a removal lets one entry slip
  there and is one removal more, and nothing else does. `AheadAdded`: the repetitions so far,
  and the received entries the client may still meet again (`Ahead`), are together no more than were
  added. `Untouched`: without a change, what was received is the window of the first `Asked`
  positions. Each part is proved action by action (`FetchMissed`, `AddMissed`, `RemoveMissed`,
  `FetchRepeats` and so on) from what the action does to positions (`FetchStep`, `InsertedAt`,
  `RemovedAt`); those rest on lemmas about `InsertAt`, `RemoveAt` and `Window`. `FetchStep` is where the
  arithmetic enters: the next window begins where this one ends, and `has_next()` is FALSE only when
  nothing lies beyond. `WalkInv` was checked by TLC under the constants of `walk_churn` before it was
  proved.
* `ShareDownloads_proofs`. `OvershootIsBounded` is not inductive as it stands: the invariant
  `Overshoot` also counts the sessions that are let in, each of which may still count once. Letting
  one in needs a count below the limit, and there are no more of them than sessions. The two step
  properties hold under every clock. `RevivedByTheClock`: a count never falls, so of the two ways to
  be invalid only expiry can end, and only by a step of the clock. `RefusalsAreRight`: a copy's count
  is not ahead of the record's.
* `CachedRecords_proofs`. `TypeCorrect` holds for all three records. `NodesReadWereStored` rests on
  `RoundTrip`, that a record none of whose fields is skipped is read back as written, and on
  `CacheInv`, that the cache and every reader hold only records the database has held.
  `EntriesAreReadable` needs less and covers share links too: no required field is skipped.
* `UploadSessions_proofs`. `UploadInv` says that the session counts the recorded chunks, each once,
  that recorded chunks are in the store, and that a copy is of the same session at an earlier count.
  A copy that is complete then means that all chunks are recorded (`ChunkCount`, `AssembleKeeps`);
  `TypeCorrect`, `FilesAreWhole` and `ProgressIsFraction` follow.
  `ImplementsWholeUpload` uses the same: `AssembleCompletes` and `RecordReceives` map the two steps that
  change what the client sees, `Expire` is itself, and every other step is a stutter. It proves the
  safety part of `WholeUpload`; its liveness is checked by the run.
* `SpaceQuota_proofs`. Usage plus one largest file for each session let in (`LetIn`) never exceeds the
  quota plus one for each session (`Stored`): below the quota this is a matter of counting
  (`NotOverrun`), and beyond it nobody is let in with a file that is not empty. When all sizes are
  known one file less is needed (`OneLess`), and the invariant must say why: the session that
  committed last is no longer let in, or holds a copy from after that commit (`Fresh`), so the file it
  was let in with fits in what was left then. `OverrunsAreOld` follows from what a copy that admits a
  file says (`Copies`).
* `SearchIndex_proofs`. The tree first: what is below a node is the least closed set, used in two lemmas
  (`BelowClosed`, `BelowLeast`), and each operation keeps the names unique (`NamesKept`) and a way out
  of every set of nodes (`RootedKept`). `Rooted` speaks of sets, not of paths, so that no induction is
  needed. The three theorems about the tree hold for the tree by itself (`TreeSpec`) and under the
  index. The index then needs `ReadsAccounted`: what the indexer or the rebuild has read and not yet
  written is current, or the node will be read again, or the change is in `lost`, or, of the
  rebuild's own read, in `overtaken`. `IndexIsRight` says what is left when nothing is pending.
  `CompletedRebuildIsRight` rests on `Healing`: as long as a rebuild is not `disturbed`, every node is
  still on its list, in its hands, or right in the index, and what the indexer holds is current.
* `AuthTokens_proofs`. The invariant dates what a token says: a pair with an old role was issued no
  later than the latest time the clock had shown when the role changed (`RoleDated`), and a family
  that was replayed was revoked as a whole, and issued no later than the same for the replay
  (`ReplayDated`). Both hold under a clock that is set back, since `latest` is not. The bounds on when
  either is visible follow from the life of an access token.

Only model-checked: all liveness properties (`WalkEnds`, `FreshAgain`, `EventuallyAssembled`,
`TaskEnds`, the fairness in `WholeUploadSpec`). They rest on fairness, and so on `ENABLED`, which is
out of this prover's reach. Every safety property that a passing run checks is a theorem; `CreationStampFirst` is one that no
run checks.

## 6. Not modelled

Of the code that exists: space members and grants scoped to a space, the request payloads, symbolic
links (a node like a file here), the serialised form of `ResourceRef`, backend identifiers and health,
the conversion of I/O errors and the data-only types. Of what is only announced: the collection of
chunks nobody refers to any more, which `permanent_delete` leaves to a caller that does not exist;
events of shares and spaces, which nobody here publishes or receives; replication, thumbnails and
transcoding; conflicting registrations; and all crates but core. What the callers of core do
appears, if at all, as its environment, marked external in `PROJECT.json`. Uniqueness of identifiers
across processes and restarts rests on random bits and is a matter of probability. Parsing and
printing of identifiers, and all wording of errors, are left out.
