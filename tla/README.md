# Verification of the encrypted two-tier SQLite store

TLA+ models of the Python package in `src/src/`, their TLC configurations, and
TLAPS proofs. Paths below are relative to `src/src/`.

## 1. The system

An application stores JSON documents under string keys. A document can be in
four places: an L1 cache in RAM, a write-behind queue in RAM, an encrypted row
in SQLite (L2), and an encrypted file on disk. A blind index (a keyed hash of
chosen fields) and an in-memory Bloom filter hang off the SQLite table.

| Component | State | Operations | Talks to |
|---|---|---|---|
| Key-value store, `database.py` | tables `kv_store` (value, version, expires_at) and `blind_indexes`; ciphers; one connection per thread | kv_get, kv_set, kv_get_versioned, kv_set_versioned, kv_delete, kv_mset, kv_mget, kv_find*, kv_search, kv_count, purge_expired_records, db_maintenance, rotate_encryption_key | Bloom filter, events, metrics |
| Bloom filter, `bloom_filter.py` | bit array | add, contains, clear, populate_from_keys | called by the store, the engine, transactions |
| TTL scavenger, `database.py` | one daemon thread, stop event | start, stop, loop over purge_expired_records | the store |
| Write-behind engine, `write_behind.py` | queue (one entry per key), worker thread, stop event | queue_write, flush, close | writes SQLite itself |
| Two-tier cache, `cache.py` | L1 adapter, engine or none, one RLock over L1 | get, set, mget, mset, invalidate, clear_l1, flush, enable/disable_write_behind | adapter, engine, store |
| L1 adapters, `adapters.py` | ordered dictionary with lifetimes; Redis | get, set, delete, clear | called under the cache lock |
| Transactions, `transaction.py` | staged writes and deletes, versions read | get, set, delete, commit, rollback | SQLite, L1, filter |
| Key rotation, `key_rotation.py` | daemon thread, stop event, `secret.key` | start, stop, check_and_rotate | rotate_encryption_key |
| Secure JSON, `secure_json.py` | a file per document | load_json, save_json | the cache |
| Async engine, `async_engine.py` | none | async_* | worker threads that run the calls above |
| Event hooks, `events.py` | listeners per event type, one lock | on, off, clear, emit | called by the store, the engine, transactions |
| Cloud backup, `cloud_sync.py` | files in `data/`, the bucket | create_local_snapshot, sync_to_cloud, list_cloud_backups, restore_from_cloud | SQLite files, the key material, S3 |
| Key material and ciphers, `database.py` | ENCRYPTION_KEY, `secret.key`, `.db.salt`, three cipher objects | _get_ciphers, set_cipher_key, set_cipher_passphrase, pack_and_encrypt, decrypt_and_unpack | every write and read |
| Integrity audit, `integrity.py` | none | verify_database_integrity | SQLite, the ciphers |
| Command line, `cli.py` | a process of its own | rotate-key, get, set, import, export, vacuum, ... | all of the above |
| Masking, metrics, serializers | see section 7 | | |

**What is hard.** There is no SQL transaction anywhere: `get_db_connection`
opens SQLite with `isolation_level=None` (autocommit) and nothing issues BEGIN,
so `with conn:` groups nothing and *every statement, and every row of an
executemany, commits by itself*. Calls of several threads interleave between any
two statements; an exception or a kill between two of them leaves the first
behind. The L1 lock covers L1 only. Several batches of the write-behind engine
can be in flight. A rotation reads everything, then writes everything back. TTLs
are tested in five places with a clock of whole seconds. Two daemon threads
purge and rotate beside all of it. A restore renames another file under the open
connections; a second process may rotate the key; listeners run in the middle of
the call that changed a document.

**What makes each component correct.**

- Store: every call takes effect at one moment, apart from what a read may miss
  while a document is stored for the first time; conditional writes do not overwrite
  each other; the index agrees with the rows; only expired or deleted documents go,
  and expired ones do go.
- Filter: "not in the filter" means "not in the database".
- Engine: no accepted write falls between queue and batch; the last write of a
  key wins; everything lands without a call to flush.
- Cache: a get returns the last document set; L2 ends up with it; capacity.
- Transactions: a change based on a stale read is rejected, and a rejected or
  failed commit leaves nothing behind; the tiers agree afterwards.
- Rotation: documents survive; everything is readable under the key in the file;
  an aged key is replaced; one rotator.
- Secure JSON: load returns the last save whichever of three places answers;
  the file is whole at any moment.
- Events: what listeners hear of a key agrees with its row; a listener that raises
  or calls itself off costs the others nothing.
- Backup: an object is the database of one moment; a restore installs the object
  it was asked for or changes nothing; pruning keeps the newest.
- Key material: no row is under a key that only memory has; the ciphers of a
  process agree; whatever the algorithm and the age of a row, it can be read.

## 2. Modules

Each module translates one component; `PROJECT.json` maps every definition to
its lines. Data is abstract: a document is a model value or its number in the
order of the writes, encryption is lossless except in `KeyRotation`, where a row
records the key it is under.

| Module | Models | Notes |
|---|---|---|
| `AbstractKv` | the promise of the key-value API | a versioned map; every call has one moment of effect; reads find the keys that are public |
| `KvStore` | `database.py`, `bloom_filter.py` | one SQL statement, filter operation or clock tick per step; `pc` names the next statement, `loc` the locals |
| `KvProperties` | properties of `KvStore`, refinement of `AbstractKv` | shared by the runs and `KvProofs` |
| `WriteBehind` | `write_behind.py` | queue, batches, statements of a flush, failures, worker loop |
| `TwoTierCache` | `cache.py`, in-memory adapter | extends `WriteBehind`: clients reach SQLite through the engine or with the same statements in their own call |
| `Transaction` | `transaction.py` | `Phases` lists what commit does, in order; one key per step |
| `KeyRotation` | `key_rotation.py`, `rotate_encryption_key` | with clients that write beside it |
| `SecureJson` | `secure_json.py`, `async_delete_json` | L1, row, file and `.tmp` of one document, inside or outside `DATA_DIR` |
| `Backup` | `cloud_sync.py` | files with numbers, one write-ahead log under the name of the database; snapshot, envelope, upload, prune and restore beside a client |
| `KeyMaterial` | keys and ciphers of `database.py`, `integrity.py`, rotate-key of `cli.py` | processes with threads; where a key comes from, and which cipher opens a row |
| `Events` | `events.py` and the calls that emit | rows, then events, then callbacks and coroutines |
| `MC*` | | names and workloads for TLC |
| `KvProofs`, `CacheProofs`, `TransactionProofs`, `KeyRotationProofs`, `SecureJsonProofs`, `BackupProofs`, `KeyMaterialProofs`, `EventsProofs` | | section 5 |

Correspondence of actions and code:

- `KvStore`: an action per call (`KvSet`, `KvMset`, `KvSetVersioned`, `KvGet`,
  `KvGetVersioned`, `KvDelete`, `Purge`, `DbMaintenance`) computes what the call
  computes before its first statement, then one action per statement: `Lookup`
  (bloom.contains), `Select` with the TTL test and the lazy delete, `Upsert`,
  `Insert`/`Update` (versioned), `ClearIndex`/`InsertIndex`
  (`_update_blind_indexes`), `BloomAdd`, `DeleteIndex`/`DeleteRow` (kv_delete),
  `PurgeSelect`/`PurgeIndex`/`PurgeRows`, `RebuildSelect`/`RebuildClear`.
  `Fail` is a statement that raises: it ends the call, and what ran before it stays,
  a row without index and without `bloom.add` among it. `Crash` kills the process and
  runs `init_db` of the next, whose rebuild may raise. `Work[t][op]` says which thread
  uses which keys for what.
- `WriteBehind`: `Enqueue` is queue_write, `Take` the copy-and-clear under the
  lock with the encryption, which skips a document that cannot be encrypted,
  `Upsert`/`Index`/`BloomAdd` the rest of flush, `Fail` a statement that
  raises, `WorkerLoop` the worker's test of the stop event, `Close` sets it and flushes.
- `TwoTierCache`: `GetHit`, `GetMiss`-`KvGet`-`Fill`, `Set`-`Persist`,
  `Invalidate`-`DeleteIndex`-`DeleteRow`-`DeleteL1`, `ClearL1`, `CacheFlush`;
  `FailDelete` is the exception of kv_delete that invalidate swallows.
- `Transaction`: staging calls are one step; `Commit` enters the phases.
- `KeyRotation`: `CheckAndRotate`, `Select`, `Update`, `Index`, `SetKey`,
  `SaveFile`, `Fail`. `Start` looks at `_thread` and `Launch` assigns it, two steps
  without a lock; `Stop` and `Joined` (the join returned or timed out) likewise.
- `SecureJson`: `SaveL1`, `SaveL2`, then `Unlink` or `Open`-`Write`-`Replace`;
  `LoadHit` or `LoadMiss`-`LoadL2`-`LoadFile`-`Fill`, with `LoadExpired` for the lazy
  delete of an expired row; `DeleteL1`, then kv_delete (`DeleteL2`-`KvUnlink`-
  `KvUnlinkTmp`-`KvL1`), then `UnlinkTarget`; `Fail` is a step of them that raises.
- `Backup`: `CreateLocalSnapshot`-`EncryptSnapshotFile`-`Upload`-`ListCloudBackups`-
  `DeleteObject`-`UnlinkEnvelope` is sync_to_cloud, `Download`-`Unpack`-
  `CheckAndCopy` (or `CheckFails`)-`Move` restore_from_cloud, with `CleanUp` for its
  except; the store is `Connect`, `KvSet`, `RotateKey`, `Checkpoint`. A connection stays
  on the file it was opened on; the log goes with the name. db_maintenance empties the
  log; the checkpoint that SQLite makes by itself copies pages and leaves the log, which
  a restored file would then be read with.
- `KeyMaterial`: `Write`-`GetCiphers`-(`CreateKey`-`SaveKey`)-`ReadMaterial`-
  `InitCiphers`-`Pack`-`Upsert`-`Index` is a kv_set of a process without ciphers;
  `CreateKey` is also what `_get_raw_key_material` does when it finds no key;
  `SetCipherKey` or `SetPassphrase`-`OpenSalt`-`SaveSalt`, then `SetCiphers`, one
  assignment per step; `RotateKey` is the CLI's, `Deploy` the operator who puts the
  printed key into the environment. `Decrypt` and `AuditClean` are the two decoders.
- `Events`: `Store`-`StoreRow`, `Delete`, `PurgeSelect`-`PurgeRows` change rows,
  `Emit` collects the listeners of one event, `Invoke` runs the next of them,
  `RunTask` a coroutine.

Where a step is coarser than the code: the DELETE and INSERT of a key's index are
two steps in `KvStore` and one in the other modules (`WriteBehind` has the gap in
`Fail`); calls on L1 and L2 are one step each in `SecureJson`; a batch is written
in some order of its keys (the code has queue order). In `Backup` a rotation is one
step and a copy of a file is one step. `WriteBehind`,
`TwoTierCache` and `Transaction` have no TTL on rows; an entry may leave L1 at
any time, which covers L1 lifetimes. Variables marked *history* record what
happened for the properties and guard nothing.

Several modules keep, next to a definition, a variant of it introduced by
"Variant:", a plausible bug. No behaviour of the specification uses a variant;
`PROJECT.json` pairs each with the property that rejects it.

## 3. Runs

| Run | Distinct states | What it checks and shows |
|---|---|---|
| `kv_calls` | 138 thousand | Two clients interleave all calls on two keys with crashes at any statement; one statement, or the rebuild of a restart, raises. `ImplementsAbstractKv`: the store implements `AbstractKv`. `NoLostUpdate`, `FilterCoversLiveRows`, `TypeOK`. |
| `kv_ttl` | 278 thousand | A writer refreshes expiring documents, a reader deletes them lazily, the filter is rebuilt, the scavenger purges; one statement raises. `IndexMatchesRow`, `OnlyDeletesRemoveLiveRows`, and with fairness `ExpiredRowsGo`. |
| `wb_flushers` | 132 thousand | Two clients that queue, fill the queue, flush and close, the worker, one failure or skipped document. `NothingDropped`, `LastWriteWins`, and with fairness `EveryWriteLands`. |
| `cache_calls` | 1.9 million | Two clients share a key and evict each other, with and without the engine; one statement raises. `ReadsSeeLastWrite`, `CallsReachL2`. |
| `tx_commits` | 2.5 million | Two threads run transactions over two keys, one failure. `StaleChangesRejected`, `RejectedLeavesNothing`, `CommittedAgree`. |
| `rotation_daily` | 761 thousand | Two rotations with start, stop, restarts, one failure and a client. `SettledReadable`, `DocsSurvive`, `OneRotator`, and with fairness `AgedKeyReplaced`. |
| `file_calls` | 2.8 million | Two callers save, load and delete one document, with ttl None, 0 or positive, inside or outside `DATA_DIR`, with kills, steps that raise, evictions and expiry. `LoadSeesLastSave`, `FileWhole`, `FileFollowsRow`. |
| `backup_restores` | 1.24 million | Two threads take, seal, upload, prune and restore snapshots; one of them writes, rotates the key and checkpoints; one request, check or copy fails, or one kill. `UploadIsSnapshot`, `NewestKept`, `KeptUntilRestored`, `RestoreInstalls`, `SafetyCopyWhole`, `RestartSeesRestore`, `RowsReadable`. |
| `keys_start` | 1.3 million | Two threads of the application and the CLI, on an empty or an old database, make keys and salts, write, set a key or passphrase, rotate; one restart. `RowKeysKept`, `CiphersAgree`, `RowsUnderKeyInForce`, `IndexUnderRowKey`, `ReadsOpen`, `AuditSound`. |
| `events_dispatch` | 81 thousand | A writer of one or two documents with and without ttl, a caller that deletes and purges, four listeners, one failing statement. `MirrorAgrees`, `ExpireMeansGone`, and with fairness `EveryChangeHeard`. |
| `tx_failure`, `rotation_failure` | small | One violated promise each, section 4. |

**What is conditional, and why.** Several properties are false as one would first
write them; each says what it excludes, and the exclusion is what the code does:

- `FilterCoversLiveRows` is checked where no rebuild runs beside writers: a
  rebuild clears the filter after its SELECT, and a row written in between is
  denied until the next one. Nor does it hold where a versioned update revives an
  expired row that a rebuild has dropped: the UPDATE branch of kv_set_versioned
  (`database.py:788`) adds nothing to the filter. It excepts a document that is just
  being stored (its bloom.add is the last thing kv_set does, `database.py:714`), and
  `raised` keys: the reading of the index key or an index statement may raise after the
  row has committed (`:712`, `:780`), and the rebuild of init_db may raise, which
  init_db swallows (`:624`). A later store of the key ends the exception.
- `NoLostUpdate` speaks of keys that are never removed: delete and create start
  again at version 1, and a conditional write then succeeds on another document.
  Such keys are never deleted and never get an expiry, by a batch neither.
- `IndexMatchesRow` speaks of keys with one writer: the index of the loser of two
  racing writers can remain; and not of keys on which a writer or a delete raised
  between its statements.
- `ImplementsAbstractKv` is less than linearizability. A get finds only *public* keys,
  and the first store of a key may make it public as late as its return, because
  bloom.add comes last: a get can answer "not found" for a document which a create of
  another thread, failing on the row, has noticed already. What a get may not miss is a
  document whose store returned before the get began. A call that raises leaves its
  effect, or none, and its key perhaps not public. It has batches of one key: the rows of
  a larger batch show one by one. It is checked without TTLs: with them, the lazy delete
  of kv_get can take a document that was refreshed after the SELECT
  (`OnlyDeletesRemoveLiveRows` shows that nothing but kv_delete, called by a client or by
  a read, does so).
- `LastWriteWins` and `CallsReachL2` exclude `disturbed` keys: two batches, or a
  queued write and an invalidate, overlapped, a flush failed or skipped the document, or
  a DELETE of an invalidate raised, which invalidate swallows (`cache.py:198`): row and
  index then stay. `EveryWriteLands` excludes what a flush gave up and what was queued
  after the first close (`openUntil`), not what was queued before it. No property says
  that a write is in SQLite when flush, close or the exit hook returns: they return
  while the worker still holds the batch (`write_behind.py:56`).
- `ReadsSeeLastWrite` is for caches without the engine; with it, an entry that is
  evicted before its flush is found nowhere.
- `CommittedAgree` and `StaleChangesRejected` exclude keys on which commits
  overlapped, and changes between the comparison of a version and the write.
- `OneRotator` excludes a stop whose join timed out and calls of start and stop that
  overlapped (`crossed`): both look at `_thread` before either assigns it.
- `SettledReadable` and `DocsSurvive` exclude documents written beside a rotation
  (`mixed`) and, the first, rotations that ended halfway (`broken`).
  `SaveFile` is one step: a kill inside `write_text` counts as a kill before it,
  after which nothing is promised. The copy of the new key into `.env` and `bot.env`
  (`key_rotation.py:94`) is left out: nothing here reads those files.
- The properties of `SecureJson` exclude calls that overlap a save or delete; a save or
  delete that was killed or of which a step raised (`cut`), the unlink whose error
  save_json swallows (`secure_json.py:129`) included; and the file of a document under an
  absolute path after its delete (`stray`): save_json writes such a file where the path
  says, kv_delete and async_delete_json unlink `DATA_DIR/key`, and the next load returns
  the deleted document. `LoadSeesLastSave` also excludes a row with a ttl that a get has
  put back into L1, where it stays for 24 hours whatever its ttl (`cache.py:116`). A ttl
  of 0 gives a row for ever and no file (`secure_json.py:124`, `database.py:700`), which
  both properties cover.
- `Backup` excludes, per property: two snapshots of one second and two restores at
  once, which share file names; a rename while the old log is not empty, checkpointed or
  not, after which SQLite shows pages of two databases; a process that was not restarted after a
  restore; a rotation between snapshot and envelope, or decryption and rename; and
  rows that were in the log only when the safety copy was made.
- `KeyMaterial` excludes first starts that race for `secret.key` or `.db.salt`, a salt
  that cannot be saved, set_cipher_key beside another call of the process, two processes that write one document
  at once (its index only), a process
  that goes on under the old key after the CLI's rotation, and unprefixed AES-GCM
  rows whose nonce begins like a Fernet token: a rotation skips them. `ReadsOpen` excepts
  unprefixed AES-GCM rows while ENCRYPTION_ALGORITHM is Fernet: decrypt_and_unpack
  tries them with the Fernet cipher only and fails (`database.py:479`, `:490`). `AuditSound` has
  one direction only: after a change of algorithm the audit reports sound rows as
  corrupted (`integrity.py:58`).
- `MirrorAgrees` excludes keys on which calls overlapped or raised, and a row that is
  stored, already expired, between the SELECT and the DELETE of a purge: it goes
  without an event (`database.py:1072`).

**Bounds.** Two keys and two clients are enough for one call to overtake another
on the same key and for a batch, an LRU or a transaction to treat another key
differently. Two calls per client in `kv_calls` let a read precede a conditional
write; the clock of `kv_ttl` takes one step, the one at which a document expires;
`MaxOps` lets it be refreshed. Three writes and a batch limit of two let the queue
fill while a batch is in flight. In `rotation_daily` one document is stored before the process starts and one
is written beside the rotator. Three keys of encryption are the first and two attempts,
so that a failed one can be followed by one that succeeds: `AgedKeyReplaced` gives up only
when the last key the bound allows has gone into an attempt that failed too. One
failing statement is the case the code handles; two faults in `file_calls` are a
failed save followed by a kill. `backup_restores` has three calls, which are a
snapshot, a rotation or a second snapshot, and a restore of the first; two seconds,
so that two snapshots share a name or do not; and retention one, so that the second
upload prunes the first object. `keys_start` has two keys to make, which are a key
file and a passphrase, a set key or a rotation after it, and two writes, before and
after. In `events_dispatch` three calls let a document be written, deleted and purged
while the listeners of the first event run, one of which calls itself off. `Finished` steps mark the states in which the
bounds are used up, so deadlock stays checked everywhere. Clients are symmetric in
`kv_calls`, `tx_commits` and `file_calls`, which check no liveness.

**Fairness.** `kv_ttl`: the clock advances, a thread in a call goes on, and the
scavenger's loop comes round (`while not wait(interval)`). `wb_flushers`: the
worker's loop and a flush in progress go on. `rotation_daily`: a rotation goes on.
`events_dispatch`: a thread in a call and a coroutine that was started go on.
All are weak fairness of a running thread; no client is assumed to call anything,
and no statement is assumed to succeed: the runs with fairness all have statements that
raise, as many as their bound on faults allows, and after a purge that raised the scavenger comes round again.

## 4. Disagreements between the code and its documentation

1. `tx_failure` (`transaction.py:110`): a commit whose statement raises leaves the
   rows before it; "automatic rollback" empties only the staging area.
2. `rotation_failure` (`database.py:1212`): a rotation that raises halfway leaves
   rows under a key that nobody has any more.

## 5. Proofs

`tlapm` checks all of them, for every number of keys, threads, writes and faults.

**`KvProofs`**, under `KvAssumption`:

- `Typing`, `TypeCorrect`. `TypeOK` alone is not inductive: a write stores
  `loc[t].val` and a delete works on `loc[t].key`. `TInv` adds `CallsOK`, which
  ties the statement a thread stands at to the call it is in and its locals. One
  lemma per group of actions.
- `FilterSound`: `FilterCoversLiveRows`, assuming no rebuild beside the calls
  (`NoRebuild`) and either no TTLs or no versioned updates; without these the
  property is false. The invariant `FInv` adds that a batch has
  added the keys it is past, and, without TTLs, that no row expires. Crashes and
  any number of raising statements are included.
- `PurgeSparesLiveRows`: `OnlyDeletesRemoveLiveRows`, from the fact that the moment
  a purge compares with is never in the future (`PurgesLookBack`).
- `NoUpdateLost`: `NoLostUpdate`. For a key that is never removed, `Known` says that
  the row has at least the version a caller got with its document, and at that
  version this very document; `Sparing` that no call under way gives such a key an
  expiry or deletes it, `Lasting` that its row has none.
- `IndexFollowsRow`: `IndexMatchesRow`, which speaks of moments between calls. The
  invariant `XInv` says what holds between statements: a live row of a key with one
  writer has its index entry, or its writer still has to bring it (`IndexDue`) and the
  row has the document of that writer, or a delete that has taken the entry is about
  to take the row (`RowGoing`). Statements that raise are included. The theorem assumes `~Crashes`: a kill between
  the statements of a write leaves the row without its entry, and nothing repairs it.
- `KvImplementsAbstract`: the refinement `ImplementsAbstractKv`, which is not
  linearizability (section 3). Under `NoRebuild`, `NoTtl`
  and `OneKeyBatches`, which the workload of `kv_calls` meets, every step of `KvStore`
  is, under the mapping of `KvProperties` (written `View` here), an invocation, an
  effect, a publication, a return, an exception, a crash or a stutter of `AbstractKv`. The
  argument goes statement by statement and rests on `TInv`, on what `FInv` says of rows
  and filter, and on `Simple` (a call works on one key).

**`CacheProofs`**, under `WriteBehindAssumption`, for `WriteBehind` and then for
`TwoTierCache`, whose statements are the same:

- `TypeCorrect`: `TypeOK` is inductive. It relates the label of a thread, its
  batch and its work list, one thread at a time (`ThreadOK`).
- `NoWriteDropped`: `NothingDropped`. It needs `Ordered`, that no write in queue,
  row, batch or lost is newer than the accepted one; without it an older batch
  could be taken for the accepted write. Both are shown key by key.
- `LastWriteWinsAlways`: `LastWriteWins`, from `Orderly`: along row, batches and
  queue of an undisturbed key the writes are in the order in which they were accepted.
  The lemmas assume `Shape`, which is `TypeOK` but for the set of labels, so that they
  serve the cache too.
- `CallsReachL2Always` and `ReadsSeeLastWriteAlways`: `CallsReachL2`, with and without
  the engine, and `ReadsSeeLastWrite`. Neither is inductive: `CInv` says of every key
  that is not disturbed that who writes or removes it is alone with it (`Solo`), that
  SQLite follows what was accepted except between the two DELETEs of an invalidate
  (`Kept`), that the last set was accepted or is in the hands of its call (`Said`),
  and, without the engine, that no entry of L1 is older (`L1True`). The dictionary of L1
  has a key once (`Tidy`), through every move to the end and eviction.

**`KeyRotationProofs`**, under `KeyRotationAssumption`:

- `AtMostOneRotator`: `OneRotator`, from `Remembered`: unless a join timed out or
  calls of start and stop overlapped, the thread that lives is the one in `_thread`, and
  who has looked at `_thread` is alone with it until it assigns it.
- `DocumentsSurvive`: `DocsSurvive`, from `DInv`: what a rotation has read and not
  yet written back is still the newest document (`Fresh`), and no client is
  writing beside a rotation except on keys in `mixed` (`Apart`).
- `DocumentsReadable`: `SettledReadable`. Between rotations one key is everywhere
  (`Quiet`); during one, `Underway` says which documents, by the statement it is at,
  are still under the old key and which are under the new one with their index.

**`TransactionProofs`**, under `TransactionAssumption`:

- `TypeCorrect`. `RejectedLeavesNothingAlways`: `RejectedLeavesNothing`.
- `StaleChangesRejectedAlways`: `StaleChangesRejected`, from `Unmoved` (a row whose
  version was compared has that version until it is written, or is recorded as
  changed) and `Rising` (versions of a key that was never removed grow).
- `CommittedAgreeAlways`: `CommittedAgree`. `Agreement` says of every key on which
  commits did not cross that row, L1 and filter agree or that one commit has it in
  hand; `SoFar` says how far that commit is, phase by phase.

**`SecureJsonProofs`**, under `SecureJsonAssumption`: `FileWholeAlways`,
`FileFollowsRowAlways` and `LoadSeesLastSaveAlways` are `FileWhole`, `FileFollowsRow`
and `LoadSeesLastSave`. Their common invariant `SInv` says who changes the document
(`Alone`), what is in `.tmp` (`TmpHeld`) and in the file (`FileHeld`) at each step of
that call, and that each of the three places has the last save or is not asked
(`PlacesHeld`), all unless a call was cut short, overlapped or left a file outside
`DATA_DIR` behind.

**`BackupProofs`**, under `BackupAssumption` and for finitely many threads:
`KeptUntilRestoredAlways`, `RestartSeesRestoreAlways`, `RestoreInstallsAlways`,
`SafetyCopyWholeAlways`, `RowsReadableAlways`, `UploadIsSnapshotAlways`. The base
(`Shape`, `Budget`) is which files exist for a thread at a step; on it rest `Kept` and
`Settled` (the database under its name with its log), `Guarded` and `Copied` (the
temporary files of a restore), `Keyed` (an envelope opens to rows of its own key) and
`Owned` (the snapshot of a call is its own). `NewestKeptAlways` is `NewestKept`: a call
deletes from a listing it made before, while others upload and delete. The invariant
`Ranked` says that an object which some call has yet to delete has retention_count
objects before it (`RankKept`): where one of those is deleted, it had as many before
itself, and they are before the other one too, as the listing is a strict order. An
upload never takes the name of such an object (`NameNew`), because its snapshot is still
on disk (`NameUsed`).

**`KeyMaterialProofs`**, under `KeyAssumption`, which says that a process that rotates
has one thread, as the CLI has: all six properties of `keys_start`.

- `RowKeysKeptAlways`: `Kept` extends `RowKeysKept` to every place that holds a key,
  memory included, and says that one thread at a time writes each of the two files.
- `CiphersAgreeAlways`: `Assigned`. Unless its key is being changed, a process has
  ciphers of one key, assigned in a fixed order (`Lazy`), and who changes it is alone
  (`Apart`); then no call makes a second key (`HasKey`). `ReadsOpenAlways` follows with a case per kind of row, `AuditSoundAlways`
  from the kinds of rows alone.
- `RowsUnderKeyInForceAlways` and `IndexUnderRowKeyAlways`: `Written` says that the blob
  and the row a write has in hand are under the key of its process, `InForce` that this
  is the key in force unless the process is `outdated`, and `Blamed` that only keys set
  by the application disturb that.

**`EventsProofs`**, under `EventsAssumption`: `CopyAgreesAlways` is `MirrorAgrees` where
a listener of all changes of all keys keeps the copy (`CopyKept`; without such a listener
nothing fills it), `ExpireMeansGoneAlways` is `ExpireMeansGone`. `EInv` follows each key
on which calls neither overlapped nor raised: one call at a time is about it, what that
call has to tell is true of the row (`Truthful`), and it owes the copy whatever the copy
lacks (`Owes`), as an event not emitted or as one in dispatch whose positions still
include the copy. Only a listener that is called once calls off (`CopyListens`).

**Only model-checked:** the liveness properties `ExpiredRowsGo`, `EveryWriteLands`,
`AgedKeyReplaced` and `EveryChangeHeard`, which are out of reach of the prover; and, as
they are false, the promises of section 4. Every other property of a run is
a theorem.

## 6. Left to do

1. Proofs: `IndexMatchesRow` through crashes for keys whose writes none cut short; the
   refinement of `AbstractKv` for batches of several keys.
2. Models: secure JSON files under key rotation; switching adapter and engine at run
   time; the filter of the CLI's process; TTLs in the engine and in transactions; on
   and off by other threads during a dispatch.
3. Abstract specifications: a map with expiry for the cache without the engine,
   to replace `ReadsSeeLastWrite` by a refinement; an abstract batch for kv_mset.

## 7. Not modelled

The bytes of ciphers, key derivation, compression and serialisation (pure functions);
the bits of the Bloom filter; masking (pure functions on strings); metrics (counters
nobody reads back); the CLI but for rotate-key (printing and argument parsing around
calls that are modelled); Redis and the bucket (external). SQLite's own locking is
taken as given: a statement is atomic and waits for its turn, and a committed
statement survives the death of the process.
