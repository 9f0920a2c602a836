# A TLA+ model of kubuno/p2pnas

p2pnas is a module that turns a group of personal machines into one encrypted
store. A file is cut into chunks, each chunk is sealed and erasure-coded into
10 data and 4 parity shards, an SQLCipher *manifest* records which shard is
where, and the shards are spread over the owner's disk and the disks of peers.
A control-plane database (PostgreSQL, MySQL or SQLite) holds quotas, peers,
hosted shards and background jobs. Peers find each other by mDNS and by a small
Kademlia DHT, and a daily backup puts the manifest itself on them.

This directory holds TLA+ modules for the parts of that system whose
correctness depends on state and on interleavings, TLC configurations that
check them on small instances, and TLAPS proofs for the manifest, shard
placement, the movers of shards, the job queue, quotas, hosted shards and the
pinning of peer keys. `PROJECT.json` maps every
definition to the source lines it models, and lists the runs, the mutants that
show that each property can fail, the hazards of the code and the theorems.

Paths below are relative to `src/server/crates/`.

## The parts of the system

| Part | Source | State | Model |
|---|---|---|---|
| Manifest: paths, trash, versions, retention | `store/src/manifest.rs`, `store/src/service.rs` | `files`, `folders` | `Versions`, `UserTree`, `VersionsProofs` |
| Pack format | `store/src/service.rs` 800-1040 | none, pure | `PackFormat` |
| Small-file packing, compaction, downloads against them | `store/src/service.rs`, `server/src/handlers/files.rs` | rows, shard files | `PackStore` |
| Gathering the shards of a download, file health | `handlers/files.rs` 440-800 | tasks in flight | `Download` |
| Background jobs | `server/src/jobs.rs`, tickers of `main.rs` | `jobs` | `Jobs`, `JobsProofs` |
| Quotas, contribution, account deletion | `server/src/quotas.rs`, `handlers/files.rs`, `handlers/admin.rs`, `server/src/events/mod.rs` | `user_quota`, `node_local` | `Quota`, `QuotaProofs` (with `Sums`) |
| Hosting shards for others | `server/src/p2p.rs`, `server/src/retention.rs` | `hosted_shards`, shard files, `hosted_bytes` | `Hosting`, `HostingProofs` (with `Sums`) |
| Shard placement | `server/src/placement.rs` | none, pure | `Placement`, `PlacementProofs` |
| Distribution, rebalance, repair | `handlers/files.rs`, `server/src/rebalance.rs`, `server/src/repair.rs` | shard locations, shard files, `peers` | `Repair`, `RepairProofs` |
| Order of the repairs of a pass | `server/src/repair.rs` 140-340 | a heap | `RepairQueue` |
| Manifest backup, cold bundle, identity at start-up | `server/src/manifest_backup.rs`, `store/src/backup.rs`, `store/src/identity.rs` | `manifest.db`, `identity.key`, shards on peers, events | `Recovery`, `BackupShards` |
| DHT | `p2p/src/dht.rs`, `server/src/discovery/dht.rs` | routing table, source bookkeeping, a snapshot file | `RoutingTable`, `Overlay` |
| Peer registration | `server/src/discovery/mod.rs`, `discovery/mdns.rs`, `handlers/admin.rs`, `p2p/src/client.rs` | `peers` | `PeerRegistry`, `PeerRegistryProofs` |
| Wire protocol | `p2p/src/` | a connection | handshake only |
| Chunking, compression, encryption, erasure arithmetic | `core/src/` | none, pure | not modelled |
| Configuration, routing, status, clients | the rest | little | not modelled |

How they meet: an upload reserves quota (`Quota`), writes shards and rows
(`Versions`, `PackStore`), and distributes the shards (`Placement`, `Repair`)
to hosts (`Hosting`) that discovery has registered (`Overlay`,
`PeerRegistry`). Deletion and retention free rows, credit quotas and hand
remote shards to the job queue (`Jobs`). Tickers enqueue the passes that
repair (`Repair`, `RepairQueue`), repack, compact, sweep and back up
(`Recovery`).

## Modules

**`Versions`** is the `files` and `folders` tables of one account. Every
statement of the code is scoped by user, so one account is enough. A manifest
transaction is one step: `Push`, `TrashPath`, `Restore`, `Purge`, `EmptyTrash`,
`mkdir`, `Rename` and `PurgeRetired` (the sweep with its four rules).
`service::trash` reads and writes in two autocommitted statements and is two
steps, `TrashRead` and `TrashStamp`. A path is a sequence of names; `LIKE`'s
folding of ASCII case is the relation `CaseVariants`. A retired row is parked
on a tombstone key, with the path its user knew in `retired_path`.

**`UserTree`** is what the owner of an account is promised: a map from paths to
the file they see, and a set of kept files. `Versions` implements it under the
mapping `Tree` at the end of `Versions`.

**`PackFormat`** has `build_pack`, `parse_pack_index`, `member_slice` and
`plan_packs` as operators on sequences of bytes.

**`PackStore`** is where the bytes are: self-contained files, packs, the
passes that build and rewrite them, downloads, permanent deletes and crashes.
It uses `PackFormat`, so a read returns content and not just a name. Shard
files are written inside a manifest transaction and deleted after one; only the
manifest is transactional, which is what a crash exposes. `lock` is SQLite's
write lock. A download reads the row (`ReadRow`), the chunk rows
(`ReadChunks`), for a member the pack's row and chunk rows (`ReadPackRow`,
`ReadChunks`), and then fetches (`ReadFetch`); anything may happen in between.

**`Download`** is that fetch for a file of several chunks: the sliding window,
all the shards of a chunk asked for at once, verified answers kept until ten
are there, and the sort that puts the chunks back in order. `recoverable` is
what `file_health` reports of the same shards.

**`Jobs`** is the job table: enqueueing with coalescing, the two-statement
claim, running, finishing, the requeue of stale rows, the purge of old ones,
and the retry chain of `gc_remote`. Each SQL statement is a step. Time is the
age of a row and whether its `run_after` has come.

**`Quota`** is `user_quota` and the contribution: the default grant under the
`node_local` lock, the conditional reservation, settlement and refund, purges
and sweeps that credit, the administrator's `set_quota` and
`set_contribution`, and `purge_user` (`UserDeleted`, `PurgeUserFile`,
`PurgeUserQuota`). The weakest of the three database engines is modelled (read
committed, row locks).

**`Hosting`** is the host's side of a shard: `StoreShard` and `DeleteShard`
handlers on concurrent connections and the retention sweep, each statement and
each file operation one step. `tainted` becomes true when two requests overlap
on one fragment, or when a request fails half-way. From then on the code lets
its counter drift, so the properties are stated until then.

**`Placement`** is the greedy of `plan_placement_zoned`, one shard per step,
with the peers' zones, latencies and reliabilities as inputs. Scores are kept
on a common denominator, so that no fraction is rounded.

**`Repair`** follows the shards of one chunk: the tasks an upload spawns
(`Distribute`, `TaskSend`, `TaskRecord`, `TaskDrop`), the rebalance (`Move...`)
and the repair pass (`Repair...`), with peer health, peers that are removed,
leave and return, copies that rot, manifest writes that fail, answers that are
lost, and crashes. What `Placement` proves about a plan is all that `Repair`
assumes of one (`Layouts`). The assessment of a chunk is one step; the plan it
works from was read in an earlier one.

**`RepairQueue`** has the bounded heap that keeps the most endangered chunks of
a pass, and the order in which they are repaired.

**`BackupShards`** has the envelope of a manifest-backup shard and
`reassemble_manifest_backup`: the vote on the blob, the slots, the retry
without one of them.

**`Recovery`** is the life of a node's manifest: uploads, the daily backup
(`BackupBegin`, `PlaceShard`, `BackupEnd` with the sweep of old versions), the
restore from peers (`RestoreBegin`, `RestoreScan`, `RestoreCheck`,
`RestoreWrite`), the cold bundle (`Export`, `Import...`), crashes, lost disks
and the start-up that loads or creates the identity. A manifest is the key that
opens it and a number for its content; sealing is the pair of the identity and
the version in a blob. Every build of a backup is a blob of its own, because a
vacuumed database never encrypts to the same bytes twice.

**`RoutingTable`** has the k-bucket table of `dht.rs` as operators: `add` with
refresh and eviction, `mark_verified`, `closest`. **`Overlay`** is the node
around it: `HandleAnswer` and `HandleQuery` are the receive loop, `refresh`,
`Ask` and `export_nodes` the driver's round, `bootstrap` its start; the other
nodes move, pass on stale addresses and answer what they are asked. A tick
(`Minute`) ages the entries and ends the windows.

**`PeerRegistry`** is the `peers` table under concurrent callers: the dedup of
`register_peer`, the handshake with its fallback to the plain one, and the
guarded upsert as a locking read and a write. The same upsert is written out
once more in `add_peer`. `proved` is history: which key was shown, for which
id, at which address.

## Runs

State counts are distinct states.

| Run | Instance | Checks |
|---|---|---|
| `versions` | 2 folders whose names differ in case, 1 file in each, 2 uploads, a clock of 1 day (35,784 states) | types; retired rows parked; no two rows on one key; retiring a row keeps the path its user knows; the manifest implements `UserTree` |
| `retention` | 1 path, 3 uploads, cap of 1 version (16,352) | an upload, delete, rename or mkdir puts nothing within the sweep's reach but versions beyond the cap; history whose file is gone is reclaimed |
| `pack_store` | 2 processes, 4 ids, crashes (1,581,384) | files read back as uploaded and no row's bytes are about to go; nothing leaks but what a crash stranded; a download returns the file's bytes, an error or nothing, never other bytes |
| `jobs` | 2 workers, 2 callers, 3 rows, 1 fault (493,385) | a young row runs once at a time; coalescing is bounded by the callers; `gc_remote` forgets nothing and gives up only at the last attempt |
| `settles` | 1 worker, 1 fault, fair (36,208) | every job settles |
| `quota` | 2 accounts, 2 uploads, 1 deleter, 1 administrator, 1 deleted account (609,185) | usage covers what is stored; no account passes its quota; quotas stay within the contribution; a deleted account gives its quota back |
| `hosting` | 2 connections, the sweep, 3 fragments (874,053) | the counter is exact; recorded shards are on disk; the cap is passed by at most one shard per other connection; data shards survive until eviction |
| `repair` | 2 peers, 1 + 2 shards, 2 events, fair (1,199,182) | moving shards loses none; a recoverable chunk heals |
| `recovery` | 2 peers, 2 of 3 shards, 2 days, 2 builds, 3 identities, 1 fault, fair (432,098) | a recorded version can be rebuilt; the peers never lose the last good one; a restore installs exactly a snapshot that was taken, never over files; a node whose bundle was kept gets its files back |
| `discovery` | DHT: 2 nodes, 3 sites, 1 event, fair. Registry: 3 ids, 2 addresses, 2 keys, 2 callers, 1 fault (281,659) | only an address that answered is verified; a reachable node is verified where it lives; a pinned peer is recorded only at an address where its key was proved; pins are kept |
| `algorithms` | each algorithm over all its small inputs (192,833) | packs slice and parse back and are formed greedily; placement caps; a zone can be lost; a backup is rebuilt exactly, in spite of one bad copy; a download gathers its chunks in order and `file_health` agrees; the most endangered chunks first; a full bucket of the DHT table evicts the right entry |
| `restore_loss` | as `retention`, no version window | **violated**: see below |

Only `Versions` has its `TypeOK` among the checked properties; the proofs of
the other proved modules include theirs. Elsewhere it documents the state.

### Bounds, and why they are enough

- *Versions*: two uploads put two rows in contention for a path, through every
  order of trash, restore and rename. Three uploads on one path are what the
  version cap needs. The proofs remove both bounds for safety.
- *PackStore*: four ids are two small files, the pack they go into and the pack
  that replaces it. Two processes are two passes, a pass and a request, or a
  pass and a download.
- *Jobs*: two workers race for a row; two callers race to coalesce; three rows
  leave one waiting while two run. In `jobs` rows may run out, so liveness is
  checked in `settles`, where retries always find a row.
- *Quota*: two accounts compete for the contribution, two uploads for a quota.
- *Hosting*: two connections overlap with each other and with the sweep; three
  fragments leave one for each of them.
- The proofs remove these bounds for the safety of *Jobs*, *Quota*, *Hosting*
  and *Repair*.
- *Repair*: `MaxEvents` = 2 bounds crashes, departures, removals, damage, lost
  answers and rebalances together. With 3 shards of which 1 suffices, the
  critical margin, grace, loss and the per-location cap are all reached.
  `DownThreshold` = 2 makes a silent host pass through grace before it is down.
- *Recovery*: with 2 of 3 shards on 2 peers a build can be recorded without
  one of its shards and one peer holds two of them. Two builds are two days, or
  two tries on one day. `Keep`, `Depth` and `Lookback` are 1, so the second
  day's sweep reaches the first day's version. One fault is a crash, a lost
  disk or a lost answer. Three identities are the original, a replacement and
  the replacement of that.
- *Overlay*: two nodes share the one bucket (`K` = 1), so every sighting of one
  competes with the other; three sites let a node move and leave an address to
  the other. One event is a move, a restart, a flood of the bookkeeping, or a
  lost, repeated or late answer.
- *PeerRegistry*: two callers overlap; the residents include a peer with two
  different keys, one with none and this node itself. The proofs remove the
  bounds.
- *Algorithms*: packs of up to 3 members; backups of 2 + 2 shards, of which 4
  arrive, damaged, truncated or from another build; 6 degraded chunks against a
  heap of 3; downloads of 3 chunks through a window of 2; 3 peers in 2 zones
  with 5 or 9 shards and parity 2; one bucket of 2 for 4 nodes, with 4 ages.

Restrictions that are part of what the runs say:

- `Searched` (run `quota`): administrators act one at a time and only where no
  default quota is granted (`Apart`), against one upload at a time. An account
  is deleted while one upload runs, or while an administrator acts. See below
  for `set_quota` against a grant. The proofs need `Apart` for two of the four
  invariants, and none of the rest.
- `Untainted` (run `hosting`): the search stops where requests have overlapped
  on a fragment, because nothing is promised after that.
- `Overlap` = FALSE (run `repair`): an upload's distribution, a rebalance and a
  repair pass take turns. Together they can lose a copy; see below.
- `RestoreFirst` and `Quiet` (run `recovery`): a replacement node is restored
  before its own first backup, and no upload commits between the last freshness
  check of a restore and its write. See below for what happens otherwise.
- `MCDiscovery` checks `Overlay` and `PeerRegistry` side by side. The registry
  takes every inhabited address as one that discovery came up with, which is
  more than the overlay gives it, so the product would add no behaviour of the registry.

`CHECK_DEADLOCK FALSE` is used where ids or builds run out (`pack_store`,
`recovery`) or where the module is a one-shot evaluation (`algorithms`).

### Fairness

- `retention`: weak fairness of the sweep. A ticker of `main.rs` enqueues it
  every hour for the life of the process.
- `settles`: weak fairness of each statement of the worker loop, which is
  spawned at start-up and never returns, of the clock, and of rows becoming due.
- `repair`: weak fairness of the node's own work (`Work`) as a whole. Tasks and
  passes that have begun go on, and the ticker starts passes for ever. Peers,
  crashes and administrators are under no fairness.
- `recovery`: weak fairness of start-up and of the steps of a request that has
  begun; strong fairness of the restart (a service manager brings the process
  back) and of the request for an import (the administrator asks again until
  the node has its files). Nothing is assumed of backups, peers or restores
  being asked for.
- `discovery`: weak fairness of a question from each node that brings it a
  challenge (every node's own refresh keeps asking the nodes it knows, and the
  receive loop that challenges never returns), weak fairness of the delivery of
  an answer from each routable site, and strong fairness of the clock, which
  only an answer that is due holds up. Nothing is assumed of the driver's
  rounds.

## What the code does that its comments do not say

One disagreement is kept as a run that TLC must refute:

- `restore_loss`: `service.rs:343-344` says "so a restore can never be the
  thing that loses data". Restoring onto a path that another file has taken
  supersedes that file. If it is the only row of its lineage, the orphan rule
  (`manifest.rs:671`) reclaims it on the next sweep, whatever its age.

Others were reproduced in these modules by changing a constant, a constraint or
the property, and are recorded here and, where they are hazards, there.

Files and versions:

- `service::trash` racing an upload leaves a row that is both a version and in
  the trash (`manifest.rs:578`; `Versions` with two clients).
- `trash_path` of a folder also retires a folder whose name differs in case
  only (`manifest.rs:917`, `service.rs:307`).
- `purge` deletes a live file too (`service.rs:379`); the comment at
  `handlers/files.rs:987` speaks of trashed files and old versions.
- A download whose row is read before a repack and whose chunk rows are read
  after it is empty (`service.rs:533-543`).
- `file_health` counts damaged shards and shards on hosts flagged `down` as
  reachable; a download does not.

Jobs and quotas:

- A job that waited out the stale window in the queue is requeued while it runs
  (`jobs.rs:216` measures from `created_at`).
- `repack_small` and `compact_packs` do not coalesce (`jobs.rs:26`,
  `main.rs:391`).
- `set_quota` racing a default grant allocates more than is contributed
  (`admin.rs:191`).
- Two purges of one file both credit it (`service.rs:379`).
- An upload in flight when its account is deleted can create the quota row
  again and leave files behind (`events/mod.rs:43`).
- Concurrent stores exceed the contribution (`p2p.rs:277`).

Shards:

- `repair.rs:2-4` says that a pass "re-replicates the lost shards onto healthy
  locations (this node or a reachable peer)". `choose_target` (`repair.rs:477`)
  prefers the location with the fewest shards. When that is a host that answers
  pings but refuses shards, every pass picks it again (`repair.rs:503`) and the
  shard is never rebuilt, although the node's own store has room (`Repair` with
  a host in `Full`: `Heals` fails).
- A distribution task that has recorded its peer, overtaken by a rebalance that
  brings the shard back, deletes the copy that the rebalance then records
  (`handlers/files.rs:427`; `Repair` with `Overlap` = TRUE).

Backup and recovery:

- A node whose manifest was lost and whose identity was kept starts with an
  empty manifest and backs that up; after the retention window its sweep
  removes the good versions (`manifest_backup.rs:205-207`; `RestoreFirst` = FALSE).
- `already_placed` asks whether a version was recorded, not by which identity
  (`manifest_backup.rs:227`).
- Two builds of one day share their fragment ids, so that after a failed try
  the peers may hold shards of both and neither complete
  (`manifest_backup.rs:86-87`, `117-119`).
- An upload between the freshness check of a restore and its write is lost
  (`backup.rs:169-170`; `Quiet` = FALSE).
- A crash between the creation and the write of `identity.key` in an import
  leaves a file with which no start-up succeeds (`Torn`).
- The length of the first shard decides for all in
  `reassemble_manifest_backup`.

Discovery:

- `mark_verified` marks every entry at the address that answered, whatever its
  id, and a node that takes over a verified address is not challenged.
- A challenge round takes the first `VERIFY_BATCH` unverified entries, and the
  learning budget is charged to the address a record names.
- The liveness probe accepts any answerer and refreshes `last_seen`. With a
  probe interval of two minutes or less, the dedup of `register_peer` can keep
  a reused address from a new handshake.
- `add_peer` tests neither for this node itself nor for strict mode.

## What is proved

TLAPS checks every theorem to the last leaf. The assumptions are the ASSUMEs of
the modules: bounds are naturals, users, connections, fragments and sizes are
finitely many, a node serves at least one connection, a kind is coalesced or not, tombstones are not paths,
every ancestor of a path is a path, `None` is none of the values it stands
beside, and the residents of an address are peers with a key or without.

**The manifest** (`VersionsProofs`), for any paths, number of files and
clients, clock and retention policy:

- `TypeCorrect`, `RetiredRowsParked`, `PathsUnique`: the invariants of the run
  `versions`.
- `VisiblePathsKept`: the action property of that run.
- `Refinement`: `Spec => Tree!Spec`, the manifest implements `UserTree`.

None of these is inductive. That keys are distinct survives a push only
if a retired row's `path` is its own tombstone, and a restore only if its
`retired_path` is a real path and both stamps are cleared together. Hence

    IInv == TypeOK /\ GoodFiles /\ LiveDistinct /\ Fresh

where `GoodFiles` says that every row is either live on a real path or parked
on its own tombstone beside one, and `Fresh` that ids not yet minted have no
row. The operations fall into three shapes, each with a lemma: rows are retired
in place (`RetiringStep`), rows are forgotten (`ForgetStep`), and a row takes a
path whose holder is retired (`OccupyingStep`). Rename is on its own. The
refinement uses the same three shapes.

**Placement** (`PlacementProofs`), for any number of peers, zones, latencies,
reliabilities, shards and any parity: `PlacementCapped`. No peer holds more
than `parity` shards, the owner does only when every peer is full, and a zone
does only once every location's zone is full. The strengthening is `Charged`: a
zone's count is at least that of each of its locations, so a location that is
full makes its zone full. It is what carries `ZoneCap` through the step in
which the caps give way.

**Key pinning** (`PeerRegistryProofs`), for any peers, addresses, residents and
number of concurrent callers:

- `PinnedAddrsProved`: a peer with a pinned key is recorded only at an address
  where that key was proved for it.
- `PinsKept`: while a row exists, its pin is neither replaced nor erased.
- `DecisionsStand`: what a guarded update decided on still holds when it writes.

The decision of the upsert is made on a row read in an earlier step, so neither
of the first two is inductive. Hence

    IInv == RegistryTypeOK /\ ProofInHand /\ LockExclusive
              /\ DecisionStands /\ PinnedAddrProved

`ProofInHand`: a caller past its handshake carries a key that was proved at the
address it would write. `LockExclusive`: at most one transaction is between the
locking read and the write of a row. `DecisionStands` is the fact that the lock
buys: the row is still there, with no key or with the caller's.

**The job queue** (`JobsProofs`), for any workers, callers, kinds, fragments,
number of rows, attempt limit and stale window:

- `ClaimsExclusive`: two workers run one row only if it is older than the stale
  window. A claim looks at a row it read in an earlier statement, so the
  invariant needs `OwnRow` (a row in a worker's hands is `running` or stale) and
  `Fresh` (ids not handed out have no row, and no worker).
- `QueueBounded`: the bound on the open rows of a coalesced kind. The guard of
  `enqueue` is not atomic with its insert, so `Coalesced` counts rows that are in
  no worker's hands together with callers past the guard. A caller passes it
  when nothing waits, and then every such row was left `running` by a fault.
- `GcForgetsNothing`: the action property of `gc_remote`. It rests on `Answered`,
  which says for each stage of the loop what became of each shard of the row in
  hand, and on `Named`: a shard still to be deleted is in an open row.

**Hosted shards** (`HostingProofs`), for any owners, fragments, sizes, thresholds
and number of connections, until the first overlap or failure:

- `RecordsBacked` and `DataKept`, from

      IInv == TypeOK /\ Shaped /\ Apart /\ Written /\ Selected /\ RecordBacked

  A store's file is there when its row is recorded (`Written`), because no other
  request is about its fragment (`Apart`). What the sweep works off was past its
  threshold when it was listed (`Selected`).
- `HostedIsExact` and `OvershootBounded`, from `HInv`, which adds `Books`. The
  settlements are differences from a size read earlier, clamped at zero by
  `GREATEST`. `Knows` says that what was read still holds. `Account` says three
  things: the total is what requests will take off it plus the rows it already
  has, so that it is never clamped; with what is not settled it is the sum of
  the rows; and this sum, with the room that each admitted store may still fill
  (`Growth`), is at most the contribution and one largest shard per connection
  but one. The last is restored when a store reads the capacity: either there is
  none left and it may add nothing, or the total is below the contribution and
  every other connection is at most one shard away from it.

**The shards of a chunk** (`RepairProofs`), for any peers, erasure code and number
of faults, while upload, rebalance and repair take turns (`~Overlap`):
`ShardsKept`. The number of lost shards is not inductive, because a shard can be
doomed while its copy is good: a bad copy of it is about to be sent, or the
copy it is recorded at is next to be dropped. `Clean` says that nothing of the
kind awaits a shard, and `Charged` that shards that are not clean are no more
than the damaged copies and failed manifest writes so far.

**Quotas** (`QuotaProofs`), for any users, files, requests and administrators:

- `AccountsReleased`, without conditions, from `DInv`: what an account that was
  deleted at rest still has is with its `purge_user`.
- `UsageCovered`, from `UInv`: a purge credits the size of the row it read
  (`Read`), and what is stored and in flight was charged (`Covered`). It holds
  while `Undisturbed` does: `purge_file` credits what it read whether or not its
  DELETE finds the row, so two purges of one file credit it twice.
- `GrantsBacked`, from `BInv`: `Pending` says what each check has established
  that its write relies on (an insert holds the `node_local` lock). It holds
  while `Apart` does, because `set_quota` takes no lock.
- `QuotaNotExceeded` combines the two.

**Sums** (`Sums`) has the facts about sums over finite sets that these use:
removing or changing a term, zero terms, sums of sums, bounds. The library's
folds are recursive and its induction theorems take an operator, which the
provers cannot instantiate. The facts are proved instead by taking a least
counterexample: a set of naturals that is not empty has a least element, so a
subset of least cardinality for which a claim fails exists and cannot.

**Only model-checked**: liveness (`HistoryNotStranded`, `EveryJobSettles`,
`Heals`, `Recovers`, `Verifies`), which rests on fairness; the pack format, the
table of the DHT, the reassembly of backups, downloads and the repair queue,
whose definitions recurse over sequences; `SurvivesAZone`, which sums over
zones; and the invariants of `PackStore` (which reads through the pack format),
`Recovery` and `Overlay`.

## What is not modelled

- Cryptography, compression, chunking and the erasure code's arithmetic: pure
  functions of libraries. The modules use what they promise: any `Data`
  undamaged shards give a chunk back, and only its identity opens a sealed blob.
- Framing and timeouts of the transport, configuration, HTTP routing, status
  reports and the clients: I/O with no protocol of its own beyond the lost,
  refused and repeated requests that the modules have.
- The address ranges of `AddrPolicy`, which is a set of accepted sites in
  `Overlay`, and the mDNS protocol, which is a library's.
- The reliability averages (`Placement` and `Repair` take every value),
  `detect_self_ip_change`, and the node-wide `used_bytes` counter, which only
  makes `set_contribution` stricter.
- Migrations of the control-plane schema.
- In `Repair` one chunk stands for all. Modules meet through the guarantees
  they give each other and not in one specification: deletion through
  `Versions`, `Jobs` and `Hosting` end to end, and an upload through `Quota`,
  `Versions` and `Repair`, are not composed, because each alone is at the size
  that TLC can exhaust.

## Running

    tlc -workers 2 -config MCVersions.cfg MCVersions
    tlapm VersionsProofs.tla

Each run's module and configuration are named in `PROJECT.json`. The longest
runs, `pack_store`, `repair` and `discovery`, take about three minutes on two
cores.
