------------------------------ MODULE PackStore -----------------------------
(***************************************************************************)
(* Where the bytes of a user's files are (store/src/service.rs and the     *)
(* packing passes of server/src/handlers/files.rs): self-contained files,  *)
(* packs, the passes that build and rewrite packs, permanent deletes, and  *)
(* crashes between any two durable steps.                                  *)
(*                                                                         *)
(* Shard files are written to the chunk store inside a manifest            *)
(* transaction and deleted after one; only the manifest is transactional.  *)
(* All shards of an id count as one object of the store.  `lock` is the    *)
(* SQLite write lock a transaction holds from its first write to its       *)
(* commit.  A pass may run in the job worker and, at the same time, in an  *)
(* admin request, so every process may run any of them.                    *)
(***************************************************************************)
EXTENDS Integers, Sequences, FiniteSets, SequencesExt

CONSTANTS
    Procs,        \* request handlers and background tasks
    MaxFiles,     \* bound: ids minted, for files and packs together
    Size(_),      \* the size of the file uploaded under an id
    SmallMax,     \* SMALL_MAX
    PackTarget,   \* PACK_TARGET
    PackMagic,    \* PACK_MAGIC
    MinLivePct,   \* PACK_COMPACT_MIN_LIVE_PCT
    MaxStranded,  \* bound: failures happen while fewer ids are stranded
    Corrupt,      \* an unreadable or ill-formed object
    None

ASSUME StoreAssumption ==
    /\ MaxFiles \in Nat /\ MaxStranded \in Nat
    /\ \A f \in 1 .. MaxFiles : Size(f) \in Nat \ {0}
    /\ None \notin Nat
    /\ None \notin Procs

INSTANCE PackFormat

FileIds == 1 .. MaxFiles

VARIABLES
    rows,      \* committed `files` rows: FileIds -> row or None
    disk,      \* the chunk store: FileIds -> plaintext its shards decode to, or None
    minted,    \* ids minted so far
    lock,      \* the process inside a write transaction, or None
    job,       \* what each process is doing
    freeing,   \* shards a committed transaction released, not yet deleted
    stranded   \* shards no row names and nobody will delete

vars == <<rows, disk, minted, lock, job, freeing, stranded>>

(* What a process remembers between its steps: the groups still to visit, the *)
(* entries it has read, the pack it rewrites or reads from and the plaintext  *)
(* read from it, the id its transaction inserts or its request names, and the *)
(* row the request read.                                                      *)
Ops == {"idle", "push", "repack", "pack", "packtx",
        "compact", "slice", "rewrite", "rewritetx", "chunks", "packplan", "fetch"}
Entry == [file_id: Seq(FileIds), data: Seq(Nat)]
Row == [size: Nat, is_pack: BOOLEAN, live: BOOLEAN,
        pack_id: FileIds \cup {None}, off: Nat, len: Nat]
Job == [op: Ops, todo: Seq(Seq(FileIds)), entries: Seq(Entry), plain: Seq(Nat),
        old: FileIds \cup {None}, id: FileIds \cup {None}, row: Row \cup {None}]
Idle == [op |-> "idle", todo |-> <<>>, entries |-> <<>>, plain |-> <<>>,
         old |-> None, id |-> None, row |-> None]

Rows == {f \in FileIds : rows[f] # None}
Packs == {f \in Rows : rows[f].is_pack}
Files == Rows \ Packs
pack_members(q) == {f \in Rows : rows[f].pack_id = q}

(* The plaintext of an uploaded file: content never changes under an id. *)
Bytes(f, n) == [i \in 1 .. n |-> 10 * f + i]

(* pull / reconstruct_file *)
Read(f) ==
    IF f \notin Rows THEN Corrupt
    ELSE LET q == rows[f].pack_id
         IN  IF q = None THEN IF disk[f] = None THEN Corrupt ELSE disk[f]
             ELSE IF q \notin Rows THEN Corrupt
             ELSE IF rows[q].pack_id # None \/ disk[q] = None THEN Corrupt
             ELSE member_slice(disk[q], rows[f].off, rows[f].len)

(* An entry pairs an id with the bytes that were read for it. *)
EntryOf(f, bytes) == [file_id |-> <<f>>, data |-> bytes]
IdOf(e) == e.file_id[1]
IdsOf(entries) == {IdOf(entries[i]) : i \in DOMAIN entries}
Elems(s) == {s[i] : i \in DOMAIN s}

MayFail == Cardinality(stranded) < MaxStranded

Init ==
    /\ rows = [f \in FileIds |-> None]
    /\ disk = [f \in FileIds |-> None]
    /\ minted = 0
    /\ lock = None
    /\ job = [p \in Procs |-> Idle]
    /\ freeing = {}
    /\ stranded = {}

-----------------------------------------------------------------------------
(* Uploads, retirement and permanent deletes *)

(* push, up to the commit: write_chunk_rows writes the shards. *)
PushWrite(p) ==
    LET f == minted + 1
    IN  /\ job[p].op = "idle"
        /\ lock = None
        /\ f \in FileIds
        /\ minted' = f
        /\ disk' = [disk EXCEPT ![f] = Bytes(f, Size(f))]
        /\ lock' = p
        /\ job' = [job EXCEPT ![p].op = "push", ![p].id = f]
        /\ UNCHANGED <<rows, freeing, stranded>>

NewFile(f) == [size |-> Len(disk[f]), is_pack |-> FALSE, live |-> TRUE,
               pack_id |-> None, off |-> 0, len |-> 0]

PushCommit(p) ==
    /\ job[p].op = "push"
    /\ rows' = [rows EXCEPT ![job[p].id] = NewFile(job[p].id)]
    /\ lock' = None
    /\ job' = [job EXCEPT ![p] = Idle]
    /\ UNCHANGED <<disk, minted, freeing, stranded>>

(* A row enters or leaves the trash or the version history (see Versions). *)
Retire(f) ==
    /\ lock = None
    /\ f \in Files
    /\ rows' = [rows EXCEPT ![f].live = ~@]
    /\ UNCHANGED <<disk, minted, lock, job, freeing, stranded>>

(* purge_file, empty_trash, purge_retired: the row goes, then its shards; *)
(* a member has none of its own.                                          *)
Purge(f) ==
    /\ lock = None
    /\ f \in Files
    /\ rows' = [rows EXCEPT ![f] = None]
    /\ freeing' = IF rows[f].pack_id = None THEN freeing \cup {f} ELSE freeing
    /\ UNCHANGED <<disk, minted, lock, job, stranded>>

(* purge_local_collect_remote: a failed delete is logged and skipped. *)
FreeShards(f) ==
    /\ f \in freeing
    /\ freeing' = freeing \ {f}
    /\ \/ disk' = [disk EXCEPT ![f] = None] /\ UNCHANGED stranded
       \/ MayFail /\ stranded' = stranded \cup {f} /\ UNCHANGED disk
    /\ UNCHANGED <<rows, minted, lock, job>>

-----------------------------------------------------------------------------
(* Repacking: repack_all_now and pack_files *)

packable_files ==
    {f \in Files : rows[f].live /\ rows[f].pack_id = None /\ rows[f].size <= SmallMax}

RepackPlan ==
    LET order == SetToSortSeq(packable_files, <)
        plan == plan_packs([i \in DOMAIN order |->
                               [id |-> order[i], size |-> rows[order[i]].size]])
    IN  [n \in DOMAIN plan |-> [i \in DOMAIN plan[n] |-> plan[n][i].id]]

RepackList(p) ==
    /\ job[p].op = "idle"
    /\ RepackPlan # <<>>
    /\ job' = [job EXCEPT ![p].op = "repack", ![p].todo = RepackPlan]
    /\ UNCHANGED <<rows, disk, minted, lock, freeing, stranded>>

(* The next group: read its members; an unreadable one forfeits the group. *)
PackRead(p) ==
    LET group == Head(job[p].todo)
        readable == \A f \in Elems(group) : Read(f) # Corrupt
        entries == [i \in DOMAIN group |-> EntryOf(group[i], Read(group[i]))]
    IN  /\ job[p].op = "repack"
        /\ job[p].todo # <<>>
        /\ job' = [job EXCEPT ![p].op = IF readable THEN "pack" ELSE @,
                              ![p].entries = IF readable THEN entries ELSE <<>>,
                              ![p].todo = Tail(@)]
        /\ UNCHANGED <<rows, disk, minted, lock, freeing, stranded>>

(* pack_files re-checks each member inside the transaction. *)
StillAutonomous(entries) ==
    \A e \in Elems(entries) :
        /\ IdOf(e) \in Rows
        /\ rows[IdOf(e)].pack_id = None
        /\ rows[IdOf(e)].size = Len(e.data)

(* A member moved, or the manifest stayed busy: the group stays autonomous. *)
PackAbort(p) ==
    /\ job[p].op = "pack"
    /\ lock # None \/ ~StillAutonomous(job[p].entries)
    /\ job' = [job EXCEPT ![p].op = "repack", ![p].entries = <<>>]
    /\ UNCHANGED <<rows, disk, minted, lock, freeing, stranded>>

PackWrite(p) ==
    LET q == minted + 1
    IN  /\ job[p].op = "pack"
        /\ lock = None
        /\ StillAutonomous(job[p].entries)
        /\ q \in FileIds
        /\ minted' = q
        /\ disk' = [disk EXCEPT ![q] = build_pack(job[p].entries)]
        /\ lock' = p
        /\ job' = [job EXCEPT ![p].op = "packtx", ![p].id = q]
        /\ UNCHANGED <<rows, freeing, stranded>>

(* Faulty variant: a survivor keeps the offset it had in the old pack. *)
WithPack_old_offset(q, entries, rs) ==
    [f \in FileIds |->
        IF f = q
        THEN [size |-> Len(disk[q]), is_pack |-> TRUE, live |-> TRUE,
              pack_id |-> None, off |-> 0, len |-> 0]
        ELSE IF f \in IdsOf(entries)
        THEN [rs[f] EXCEPT !.pack_id = q, !.len = rs[f].size]
        ELSE rs[f]]

(* assign_to_pack for each entry, insert_pack_row for the container q. *)
WithPack(q, entries, rs) ==
    LET ranges == PackRanges(entries)
        place == [f \in IdsOf(entries) |->
                     ranges[CHOOSE i \in DOMAIN entries : IdOf(entries[i]) = f]]
    IN  [f \in FileIds |->
            IF f = q
            THEN [size |-> Len(disk[q]), is_pack |-> TRUE, live |-> TRUE,
                  pack_id |-> None, off |-> 0, len |-> 0]
            ELSE IF f \in IdsOf(entries)
            THEN [rs[f] EXCEPT !.pack_id = q, !.off = place[f].off, !.len = place[f].len]
            ELSE rs[f]]

PackCommit(p) ==
    /\ job[p].op = "packtx"
    /\ rows' = WithPack(job[p].id, job[p].entries, rows)
    /\ freeing' = freeing \cup IdsOf(job[p].entries)
    /\ lock' = None
    /\ job' = [job EXCEPT ![p].op = "repack", ![p].entries = <<>>, ![p].id = None]
    /\ UNCHANGED <<disk, minted, stranded>>

-----------------------------------------------------------------------------
(* Compaction: compact_packs_now and compact_pack *)

ReferencedBytes(q) == MapThenSumSet(LAMBDA f : rows[f].len, pack_members(q))

(* pack_occupancy, and the test that leaves a mostly live pack alone. *)
SparsePacks ==
    {q \in Packs : \/ pack_members(q) = {}
                   \/ ReferencedBytes(q) * 100 < rows[q].size * MinLivePct}

ByOffset(q) == SetToSortSeq(pack_members(q), LAMBDA f, g : rows[f].off < rows[g].off)

(* Each entry of the to-do list is a pack followed by its members. *)
CompactList(p) ==
    LET packs == SetToSortSeq(SparsePacks, <)
    IN  /\ job[p].op = "idle"
        /\ packs # <<>>
        /\ job' = [job EXCEPT ![p].op = "compact",
                              ![p].todo = [i \in DOMAIN packs |-> <<packs[i]>> \o ByOffset(packs[i])]]
        /\ UNCHANGED <<rows, disk, minted, lock, freeing, stranded>>

(* The next pack: read it; a memberless one is not read at all. *)
CompactRead(p) ==
    LET q == Head(job[p].todo)[1]
        memberless == Len(Head(job[p].todo)) = 1
        readable == Read(q) # Corrupt
        next == IF memberless THEN "rewrite" ELSE IF readable THEN "slice" ELSE "compact"
    IN  /\ job[p].op = "compact"
        /\ job[p].todo # <<>>
        /\ job' = [job EXCEPT ![p].op = next,
                              ![p].old = IF next = "compact" THEN None ELSE q,
                              ![p].plain = IF next = "slice" THEN Read(q) ELSE <<>>,
                              ![p].todo = Tail(@)]
        /\ UNCHANGED <<rows, disk, minted, lock, freeing, stranded>>

(* Then list its members, as they are now, and slice each one out. *)
CompactSlice(p) ==
    LET members == ByOffset(job[p].old)
        slices == [i \in DOMAIN members |->
                      member_slice(job[p].plain, rows[members[i]].off, rows[members[i]].len)]
        sliced == members # <<>> /\ Corrupt \notin Elems(slices)
        entries == [i \in DOMAIN members |-> EntryOf(members[i], slices[i])]
    IN  /\ job[p].op = "slice"
        /\ job' = [job EXCEPT ![p].op = IF sliced THEN "rewrite" ELSE "compact",
                              ![p].old = IF sliced THEN @ ELSE None,
                              ![p].entries = IF sliced THEN entries ELSE <<>>,
                              ![p].plain = <<>>]
        /\ UNCHANGED <<rows, disk, minted, lock, freeing, stranded>>

(* compact_pack's checks: still a pack, every member carried, every survivor *)
(* still in it.                                                              *)
StillCarried(old, survivors) ==
    /\ old \in Packs
    /\ pack_members(old) \subseteq IdsOf(survivors)
    /\ \A e \in Elems(survivors) :
          /\ IdOf(e) \in Rows
          /\ rows[IdOf(e)].pack_id = old
          /\ rows[IdOf(e)].size = Len(e.data)

RewriteAbort(p) ==
    /\ job[p].op = "rewrite"
    /\ lock # None \/ ~StillCarried(job[p].old, job[p].entries)
    /\ job' = [job EXCEPT ![p].op = "compact", ![p].entries = <<>>, ![p].old = None]
    /\ UNCHANGED <<rows, disk, minted, lock, freeing, stranded>>

(* A pack nothing references is purged outright. *)
DropPack(p) ==
    /\ job[p].op = "rewrite"
    /\ lock = None
    /\ StillCarried(job[p].old, job[p].entries)
    /\ job[p].entries = <<>>
    /\ rows' = [rows EXCEPT ![job[p].old] = None]
    /\ freeing' = freeing \cup {job[p].old}
    /\ job' = [job EXCEPT ![p].op = "compact", ![p].old = None]
    /\ UNCHANGED <<disk, minted, lock, stranded>>

RewriteWrite(p) ==
    LET q == minted + 1
    IN  /\ job[p].op = "rewrite"
        /\ lock = None
        /\ StillCarried(job[p].old, job[p].entries)
        /\ job[p].entries # <<>>
        /\ q \in FileIds
        /\ minted' = q
        /\ disk' = [disk EXCEPT ![q] = build_pack(job[p].entries)]
        /\ lock' = p
        /\ job' = [job EXCEPT ![p].op = "rewritetx", ![p].id = q]
        /\ UNCHANGED <<rows, freeing, stranded>>

(* Faulty variant: the rewritten pack's shards are forgotten. *)
RewriteCommit_leaks(p) ==
    /\ job[p].op = "rewritetx"
    /\ rows' = WithPack(job[p].id, job[p].entries, [rows EXCEPT ![job[p].old] = None])
    /\ lock' = None
    /\ job' = [job EXCEPT ![p].op = "compact", ![p].entries = <<>>,
                          ![p].old = None, ![p].id = None]
    /\ UNCHANGED <<disk, minted, freeing, stranded>>

RewriteCommit(p) ==
    LET old == job[p].old
    IN  /\ job[p].op = "rewritetx"
        /\ rows' = WithPack(job[p].id, job[p].entries, [rows EXCEPT ![old] = None])
        /\ freeing' = freeing \cup {old}
        /\ lock' = None
        /\ job' = [job EXCEPT ![p].op = "compact", ![p].entries = <<>>,
                              ![p].old = None, ![p].id = None]
        /\ UNCHANGED <<disk, minted, stranded>>

-----------------------------------------------------------------------------
(* Downloads: reconstruct_file *)

store == <<rows, disk, minted, lock, freeing, stranded>>

(* pull_plan reads the file's row, then, in a statement of its own, its chunk *)
(* rows; `todo` says whether there were any (bound: one download at a time).  *)
ReadRow(p, f) ==
    /\ job[p].op = "idle"
    /\ \A r \in Procs : job[r].row = None
    /\ f \in Files
    /\ job' = [job EXCEPT ![p].op = "chunks", ![p].old = f, ![p].id = f, ![p].row = rows[f]]
    /\ UNCHANGED store

HasChunks(f) == f \in Rows /\ rows[f].pack_id = None

ReadChunks(p) ==
    LET home == job[p].old
        pack == job[p].row.pack_id
    IN  /\ job[p].op = "chunks"
        /\ job' = IF pack \notin {None, home}
                  THEN [job EXCEPT ![p].op = "packplan", ![p].old = pack]
                  ELSE [job EXCEPT ![p].op = "fetch",
                                   ![p].todo = IF HasChunks(home) THEN <<<<home>>>> ELSE <<>>]
        /\ UNCHANGED store

(* The row of a member's pack: none, or a member itself, is an error. *)
ReadPackRow(p) ==
    /\ job[p].op = "packplan"
    /\ job' = IF HasChunks(job[p].old) THEN [job EXCEPT ![p].op = "chunks"]
              ELSE [job EXCEPT ![p] = Idle]
    /\ UNCHANGED store

(* Faulty variant: the member's range is read when the pack has arrived. *)
Sliced_late(f, row, plain) ==
    IF row.pack_id = None \/ f \notin Rows THEN plain
    ELSE member_slice(plain, rows[f].off, rows[f].len)

(* member_slice with the row the download began with. *)
Sliced(f, row, plain) ==
    IF row.pack_id = None THEN plain ELSE member_slice(plain, row.off, row.len)

(* fetch_and_reassemble: the chunks the plan names, put together; a chunk whose *)
(* shards are gone is an error, and no chunk at all is no bytes.                *)
Fetched(p) ==
    LET plain == IF job[p].todo = <<>> THEN <<>> ELSE disk[job[p].old]
    IN  IF plain = None THEN Corrupt ELSE Sliced(job[p].id, job[p].row, plain)

(* The bytes, or the error, are returned. *)
ReadFetch(p) ==
    /\ job[p].op = "fetch"
    /\ job' = [job EXCEPT ![p] = Idle]
    /\ UNCHANGED store

-----------------------------------------------------------------------------
(* End of a pass, failures and crashes *)

PassDone(p) ==
    /\ job[p].op \in {"repack", "compact"}
    /\ job[p].todo = <<>>
    /\ job' = [job EXCEPT ![p] = Idle]
    /\ UNCHANGED <<rows, disk, minted, lock, freeing, stranded>>

(* An I/O error rolls the transaction back; the shard files stay. *)
Rollback(p) ==
    /\ job[p].op \in {"push", "packtx", "rewritetx"}
    /\ MayFail
    /\ lock' = None
    /\ stranded' = stranded \cup {job[p].id}
    /\ job' = [job EXCEPT ![p] =
                  [Idle EXCEPT !.op = CASE job[p].op = "push" -> "idle"
                                        [] job[p].op = "packtx" -> "repack"
                                        [] job[p].op = "rewritetx" -> "compact",
                               !.todo = job[p].todo]]
    /\ UNCHANGED <<rows, disk, minted, freeing>>

InTx == {job[p].id : p \in {r \in Procs : job[r].op \in {"push", "packtx", "rewritetx"}}}

(* The process dies: the manifest and the store stay as they are. *)
Crash ==
    /\ \E p \in Procs : job[p] # Idle
    /\ MayFail
    /\ lock' = None
    /\ job' = [p \in Procs |-> Idle]
    /\ freeing' = {}
    /\ stranded' = stranded \cup freeing \cup InTx
    /\ UNCHANGED <<rows, disk, minted>>

Next ==
    \/ \E f \in FileIds : Retire(f) \/ Purge(f) \/ FreeShards(f)
    \/ \E p \in Procs :
          \/ PushWrite(p) \/ PushCommit(p)
          \/ RepackList(p) \/ PackRead(p) \/ PackAbort(p) \/ PackWrite(p) \/ PackCommit(p)
          \/ CompactList(p) \/ CompactRead(p) \/ CompactSlice(p)
          \/ RewriteAbort(p) \/ DropPack(p) \/ RewriteWrite(p) \/ RewriteCommit(p)
          \/ ReadChunks(p) \/ ReadPackRow(p) \/ ReadFetch(p)
          \/ PassDone(p) \/ Rollback(p)
    \/ \E p \in Procs, f \in FileIds : ReadRow(p, f)
    \/ Crash

Spec == Init /\ [][Next]_vars

-----------------------------------------------------------------------------
(* Properties *)

(* Every cell holds a value of its column. *)
TypeOK ==
    /\ rows \in [FileIds -> Row \cup {None}]
    /\ \A f \in FileIds : disk[f] = None \/ disk[f] \in Seq(Nat)
    /\ minted \in 0 .. MaxFiles
    /\ lock \in Procs \cup {None}
    /\ job \in [Procs -> Job]
    /\ freeing \subseteq FileIds
    /\ stranded \subseteq FileIds

(* Whatever crashes, rollbacks, concurrent passes and deletes happened, every *)
(* file that still has a row reads back as the bytes that were uploaded,      *)
(* through its pack if it is a member (pull); "never the reverse, rows pointing *)
(* at absent bytes" (service.rs:953): its shards, or its pack's, are not      *)
(* about to be freed either, and packs never nest.                            *)
ReadBack ==
    /\ \A f \in Files : Read(f) = Bytes(f, rows[f].size)
    /\ \A f \in Rows :
          LET home == IF rows[f].pack_id = None THEN f ELSE rows[f].pack_id
          IN  /\ home \in Rows
              /\ rows[home].pack_id = None
              /\ disk[home] # None
              /\ home \notin freeing \cup stranded

(* A download returns exactly the uploaded bytes, though the file may be      *)
(* packed, its pack rewritten or both purged between the read of its row, of  *)
(* its chunk rows, of its pack's plan and the fetch (reconstruct_file); it    *)
(* fails, or returns no bytes at all when the chunk rows went in between,     *)
(* only if the file was purged or moved since its row was read.               *)
DownloadExact ==
    \A p \in Procs :
        job[p].op = "fetch" =>
            LET f == job[p].id
                row == job[p].row
                moved == f \notin Rows \/ rows[f].pack_id # row.pack_id
            IN  \/ Fetched(p) = Bytes(f, row.size)
                \/ moved /\ Fetched(p) = Corrupt
                \/ moved /\ Fetched(p) = <<>> /\ job[p].todo = <<>>

(* Every permanent delete and every pack rewrite gives its shards back: what  *)
(* is on disk is named by a row, about to be named by one, about to be        *)
(* deleted, or was left by a crash, a rollback or a failed delete.            *)
NothingLeaks ==
    \A f \in FileIds :
        disk[f] # None =>
            \/ f \in Rows /\ rows[f].pack_id = None
            \/ f \in InTx \cup freeing \cup stranded
=============================================================================
