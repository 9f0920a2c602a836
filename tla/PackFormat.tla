----------------------------- MODULE PackFormat -----------------------------
(***************************************************************************)
(* The pure half of small-file packing (store/src/service.rs): the layout  *)
(* of a pack's plaintext, the two ways of reading it back, and the plan    *)
(* that groups small files.  A plaintext is a sequence of cells; a         *)
(* fixed-width integer of the format is one cell.                          *)
(***************************************************************************)
EXTENDS Integers, Sequences, SequencesExt

CONSTANTS
    PackMagic,    \* PACK_MAGIC, a sequence of cells
    PackTarget,   \* PACK_TARGET
    Corrupt       \* StoreError::Integrity

(* An entry is [file_id : Seq(cell), data : Seq(cell)]. *)
Payload(entries) == FlattenSeq([i \in DOMAIN entries |-> entries[i].data])

(* Faulty variant: the offset is taken after the member was appended. *)
PackRanges_after(entries) ==
    [i \in DOMAIN entries |->
        [off |-> Len(Payload(SubSeq(entries, 1, i))), len |-> Len(entries[i].data)]]

PackRanges(entries) ==
    [i \in DOMAIN entries |->
        [off |-> Len(Payload(SubSeq(entries, 1, i - 1))), len |-> Len(entries[i].data)]]

PackIndex(entries) ==
    LET ranges == PackRanges(entries)
    IN  FlattenSeq([i \in DOMAIN entries |->
            <<Len(entries[i].file_id)>> \o entries[i].file_id
                \o <<ranges[i].off, ranges[i].len>>])

build_pack(entries) ==
    LET index == PackIndex(entries)
    IN  Payload(entries) \o index \o <<Len(index)>> \o PackMagic

(* [pack_offset, pack_offset + pack_len) of the plaintext. *)
member_slice(plain, off, len) ==
    IF off + len <= Len(plain) THEN SubSeq(plain, off + 1, off + len) ELSE Corrupt

(* read_index_entry at position i of cur: the entry and the next position. *)
read_index_entry(cur, i) ==
    LET idLen == cur[i]
        next == i + idLen + 3
    IN  IF next > Len(cur) + 1 THEN Corrupt
        ELSE [entry |-> [file_id |-> SubSeq(cur, i + 1, i + idLen),
                         off |-> cur[next - 2], len |-> cur[next - 1]],
              next |-> next]

(* The loop of parse_pack_index. *)
ReadIndex(cur) ==
    LET From[i \in 1 .. Len(cur) + 1] ==
            IF i > Len(cur) THEN <<>>
            ELSE LET r == read_index_entry(cur, i)
                 IN  IF r = Corrupt THEN Corrupt
                     ELSE IF From[r.next] = Corrupt THEN Corrupt
                     ELSE <<r.entry>> \o From[r.next]
    IN  From[1]

parse_pack_index(plain) ==
    LET magic_at == Len(plain) - Len(PackMagic)
        len_at == magic_at - 1
        index_at == len_at - plain[magic_at]
    IN  IF ~IsSuffix(PackMagic, plain) THEN Corrupt
        ELSE IF len_at < 0 THEN Corrupt
        ELSE IF index_at < 0 THEN Corrupt
        ELSE ReadIndex(SubSeq(plain, index_at + 1, len_at))

(* plan_packs: greedy over path-ordered candidates [id, size]; a lone file is *)
(* left alone.                                                                *)
plan_packs(candidates) ==
    LET Take(acc, f) ==
            IF acc.group # <<>> /\ acc.bytes + f.size > PackTarget
            THEN [groups |-> Append(acc.groups, acc.group), group |-> <<f>>, bytes |-> f.size]
            ELSE [acc EXCEPT !.group = Append(@, f), !.bytes = @ + f.size]
        done == FoldLeft(Take, [groups |-> <<>>, group |-> <<>>, bytes |-> 0], candidates)
        groups == IF done.group = <<>> THEN done.groups ELSE Append(done.groups, done.group)
    IN  SelectSeq(groups, LAMBDA g : Len(g) >= 2)
=============================================================================
