----------------------------- MODULE ActionHash -----------------------------
(***************************************************************************)
(* What an authorized action commits to.                                   *)
(*                                                                         *)
(* An admin authorizes a CPI pattern by storing a list of ops and the hash *)
(* of what the ops ingest.  The hash is modelled by its preimage, a        *)
(* sequence of bytes in which a public key, always 32 bytes long, takes    *)
(* one cell.  Keys and instruction data are numbers, so that a byte of one *)
(* field can be mistaken for a byte of another.                            *)
(***************************************************************************)
EXTENDS Integers, Sequences, SequencesExt

MAX_ACTION_OPS == 32

ActionScopes == {"Manager", "Swap", "AtomicRedeem", "FlashApprove", "Deploy"}

\* Little-endian bytes of a number, at most four.
le_bytes(n, width) ==
    [i \in 1..width |-> (n \div <<1, 256, 256 * 256, 256 * 256 * 256>>[i]) % 256]

-----------------------------------------------------------------------------
(* Ops and their stored form.                                                *)

Noop == [kind |-> "Noop"]
IngestInstruction(offset, len) ==
    [kind |-> "IngestInstruction", offset |-> offset, len |-> len]
IngestAccount(index) == [kind |-> "IngestAccount", index |-> index]
IngestInstructionDataSize == [kind |-> "IngestInstructionDataSize"]
IngestSiblingInstruction(relative_index, offset, len) ==
    [kind |-> "IngestSiblingInstruction", relative_index |-> relative_index,
     offset |-> offset, len |-> len]
IngestSiblingAccount(relative_index, index) ==
    [kind |-> "IngestSiblingAccount", relative_index |-> relative_index, index |-> index]

U8 == 0..255
U16 == 0..((256 * 256) - 1)
I8 == -128..127

\* The ops there are, with the widths of their fields.
ActionOps ==
    {Noop, IngestInstructionDataSize}
      \cup [kind : {"IngestInstruction"}, offset : U16, len : U8]
      \cup [kind : {"IngestAccount"}, index : U8]
      \cup [kind : {"IngestSiblingInstruction"}, relative_index : I8, offset : U8, len : U8]
      \cup [kind : {"IngestSiblingAccount"}, relative_index : I8, index : U8]

InvalidOp == [kind |-> "InvalidOp"]

\* Four bytes <<kind, arg0, arg1, arg2>>.
stored(op) ==
    CASE op.kind = "Noop" -> <<0, 0, 0, 0>>
      [] op.kind = "IngestInstruction" -> <<1, op.len>> \o le_bytes(op.offset, 2)
      [] op.kind = "IngestAccount" -> <<2, op.index, 0, 0>>
      [] op.kind = "IngestInstructionDataSize" -> <<3, 0, 0, 0>>
      [] op.kind = "IngestSiblingInstruction" ->
            <<4, op.relative_index % 256, op.offset, op.len>>
      [] op.kind = "IngestSiblingAccount" ->
            <<5, op.relative_index % 256, op.index, 0>>

as_i8(byte) == IF byte < 128 THEN byte ELSE byte - 256

\* Faulty variant: unused argument bytes are ignored.
try_to_op_Lax(s) ==
    CASE s[1] = 0 -> Noop
      [] s[1] = 1 -> IngestInstruction(s[3] + 256 * s[4], s[2])
      [] s[1] = 2 -> IngestAccount(s[2])
      [] s[1] = 3 -> IngestInstructionDataSize
      [] s[1] = 4 -> IngestSiblingInstruction(as_i8(s[2]), s[3], s[4])
      [] s[1] = 5 -> IngestSiblingAccount(as_i8(s[2]), s[3])
      [] OTHER -> InvalidOp

\* Only the canonical encoding of an op decodes.
try_to_op(s) ==
    CASE s = <<0, 0, 0, 0>> -> Noop
      [] s[1] = 1 -> IngestInstruction(s[3] + 256 * s[4], s[2])
      [] s[1] = 2 /\ s[3] = 0 /\ s[4] = 0 -> IngestAccount(s[2])
      [] s = <<3, 0, 0, 0>> -> IngestInstructionDataSize
      [] s[1] = 4 -> IngestSiblingInstruction(as_i8(s[2]), s[3], s[4])
      [] s[1] = 5 /\ s[4] = 0 -> IngestSiblingAccount(as_i8(s[2]), s[3])
      [] OTHER -> InvalidOp

\* What AuthorizeAction checks of the ops it is given.
validate_ops(ops) ==
    /\ Len(ops) <= MAX_ACTION_OPS
    /\ \A i \in DOMAIN ops : try_to_op(stored(ops[i])) # InvalidOp

ingests_account(ops, index) ==
    \E i \in DOMAIN ops : ops[i] = IngestAccount(index)

-----------------------------------------------------------------------------
(* A call [program, metas, data, siblings]; siblings maps a relative index   *)
(* to the top-level instruction [program, data, accounts] found there.       *)

MetaRecord == [key : Nat, is_signer : BOOLEAN, is_writable : BOOLEAN]

\* Cells of data; a length fits the u32 it is hashed as.
Bytes(data) == data \in Seq(Nat) /\ Len(data) \div (256 * 256 * 256) < 256

\* A downstream call, as far as the hash reads it.
well_formed(call) ==
    /\ call.program \in Nat /\ call.metas \in Seq(MetaRecord) /\ Bytes(call.data)
    /\ \A r \in DOMAIN call.siblings :
         LET sibling == call.siblings[r]
         IN  sibling.program \in Nat /\ Bytes(sibling.data) /\ sibling.accounts \in Seq(Nat)

instruction_slice_ok(data, offset, len) == offset + len <= Len(data)

instruction_slice(data, offset, len) == SubSeq(data, offset + 1, offset + len)

\* The conditions under which hashing an op does not fail.
ingestable(op, call) ==
    CASE op.kind = "IngestInstruction" ->
            instruction_slice_ok(call.data, op.offset, op.len)
      [] op.kind = "IngestAccount" -> op.index < Len(call.metas)
      [] op.kind = "IngestSiblingInstruction" ->
            /\ op.relative_index \in DOMAIN call.siblings
            /\ instruction_slice_ok(call.siblings[op.relative_index].data, op.offset, op.len)
      [] op.kind = "IngestSiblingAccount" ->
            /\ op.relative_index \in DOMAIN call.siblings
            /\ op.index < Len(call.siblings[op.relative_index].accounts)
      [] OTHER -> TRUE

flag(b) == IF b THEN 1 ELSE 0

\* Faulty variant: the slice is not preceded by its length, nor the key by its flags; a sibling's
\* data and account go in without the program they belong to.
op_bytes_NoFlags(op, call) ==
    CASE op.kind = "Noop" -> <<0>>
      [] op.kind = "IngestInstruction" ->
            <<1>> \o le_bytes(op.offset, 2) \o <<op.len>>
              \o instruction_slice(call.data, op.offset, op.len)
      [] op.kind = "IngestAccount" -> <<2, op.index, call.metas[op.index + 1].key>>
      [] op.kind = "IngestInstructionDataSize" -> <<3>> \o le_bytes(Len(call.data), 4)
      [] op.kind = "IngestSiblingInstruction" ->
            LET sibling == call.siblings[op.relative_index]
            IN  <<4, op.relative_index % 256, op.offset, op.len>>
                  \o instruction_slice(sibling.data, op.offset, op.len)
      [] op.kind = "IngestSiblingAccount" ->
            <<5, op.relative_index % 256, op.index,
              call.siblings[op.relative_index].accounts[op.index + 1]>>

\* What one op folds into the hash.
op_bytes(op, call) ==
    CASE op.kind = "Noop" -> <<0>>
      [] op.kind = "IngestInstruction" ->
            <<1>> \o le_bytes(op.offset, 2) \o <<op.len>>
              \o instruction_slice(call.data, op.offset, op.len)
      [] op.kind = "IngestAccount" ->
            LET meta == call.metas[op.index + 1]
            IN  <<2, op.index, meta.key, flag(meta.is_signer), flag(meta.is_writable)>>
      [] op.kind = "IngestInstructionDataSize" -> <<3>> \o le_bytes(Len(call.data), 4)
      [] op.kind = "IngestSiblingInstruction" ->
            LET sibling == call.siblings[op.relative_index]
            IN  <<4, op.relative_index % 256, sibling.program, op.offset, op.len>>
                  \o instruction_slice(sibling.data, op.offset, op.len)
      [] op.kind = "IngestSiblingAccount" ->
            <<5, op.relative_index % 256, op.index,
              call.siblings[op.relative_index].accounts[op.index + 1]>>

hashable(ops, call) == \A i \in DOMAIN ops : ingestable(ops[i], call)

\* SHA-256 is taken to be injective: the hash is the preimage.
compute_action_hash_from_metas(ops, call) ==
    LET preimage[n \in 0..Len(ops)] ==
          IF n = 0 THEN <<call.program>> ELSE preimage[n - 1] \o op_bytes(ops[n], call)
    IN  preimage[Len(ops)]

\* Two calls look the same through an op, said without the encoding.
SameThrough(op, x, y) ==
    CASE op.kind = "IngestInstruction" ->
            \A i \in op.offset + 1 .. op.offset + op.len : x.data[i] = y.data[i]
      [] op.kind = "IngestAccount" -> x.metas[op.index + 1] = y.metas[op.index + 1]
      [] op.kind = "IngestInstructionDataSize" -> Len(x.data) = Len(y.data)
      [] op.kind = "IngestSiblingInstruction" ->
            LET s == x.siblings[op.relative_index]
                t == y.siblings[op.relative_index]
            IN  /\ s.program = t.program
                /\ \A i \in op.offset + 1 .. op.offset + op.len : s.data[i] = t.data[i]
      [] op.kind = "IngestSiblingAccount" ->
            x.siblings[op.relative_index].accounts[op.index + 1]
              = y.siblings[op.relative_index].accounts[op.index + 1]
      [] OTHER -> TRUE

\* Equal hashes only of equal patterns, applied to calls alike in what the ops see.
PinsThePattern(left, x, right, y) ==
    /\ hashable(left, x)
    /\ hashable(right, y)
    /\ compute_action_hash_from_metas(left, x) = compute_action_hash_from_metas(right, y)
    => /\ left = right
       /\ x.program = y.program
       /\ \A i \in DOMAIN left : SameThrough(left[i], x, y)

\* Faulty variant: the two offset bytes are counted as one.
op_len_ShortOffset(op) ==
    CASE op.kind = "Noop" -> 1
      [] op.kind = "IngestInstruction" -> 3 + op.len
      [] op.kind = "IngestAccount" -> 36
      [] op.kind = "IngestInstructionDataSize" -> 5
      [] op.kind = "IngestSiblingInstruction" -> 36 + op.len
      [] op.kind = "IngestSiblingAccount" -> 35

op_len(op) ==
    CASE op.kind = "Noop" -> 1
      [] op.kind = "IngestInstruction" -> 4 + op.len
      [] op.kind = "IngestAccount" -> 36
      [] op.kind = "IngestInstructionDataSize" -> 5
      [] op.kind = "IngestSiblingInstruction" -> 36 + op.len
      [] op.kind = "IngestSiblingAccount" -> 35

\* Capacity of the buffer the preimage is written into.
preimage_len(ops) == 32 + SumFunction([i \in DOMAIN ops |-> op_len(ops[i])])

-----------------------------------------------------------------------------
(* Requested meta privileges, two bits per account, packed four to a byte.   *)

div_ceil(n, d) == (n + d - 1) \div d

\* Faulty variant: accounts are packed from the high end of a byte.
from_flags_HighFirst(flags) ==
    [accounts_len |-> Len(flags),
     bits |-> [b \in 1..div_ceil(Len(flags), 4) |->
        LET slot(i) == IF i \in DOMAIN flags
                       THEN flag(flags[i].is_signer) + 2 * flag(flags[i].is_writable)
                       ELSE 0
        IN  slot(4 * b - 3) * 64 + slot(4 * b - 2) * 16 + slot(4 * b - 1) * 4 + slot(4 * b)]]

from_flags(flags) ==
    [accounts_len |-> Len(flags),
     bits |-> [b \in 1..div_ceil(Len(flags), 4) |->
        LET slot(i) == IF i \in DOMAIN flags
                       THEN flag(flags[i].is_signer) + 2 * flag(flags[i].is_writable)
                       ELSE 0
        IN  slot(4 * b - 3) + slot(4 * b - 2) * 4 + slot(4 * b - 1) * 16 + slot(4 * b) * 64]]

\* A byte shifted right.
shr(byte, n) == byte \div <<1, 2, 4, 8, 16, 32, 64, 128>>[n + 1]

\* Exactly enough bytes, and the unused high bits of the last one are zero.
canonical_flags(packed) ==
    LET expected_len == div_ceil(packed.accounts_len, 4)
        used_bits == (packed.accounts_len % 4) * 2
    IN  /\ Len(packed.bits) = expected_len
        /\ used_bits # 0 => shr(packed.bits[expected_len], used_bits) = 0

unpack_flags(packed) ==
    [i \in 1..packed.accounts_len |->
        LET value == shr(packed.bits[((i - 1) \div 4) + 1], ((i - 1) % 4) * 2)
        IN  [is_signer |-> value % 2 = 1, is_writable |-> (value \div 2) % 2 = 1]]
=============================================================================
