--------------------------- MODULE ActionEncoding ---------------------------
(***************************************************************************)
(* Authoring of action patterns: two ops lists and one list of account     *)
(* flags are written entry by entry, and at every point the encodings must *)
(* tell apart what they are meant to tell apart.                           *)
(***************************************************************************)
EXTENDS ActionHash

CONSTANTS
    AuthoredOps,    \* ops an admin may write
    Calls,          \* downstream calls the ops are applied to
    StoredBytes,    \* byte values of a stored op
    MaxOps,         \* bound: ops per list
    MaxFlags        \* bound: accounts of one call

ASSUME EncodingAssumption ==
    /\ AuthoredOps \subseteq ActionOps /\ \A call \in Calls : well_formed(call)
    /\ StoredBytes \subseteq U8
    /\ MaxOps \in Nat /\ MaxFlags \in Nat

VARIABLES
    left,      \* ops of one action
    right,     \* ops of another
    flags      \* requested privileges of a call's accounts

authored == <<left, right, flags>>

FlagRecord == [is_signer : BOOLEAN, is_writable : BOOLEAN]

AuthoringInit == left = <<>> /\ right = <<>> /\ flags = <<>>

\* The first list is written first, which loses no pair.
AddLeft(op) ==
    /\ Len(left) < MaxOps /\ right = <<>> /\ flags = <<>>
    /\ left' = Append(left, op)
    /\ UNCHANGED <<right, flags>>

AddRight(op) ==
    /\ Len(right) < MaxOps /\ flags = <<>>
    /\ right' = Append(right, op)
    /\ UNCHANGED <<left, flags>>

AddFlags(f) ==
    /\ Len(flags) < MaxFlags /\ left = <<>> /\ right = <<>>
    /\ flags' = Append(flags, f)
    /\ UNCHANGED <<left, right>>

AuthoringStep ==
    \/ \E op \in AuthoredOps : AddLeft(op) \/ AddRight(op)
    \/ \E f \in FlagRecord : AddFlags(f)

AuthoringSpec == AuthoringInit /\ [][AuthoringStep]_authored

-----------------------------------------------------------------------------
(***************************************************************************)
(* Two actions have the same hash only if they are the same pattern: equal *)
(* ops, equal program, and calls that agree on everything the ops ingest.  *)
(* No byte of one field can be read as another field's, although slices    *)
(* have different lengths (compute_action_hash_from_metas).                *)
(***************************************************************************)
HashPinsThePattern == \A x, y \in Calls : PinsThePattern(left, x, right, y)

Keys(ops) ==
    1 + Cardinality({i \in DOMAIN ops : ops[i].kind \in {"IngestAccount",
                        "IngestSiblingInstruction", "IngestSiblingAccount"}})

(***************************************************************************)
(* The buffer reserved for the preimage is exactly filled: a reallocation  *)
(* would leak memory under the program's bump allocator (preimage_len).    *)
(***************************************************************************)
PreimageExactlyFits ==
    \A x \in Calls : hashable(left, x) =>
        preimage_len(left) = Len(compute_action_hash_from_metas(left, x)) + 31 * Keys(left)

(***************************************************************************)
(* An op and its four stored bytes determine each other: every op survives *)
(* storage, and bytes that decode at all are the bytes of that op          *)
(* (StoredOp::from, StoredOp::try_to_op).                                  *)
(***************************************************************************)
OpsSurviveStorage ==
    /\ \A i \in DOMAIN left : try_to_op(stored(left[i])) = left[i]
    /\ left # <<>> =>
         \A kind \in 0..6, a, b, c \in StoredBytes :
            LET op == try_to_op(<<kind, a, b, c>>)
            IN  op # InvalidOp => stored(op) = <<kind, a, b, c>>

(***************************************************************************)
(* Packed privileges decode to what was packed, byte boundaries included,  *)
(* and the packed form is canonical (PackedAccountFlags).                  *)
(***************************************************************************)
FlagsSurvivePacking ==
    /\ canonical_flags(from_flags(flags))
    /\ unpack_flags(from_flags(flags)) = flags
=============================================================================
