---------------------------- MODULE ClientProofs ----------------------------
(***************************************************************************)
(* What a client prepares off the chain and the programs take apart again: *)
(* the encodings of action patterns tell apart what they are meant to tell *)
(* apart, for ops lists, calls and account lists of every length; and the  *)
(* trees built from access lists of every size admit the listed wallets    *)
(* and nobody else.                                                        *)
(***************************************************************************)
EXTENDS ActionEncoding, AccessTree, ActionHashTheorems

-----------------------------------------------------------------------------
(* Action patterns.                                                          *)

\* The lists are lists of ops and of flags.
ListsInv == left \in Seq(ActionOps) /\ right \in Seq(ActionOps) /\ flags \in Seq(FlagRecord)

\* They stay so.
LEMMA ListsInductive ==
    /\ AuthoringInit => ListsInv
    /\ ListsInv /\ [AuthoringStep]_authored => ListsInv'
<1>1. AuthoringInit => ListsInv
  BY DEF AuthoringInit, ListsInv
<1>2. ASSUME ListsInv, [AuthoringStep]_authored PROVE ListsInv'
  <2>1. left \in Seq(ActionOps) /\ right \in Seq(ActionOps) /\ flags \in Seq(FlagRecord)
    BY <1>2 DEF ListsInv
  <2>2. ASSUME NEW op \in AuthoredOps, AddLeft(op) \/ AddRight(op) PROVE ListsInv'
    <3>1. op \in ActionOps
      BY EncodingAssumption
    <3>2. Append(left, op) \in Seq(ActionOps) /\ Append(right, op) \in Seq(ActionOps)
      BY <2>1, <3>1
    <3> QED
      BY <2>1, <2>2, <3>2 DEF ListsInv, AddLeft, AddRight
  <2>3. ASSUME NEW f \in FlagRecord, AddFlags(f) PROVE ListsInv'
    <3>1. Append(flags, f) \in Seq(FlagRecord)
      BY <2>1
    <3> QED
      BY <2>1, <2>3, <3>1 DEF ListsInv, AddFlags
  <2>4. CASE UNCHANGED authored
    BY <2>1, <2>4 DEF authored, ListsInv
  <2> QED
    BY <1>2, <2>2, <2>3, <2>4 DEF AuthoringStep
<1> QED
  BY <1>1, <1>2

(***************************************************************************)
(* Two actions have the same hash only if they are the same pattern        *)
(* (compute_action_hash_from_metas).                                       *)
(***************************************************************************)
THEOREM HashesAlwaysPin == AuthoringSpec => []HashPinsThePattern
<1>1. ListsInv => HashPinsThePattern
  BY EncodingAssumption, HashesPinPatterns DEF ListsInv, HashPinsThePattern
<1> QED
  BY <1>1, ListsInductive, PTL DEF AuthoringSpec

-----------------------------------------------------------------------------
(* Stored ops.                                                               *)

\* The bytes of an offset.
LEMMA OffsetBytes ==
    ASSUME NEW n \in U16
    PROVE  le_bytes(n, 2) = <<n % 256, n \div 256>> /\ n % 256 \in U8 /\ n \div 256 \in U8
<1>1. n \in Nat /\ n < 256 * 256
  BY OffsetRange, Zenon
<1>2. le_bytes(n, 2) = <<(n \div 1) % 256, (n \div 256) % 256>>
  BY DEF le_bytes
<1>3. n \div 1 = n /\ (n \div 256) % 256 = n \div 256 /\ n \div 256 \in 0..255 /\ n % 256 \in 0..255
  BY <1>1, SMT
<1> QED
  BY <1>2, <1>3 DEF U8

\* An op survives storage.
LEMMA OpSurvives ==
    ASSUME NEW op \in ActionOps
    PROVE  try_to_op(stored(op)) = op
<1> DEFINE s == stored(op)
<1>1. CASE op.kind = "Noop"
  <2>1. op = Noop
    BY <1>1, OpFields
  <2>2. s = <<0, 0, 0, 0>>
    BY <1>1 DEF stored
  <2> QED
    BY <2>1, <2>2 DEF try_to_op
<1>2. CASE op.kind = "IngestInstructionDataSize"
  <2>1. op = IngestInstructionDataSize
    BY <1>2, OpFields
  <2>2. s = <<3, 0, 0, 0>>
    BY <1>2 DEF stored
  <2>3. s # <<0, 0, 0, 0>> /\ s[1] = 3
    BY <2>2
  <2> HIDE DEF s
  <2> QED
    BY <2>1, <2>2, <2>3 DEF try_to_op, s
<1>3. CASE op.kind = "IngestInstruction"
  <2>1. op.offset \in U16 /\ op.len \in U8 /\ op = IngestInstruction(op.offset, op.len)
    BY <1>3, OpFields
  <2> DEFINE low == op.offset % 256
             high == op.offset \div 256
  <2>2. le_bytes(op.offset, 2) = <<low, high>> /\ low \in U8 /\ high \in U8
    BY <2>1, OffsetBytes
  <2>3. s = <<1, op.len>> \o <<low, high>>
    BY <1>3, <2>2 DEF stored
  <2>4. low + 256 * high = op.offset
    <3>1. op.offset \in Nat
      BY <2>1, Widths
    <3> QED
      BY <3>1, SMT
  <2> HIDE DEF s, low, high
  <2>5. s[1] = 1 /\ s[2] = op.len /\ s[3] = low /\ s[4] = high
    <3> DEFINE head == <<1, op.len>>
               tail == <<low, high>>
    <3>1. head \in Seq(Int) /\ tail \in Seq(Int) /\ Len(head) = 2 /\ Len(tail) = 2
      BY <2>1, <2>2, Widths
    <3>2. head[1] = 1 /\ head[2] = op.len /\ tail[1] = low /\ tail[2] = high /\ s = head \o tail
      BY <2>3
    <3> HIDE DEF head, tail
    <3>3. /\ \A i \in 1..Len(head) : s[i] = head[i]
          /\ \A i \in 1..Len(tail) : s[Len(head) + i] = tail[i]
      BY <3>1, <3>2, HeadedSlice
    <3>4. 1 \in 1..Len(head) /\ 2 \in 1..Len(head) /\ 1 \in 1..Len(tail) /\ 2 \in 1..Len(tail)
      BY <3>1
    <3>5. s[1] = head[1] /\ s[2] = head[2] /\ s[Len(head) + 1] = tail[1] /\ s[Len(head) + 2] = tail[2]
      BY <3>3, <3>4
    <3>6. Len(head) + 1 = 3 /\ Len(head) + 2 = 4
      BY <3>1
    <3> QED
      BY <3>2, <3>5, <3>6
  <2>6. s # <<0, 0, 0, 0>> /\ s # <<3, 0, 0, 0>> /\ s[1] = 1 /\ s[2] = op.len /\ s[3] = low /\ s[4] = high
    BY <2>5
  <2>7. try_to_op(s) = IngestInstruction(s[3] + 256 * s[4], s[2])
    BY <2>6 DEF try_to_op
  <2>8. try_to_op(s) = IngestInstruction(op.offset, op.len)
    BY <2>4, <2>6, <2>7
  <2> QED
    BY <2>1, <2>8 DEF s
<1>4. CASE op.kind = "IngestAccount"
  <2>1. op.index \in U8 /\ op = IngestAccount(op.index)
    BY <1>4, OpFields
  <2>2. s = <<2, op.index, 0, 0>>
    BY <1>4 DEF stored
  <2> HIDE DEF s
  <2>3. s # <<0, 0, 0, 0>> /\ s # <<3, 0, 0, 0>> /\ s[1] = 2 /\ s[2] = op.index /\ s[3] = 0 /\ s[4] = 0
    BY <2>2
  <2>4. try_to_op(s) = IngestAccount(s[2])
    BY <2>3 DEF try_to_op
  <2> QED
    BY <2>1, <2>3, <2>4 DEF s
<1>5. CASE op.kind = "IngestSiblingInstruction"
  <2>1. /\ op.relative_index \in I8
        /\ op = IngestSiblingInstruction(op.relative_index, op.offset, op.len)
    BY <1>5, OpFields
  <2>2. s = <<4, op.relative_index % 256, op.offset, op.len>>
    BY <1>5 DEF stored
  <2> HIDE DEF s
  <2>3. /\ s # <<0, 0, 0, 0>> /\ s # <<3, 0, 0, 0>> /\ s[1] = 4
        /\ s[2] = op.relative_index % 256 /\ s[3] = op.offset /\ s[4] = op.len
    BY <2>2
  <2>4. try_to_op(s) = IngestSiblingInstruction(as_i8(s[2]), s[3], s[4])
    BY <2>3 DEF try_to_op
  <2>5. as_i8(op.relative_index % 256) = op.relative_index
    BY <2>1, SMT DEF as_i8, I8
  <2>6. try_to_op(s) = IngestSiblingInstruction(op.relative_index, op.offset, op.len)
    BY <2>3, <2>4, <2>5
  <2> QED
    BY <2>1, <2>6 DEF s
<1>6. CASE op.kind = "IngestSiblingAccount"
  <2>1. op.relative_index \in I8 /\ op = IngestSiblingAccount(op.relative_index, op.index)
    BY <1>6, OpFields
  <2>2. s = <<5, op.relative_index % 256, op.index, 0>>
    BY <1>6 DEF stored
  <2> HIDE DEF s
  <2>3. /\ s # <<0, 0, 0, 0>> /\ s # <<3, 0, 0, 0>> /\ s[1] = 5
        /\ s[2] = op.relative_index % 256 /\ s[3] = op.index /\ s[4] = 0
    BY <2>2
  <2>4. try_to_op(s) = IngestSiblingAccount(as_i8(s[2]), s[3])
    BY <2>3 DEF try_to_op
  <2>5. as_i8(op.relative_index % 256) = op.relative_index
    BY <2>1, SMT DEF as_i8, I8
  <2>6. try_to_op(s) = IngestSiblingAccount(op.relative_index, op.index)
    BY <2>3, <2>4, <2>5
  <2> QED
    BY <2>1, <2>6 DEF s
<1> QED
  BY <1>1, <1>2, <1>3, <1>4, <1>5, <1>6, OpFields

\* Two tuples of two make one of four.
LEMMA FourOfTwo ==
    ASSUME NEW a \in Int, NEW b \in Int, NEW c \in Int, NEW d \in Int
    PROVE  <<a, b>> \o <<c, d>> = <<a, b, c, d>>
<1> DEFINE head == <<a, b>>
           tail == <<c, d>>
           s == head \o tail
           t == <<a, b, c, d>>
<1>1. head \in Seq(Int) /\ tail \in Seq(Int) /\ Len(head) = 2 /\ Len(tail) = 2
  OBVIOUS
<1>2. t \in Seq(Int) /\ Len(t) = 4 /\ t[1] = a /\ t[2] = b /\ t[3] = c /\ t[4] = d
  OBVIOUS
<1>3. head[1] = a /\ head[2] = b /\ tail[1] = c /\ tail[2] = d
  OBVIOUS
<1> HIDE DEF head, tail, t
<1>4. /\ s \in Seq(Int) /\ Len(s) = Len(head) + Len(tail)
      /\ \A i \in 1..Len(head) : s[i] = head[i]
      /\ \A i \in 1..Len(tail) : s[Len(head) + i] = tail[i]
  BY <1>1, HeadedSlice
<1> HIDE DEF s
<1>5. Len(s) = 4
  BY <1>1, <1>4
<1>6. 1 \in 1..Len(head) /\ 2 \in 1..Len(head) /\ 1 \in 1..Len(tail) /\ 2 \in 1..Len(tail)
  BY <1>1
<1>7. s[1] = head[1] /\ s[2] = head[2] /\ s[Len(head) + 1] = tail[1] /\ s[Len(head) + 2] = tail[2]
  BY <1>4, <1>6
<1>8. Len(head) + 1 = 3 /\ Len(head) + 2 = 4
  BY <1>1
<1>9. s[1] = t[1] /\ s[2] = t[2] /\ s[3] = t[3] /\ s[4] = t[4]
  BY <1>2, <1>3, <1>7, <1>8
<1>10. \A i \in 1..4 : i = 1 \/ i = 2 \/ i = 3 \/ i = 4
  OBVIOUS
<1>11. \A i \in 1..Len(s) : s[i] = t[i]
  BY <1>5, <1>9, <1>10
<1>12. s = t
  BY <1>2, <1>4, <1>5, <1>11, SeqEqual
<1> QED
  BY <1>12 DEF s, t, head, tail

\* Two bytes are the offset's.
LEMMA BytesOfOffset ==
    ASSUME NEW b \in U8, NEW c \in U8
    PROVE  le_bytes(b + 256 * c, 2) = <<b, c>>
<1> DEFINE n == b + 256 * c
<1>1. b \in 0..255 /\ c \in 0..255
  BY DEF U8
<1>2. le_bytes(n, 2) = <<(n \div 1) % 256, (n \div 256) % 256>>
  BY DEF le_bytes
<1>3. (n \div 1) % 256 = b /\ (n \div 256) % 256 = c
  BY <1>1, SMT
<1> QED
  BY <1>2, <1>3

\* Bytes that decode are the bytes of what they decode to.
LEMMA BytesSurvive ==
    ASSUME NEW kind \in Nat, NEW a \in U8, NEW b \in U8, NEW c \in U8,
           try_to_op(<<kind, a, b, c>>) # InvalidOp
    PROVE  stored(try_to_op(<<kind, a, b, c>>)) = <<kind, a, b, c>>
<1> DEFINE s == <<kind, a, b, c>>
<1>1. s[1] = kind /\ s[2] = a /\ s[3] = b /\ s[4] = c
  OBVIOUS
<1>2. a \in Int /\ b \in Int /\ c \in Int /\ a \in 0..255
  BY Widths DEF U8
<1>3. as_i8(a) % 256 = a
  BY <1>2, SMT DEF as_i8
<1>4. s = <<0, 0, 0, 0>> <=> kind = 0 /\ a = 0 /\ b = 0 /\ c = 0
  OBVIOUS
<1>5. s = <<3, 0, 0, 0>> <=> kind = 3 /\ a = 0 /\ b = 0 /\ c = 0
  OBVIOUS
<1>6. CASE s = <<0, 0, 0, 0>>
  <2>1. try_to_op(s) = Noop
    BY <1>6 DEF try_to_op
  <2>2. stored(Noop) = <<0, 0, 0, 0>>
    BY DEF stored, Noop
  <2> HIDE DEF s
  <2>3. stored(try_to_op(s)) = s
    BY <1>6, <2>1, <2>2
  <2> QED
    BY <2>3 DEF s
<1>7. CASE s = <<3, 0, 0, 0>>
  <2>1. kind = 3
    BY <1>5, <1>7
  <2>2. try_to_op(s) = IngestInstructionDataSize
    BY <1>1, <1>4, <1>7, <2>1 DEF try_to_op
  <2>3. stored(IngestInstructionDataSize) = <<3, 0, 0, 0>>
    BY DEF stored, IngestInstructionDataSize
  <2> HIDE DEF s
  <2>4. stored(try_to_op(s)) = s
    BY <1>7, <2>2, <2>3
  <2> QED
    BY <2>4 DEF s
<1> DEFINE plain == s # <<0, 0, 0, 0>> /\ s # <<3, 0, 0, 0>>
<1>8. CASE kind = 1
  <2>1. plain
    BY <1>4, <1>5, <1>8
  <2> HIDE DEF s
  <2>2. try_to_op(s) = IngestInstruction(b + 256 * c, a)
    BY <1>1, <1>8, <2>1 DEF try_to_op
  <2>3. stored(IngestInstruction(b + 256 * c, a)) = <<1, a>> \o le_bytes(b + 256 * c, 2)
    BY DEF stored, IngestInstruction
  <2>4. <<1, a>> \o le_bytes(b + 256 * c, 2) = <<1, a, b, c>>
    <3>1. le_bytes(b + 256 * c, 2) = <<b, c>>
      BY BytesOfOffset
    <3>2. <<1, a>> \o <<b, c>> = <<1, a, b, c>>
      <4>1. 1 \in Int
        OBVIOUS
      <4> QED
        BY <1>2, <4>1, FourOfTwo, Zenon
    <3> QED
      BY <3>1, <3>2, Zenon
  <2>5. stored(try_to_op(s)) = <<1, a, b, c>>
    BY <2>2, <2>3, <2>4
  <2> QED
    BY <1>8, <2>5 DEF s
<1>9. CASE kind = 2
  <2>1. plain
    BY <1>4, <1>5, <1>9
  <2> HIDE DEF s
  <2>2. b = 0 /\ c = 0 /\ try_to_op(s) = IngestAccount(a)
    BY <1>1, <1>9, <2>1 DEF try_to_op, s
  <2>3. stored(IngestAccount(a)) = <<2, a, 0, 0>>
    BY DEF stored, IngestAccount
  <2> QED
    BY <1>9, <2>2, <2>3 DEF s
<1>10. CASE kind = 4
  <2>1. plain
    BY <1>4, <1>5, <1>10
  <2> HIDE DEF s
  <2>2. try_to_op(s) = IngestSiblingInstruction(as_i8(a), b, c)
    BY <1>1, <1>10, <2>1 DEF try_to_op
  <2>3. stored(IngestSiblingInstruction(as_i8(a), b, c)) = <<4, as_i8(a) % 256, b, c>>
    BY DEF stored, IngestSiblingInstruction
  <2> QED
    BY <1>3, <1>10, <2>2, <2>3 DEF s
<1>11. CASE kind = 5
  <2>1. plain
    BY <1>4, <1>5, <1>11
  <2> HIDE DEF s
  <2>2. c = 0 /\ try_to_op(s) = IngestSiblingAccount(as_i8(a), b)
    BY <1>1, <1>11, <2>1 DEF try_to_op, s
  <2>3. stored(IngestSiblingAccount(as_i8(a), b)) = <<5, as_i8(a) % 256, b, 0>>
    BY DEF stored, IngestSiblingAccount
  <2> QED
    BY <1>3, <1>11, <2>2, <2>3 DEF s
<1>12. CASE plain /\ kind \notin {1, 2, 4, 5}
  <2> HIDE DEF s
  <2>1. try_to_op(s) = InvalidOp
    BY <1>1, <1>12 DEF try_to_op
  <2> QED
    BY <2>1 DEF s
<1> QED
  BY <1>6, <1>7, <1>8, <1>9, <1>10, <1>11, <1>12

(***************************************************************************)
(* An op and its four stored bytes determine each other, for every op and  *)
(* all bytes (StoredOp::from, StoredOp::try_to_op).                        *)
(***************************************************************************)
THEOREM StorageLosesNothing == AuthoringSpec => []OpsSurviveStorage
<1>1. ASSUME ListsInv PROVE OpsSurviveStorage
  <2>1. ASSUME NEW i \in DOMAIN left PROVE try_to_op(stored(left[i])) = left[i]
    <3>1. left[i] \in ActionOps
      BY <1>1, LenProperties, ElementOfSeq DEF ListsInv
    <3> QED
      BY <3>1, OpSurvives
  <2>2. ASSUME NEW kind \in 0..6, NEW a \in StoredBytes, NEW b \in StoredBytes, NEW c \in StoredBytes,
               try_to_op(<<kind, a, b, c>>) # InvalidOp
        PROVE  stored(try_to_op(<<kind, a, b, c>>)) = <<kind, a, b, c>>
    <3>1. kind \in Nat /\ a \in U8 /\ b \in U8 /\ c \in U8
      BY EncodingAssumption
    <3> QED
      BY <2>2, <3>1, BytesSurvive
  <2> QED
    BY <2>1, <2>2 DEF OpsSurviveStorage
<1> QED
  BY <1>1, ListsInductive, PTL DEF AuthoringSpec

-----------------------------------------------------------------------------
(* Packed privileges.                                                        *)

\* The two bits of one account; none past the last.
Slot(list, i) ==
    IF i \in DOMAIN list THEN flag(list[i].is_signer) + 2 * flag(list[i].is_writable) ELSE 0

\* The values of two bits.
Pairs == 0..3

\* A byte of four accounts.
Byte4(p, q, r, s) == p + q * 4 + r * 16 + s * 64

Quad(list, b) ==
    Byte4(Slot(list, 4 * b - 3), Slot(list, 4 * b - 2), Slot(list, 4 * b - 1), Slot(list, 4 * b))

\* The bits say what was asked for.
LEMMA SlotFacts ==
    ASSUME NEW list \in Seq(FlagRecord), NEW i
    PROVE  /\ Slot(list, i) \in 0..3
           /\ i \notin DOMAIN list => Slot(list, i) = 0
           /\ i \in DOMAIN list =>
                /\ list[i] \in FlagRecord
                /\ list[i].is_signer <=> Slot(list, i) % 2 = 1
                /\ list[i].is_writable <=> (Slot(list, i) \div 2) % 2 = 1
<1>1. CASE i \notin DOMAIN list
  BY <1>1 DEF Slot
<1>2. CASE i \in DOMAIN list
  <2>1. list[i] \in FlagRecord
    BY <1>2, LenProperties, ElementOfSeq
  <2> DEFINE s == flag(list[i].is_signer)
             w == flag(list[i].is_writable)
  <2>2. list[i].is_signer \in BOOLEAN /\ list[i].is_writable \in BOOLEAN
    BY <2>1 DEF FlagRecord
  <2>3. s \in {0, 1} /\ w \in {0, 1} /\ (list[i].is_signer <=> s = 1) /\ (list[i].is_writable <=> w = 1)
    BY <2>2 DEF flag
  <2>4. Slot(list, i) = s + 2 * w
    BY <1>2 DEF Slot
  <2> HIDE DEF s, w
  <2>5. s + 2 * w \in 0..3 /\ (s + 2 * w) % 2 = s /\ ((s + 2 * w) \div 2) % 2 = w
    BY <2>3, SMT
  <2>6. list[i].is_signer <=> Slot(list, i) % 2 = 1
    BY <2>3, <2>4, <2>5
  <2>7. list[i].is_writable <=> (Slot(list, i) \div 2) % 2 = 1
    BY <2>3, <2>4, <2>5
  <2> QED
    BY <1>2, <2>1, <2>4, <2>5, <2>6, <2>7
<1> QED
  BY <1>1, <1>2

\* What is packed, by byte.
LEMMA PackedBytes ==
    ASSUME NEW list
    PROVE  /\ from_flags(list).accounts_len = Len(list)
           /\ from_flags(list).bits = [b \in 1..div_ceil(Len(list), 4) |-> Quad(list, b)]
BY DEF from_flags, Quad, Byte4, Slot

\* Shifting a byte right drops its low accounts.
LEMMA Shifts ==
    ASSUME NEW p \in Pairs, NEW q \in Pairs, NEW r \in Pairs, NEW s \in Pairs
    PROVE  /\ Byte4(p, q, r, s) \in Int
           /\ shr(Byte4(p, q, r, s), 0) = p + q * 4 + r * 16 + s * 64
           /\ shr(Byte4(p, q, r, s), 2) = q + r * 4 + s * 16
           /\ shr(Byte4(p, q, r, s), 4) = r + s * 4
           /\ shr(Byte4(p, q, r, s), 6) = s
<1> DEFINE byte == p + q * 4 + r * 16 + s * 64
<1>0. p \in 0..3 /\ q \in 0..3 /\ r \in 0..3 /\ s \in 0..3
  BY DEF Pairs
<1>1. /\ shr(byte, 0) = byte \div 1 /\ shr(byte, 2) = byte \div 4
      /\ shr(byte, 4) = byte \div 16 /\ shr(byte, 6) = byte \div 64
  BY DEF shr
<1>2. /\ byte \div 1 = byte /\ byte \div 4 = q + r * 4 + s * 16
      /\ byte \div 16 = r + s * 4 /\ byte \div 64 = s
  BY <1>0, SMT
<1> QED
  BY <1>0, <1>1, <1>2 DEF Byte4

\* The low two bits are those of the first account left.
LEMMA LowBits ==
    ASSUME NEW p \in 0..3, NEW rest \in Nat
    PROVE  (p + 4 * rest) % 2 = p % 2 /\ ((p + 4 * rest) \div 2) % 2 = (p \div 2) % 2
BY SMT

\* The byte and the place of an account.
LEMMA Places ==
    ASSUME NEW n \in Nat, NEW i \in 1..n
    PROVE  LET b == ((i - 1) \div 4) + 1
               r == (i - 1) % 4
           IN  b \in 1..div_ceil(n, 4) /\ r \in 0..3 /\ i = 4 * b - 3 + r
BY SMT DEF div_ceil

\* Unpacking finds the bits of each account.
LEMMA UnpackedBits ==
    ASSUME NEW list \in Seq(FlagRecord), NEW b \in Nat, NEW r \in 0..3
    PROVE  LET value == shr(Quad(list, b), r * 2)
           IN  /\ value % 2 = Slot(list, 4 * b - 3 + r) % 2
               /\ (value \div 2) % 2 = (Slot(list, 4 * b - 3 + r) \div 2) % 2
<1> DEFINE p == Slot(list, 4 * b - 3)
           q == Slot(list, 4 * b - 2)
           s == Slot(list, 4 * b - 1)
           t == Slot(list, 4 * b)
<1>1. p \in 0..3 /\ q \in 0..3 /\ s \in 0..3 /\ t \in 0..3
  BY SlotFacts
<1>2. Quad(list, b) = Byte4(p, q, s, t)
  BY DEF Quad
<1>3. 4 * b - 3 + 0 = 4 * b - 3 /\ 4 * b - 3 + 1 = 4 * b - 2 /\ 4 * b - 3 + 2 = 4 * b - 1 /\ 4 * b - 3 + 3 = 4 * b
  OBVIOUS
<1> HIDE DEF p, q, s, t
<1>4. /\ shr(Quad(list, b), 0) = p + 4 * (q + s * 4 + t * 16)
      /\ shr(Quad(list, b), 2) = q + 4 * (s + t * 4)
      /\ shr(Quad(list, b), 4) = s + 4 * t
      /\ shr(Quad(list, b), 6) = t + 4 * 0
  <2>1. /\ shr(Quad(list, b), 0) = p + q * 4 + s * 16 + t * 64
        /\ shr(Quad(list, b), 2) = q + s * 4 + t * 16
        /\ shr(Quad(list, b), 4) = s + t * 4
        /\ shr(Quad(list, b), 6) = t
    <3>1. /\ shr(Byte4(p, q, s, t), 0) = p + q * 4 + s * 16 + t * 64
          /\ shr(Byte4(p, q, s, t), 2) = q + s * 4 + t * 16
          /\ shr(Byte4(p, q, s, t), 4) = s + t * 4
          /\ shr(Byte4(p, q, s, t), 6) = t
      <4>1. p \in Pairs /\ q \in Pairs /\ s \in Pairs /\ t \in Pairs
        BY <1>1 DEF Pairs
      <4> QED
        BY <4>1, Shifts
    <3> QED
      BY <1>2, <3>1, Zenon
  <2> QED
    BY <1>1, <2>1
<1>5. q + s * 4 + t * 16 \in Nat /\ s + t * 4 \in Nat /\ t \in Nat /\ 0 \in Nat
  BY <1>1
<1>6. CASE r = 0
  <2>1. r * 2 = 0 /\ Slot(list, 4 * b - 3 + r) = p
    BY <1>3, <1>6 DEF p
  <2> DEFINE rest == q + s * 4 + t * 16
  <2> HIDE DEF rest
  <2>2. (p + 4 * rest) % 2 = p % 2 /\ ((p + 4 * rest) \div 2) % 2 = (p \div 2) % 2
    BY <1>1, <1>5, LowBits DEF rest
  <2> QED
    BY <1>4, <2>1, <2>2 DEF rest
<1>7. CASE r = 1
  <2>1. r * 2 = 2 /\ Slot(list, 4 * b - 3 + r) = q
    BY <1>3, <1>7 DEF q
  <2> DEFINE rest == s + t * 4
  <2> HIDE DEF rest
  <2>2. (q + 4 * rest) % 2 = q % 2 /\ ((q + 4 * rest) \div 2) % 2 = (q \div 2) % 2
    BY <1>1, <1>5, LowBits DEF rest
  <2> QED
    BY <1>4, <2>1, <2>2 DEF rest
<1>8. CASE r = 2
  <2>1. r * 2 = 4 /\ Slot(list, 4 * b - 3 + r) = s
    BY <1>3, <1>8 DEF s
  <2>2. (s + 4 * t) % 2 = s % 2 /\ ((s + 4 * t) \div 2) % 2 = (s \div 2) % 2
    BY <1>1, <1>5, LowBits
  <2> QED
    BY <1>4, <2>1, <2>2
<1>9. CASE r = 3
  <2>1. r * 2 = 6 /\ Slot(list, 4 * b - 3 + r) = t
    BY <1>3, <1>9 DEF t
  <2>2. (t + 4 * 0) % 2 = t % 2 /\ ((t + 4 * 0) \div 2) % 2 = (t \div 2) % 2
    BY <1>1, <1>5, LowBits
  <2> QED
    BY <1>4, <2>1, <2>2
<1> QED
  BY <1>6, <1>7, <1>8, <1>9

\* What was packed is unpacked.
LEMMA Unpacked ==
    ASSUME NEW list \in Seq(FlagRecord)
    PROVE  unpack_flags(from_flags(list)) = list
<1> DEFINE packed == from_flags(list)
           n == Len(list)
           byte(i) == ((i - 1) \div 4) + 1
           value(i) == shr(packed.bits[byte(i)], ((i - 1) % 4) * 2)
           one(i) == [is_signer |-> value(i) % 2 = 1, is_writable |-> (value(i) \div 2) % 2 = 1]
<1>1. n \in Nat /\ DOMAIN list = 1..n /\ packed.accounts_len = n
  BY LenProperties, PackedBytes
<1>2. unpack_flags(packed) = [i \in 1..n |-> one(i)]
  BY <1>1 DEF unpack_flags
<1>3. ASSUME NEW i \in 1..n PROVE one(i) = list[i]
  <2> DEFINE b == byte(i)
             r == (i - 1) % 4
  <2>1. b \in 1..div_ceil(n, 4) /\ r \in 0..3 /\ i = 4 * b - 3 + r
    BY <1>1, Places
  <2>2. packed.bits[b] = Quad(list, b)
    BY <2>1, PackedBytes
  <2>3. b \in Nat
    BY <1>1, <2>1, SMT DEF div_ceil
  <2>4. value(i) = shr(Quad(list, b), r * 2)
    BY <2>2
  <2> HIDE DEF b, r, value
  <2>5. /\ value(i) % 2 = Slot(list, i) % 2
        /\ (value(i) \div 2) % 2 = (Slot(list, i) \div 2) % 2
    BY <2>1, <2>3, <2>4, UnpackedBits
  <2>6. /\ list[i] \in FlagRecord
        /\ list[i].is_signer <=> Slot(list, i) % 2 = 1
        /\ list[i].is_writable <=> (Slot(list, i) \div 2) % 2 = 1
    BY <1>1, SlotFacts
  <2>7. /\ list[i].is_signer = (value(i) % 2 = 1)
        /\ list[i].is_writable = ((value(i) \div 2) % 2 = 1)
    BY <2>5, <2>6 DEF FlagRecord
  <2>8. list[i] = [is_signer |-> list[i].is_signer, is_writable |-> list[i].is_writable]
    BY <2>6 DEF FlagRecord
  <2> QED
    BY <2>7, <2>8
<1> HIDE DEF one, packed
<1>4. unpack_flags(packed) = [i \in 1..n |-> list[i]]
  BY <1>2, <1>3
<1>5. list = [i \in 1..n |-> list[i]]
  BY <1>1
<1> QED
  BY <1>4, <1>5 DEF packed

\* The packed form is canonical.
LEMMA Canonical ==
    ASSUME NEW list \in Seq(FlagRecord)
    PROVE  canonical_flags(from_flags(list))
<1> DEFINE packed == from_flags(list)
           n == Len(list)
           m == div_ceil(n, 4)
           used == (n % 4) * 2
<1>1. n \in Nat /\ DOMAIN list = 1..n /\ packed.accounts_len = n
  BY LenProperties, PackedBytes
<1>2. m \in Nat /\ 4 * m >= n /\ 4 * m - 3 <= n
  BY <1>1, SMT DEF div_ceil
<1>3. packed.bits = [b \in 1..m |-> Quad(list, b)]
  BY PackedBytes
<1>4. Len(packed.bits) = m
  <2> DEFINE bits == [b \in 1..m |-> Quad(list, b)]
  <2>1. \A b \in 1..m : Quad(list, b) \in Int
    <3> SUFFICES ASSUME NEW b \in 1..m PROVE Quad(list, b) \in Int
      OBVIOUS
    <3>1. /\ Slot(list, 4 * b - 3) \in 0..3 /\ Slot(list, 4 * b - 2) \in 0..3
          /\ Slot(list, 4 * b - 1) \in 0..3 /\ Slot(list, 4 * b) \in 0..3
      BY SlotFacts
    <3> QED
      BY <3>1, Shifts, Zenon DEF Quad, Pairs
  <2>2. bits \in [1..m -> Int]
    BY <2>1
  <2> HIDE DEF bits, m
  <2>3. Len(bits) = m
    BY <1>2, <2>2
  <2> QED
    BY <1>3, <2>3 DEF bits
<1>5. ASSUME used # 0 PROVE shr(packed.bits[m], used) = 0
  <2> DEFINE p == Slot(list, 4 * m - 3)
             q == Slot(list, 4 * m - 2)
             s == Slot(list, 4 * m - 1)
             t == Slot(list, 4 * m)
  <2>1. n % 4 \in {1, 2, 3} /\ m \in 1..m
    BY <1>1, <1>2, <1>5, SMT DEF div_ceil
  <2>2. packed.bits[m] = Quad(list, m)
    BY <1>3, <2>1
  <2>3. p \in 0..3 /\ q \in 0..3 /\ s \in 0..3 /\ t \in 0..3
    BY SlotFacts
  <2>4. Quad(list, m) = Byte4(p, q, s, t)
    BY DEF Quad
  <2>5. \A i : i \notin 1..n => Slot(list, i) = 0
    BY <1>1, SlotFacts
  <2>6. 4 * m > n /\ (n % 4 <= 2 => 4 * m - 1 > n) /\ (n % 4 <= 1 => 4 * m - 2 > n)
    BY <1>1, <2>1, SMT DEF div_ceil
  <2>7. t = 0 /\ (n % 4 <= 2 => s = 0) /\ (n % 4 <= 1 => q = 0)
    BY <1>1, <1>2, <2>5, <2>6
  <2> HIDE DEF p, q, s, t, m, packed
  <2>8. /\ shr(Quad(list, m), 2) = q + s * 4 + t * 16
        /\ shr(Quad(list, m), 4) = s + t * 4
        /\ shr(Quad(list, m), 6) = t
    <3>1. /\ shr(Byte4(p, q, s, t), 2) = q + s * 4 + t * 16
          /\ shr(Byte4(p, q, s, t), 4) = s + t * 4
          /\ shr(Byte4(p, q, s, t), 6) = t
      <4>1. p \in Pairs /\ q \in Pairs /\ s \in Pairs /\ t \in Pairs
        BY <2>3 DEF Pairs
      <4> QED
        BY <4>1, Shifts
    <3> QED
      BY <2>4, <3>1, Zenon
  <2>9. CASE n % 4 = 1
    <3>1. used = 2 /\ q = 0 /\ s = 0 /\ t = 0
      BY <2>7, <2>9
    <3> QED
      BY <2>2, <2>8, <3>1
  <2>10. CASE n % 4 = 2
    <3>1. used = 4 /\ s = 0 /\ t = 0
      BY <2>7, <2>10
    <3> QED
      BY <2>2, <2>8, <3>1
  <2>11. CASE n % 4 = 3
    <3>1. used = 6 /\ t = 0
      BY <2>7, <2>11
    <3> QED
      BY <2>2, <2>8, <3>1
  <2> QED
    BY <2>1, <2>9, <2>10, <2>11
<1> QED
  BY <1>1, <1>4, <1>5 DEF canonical_flags

(***************************************************************************)
(* Packed privileges decode to what was packed and are canonical, for any  *)
(* number of accounts (PackedAccountFlags).                                *)
(***************************************************************************)
THEOREM PackingLosesNothing == AuthoringSpec => []FlagsSurvivePacking
<1>1. ListsInv => FlagsSurvivePacking
  BY Unpacked, Canonical DEF ListsInv, FlagsSurvivePacking
<1> QED
  BY <1>1, ListsInductive, PTL DEF AuthoringSpec

-----------------------------------------------------------------------------
(* The preimage buffer.                                                      *)

\* An op that ingests a public key.
Keyed(op) == op.kind \in {"IngestAccount", "IngestSiblingInstruction", "IngestSiblingAccount"}

\* The capacity counted for an op: one cell of the preimage per byte, but 32 bytes per key.
LEMMA OpLength ==
    ASSUME NEW op \in ActionOps, NEW call, well_formed(call), ingestable(op, call)
    PROVE  /\ op_len(op) \in Nat
           /\ Keyed(op) => op_len(op) = Len(op_bytes(op, call)) + 31
           /\ ~Keyed(op) => op_len(op) = Len(op_bytes(op, call))
<1> DEFINE b == op_bytes(op, call)
<1>1. CASE op.kind = "Noop"
  <2>1. b = <<0>> /\ op_len(op) = 1 /\ ~Keyed(op)
    BY <1>1 DEF op_bytes, op_len, Keyed
  <2> QED
    BY <2>1
<1>2. CASE op.kind = "IngestInstructionDataSize"
  <2>1. Len(b) = 5
    BY <1>2, DataSizeBytes
  <2>2. op_len(op) = 5 /\ ~Keyed(op)
    BY <1>2 DEF op_len, Keyed
  <2> QED
    BY <2>1, <2>2
<1>3. CASE op.kind = "IngestInstruction"
  <2>1. op.len \in Nat /\ Len(b) = 4 + op.len
    BY <1>3, InstructionBytes
  <2>2. op_len(op) = 4 + op.len /\ ~Keyed(op)
    BY <1>3 DEF op_len, Keyed
  <2> QED
    BY <2>1, <2>2
<1>4. CASE op.kind = "IngestAccount"
  <2> DEFINE meta == call.metas[op.index + 1]
  <2>1. b = <<2, op.index, meta.key, flag(meta.is_signer), flag(meta.is_writable)>>
    BY <1>4, AccountBytes
  <2>2. op_len(op) = 36 /\ Keyed(op)
    BY <1>4 DEF op_len, Keyed
  <2> HIDE DEF b
  <2>3. Len(b) = 5
    BY <2>1
  <2> QED
    BY <2>2, <2>3 DEF b
<1>5. CASE op.kind = "IngestSiblingInstruction"
  <2>1. op.len \in Nat /\ Len(b) = 5 + op.len
    BY <1>5, SiblingBytes
  <2>2. op_len(op) = 36 + op.len /\ Keyed(op)
    BY <1>5 DEF op_len, Keyed
  <2> QED
    BY <2>1, <2>2
<1>6. CASE op.kind = "IngestSiblingAccount"
  <2>1. b = <<5, op.relative_index % 256, op.index,
              call.siblings[op.relative_index].accounts[op.index + 1]>>
    BY <1>6, SiblingAccountBytes
  <2>2. op_len(op) = 35 /\ Keyed(op)
    BY <1>6 DEF op_len, Keyed
  <2> HIDE DEF b
  <2>3. Len(b) = 4
    BY <2>1
  <2> QED
    BY <2>2, <2>3 DEF b
<1> QED
  BY <1>1, <1>2, <1>3, <1>4, <1>5, <1>6, OpFields

\* The keyed ops among the first k.
KeyedUpTo(ops, k) == {i \in 1..k : Keyed(ops[i])}

\* One op more is one key more, or none.
LEMMA KeyedStep ==
    ASSUME NEW ops, NEW k \in Nat \ {0}
    PROVE  /\ Cardinality(KeyedUpTo(ops, k - 1)) \in Nat
           /\ Keyed(ops[k]) => Cardinality(KeyedUpTo(ops, k)) = Cardinality(KeyedUpTo(ops, k - 1)) + 1
           /\ ~Keyed(ops[k]) => KeyedUpTo(ops, k) = KeyedUpTo(ops, k - 1)
<1> DEFINE before == KeyedUpTo(ops, k - 1)
<1>1. before \subseteq 1..(k - 1) /\ k \notin before
  BY DEF KeyedUpTo
<1>2. IsFiniteSet(1..(k - 1))
  BY FS_Interval
<1> HIDE DEF before
<1>3. IsFiniteSet(before)
  BY <1>1, <1>2, FS_Subset
<1>4. Cardinality(before) \in Nat /\ Cardinality(before \cup {k}) = Cardinality(before) + 1
  BY <1>1, <1>3, FS_CardinalityType, FS_AddElement
<1>5. \A i : i \in 1..k <=> i \in 1..(k - 1) \/ i = k
  OBVIOUS
<1>6. Keyed(ops[k]) => KeyedUpTo(ops, k) = before \cup {k}
  BY <1>5, Zenon DEF KeyedUpTo, before
<1>7. ~Keyed(ops[k]) => KeyedUpTo(ops, k) = before
  BY <1>5, Zenon DEF KeyedUpTo, before
<1> QED
  BY <1>4, <1>6, <1>7, Zenon DEF before

\* The capacity counted for each op.
Lengths(ops) == [i \in DOMAIN ops |-> op_len(ops[i])]

\* The first k ops fill exactly what is counted for them.
FilledUpTo(ops, f, k) ==
    32 + SumFunctionOnSet(Lengths(ops), 1..k) = Len(f[k]) + 31 * (1 + Cardinality(KeyedUpTo(ops, k)))

\* However many ops there are.
LEMMA Filled ==
    ASSUME NEW ops, NEW call, NEW f, Hashed(ops, call, f), NEW k \in 0..Len(ops)
    PROVE  FilledUpTo(ops, f, k)
<1> DEFINE g == Lengths(ops)
           Bad == {j \in 0..Len(ops) : ~FilledUpTo(ops, f, j)}
<1>1. Len(ops) \in Nat /\ DOMAIN ops = 1..Len(ops)
  BY LenProperties DEF Hashed
<1>2. ASSUME NEW i \in 1..Len(ops)
      PROVE  /\ g[i] = op_len(ops[i]) /\ g[i] \in Nat
             /\ Keyed(ops[i]) => g[i] = Len(op_bytes(ops[i], call)) + 31
             /\ ~Keyed(ops[i]) => g[i] = Len(op_bytes(ops[i], call))
  <2>1. ops[i] \in ActionOps /\ ingestable(ops[i], call) /\ well_formed(call)
    BY HashedStep DEF Hashed
  <2>2. g[i] = op_len(ops[i])
    BY <1>1 DEF Lengths
  <2> QED
    BY <2>1, <2>2, OpLength
<1> SUFFICES ASSUME Bad # {} PROVE FALSE
  OBVIOUS
<1>3. PICK j \in Bad : \A i \in Bad : j <= i
  <2>1. Bad \in SUBSET Nat
    BY <1>1
  <2> HIDE DEF Bad
  <2> QED
    BY <2>1, LeastNat
<1>4. j \in 0..Len(ops) /\ ~FilledUpTo(ops, f, j)
  BY <1>3
<1> HIDE DEF g
<1>5. CASE j = 0
  <2>1. 1..0 = {} /\ KeyedUpTo(ops, 0) = {}
    BY DEF KeyedUpTo
  <2>2. SumFunctionOnSet(g, {}) = 0
    BY FS_EmptySet, SumZero
  <2>3. Cardinality({}) = 0
    BY FS_EmptySet
  <2>4. Len(f[0]) = 1
    <3>1. f[0] = <<call.program>>
      BY HashedStart
    <3>2. Len(<<call.program>>) = 1
      OBVIOUS
    <3> QED
      BY <3>1, <3>2, Zenon
  <2>5. FilledUpTo(ops, f, 0)
    <3>1. SumFunctionOnSet(Lengths(ops), 1..0) = 0 /\ Cardinality(KeyedUpTo(ops, 0)) = 0
      BY <2>1, <2>2, <2>3, Zenon DEF g
    <3>2. 32 + 0 = 1 + 31 * (1 + 0)
      OBVIOUS
    <3> QED
      BY <2>4, <3>1, <3>2, Zenon DEF FilledUpTo
  <2> QED
    BY <1>4, <1>5, <2>5
<1>6. CASE j # 0
  <2>1. j \in 1..Len(ops) /\ j - 1 \in 0..Len(ops) /\ j - 1 < j /\ j \in Nat \ {0}
    BY <1>1, <1>4, <1>6
  <2>2. j - 1 \notin Bad
    <3> HIDE DEF Bad
    <3> QED
      BY <1>1, <1>3, <2>1
  <2>3. FilledUpTo(ops, f, j - 1)
    BY <2>1, <2>2
  <2> DEFINE b == op_bytes(ops[j], call)
             before == f[j - 1]
             sum == SumFunctionOnSet(g, 1..(j - 1))
             keys == Cardinality(KeyedUpTo(ops, j - 1))
  <2>4. b \in Seq(Int) /\ before \in Seq(Int) /\ f[j] = before \o b
    BY <2>1, HashedExtends, ZenonT(30)
  <2>5. SumFunctionOnSet(g, 1..j) = g[j] + sum /\ sum \in Nat
    <3>1. IsFiniteSet(1..j) /\ IsFiniteSet(1..(j - 1))
      BY <2>1, FS_Interval
    <3>2. (1..j) \ {j} = 1..(j - 1) /\ j \in 1..j
      BY <2>1
    <3>3. (\A i \in 1..j : g[i] \in Nat) /\ (\A i \in 1..(j - 1) : g[i] \in Nat)
      BY <1>1, <1>2, <2>1
    <3>4. SumFunctionOnSet(g, 1..j) = g[j] + SumFunctionOnSet(g, (1..j) \ {j})
      BY <3>1, <3>2, <3>3, SumRemove
    <3>5. SumFunctionOnSet(g, 1..(j - 1)) \in Nat
      BY <3>1, <3>3, SumNat
    <3> QED
      BY <3>2, <3>4, <3>5
  <2> HIDE DEF b, before, sum, keys
  <2>6. Len(before \o b) = Len(before) + Len(b) /\ Len(before) \in Nat /\ Len(b) \in Nat
    BY <2>4, ConcatProperties, LenProperties
  <2>7. 32 + sum = Len(before) + 31 * (1 + keys)
    BY <2>3 DEF FilledUpTo, sum, before, keys, g
  <2>8. g[j] \in Nat
    BY <1>2, <2>1
  <2>9. keys \in Nat
    BY <2>1, KeyedStep DEF keys
  <2>10. CASE Keyed(ops[j])
    <3>1. Cardinality(KeyedUpTo(ops, j)) = keys + 1
      BY <2>1, <2>10, KeyedStep DEF keys
    <3>2. g[j] = Len(b) + 31
      BY <1>2, <2>1, <2>10 DEF b
    <3>3. 32 + (g[j] + sum) = (Len(before) + Len(b)) + 31 * (1 + (keys + 1))
      BY <2>6, <2>7, <2>8, <2>9, <2>5, <3>2
    <3>4. FilledUpTo(ops, f, j)
      BY <2>4, <2>5, <2>6, <3>1, <3>3 DEF FilledUpTo, g
    <3> QED
      BY <1>4, <3>4
  <2>11. CASE ~Keyed(ops[j])
    <3>1. Cardinality(KeyedUpTo(ops, j)) = keys
      BY <2>1, <2>11, KeyedStep DEF keys
    <3>2. g[j] = Len(b)
      BY <1>2, <2>1, <2>11 DEF b
    <3>3. 32 + (g[j] + sum) = (Len(before) + Len(b)) + 31 * (1 + keys)
      BY <2>6, <2>7, <2>8, <2>9, <2>5, <3>2
    <3>4. FilledUpTo(ops, f, j)
      BY <2>4, <2>5, <2>6, <3>1, <3>3 DEF FilledUpTo, g
    <3> QED
      BY <1>4, <3>4
  <2> QED
    BY <2>10, <2>11
<1> QED
  BY <1>5, <1>6

(***************************************************************************)
(* The buffer reserved for the preimage is exactly filled by every list of *)
(* ops and every call (preimage_len).                                      *)
(***************************************************************************)
THEOREM PreimagesFit == AuthoringSpec => []PreimageExactlyFits
<1>1. ASSUME ListsInv, NEW x \in Calls, hashable(left, x)
      PROVE  preimage_len(left) = Len(compute_action_hash_from_metas(left, x)) + 31 * Keys(left)
  <2>1. left \in Seq(ActionOps) /\ well_formed(x)
    BY <1>1, EncodingAssumption DEF ListsInv
  <2>2. Len(left) \in Nat /\ DOMAIN left = 1..Len(left)
    BY <2>1, LenProperties
  <2>3. PICK f : /\ Ingested(left, x, Len(left), f)
                 /\ compute_action_hash_from_metas(left, x) = f[Len(left)]
    BY <2>2, HashIsLast
  <2>4. Hashed(left, x, f)
    BY <1>1, <2>1, <2>3 DEF Hashed
  <2>5. FilledUpTo(left, f, Len(left))
    BY <2>2, <2>4, Filled
  <2>6. preimage_len(left) = 32 + SumFunctionOnSet(Lengths(left), 1..Len(left))
    <3>1. DOMAIN Lengths(left) = 1..Len(left)
      BY <2>2 DEF Lengths
    <3> QED
      BY <3>1, Zenon DEF preimage_len, SumFunction, Lengths
  <2>7. Keys(left) = 1 + Cardinality(KeyedUpTo(left, Len(left)))
    BY <2>2, Zenon DEF Keys, KeyedUpTo, Keyed
  <2> QED
    BY <2>3, <2>5, <2>6, <2>7, Zenon DEF FilledUpTo
<1>2. ListsInv => PreimageExactlyFits
  BY <1>1 DEF PreimageExactlyFits
<1> QED
  BY <1>2, ListsInductive, PTL DEF AuthoringSpec

-----------------------------------------------------------------------------
(* Access lists: functions defined from one value to the next.               *)

\* What each of the four adds to the value before.
Taken(kind, before, given) ==
    CASE kind = "climb" -> access_merkle_node(before, given)
      [] kind = "layer" -> next_layer(before)
      [] kind = "place" -> halved(before)
      [] OTHER -> before \o given

\* f takes one step after another from start, between lo and m.
Walked(kind, start, given, lo, m, f) ==
    f = [i \in lo..m |-> IF i = lo THEN start ELSE Taken(kind, f[i - 1], given[i])]

\* Its values, one by one.
LEMMA WalkedAt ==
    ASSUME NEW kind, NEW start, NEW given, NEW lo \in Nat, NEW m \in Nat, NEW f,
           Walked(kind, start, given, lo, m, f), NEW i \in lo..m
    PROVE  /\ i = lo => f[i] = start
           /\ i # lo => f[i] = Taken(kind, f[i - 1], given[i])
<1> DEFINE next(n) == IF n = lo THEN start ELSE Taken(kind, f[n - 1], given[n])
<1>1. f = [n \in lo..m |-> next(n)]
  BY DEF Walked
<1> HIDE DEF next
<1>2. f[i] = next(i)
  BY <1>1
<1> QED
  BY <1>2 DEF next

\* Its first value.
LEMMA WalkedFirst ==
    ASSUME NEW kind, NEW start, NEW given, NEW lo \in Nat, NEW m \in Nat, NEW f,
           Walked(kind, start, given, lo, m, f), lo <= m
    PROVE  f[lo] = start
<1> DEFINE next(n) == IF n = lo THEN start ELSE Taken(kind, f[n - 1], given[n])
<1>1. f = [n \in lo..m |-> next(n)]
  BY DEF Walked
<1>2. lo \in lo..m
  OBVIOUS
<1> HIDE DEF next
<1>3. f[lo] = next(lo)
  BY <1>1, <1>2
<1> QED
  BY <1>3 DEF next

\* There is such a function, however far it goes.
LEMMA WalkedExists ==
    ASSUME NEW kind, NEW start, NEW given, NEW lo \in Nat, NEW m \in Nat
    PROVE  \E f : Walked(kind, start, given, lo, m, f)
<1> DEFINE Bad == {j \in Nat : ~ \E f : Walked(kind, start, given, lo, j, f)}
<1> SUFFICES ASSUME Bad # {} PROVE FALSE
  OBVIOUS
<1>1. PICK j \in Bad : \A i \in Bad : j <= i
  <2>1. Bad \in SUBSET Nat
    OBVIOUS
  <2> HIDE DEF Bad
  <2> QED
    BY <2>1, LeastNat
<1>2. j \in Nat /\ ~ \E f : Walked(kind, start, given, lo, j, f)
  BY <1>1
<1> DEFINE more(h, n) == Taken(kind, h[n - 1], given[n])
<1>3. CASE j <= lo
  <2> DEFINE f == [n \in lo..j |-> start]
  <2>1. \A n \in lo..j : n = lo
    BY <1>2, <1>3
  <2>2. f = [n \in lo..j |-> IF n = lo THEN start ELSE more(f, n)]
    <3> HIDE DEF more
    <3> QED
      BY <2>1
  <2> QED
    BY <1>2, <2>2 DEF Walked
<1>4. CASE lo < j
  <2>1. j - 1 \in Nat
    BY <1>2, <1>4
  <2>2. j - 1 \notin Bad
    <3> HIDE DEF Bad
    <3> QED
      BY <1>1, <1>2, <2>1
  <2>3. PICK h : Walked(kind, start, given, lo, j - 1, h)
    BY <2>1, <2>2
  <2> DEFINE f == [n \in lo..j |-> IF n = lo THEN start ELSE more(h, n)]
  <2>4. ASSUME NEW k \in lo..(j - 1) PROVE f[k] = h[k]
    <3>1. k \in lo..j /\ k \in Nat
      BY <1>2
    <3>2. (k = lo => h[k] = start) /\ (k # lo => h[k] = more(h, k))
      <4> DEFINE last == j - 1
      <4>1. last \in Nat /\ k \in lo..last /\ Walked(kind, start, given, lo, last, h)
        BY <2>1, <2>3
      <4> HIDE DEF f, last, Bad
      <4> QED
        BY <4>1, WalkedAt
    <3> HIDE DEF more
    <3> QED
      BY <3>1, <3>2
  <2>5. ASSUME NEW n \in lo..j, n # lo PROVE f[n - 1] = h[n - 1]
    <3>1. n - 1 \in lo..(j - 1)
      BY <1>2, <2>5
    <3> HIDE DEF f
    <3> QED
      BY <2>4, <3>1
  <2> DEFINE one(n) == IF n = lo THEN start ELSE more(h, n)
             two(n) == IF n = lo THEN start ELSE more(f, n)
  <2>6. \A n \in lo..j : one(n) = two(n)
    <3> HIDE DEF f
    <3> QED
      BY <2>5
  <2>7. f = [n \in lo..j |-> one(n)]
    OBVIOUS
  <2> HIDE DEF f, one, two
  <2>8. f = [n \in lo..j |-> two(n)]
    BY <2>6, <2>7
  <2>9. Walked(kind, start, given, lo, j, f)
    BY <2>8 DEF two, Walked
  <2> QED
    BY <1>2, <2>9
<1> QED
  BY <1>2, <1>3, <1>4

\* Climbing from a leaf.
LEMMA ClimbedWalks ==
    ASSUME NEW owner, NEW p, Len(p) \in Nat
    PROVE  Walked("climb", access_merkle_leaf(owner), p, 0, Len(p), climbed(owner, p))
<1> DEFINE Step(g) == [i \in 0..Len(p) |-> IF i = 0 THEN access_merkle_leaf(owner)
                                            ELSE access_merkle_node(g[i - 1], p[i])]
           node == CHOOSE g : g = Step(g)
<1>1. PICK f : Walked("climb", access_merkle_leaf(owner), p, 0, Len(p), f)
  BY WalkedExists
<1>2. f = Step(f)
  BY <1>1 DEF Walked, Taken
<1>3. node = Step(node)
  <2> HIDE DEF Step
  <2> QED
    BY <1>2
<1>4. climbed(owner, p) = node
  BY DEF climbed
<1> HIDE DEF node
<1> QED
  BY <1>3, <1>4 DEF Walked, Taken

\* Layer upon layer.
LEMMA TowerWalks ==
    ASSUME NEW bottom, NEW m \in Nat, DOMAIN bottom = 1..m
    PROVE  Walked("layer", bottom, bottom, 1, m, tower(bottom))
<1> DEFINE Step(g) == [i \in DOMAIN bottom |-> IF i = 1 THEN bottom ELSE next_layer(g[i - 1])]
           layer == CHOOSE g : g = Step(g)
<1>1. PICK f : Walked("layer", bottom, bottom, 1, m, f)
  BY WalkedExists
<1>2. f = Step(f)
  BY <1>1 DEF Walked, Taken
<1>3. layer = Step(layer)
  <2> HIDE DEF Step
  <2> QED
    BY <1>2
<1>4. tower(bottom) = layer
  BY DEF tower
<1> HIDE DEF layer
<1> QED
  BY <1>3, <1>4 DEF Walked, Taken

\* The place of an owner's leaf.
FirstPlace(owners, owner) == CHOOSE k \in DOMAIN entries(owners) : entries(owners)[k] = owner

\* The owner's places.
LEMMA PlacesWalk ==
    ASSUME NEW owners, NEW owner, Len(layers(owners)) \in Nat
    PROVE  Walked("place", FirstPlace(owners, owner), <<>>, 1, Len(layers(owners)),
                  places(owners, owner))
<1> DEFINE m == Len(layers(owners))
           Step(g) == [i \in 1..m |-> IF i = 1 THEN FirstPlace(owners, owner) ELSE halved(g[i - 1])]
           index == CHOOSE g : g = Step(g)
<1>1. PICK f : Walked("place", FirstPlace(owners, owner), <<>>, 1, m, f)
  BY WalkedExists
<1>2. f = Step(f)
  BY <1>1 DEF Walked, Taken
<1>3. index = Step(index)
  <2> HIDE DEF Step
  <2> QED
    BY <1>2
<1>4. places(owners, owner) = index
  BY DEF places, FirstPlace
<1> HIDE DEF index
<1> QED
  BY <1>3, <1>4 DEF Walked, Taken

\* The siblings met on the way up.
Met(owners, owner) ==
    [i \in 1..(Len(layers(owners)) - 1) |-> sibling(layers(owners)[i], places(owners, owner)[i])]

\* The proof so far.
LEMMA SiblingsWalk ==
    ASSUME NEW owners, NEW owner, Len(layers(owners)) \in Nat \ {0}
    PROVE  Walked("path", <<>>, Met(owners, owner), 0, Len(layers(owners)) - 1,
                  siblings(owners, owner))
<1> DEFINE m == Len(layers(owners)) - 1
           passed(i) == sibling(layers(owners)[i], places(owners, owner)[i])
           Step(g) == [i \in 0..m |-> IF i = 0 THEN <<>> ELSE g[i - 1] \o passed(i)]
           path == CHOOSE g : g = Step(g)
           met == Met(owners, owner)
<1>0. m \in Nat /\ 0 \in Nat
  OBVIOUS
<1>1. PICK f : Walked("path", <<>>, met, 0, m, f)
  <2> HIDE DEF m, met
  <2> QED
    BY <1>0, WalkedExists
<1>5. \A i \in 0..m : i # 0 => met[i] = passed(i)
  BY DEF Met
<1>6. ASSUME NEW g PROVE (g = Step(g)) <=> Walked("path", <<>>, met, 0, m, g)
  <2> HIDE DEF passed, met, m
  <2>1. Walked("path", <<>>, met, 0, m, g) <=>
          g = [i \in 0..m |-> IF i = 0 THEN <<>> ELSE g[i - 1] \o met[i]]
    BY DEF Walked, Taken
  <2> DEFINE one(i) == IF i = 0 THEN <<>> ELSE g[i - 1] \o met[i]
             two(i) == IF i = 0 THEN <<>> ELSE g[i - 1] \o passed(i)
  <2>2. \A i \in 0..m : one(i) = two(i)
    BY <1>5
  <2>3. [i \in 0..m |-> one(i)] = [i \in 0..m |-> two(i)]
    <3> HIDE DEF one, two
    <3> QED
      BY <2>2
  <2> QED
    BY <2>1, <2>3
<1>2. f = Step(f)
  BY <1>1, <1>6
<1>3. path = Step(path)
  <2> HIDE DEF Step
  <2> QED
    BY <1>2
<1>4. siblings(owners, owner) = path
  BY DEF siblings
<1> HIDE DEF path, Step
<1> QED
  BY <1>3, <1>4, <1>6

-----------------------------------------------------------------------------
(* The shape of the tree.                                                    *)

\* The length of a sequence written as a function.
LEMMA LengthOf ==
    ASSUME NEW s, NEW m \in Nat, s = [k \in 1..m |-> s[k]]
    PROVE  s \in Seq({s[k] : k \in 1..m}) /\ Len(s) = m /\ DOMAIN s = 1..m
<1> DEFINE S == {s[k] : k \in 1..m}
<1>1. s \in [1..m -> S]
  OBVIOUS
<1>2. s \in Seq(S)
  BY <1>1, SeqDef
<1>3. DOMAIN s = 1..m
  BY <1>1
<1> HIDE DEF S
<1>4. Len(s) \in Nat /\ DOMAIN s = 1..Len(s)
  BY <1>2, LenProperties
<1>5. Len(s) = m
  BY <1>3, <1>4
<1> QED
  BY <1>2, <1>3, <1>5 DEF S

\* Half, rounded up.
LEMMA Halves ==
    ASSUME NEW n \in Nat
    PROVE  /\ halved(n) \in Nat
           /\ n % 2 = 0 => 2 * halved(n) = n
           /\ n % 2 # 0 => 2 * halved(n) = n + 1
BY SMT DEF halved

\* What that means for a place in a layer.
LEMMA HalvedPlaces ==
    ASSUME NEW n \in Nat, NEW k \in 1..n
    PROVE  /\ halved(n) \in Nat /\ halved(k) \in 1..halved(n)
           /\ n > 1 => halved(n) < n
BY SMT DEF halved

\* A layer made from the one below.
LEMMA NextLayerShape ==
    ASSUME NEW layer, Len(layer) \in Nat
    PROVE  /\ halved(Len(layer)) \in Nat
           /\ DOMAIN next_layer(layer) = 1..halved(Len(layer))
           /\ Len(next_layer(layer)) = halved(Len(layer))
           /\ \A k \in 1..halved(Len(layer)) :
                /\ 2 * k <= Len(layer) =>
                     next_layer(layer)[k] = access_merkle_node(layer[2 * k - 1], layer[2 * k])
                /\ 2 * k > Len(layer) => next_layer(layer)[k] = layer[2 * k - 1]
<1> DEFINE n == Len(layer)
           m == halved(n)
           at(k) == IF 2 * k <= n THEN access_merkle_node(layer[2 * k - 1], layer[2 * k])
                    ELSE layer[2 * k - 1]
           above == next_layer(layer)
<1>1. m \in Nat /\ n \in Nat
  BY Halves
<1>2. above = [k \in 1..m |-> at(k)]
  BY DEF next_layer
<1> HIDE DEF m, at, above, n
<1>3. above = [k \in 1..m |-> above[k]] /\ \A k \in 1..m : above[k] = at(k)
  BY <1>2
<1>4. Len(above) = m /\ DOMAIN above = 1..m
  BY <1>1, <1>3, LengthOf
<1>5. \A k \in 1..m : /\ 2 * k <= n => at(k) = access_merkle_node(layer[2 * k - 1], layer[2 * k])
                      /\ 2 * k > n => at(k) = layer[2 * k - 1]
  BY <1>1 DEF at
<1> QED
  BY <1>1, <1>3, <1>4, <1>5 DEF m, n, above

\* The listed wallets are finitely many numbers.
LEMMA ListedFinite ==
    ASSUME NEW owners \in Seq(Nat)
    PROVE  /\ ToSet(owners) \in SUBSET Nat /\ IsFiniteSet(ToSet(owners))
           /\ Cardinality(ToSet(owners)) \in Nat
           /\ owners # <<>> => ToSet(owners) # {}
           /\ owners = <<>> => ToSet(owners) = {}
<1>1. Len(owners) \in Nat /\ owners \in [1..Len(owners) -> Nat] /\ DOMAIN owners = 1..Len(owners)
  BY LenProperties
<1>2. ToSet(owners) = {owners[i] : i \in 1..Len(owners)}
  BY <1>1 DEF ToSet
<1>3. IsFiniteSet(1..Len(owners))
  BY <1>1, FS_Interval
<1>4. owners \in Surjection(1..Len(owners), ToSet(owners))
  BY <1>1, <1>2 DEF Surjection
<1>5. IsFiniteSet(ToSet(owners))
  BY <1>3, <1>4, FS_Surjection
<1>6. owners # <<>> => Len(owners) # 0
  BY EmptySeq
<1>7. owners # <<>> => ToSet(owners) # {}
  <2> SUFFICES ASSUME owners # <<>> PROVE ToSet(owners) # {}
    OBVIOUS
  <2>1. 1 \in 1..Len(owners)
    BY <1>1, <1>6
  <2> QED
    BY <1>2, <2>1
<1>8. owners = <<>> => ToSet(owners) = {}
  BY <1>2
<1> QED
  BY <1>1, <1>2, <1>5, <1>7, <1>8, FS_CardinalityType

\* How many of a set come before one of its members.
Before(listed, w) == {v \in listed : v < w}

\* Ranks are below the size of the set, and tell its members apart.
LEMMA RanksDiffer ==
    ASSUME NEW listed \in SUBSET Nat, IsFiniteSet(listed)
    PROVE  /\ Cardinality(listed) \in Nat
           /\ \A w \in listed : Cardinality(Before(listed, w)) \in 0..(Cardinality(listed) - 1)
           /\ \A v, w \in listed :
                Cardinality(Before(listed, v)) = Cardinality(Before(listed, w)) => v = w
<1> DEFINE n == Cardinality(listed)
           rank(w) == Cardinality(Before(listed, w))
<1>1. n \in Nat
  BY FS_CardinalityType
<1>2. ASSUME NEW w \in listed
      PROVE  IsFiniteSet(Before(listed, w)) /\ rank(w) \in 0..(n - 1)
  <2>1. Before(listed, w) \in SUBSET listed /\ w \notin Before(listed, w)
    BY DEF Before
  <2>2. IsFiniteSet(Before(listed, w)) /\ rank(w) <= n
    BY <2>1, FS_Subset
  <2>3. rank(w) # n
    BY <2>1, FS_Subset
  <2>4. rank(w) \in Nat
    BY <2>2, FS_CardinalityType
  <2> HIDE DEF n, rank
  <2> QED
    BY <1>1, <2>2, <2>3, <2>4
<1>3. ASSUME NEW v \in listed, NEW w \in listed, v < w PROVE rank(v) # rank(w)
  <2>0. v \in Nat /\ w \in Nat /\ \A u \in listed : u \in Nat
    OBVIOUS
  <2>1. \A u \in listed : u < v => u < w
    BY <1>3, <2>0
  <2>2. Before(listed, v) \in SUBSET Before(listed, w)
    BY <2>1 DEF Before
  <2>3. v \in Before(listed, w) /\ v \notin Before(listed, v)
    BY <1>3, <2>0 DEF Before
  <2>4. IsFiniteSet(Before(listed, w))
    BY <1>2
  <2> QED
    BY <2>2, <2>3, <2>4, FS_Subset
<1>4. ASSUME NEW v \in listed, NEW w \in listed, rank(v) = rank(w) PROVE v = w
  <2>1. v \in Nat /\ w \in Nat /\ ~(v < w) /\ ~(w < v)
    <3> HIDE DEF rank
    <3> QED
      BY <1>3, <1>4
  <2> QED
    BY <2>1
<1> QED
  BY <1>1, <1>2, <1>4

\* Every rank is taken.
LEMMA EveryRankIsTaken ==
    ASSUME NEW listed \in SUBSET Nat, IsFiniteSet(listed), NEW k \in 1..Cardinality(listed)
    PROVE  \E w \in listed : Cardinality(Before(listed, w)) = k - 1
<1> DEFINE n == Cardinality(listed)
           rank == [w \in listed |-> Cardinality(Before(listed, w))]
           R == 0..(n - 1)
<1>1. n \in Nat /\ \A w \in listed : rank[w] = Cardinality(Before(listed, w))
  BY RanksDiffer
<1>2. rank \in [listed -> R]
  BY RanksDiffer
<1>3. IsFiniteSet(R) /\ Cardinality(R) = n
  <2>1. n - 1 \in Int
    BY <1>1
  <2>2. Cardinality(R) = IF 0 > n - 1 THEN 0 ELSE (n - 1) - 0 + 1
    BY <2>1, FS_Interval
  <2>3. IsFiniteSet(R)
    BY <2>1, FS_Interval
  <2> HIDE DEF n, R
  <2> QED
    BY <1>1, <2>2, <2>3
<1>4. \A v, w \in listed : rank[v] = rank[w] => v = w
  BY RanksDiffer
<1>5. rank \in Injection(listed, R)
  <2> HIDE DEF rank, R
  <2> QED
    BY <1>2, <1>4 DEF Injection, IsInjective
<1>6. rank \in Surjection(listed, R)
  <2> HIDE DEF rank, R
  <2> QED
    BY <1>3, <1>5, FS_Injection DEF n
<1>7. k - 1 \in R
  BY <1>1
<1>8. \E w \in listed : rank[w] = k - 1
  <2> HIDE DEF rank, R
  <2> QED
    BY <1>6, <1>7 DEF Surjection
<1> QED
  BY <1>1, <1>8

\* The entries are the listed wallets, each once.
LEMMA EntriesAreListed ==
    ASSUME NEW owners \in Seq(Nat)
    PROVE  /\ Cardinality(ToSet(owners)) \in Nat
           /\ DOMAIN entries(owners) = 1..Cardinality(ToSet(owners))
           /\ \A k \in DOMAIN entries(owners) : entries(owners)[k] \in ToSet(owners)
           /\ \A w \in ToSet(owners) : \E k \in DOMAIN entries(owners) : entries(owners)[k] = w
<1> DEFINE listed == ToSet(owners)
           n == Cardinality(listed)
           all == entries(owners)
           first(k) == CHOOSE w \in listed : Cardinality(Before(listed, w)) = k - 1
<1>1. listed \in SUBSET Nat /\ IsFiniteSet(listed) /\ n \in Nat
  BY ListedFinite
<1>2. all = [k \in 1..n |-> first(k)]
  BY DEF entries, Before
<1> HIDE DEF all, listed
<1>3. DOMAIN all = 1..n /\ \A k \in 1..n : all[k] = first(k)
  BY <1>2
<1>4. ASSUME NEW k \in 1..n PROVE first(k) \in listed /\ Cardinality(Before(listed, first(k))) = k - 1
  <2>1. \E w \in listed : Cardinality(Before(listed, w)) = k - 1
    BY <1>1, EveryRankIsTaken
  <2> QED
    BY <2>1
<1>5. ASSUME NEW w \in listed PROVE \E k \in 1..n : first(k) = w
  <2> DEFINE r == Cardinality(Before(listed, w))
             k == r + 1
  <2>1. r \in 0..(n - 1)
    BY <1>1, RanksDiffer
  <2>2. k \in 1..n /\ k - 1 = r
    BY <1>1, <2>1
  <2>3. first(k) \in listed /\ Cardinality(Before(listed, first(k))) = r
    <3> HIDE DEF k, r, first
    <3> QED
      BY <1>4, <2>2
  <2>4. first(k) = w
    <3> HIDE DEF first, k
    <3> QED
      BY <1>1, <2>3, RanksDiffer
  <2> QED
    BY <2>2, <2>4
<1> HIDE DEF first
<1>6. (\A k \in DOMAIN all : all[k] \in listed) /\ \A w \in listed : \E k \in DOMAIN all : all[k] = w
  BY <1>3, <1>4, <1>5
<1> QED
  BY <1>1, <1>3, <1>6 DEF listed, all

\* One leaf for each entry.
LEMMA LeavesShape ==
    ASSUME NEW owners \in Seq(Nat), owners # <<>>
    PROVE  /\ Len(leaves(owners)) \in Nat \ {0}
           /\ DOMAIN leaves(owners) = 1..Len(leaves(owners))
           /\ DOMAIN entries(owners) = 1..Len(leaves(owners))
           /\ \A k \in DOMAIN entries(owners) :
                leaves(owners)[k] = access_merkle_leaf(entries(owners)[k])
<1> DEFINE n == Cardinality(ToSet(owners))
           bottom == leaves(owners)
           at(k) == access_merkle_leaf(entries(owners)[k])
<1>1. n \in Nat /\ DOMAIN entries(owners) = 1..n
  BY EntriesAreListed
<1>2. n # 0
  BY ListedFinite, FS_EmptySet
<1>3. bottom = [k \in 1..n |-> at(k)]
  BY <1>1 DEF leaves
<1> HIDE DEF n, bottom, at
<1>4. bottom = [k \in 1..n |-> bottom[k]] /\ \A k \in 1..n : bottom[k] = at(k)
  BY <1>3
<1>5. Len(bottom) = n /\ DOMAIN bottom = 1..n
  BY <1>1, <1>4, LengthOf
<1> QED
  BY <1>1, <1>2, <1>4, <1>5 DEF bottom, at

\* A layer is a nonempty sequence.
Layer(s) == Len(s) \in Nat \ {0} /\ DOMAIN s = 1..Len(s)

\* Each layer is shorter than the one below, down to a single node.
LEMMA TowerShape ==
    ASSUME NEW bottom, Layer(bottom), NEW i \in 1..Len(bottom)
    PROVE  /\ Layer(tower(bottom)[i])
           /\ Len(tower(bottom)[i]) = 1 \/ Len(tower(bottom)[i]) <= (Len(bottom) - i) + 1
           /\ i = 1 => tower(bottom)[i] = bottom
           /\ i # 1 => tower(bottom)[i] = next_layer(tower(bottom)[i - 1])
<1> DEFINE m == Len(bottom)
           up == tower(bottom)
           Good(j) == Layer(up[j]) /\ (Len(up[j]) = 1 \/ Len(up[j]) <= (m - j) + 1)
           Bad == {j \in 1..m : ~ Good(j)}
<1>1. m \in Nat \ {0} /\ DOMAIN bottom = 1..m /\ Layer(bottom)
  BY DEF Layer
<1>2. Walked("layer", bottom, bottom, 1, m, up)
  BY <1>1, TowerWalks
<1>3. ASSUME NEW j \in 1..m
      PROVE  (j = 1 => up[j] = bottom) /\ (j # 1 => up[j] = next_layer(up[j - 1]))
  <2> HIDE DEF m, up
  <2>0. 1 \in Nat /\ m \in Nat
    BY <1>1
  <2>1. (j = 1 => up[j] = bottom) /\ (j # 1 => up[j] = Taken("layer", up[j - 1], bottom[j]))
    BY <1>2, <2>0, WalkedAt
  <2> QED
    BY <2>1 DEF Taken
<1>4. Bad = {}
  <2> SUFFICES ASSUME Bad # {} PROVE FALSE
    OBVIOUS
  <2>1. PICK j \in Bad : \A x \in Bad : j <= x
    <3>1. Bad \in SUBSET Nat
      BY <1>1
    <3> HIDE DEF Bad
    <3> QED
      BY <3>1, LeastNat
  <2>2. j \in 1..m /\ ~ Good(j)
    OBVIOUS
  <2>3. CASE j = 1
    <3>1. up[j] = bottom
      BY <1>3, <2>2, <2>3
    <3> QED
      BY <1>1, <2>2, <2>3, <3>1
  <2>4. CASE j # 1
    <3>1. j - 1 \in 1..m /\ ~(j <= j - 1)
      BY <1>1, <2>2, <2>4
    <3>2. Good(j - 1)
      <4>1. j - 1 \notin Bad
        <5> HIDE DEF Bad
        <5> QED
          BY <2>1, <3>1
      <4> QED
        BY <3>1, <4>1
    <3> DEFINE below == up[j - 1]
               l == Len(below)
    <3>3. up[j] = next_layer(below)
      BY <1>3, <2>2, <2>4
    <3>4. l \in Nat \ {0} /\ (l = 1 \/ l <= (m - (j - 1)) + 1)
      BY <3>2 DEF Layer
    <3>5. halved(l) \in Nat /\ Len(up[j]) = halved(l) /\ DOMAIN up[j] = 1..halved(l)
      <4> HIDE DEF l
      <4>1. l \in Nat
        BY <3>4
      <4> QED
        BY <3>3, <4>1, NextLayerShape DEF l
    <3>6. halved(l) # 0 /\ (l = 1 => halved(l) = 1) /\ (l > 1 => halved(l) < l)
      <4> HIDE DEF l
      <4> QED
        BY <3>4, SMT DEF halved
    <3>7. halved(l) = 1 \/ halved(l) <= (m - j) + 1
      <4> HIDE DEF l, m
      <4> QED
        BY <1>1, <2>2, <3>4, <3>5, <3>6
    <3>8. Good(j)
      <4> HIDE DEF l, m, up
      <4> QED
        BY <3>5, <3>6, <3>7 DEF Layer
    <3> QED
      BY <2>2, <3>8
  <2> QED
    BY <2>3, <2>4
<1>5. Good(i)
  BY <1>4
<1> QED
  BY <1>3, <1>5

\* Some layer has a single node; the first of them is the root's.
LEMMA HeightShape ==
    ASSUME NEW bottom, Layer(bottom)
    PROVE  height(bottom) \in 1..Len(bottom) /\ Len(tower(bottom)[height(bottom)]) = 1
<1> DEFINE m == Len(bottom)
           single == {i \in DOMAIN bottom : Len(tower(bottom)[i]) = 1}
<1>1. m \in Nat \ {0} /\ DOMAIN bottom = 1..m
  BY DEF Layer
<1>2. m \in 1..m /\ Len(tower(bottom)[m]) = 1
  <2>1. m \in 1..m
    BY <1>1
  <2>2. Layer(tower(bottom)[m]) /\ (Len(tower(bottom)[m]) = 1 \/ Len(tower(bottom)[m]) <= (m - m) + 1)
    BY <2>1, TowerShape
  <2>3. Len(tower(bottom)[m]) \in Nat \ {0}
    BY <2>2 DEF Layer
  <2> HIDE DEF m
  <2> QED
    BY <1>1, <2>1, <2>2, <2>3
<1>3. single \in SUBSET Nat /\ m \in single
  BY <1>1, <1>2
<1>4. height(bottom) = CHOOSE x \in single : \A y \in single : x <= y
  BY DEF height, Min
<1>5. height(bottom) \in single
  <2> HIDE DEF single
  <2>1. \E x \in single : \A y \in single : x <= y
    BY <1>3, LeastNat
  <2> QED
    BY <1>4, <2>1
<1> QED
  BY <1>1, <1>5

\* The layers from the leaves to the root.
Tree(owners) ==
    LET up == layers(owners)
        h == Len(layers(owners))
    IN  /\ h \in Nat \ {0} /\ DOMAIN up = 1..h
        /\ \A i \in 1..h : /\ Layer(up[i])
                           /\ i = 1 => up[i] = leaves(owners)
                           /\ i # 1 => up[i] = next_layer(up[i - 1])
        /\ Len(up[h]) = 1
        /\ tree_root(owners) = up[h][1]

\* The layers of a list that is not empty.
LEMMA LayersShape ==
    ASSUME NEW owners \in Seq(Nat), owners # <<>>
    PROVE  Tree(owners)
<1> DEFINE bottom == leaves(owners)
           h == height(bottom)
           up == layers(owners)
<1>1. Layer(bottom)
  BY LeavesShape DEF Layer
<1>2. h \in 1..Len(bottom) /\ Len(tower(bottom)[h]) = 1 /\ Len(bottom) \in Nat \ {0}
  BY <1>1, HeightShape DEF Layer
<1>3. up = [i \in 1..h |-> tower(bottom)[i]]
  BY DEF layers
<1> HIDE DEF up, h, bottom
<1>4. up = [i \in 1..h |-> up[i]] /\ \A i \in 1..h : up[i] = tower(bottom)[i]
  BY <1>3
<1>5. h \in Nat \ {0} /\ h \in 1..h
  BY <1>2
<1>6. Len(up) = h /\ DOMAIN up = 1..h
  BY <1>4, <1>5, LengthOf
<1>7. ASSUME NEW i \in 1..h
      PROVE  /\ Layer(up[i])
             /\ i = 1 => up[i] = bottom
             /\ i # 1 => up[i] = next_layer(up[i - 1])
  <2>1. i \in 1..Len(bottom) /\ (i # 1 => i - 1 \in 1..h)
    BY <1>2, <1>5
  <2> QED
    BY <1>1, <1>4, <2>1, TowerShape
<1>8. Len(up[h]) = 1
  BY <1>2, <1>4, <1>5
<1>9. tree_root(owners) = up[h][1]
  BY <1>6 DEF tree_root, Last, up
<1> QED
  BY <1>5, <1>6, <1>7, <1>8, <1>9 DEF Tree, up, bottom

-----------------------------------------------------------------------------
(* The vault's check.                                                        *)

\* The leaf and node domains are apart, and nothing hashes to the root of the empty list.
LEMMA DomainsApart ==
    ASSUME NEW a, NEW c, NEW d
    PROVE  /\ access_merkle_leaf(a) # access_merkle_node(c, d)
           /\ EMPTY_ACCESS_MERKLE_ROOT # access_merkle_leaf(a)
           /\ EMPTY_ACCESS_MERKLE_ROOT # access_merkle_node(c, d)
<1>1. /\ access_merkle_leaf(a)[1] = "leaf" /\ access_merkle_node(c, d)[1] = "node"
      /\ EMPTY_ACCESS_MERKLE_ROOT[1] = "zero"
  BY DEF access_merkle_leaf, access_merkle_node, EMPTY_ACCESS_MERKLE_ROOT
<1> QED
  BY <1>1

\* A leaf determines its wallet.
LEMMA LeavesTellWallets ==
    ASSUME NEW a, NEW b, access_merkle_leaf(a) = access_merkle_leaf(b)
    PROVE  a = b
BY DEF access_merkle_leaf

\* A node determines its children.
LEMMA NodesTellChildren ==
    ASSUME NEW a, NEW b, NEW c, NEW d, access_merkle_node(a, b) = access_merkle_node(c, d)
    PROVE  a = c \/ a = d
<1>1. access_merkle_node(a, b)[2] = {a, b} /\ access_merkle_node(c, d)[2] = {c, d}
  BY DEF access_merkle_node
<1>2. {a, b} = {c, d}
  BY <1>1
<1> QED
  BY <1>2, Zenon

\* The climb, hash by hash.
LEMMA ClimbedAt ==
    ASSUME NEW owner, NEW p, Len(p) \in Nat, NEW j \in 0..Len(p)
    PROVE  /\ j = 0 => climbed(owner, p)[j] = access_merkle_leaf(owner)
           /\ j # 0 => climbed(owner, p)[j] = access_merkle_node(climbed(owner, p)[j - 1], p[j])
<1> DEFINE m == Len(p)
           node == climbed(owner, p)
           start == access_merkle_leaf(owner)
<1>1. Walked("climb", start, p, 0, m, node)
  BY ClimbedWalks
<1>2. 0 \in Nat /\ m \in Nat
  OBVIOUS
<1> HIDE DEF m, node, start
<1>3. (j = 0 => node[j] = start) /\ (j # 0 => node[j] = Taken("climb", node[j - 1], p[j]))
  BY <1>1, <1>2, WalkedAt DEF m
<1>4. (j = 0 => node[j] = start) /\ (j # 0 => node[j] = access_merkle_node(node[j - 1], p[j]))
  BY <1>3 DEF Taken
<1> QED
  BY <1>4 DEF node, start

\* The owner's climb meets a node of the tree.
Meets(owners, owner, p, i) ==
    \E j \in 0..Len(p), k \in 1..Len(layers(owners)[i]) :
        climbed(owner, p)[j] = layers(owners)[i][k]

\* At the leaves.
LEMMA MeetsALeaf ==
    ASSUME NEW owners \in Seq(Nat), owners # <<>>, NEW owner, NEW p, Len(p) \in Nat,
           Meets(owners, owner, p, 1)
    PROVE  owner \in ToSet(owners)
<1>1. Tree(owners)
  BY LayersShape
<1>2. layers(owners)[1] = leaves(owners)
  <2>1. 1 \in 1..Len(layers(owners))
    BY <1>1 DEF Tree
  <2> QED
    BY <1>1, <2>1 DEF Tree
<1>3. PICK j \in 0..Len(p), k \in 1..Len(leaves(owners)) : climbed(owner, p)[j] = leaves(owners)[k]
  BY <1>2 DEF Meets
<1>4. k \in DOMAIN entries(owners) /\ leaves(owners)[k] = access_merkle_leaf(entries(owners)[k])
  BY LeavesShape
<1>5. entries(owners)[k] \in ToSet(owners)
  BY <1>4, EntriesAreListed
<1>6. climbed(owner, p)[j] = access_merkle_leaf(entries(owners)[k])
  BY <1>3, <1>4
<1>7. CASE j = 0
  <2>1. climbed(owner, p)[j] = access_merkle_leaf(owner)
    BY <1>7, ClimbedAt
  <2> QED
    BY <1>5, <1>6, <2>1, LeavesTellWallets
<1>8. CASE j # 0
  <2>1. climbed(owner, p)[j] = access_merkle_node(climbed(owner, p)[j - 1], p[j])
    BY <1>8, ClimbedAt
  <2> QED
    BY <1>6, <2>1, DomainsApart, Zenon
<1> QED
  BY <1>7, <1>8

\* Above, it met one a layer below.
LEMMA MeetsBelow ==
    ASSUME NEW owners \in Seq(Nat), owners # <<>>, NEW owner, NEW p, Len(p) \in Nat,
           NEW i \in 1..Len(layers(owners)), i # 1, Meets(owners, owner, p, i)
    PROVE  Meets(owners, owner, p, i - 1)
<1> DEFINE up == layers(owners)
           node == climbed(owner, p)
           below == up[i - 1]
           n == Len(below)
<1>1. /\ Len(up) \in Nat \ {0} /\ i - 1 \in 1..Len(up)
      /\ up[i] = next_layer(below) /\ Layer(below)
  <2>1. Tree(owners)
    BY LayersShape
  <2>2. Len(up) \in Nat \ {0}
    BY <2>1 DEF Tree
  <2>3. i - 1 \in 1..Len(up)
    BY <2>2
  <2> QED
    BY <2>1, <2>2, <2>3 DEF Tree
<1>2. n \in Nat \ {0}
  BY <1>1 DEF Layer
<1>3. /\ Len(up[i]) = halved(n) /\ halved(n) \in Nat
      /\ \A k \in 1..halved(n) :
           /\ 2 * k <= n => up[i][k] = access_merkle_node(below[2 * k - 1], below[2 * k])
           /\ 2 * k > n => up[i][k] = below[2 * k - 1]
  <2>1. Len(below) \in Nat
    BY <1>2
  <2> QED
    BY <1>1, <2>1, NextLayerShape
<1>4. PICK j \in 0..Len(p), k \in 1..halved(n) : node[j] = up[i][k]
  BY <1>3 DEF Meets
<1>5. 2 * k - 1 \in 1..n /\ (2 * k <= n => 2 * k \in 1..n) /\ (2 * k <= n \/ 2 * k > n)
  <2> HIDE DEF n
  <2> QED
    BY <1>2, <1>3, SMT DEF halved
<1>6. (\E x \in 0..Len(p), y \in 1..n : node[x] = below[y]) => Meets(owners, owner, p, i - 1)
  BY DEF Meets
<1>7. CASE 2 * k > n
  <2>1. node[j] = below[2 * k - 1]
    BY <1>3, <1>4, <1>7
  <2> HIDE DEF node, below, n
  <2> QED
    BY <1>5, <1>6, <2>1
<1>8. CASE 2 * k <= n
  <2>1. node[j] = access_merkle_node(below[2 * k - 1], below[2 * k])
    BY <1>3, <1>4, <1>8
  <2>2. j # 0
    <3>1. j = 0 => node[j] = access_merkle_leaf(owner)
      BY ClimbedAt
    <3> QED
      BY <2>1, <3>1, DomainsApart, Zenon
  <2>3. node[j] = access_merkle_node(node[j - 1], p[j])
    BY <2>2, ClimbedAt
  <2>4. j - 1 \in 0..Len(p)
    BY <2>2
  <2> HIDE DEF node, below, n
  <2>5. node[j - 1] = below[2 * k - 1] \/ node[j - 1] = below[2 * k]
    <3> DEFINE a == node[j - 1]
               b == p[j]
               c == below[2 * k - 1]
               d == below[2 * k]
    <3>1. access_merkle_node(a, b) = access_merkle_node(c, d)
      BY <2>1, <2>3
    <3>2. a = c \/ a = d
      <4> HIDE DEF a, b, c, d
      <4> QED
        BY <3>1, NodesTellChildren
    <3> QED
      BY <3>2
  <2> QED
    BY <1>5, <1>6, <1>8, <2>4, <2>5
<1> QED
  BY <1>5, <1>7, <1>8

\* So only the listed can meet a node of the tree at all.
LEMMA OnlyListedMeet ==
    ASSUME NEW owners \in Seq(Nat), owners # <<>>, NEW owner, NEW p, Len(p) \in Nat,
           NEW i \in 1..Len(layers(owners)), Meets(owners, owner, p, i)
    PROVE  owner \in ToSet(owners)
<1> DEFINE M == {j \in 1..Len(layers(owners)) : Meets(owners, owner, p, j)}
<1>0. Len(layers(owners)) \in Nat
  BY LayersShape DEF Tree
<1>1. M \in SUBSET Nat /\ M # {}
  BY <1>0
<1>2. PICK j \in M : \A x \in M : j <= x
  <2> HIDE DEF M
  <2> QED
    BY <1>1, LeastNat
<1>3. j \in 1..Len(layers(owners)) /\ Meets(owners, owner, p, j)
  OBVIOUS
<1>4. CASE j = 1
  BY <1>3, <1>4, MeetsALeaf
<1>5. CASE j # 1
  <2>1. Meets(owners, owner, p, j - 1)
    BY <1>3, <1>5, MeetsBelow
  <2>2. j - 1 \in M /\ ~(j <= j - 1)
    BY <1>0, <1>3, <1>5, <2>1
  <2> HIDE DEF M
  <2> QED
    BY <1>2, <2>2
<1> QED
  BY <1>4, <1>5

(***************************************************************************)
(* Nobody but the listed gets in: no proof, of any length and put together *)
(* from any hashes, takes another wallet's leaf to the root of the tree    *)
(* (verify_access_merkle_proof against AccessMerkleTree::new).             *)
(***************************************************************************)
THEOREM ProofsAdmitOnlyTheListed ==
    ASSUME NEW owners \in Seq(Nat), NEW owner, NEW p, Len(p) \in Nat,
           verify_access_merkle_proof(owner, tree_root(owners), p)
    PROVE  owner \in ToSet(owners)
<1>0. Len(p) \in 0..Len(p)
  OBVIOUS
<1>1. climbed(owner, p)[Len(p)] = tree_root(owners)
  BY DEF verify_access_merkle_proof
<1>2. CASE owners = <<>>
  <2>1. tree_root(owners) = EMPTY_ACCESS_MERKLE_ROOT
    BY <1>2 DEF tree_root
  <2> QED
    BY <1>0, <1>1, <2>1, ClimbedAt, DomainsApart
<1>3. CASE owners # <<>>
  <2> DEFINE h == Len(layers(owners))
  <2>1. h \in 1..h /\ Len(layers(owners)[h]) = 1 /\ tree_root(owners) = layers(owners)[h][1]
    BY <1>3, LayersShape DEF Tree
  <2>2. 1 \in 1..Len(layers(owners)[h])
    BY <2>1
  <2>3. Meets(owners, owner, p, h)
    BY <1>0, <1>1, <2>1, <2>2 DEF Meets
  <2> QED
    BY <1>3, <2>1, <2>3, OnlyListedMeet
<1> QED
  BY <1>2, <1>3

-----------------------------------------------------------------------------
(* The client's proofs.                                                      *)

\* A proof one hash longer climbs one node further, the rest of the way unchanged.
LEMMA ClimbOneMore ==
    ASSUME NEW owner, NEW S, NEW q \in Seq(S), NEW s \in S
    PROVE  /\ Len(q \o <<s>>) = Len(q) + 1
           /\ climbed(owner, q \o <<s>>)[Len(q) + 1] =
                access_merkle_node(climbed(owner, q)[Len(q)], s)
<1> DEFINE m == Len(q)
           long == q \o <<s>>
           short == climbed(owner, q)
           far == climbed(owner, long)
<1>1. m \in Nat /\ m \in 0..m
  BY LenProperties
<1>2. <<s>> \in Seq(S) /\ Len(<<s>>) = 1 /\ <<s>>[1] = s
  OBVIOUS
<1>3. Len(long) = m + 1 /\ long \in Seq(S) /\ (\A i \in 1..m : long[i] = q[i]) /\ long[m + 1] = s
  <2>1. /\ long \in Seq(S) /\ Len(long) = m + Len(<<s>>)
        /\ \A i \in 1..(m + Len(<<s>>)) : long[i] = IF i <= m THEN q[i] ELSE <<s>>[i - m]
    BY <1>2, ConcatProperties
  <2> HIDE DEF m, long
  <2> QED
    BY <1>1, <1>2, <2>1
<1>4. Len(long) \in Nat /\ m + 1 \in 0..Len(long) /\ m + 1 # 0 /\ (m + 1) - 1 = m
  <2> HIDE DEF m, long
  <2> QED
    BY <1>1, <1>3
<1> HIDE DEF long
<1> DEFINE Bad == {j \in 0..m : far[j] # short[j]}
<1>5. Bad = {}
  <2> SUFFICES ASSUME Bad # {} PROVE FALSE
    OBVIOUS
  <2>1. PICK j \in Bad : \A x \in Bad : j <= x
    <3>1. Bad \in SUBSET Nat
      BY <1>1
    <3> HIDE DEF Bad
    <3> QED
      BY <3>1, LeastNat
  <2>2. j \in 0..m /\ far[j] # short[j]
    OBVIOUS
  <2>3. j \in 0..Len(long)
    BY <1>1, <1>3, <2>2
  <2>4. /\ j = 0 => far[j] = access_merkle_leaf(owner)
        /\ j # 0 => far[j] = access_merkle_node(far[j - 1], long[j])
    BY <1>4, <2>3, ClimbedAt
  <2>5. /\ j = 0 => short[j] = access_merkle_leaf(owner)
        /\ j # 0 => short[j] = access_merkle_node(short[j - 1], q[j])
    BY <1>1, <2>2, ClimbedAt
  <2>6. j # 0
    BY <2>2, <2>4, <2>5
  <2>7. j - 1 \in 0..m /\ j \in 1..m /\ ~(j <= j - 1)
    BY <1>1, <2>2, <2>6
  <2>8. far[j - 1] = short[j - 1]
    <3>1. j - 1 \notin Bad
      <4> HIDE DEF Bad
      <4> QED
        BY <2>1, <2>7
    <3> QED
      BY <2>7, <3>1
  <2>9. long[j] = q[j]
    BY <1>3, <2>7
  <2> QED
    BY <2>2, <2>4, <2>5, <2>6, <2>8, <2>9
<1>6. far[m] = short[m]
  BY <1>1, <1>5
<1>7. far[m + 1] = access_merkle_node(far[(m + 1) - 1], long[m + 1])
  <2> DEFINE l == m + 1
  <2>1. Len(long) \in Nat /\ l \in 0..Len(long) /\ l # 0
    BY <1>4
  <2> HIDE DEF l, m
  <2>2. far[l] = access_merkle_node(far[l - 1], long[l])
    BY <2>1, ClimbedAt
  <2> QED
    BY <2>2 DEF l
<1>8. far[m + 1] = access_merkle_node(short[m], s)
  BY <1>3, <1>4, <1>6, <1>7
<1> QED
  BY <1>3, <1>8 DEF long

\* A place has a sibling and they are hashed together, or has none and moves up as it is.
LEMMA SiblingPairs ==
    ASSUME NEW layer, Layer(layer), NEW k \in 1..Len(layer)
    PROVE  \/ /\ sibling(layer, k) = <<>>
              /\ next_layer(layer)[halved(k)] = layer[k]
           \/ \E o \in DOMAIN layer :
                 /\ sibling(layer, k) = <<layer[o]>>
                 /\ next_layer(layer)[halved(k)] = access_merkle_node(layer[k], layer[o])
<1> DEFINE n == Len(layer)
           c == halved(k)
           above == next_layer(layer)
<1>1. n \in Nat \ {0} /\ DOMAIN layer = 1..n /\ k \in Nat
  BY DEF Layer
<1>2. c \in 1..halved(n) /\ halved(n) \in Nat
  BY <1>1, HalvedPlaces
<1>3. /\ 2 * c <= n => above[c] = access_merkle_node(layer[2 * c - 1], layer[2 * c])
      /\ 2 * c > n => above[c] = layer[2 * c - 1]
  BY <1>1, <1>2, NextLayerShape
<1>4. (k % 2 = 0 => 2 * c = k) /\ (k % 2 # 0 => 2 * c = k + 1)
  BY <1>1, Halves
<1>5. CASE k % 2 = 0
  <2>1. 2 * c = k /\ k - 1 \in 1..n /\ 2 * c <= n
    <3>1. k # 1
      BY <1>5
    <3> HIDE DEF c, n
    <3> QED
      BY <1>1, <1>4, <1>5, <3>1 DEF n
  <2>2. sibling(layer, k) = <<layer[k - 1]>>
    BY <1>1, <1>5, <2>1 DEF sibling
  <2>3. above[c] = access_merkle_node(layer[k - 1], layer[k])
    BY <1>3, <2>1
  <2>4. above[c] = access_merkle_node(layer[k], layer[k - 1])
    BY <2>3 DEF access_merkle_node
  <2> QED
    BY <1>1, <2>1, <2>2, <2>4
<1>6. CASE k % 2 # 0 /\ k < n
  <2>1. 2 * c = k + 1 /\ 2 * c - 1 = k /\ k + 1 \in 1..n /\ 2 * c <= n
    <3> HIDE DEF c, n
    <3> QED
      BY <1>1, <1>2, <1>4, <1>6 DEF n
  <2>2. sibling(layer, k) = <<layer[k + 1]>>
    BY <1>1, <1>6, <2>1 DEF sibling
  <2>3. above[c] = access_merkle_node(layer[k], layer[k + 1])
    BY <1>3, <2>1
  <2> QED
    BY <1>1, <2>1, <2>2, <2>3
<1>7. CASE k % 2 # 0 /\ ~(k < n)
  <2>1. 2 * c = k + 1 /\ 2 * c - 1 = k /\ k + 1 \notin 1..n /\ 2 * c > n
    <3> HIDE DEF c, n
    <3> QED
      BY <1>1, <1>2, <1>4, <1>7 DEF n
  <2>2. sibling(layer, k) = <<>>
    BY <1>1, <1>7, <2>1 DEF sibling
  <2>3. above[c] = layer[k]
    BY <1>3, <2>1
  <2> QED
    BY <2>2, <2>3
<1> QED
  BY <1>5, <1>6, <1>7

\* Every node of a layer is known.
LEMMA NodesAreKnown ==
    ASSUME NEW owners \in Seq(Nat), owners # <<>>, NEW i \in 1..Len(layers(owners)),
           NEW k \in 1..Len(layers(owners)[i])
    PROVE  layers(owners)[i][k] \in known(owners)
<1>1. i \in DOMAIN layers(owners) /\ k \in DOMAIN layers(owners)[i]
  BY LayersShape DEF Tree, Layer
<1> QED
  BY <1>1 DEF known, ToSet

\* The owner's proof up to layer i takes the owner's leaf to the owner's place there.
OnTheWay(owners, owner, i) ==
    LET q == siblings(owners, owner)[i - 1]
        k == places(owners, owner)[i]
    IN  /\ q \in Seq(known(owners)) /\ Len(q) <= i - 1
        /\ k \in 1..Len(layers(owners)[i])
        /\ climbed(owner, q)[Len(q)] = layers(owners)[i][k]

\* At the leaves, with nothing of the proof.
LEMMA StartsOnTheWay ==
    ASSUME NEW owners \in Seq(Nat), owners # <<>>, NEW owner \in ToSet(owners)
    PROVE  OnTheWay(owners, owner, 1)
<1> DEFINE h == Len(layers(owners))
           first == FirstPlace(owners, owner)
           l == h - 1
           index == places(owners, owner)
           path == siblings(owners, owner)
           met == Met(owners, owner)
<1>1. h \in Nat \ {0} /\ 1 \in 1..h /\ layers(owners)[1] = leaves(owners)
  <2>1. Tree(owners)
    BY LayersShape
  <2>2. h \in Nat \ {0}
    BY <2>1 DEF Tree
  <2>3. 1 \in 1..h
    BY <2>2
  <2> QED
    BY <2>1, <2>2, <2>3 DEF Tree
<1>2. first \in DOMAIN entries(owners) /\ entries(owners)[first] = owner
  <2>1. \E k \in DOMAIN entries(owners) : entries(owners)[k] = owner
    BY EntriesAreListed
  <2> QED
    BY <2>1 DEF FirstPlace
<1>3. first \in 1..Len(leaves(owners)) /\ leaves(owners)[first] = access_merkle_leaf(owner)
  BY <1>2, LeavesShape
<1>4. index[1] = first
  <2> DEFINE none == <<>>
  <2>1. Walked("place", first, none, 1, h, index) /\ h \in Nat /\ 1 \in Nat
    BY <1>1, PlacesWalk
  <2>2. 1 <= h
    BY <1>1
  <2> HIDE DEF h, first, index, none
  <2> QED
    BY <2>1, <2>2, WalkedFirst
<1>5. path[0] = <<>>
  <2> DEFINE none == <<>>
  <2>1. Walked("path", none, met, 0, l, path)
    BY <1>1, SiblingsWalk
  <2>2. l \in Nat /\ 0 \in Nat /\ 0 <= l
    BY <1>1
  <2>3. path[0] = none
    <3> HIDE DEF l, met, path, h, none
    <3> QED
      BY <2>1, <2>2, WalkedFirst
  <2> QED
    BY <2>3
<1>6. <<>> \in Seq(known(owners)) /\ Len(<<>>) = 0
  BY EmptySeq
<1>7. climbed(owner, <<>>)[0] = access_merkle_leaf(owner)
  <2>1. Len(<<>>) \in Nat /\ 0 \in 0..Len(<<>>)
    BY <1>6
  <2> QED
    BY <2>1, ClimbedAt
<1>8. 1 - 1 = 0
  OBVIOUS
<1> HIDE DEF h, first, l, index, path, met
<1>9. path[1 - 1] = <<>>
  BY <1>5, <1>8
<1> QED
  BY <1>1, <1>3, <1>4, <1>6, <1>7, <1>9 DEF OnTheWay, index, path

\* From one layer to the next.
LEMMA StaysOnTheWay ==
    ASSUME NEW owners \in Seq(Nat), owners # <<>>, NEW owner \in ToSet(owners),
           NEW i \in 1..Len(layers(owners)), i # 1, OnTheWay(owners, owner, i - 1)
    PROVE  OnTheWay(owners, owner, i)
<1> DEFINE up == layers(owners)
           h == Len(up)
           b == i - 1
           l == h - 1
           index == places(owners, owner)
           path == siblings(owners, owner)
           met == Met(owners, owner)
           below == up[b]
           q == path[b - 1]
           k == index[b]
           K == known(owners)
<1>1. /\ h \in Nat \ {0} /\ b \in 1..h /\ b \in 1..l /\ l \in Nat /\ b \in Nat
      /\ up[i] = next_layer(below) /\ Layer(below)
  <2>1. Tree(owners)
    BY LayersShape
  <2>2. h \in Nat \ {0}
    BY <2>1 DEF Tree
  <2>3. b \in 1..h /\ b \in 1..l /\ l \in Nat /\ b \in Nat
    BY <2>2
  <2> QED
    BY <2>1, <2>2, <2>3 DEF Tree
<1>2. /\ q \in Seq(K) /\ Len(q) <= b - 1 /\ k \in 1..Len(below)
      /\ climbed(owner, q)[Len(q)] = below[k]
  BY DEF OnTheWay
<1>3. index[i] = halved(k)
  <2> DEFINE none == <<>>
             first == FirstPlace(owners, owner)
  <2>1. Walked("place", first, none, 1, h, index) /\ h \in Nat /\ 1 \in Nat
    BY <1>1, PlacesWalk
  <2>2. index[i] = Taken("place", index[i - 1], none[i])
    <3>1. i \in 1..h
      OBVIOUS
    <3> HIDE DEF index, h, none, first
    <3> QED
      BY <2>1, <3>1, WalkedAt
  <2> QED
    BY <2>2 DEF Taken
<1>4. path[b] = q \o sibling(below, k)
  <2>1. Walked("path", <<>>, met, 0, l, path)
    BY <1>1, SiblingsWalk
  <2>2. 0 \in Nat /\ b \in 0..l /\ b # 0
    BY <1>1
  <2>3. path[b] = Taken("path", path[b - 1], met[b])
    <3> HIDE DEF path, met, l, b
    <3> QED
      BY <1>1, <2>1, <2>2, WalkedAt
  <2>4. met[b] = sibling(below, k)
    <3>1. b \in 1..l
      BY <1>1
    <3> QED
      BY <3>1 DEF Met
  <2> HIDE DEF path, met, l, b, below, k
  <2> QED
    BY <2>3, <2>4 DEF Taken
<1>5. halved(k) \in 1..Len(up[i]) /\ Len(below) \in Nat
  <2>1. Len(below) \in Nat
    BY <1>1 DEF Layer
  <2>2. Len(up[i]) = halved(Len(below))
    BY <1>1, <2>1, NextLayerShape
  <2> HIDE DEF below, k, up
  <2> QED
    BY <1>2, <2>1, <2>2, HalvedPlaces
<1>6. Len(q) \in Nat
  <2> HIDE DEF q, K
  <2> QED
    BY <1>2, LenProperties
<1>7. \/ sibling(below, k) = <<>> /\ up[i][halved(k)] = below[k]
      \/ \E o \in DOMAIN below : /\ sibling(below, k) = <<below[o]>>
                                 /\ up[i][halved(k)] = access_merkle_node(below[k], below[o])
  <2> HIDE DEF below, k
  <2> QED
    BY <1>1, <1>2, SiblingPairs
<1> DEFINE done == path[b]
<1>8. done \in Seq(K) /\ Len(done) <= b /\ climbed(owner, done)[Len(done)] = up[i][halved(k)]
  <2>1. CASE sibling(below, k) = <<>> /\ up[i][halved(k)] = below[k]
    <3>1. done = q
      <4>1. path[b] = q \o <<>>
        BY <1>4, <2>1
      <4> HIDE DEF q, path, b, K
      <4> QED
        BY <1>2, <4>1, ConcatEmptySeq
    <3>2. Len(q) <= b
      <4> HIDE DEF q, b
      <4> QED
        BY <1>1, <1>2, <1>6
    <3> HIDE DEF done, q, K, b, up, k, below
    <3> QED
      BY <1>2, <2>1, <3>1, <3>2
  <2>2. ASSUME NEW o \in DOMAIN below, sibling(below, k) = <<below[o]>>,
               up[i][halved(k)] = access_merkle_node(below[k], below[o])
        PROVE  done \in Seq(K) /\ Len(done) <= b /\ climbed(owner, done)[Len(done)] = up[i][halved(k)]
    <3> DEFINE s == below[o]
    <3>1. s \in K
      <4>1. o \in 1..Len(below) /\ b \in 1..Len(layers(owners))
        BY <1>1 DEF Layer
      <4> HIDE DEF b
      <4> QED
        BY <4>1, NodesAreKnown
    <3>2. done = q \o <<s>>
      BY <1>4, <2>2
    <3> HIDE DEF s, K, q, done, b, below, k
    <3>3. /\ Len(q \o <<s>>) = Len(q) + 1
          /\ climbed(owner, q \o <<s>>)[Len(q) + 1] = access_merkle_node(climbed(owner, q)[Len(q)], s)
      BY <1>2, <3>1, ClimbOneMore
    <3>4. q \o <<s>> \in Seq(K)
      BY <1>2, <3>1
    <3>5. Len(done) <= b
      BY <1>1, <1>2, <1>6, <3>2, <3>3
    <3>6. climbed(owner, done)[Len(done)] = access_merkle_node(below[k], s)
      BY <1>2, <3>2, <3>3
    <3> QED
      BY <2>2, <3>2, <3>4, <3>5, <3>6 DEF s
  <2> QED
    BY <1>7, <2>1, <2>2
<1> QED
  BY <1>3, <1>5, <1>8 DEF OnTheWay

\* All the way to the root.
LEMMA AlwaysOnTheWay ==
    ASSUME NEW owners \in Seq(Nat), owners # <<>>, NEW owner \in ToSet(owners),
           NEW i \in 1..Len(layers(owners))
    PROVE  OnTheWay(owners, owner, i)
<1> DEFINE h == Len(layers(owners))
           Bad == {j \in 1..h : ~ OnTheWay(owners, owner, j)}
<1> SUFFICES ASSUME Bad # {} PROVE FALSE
  OBVIOUS
<1>0. h \in Nat
  BY LayersShape DEF Tree
<1>1. PICK j \in Bad : \A x \in Bad : j <= x
  <2>1. Bad \in SUBSET Nat
    BY <1>0
  <2> HIDE DEF Bad
  <2> QED
    BY <2>1, LeastNat
<1>2. j \in 1..h /\ ~ OnTheWay(owners, owner, j)
  OBVIOUS
<1>3. CASE j = 1
  BY <1>2, <1>3, StartsOnTheWay
<1>4. CASE j # 1
  <2>1. j - 1 \in 1..h /\ ~(j <= j - 1)
    BY <1>0, <1>2, <1>4
  <2>2. OnTheWay(owners, owner, j - 1)
    <3>1. j - 1 \notin Bad
      <4> HIDE DEF Bad
      <4> QED
        BY <1>1, <2>1
    <3> QED
      BY <2>1, <3>1
  <2> QED
    BY <1>2, <1>4, <2>2, StaysOnTheWay
<1> QED
  BY <1>3, <1>4

\* The owner's whole proof: known hashes, no more than layers below the root, up to the root.
LEMMA WholeProof ==
    ASSUME NEW owners \in Seq(Nat), NEW owner \in ToSet(owners), NEW q,
           q = siblings(owners, owner)[Len(layers(owners)) - 1]
    PROVE  /\ q \in Seq(known(owners)) /\ Len(q) \in Nat
           /\ Len(layers(owners)) \in Nat \ {0} /\ Len(q) <= Len(layers(owners)) - 1
           /\ climbed(owner, q)[Len(q)] = tree_root(owners)
<1> DEFINE h == Len(layers(owners))
           k == places(owners, owner)[h]
<1>1. owners # <<>>
  BY ListedFinite
<1>2. /\ h \in Nat \ {0} /\ h \in 1..h /\ Len(layers(owners)[h]) = 1
      /\ tree_root(owners) = layers(owners)[h][1]
  BY <1>1, LayersShape DEF Tree
<1>3. OnTheWay(owners, owner, h)
  BY <1>1, <1>2, AlwaysOnTheWay
<1>4. /\ q \in Seq(known(owners)) /\ Len(q) <= h - 1 /\ k \in 1..Len(layers(owners)[h])
      /\ climbed(owner, q)[Len(q)] = layers(owners)[h][k]
  BY <1>3 DEF OnTheWay
<1>5. k = 1
  <2> HIDE DEF k, h
  <2> QED
    BY <1>2, <1>4
<1>6. Len(q) \in Nat
  BY <1>4, LenProperties
<1> QED
  BY <1>2, <1>4, <1>5, <1>6

(***************************************************************************)
(* The client's proof opens a vault that holds the client's root, for      *)
(* every wallet of every list whose tree is no deeper than a proof may be  *)
(* (AccessMerkleTree::proof against verify_access_merkle_proof).           *)
(***************************************************************************)
THEOREM TheListedHaveProofs ==
    ASSUME NEW owners \in Seq(Nat), NEW owner \in ToSet(owners), MAX_ACCESS_PROOF_LEN \in Nat,
           Len(layers(owners)) - 1 <= MAX_ACCESS_PROOF_LEN
    PROVE  \E p \in proof(owners, owner) :
              verify_access_merkle_proof(owner, tree_root(owners), p)
<1> DEFINE q == siblings(owners, owner)[Len(layers(owners)) - 1]
           h == Len(layers(owners))
<1>1. /\ Len(q) \in Nat /\ h \in Nat \ {0} /\ Len(q) <= h - 1
      /\ climbed(owner, q)[Len(q)] = tree_root(owners)
  BY WholeProof
<1>2. Len(q) <= MAX_ACCESS_PROOF_LEN
  <2> HIDE DEF q
  <2> QED
    BY <1>1
<1>3. q \in proof(owners, owner)
  BY <1>2 DEF proof
<1> QED
  BY <1>1, <1>2, <1>3 DEF verify_access_merkle_proof

-----------------------------------------------------------------------------
(* The vault.                                                                *)

\* The vault holds the root of the list in force.
TreeInv ==
    /\ private \in BOOLEAN /\ root = tree_root(published)
    /\ published \in Seq(Wallets) /\ rotated_out \in Seq(Wallets)

\* It keeps to it.
LEMMA TreeInductive ==
    /\ Init => TreeInv
    /\ TreeInv /\ [Next]_vars => TreeInv'
<1>1. Init => TreeInv
  BY AccessAssumption, EmptySeq DEF Init, TreeInv
<1>2. ASSUME TreeInv, [Next]_vars PROVE TreeInv'
  <2>1. ASSUME NEW p \in BOOLEAN, NEW list \in Lists, SetVaultAccess(p, list) PROVE TreeInv'
    BY <1>2, <2>1, AccessAssumption DEF SetVaultAccess, TreeInv
  <2>2. ASSUME NEW w \in Wallets, NEW p, Deposit(w, p) PROVE TreeInv'
    BY <1>2, <2>2 DEF Deposit, TreeInv
  <2>3. CASE UNCHANGED vars
    BY <1>2, <2>3 DEF vars, TreeInv
  <2> QED
    BY <1>2, <2>1, <2>2, <2>3 DEF Next
<1> QED
  BY <1>1, <1>2

\* A list of wallets is a list of numbers, all of them wallets.
LEMMA ListsAreNumbers ==
    ASSUME NEW list \in Seq(Wallets)
    PROVE  list \in Seq(Nat) /\ ToSet(list) \in SUBSET Wallets
<1>1. list \in Seq(Nat)
  BY AccessAssumption, SeqMonotonic
<1>2. DOMAIN list = 1..Len(list) /\ list \in [1..Len(list) -> Wallets]
  BY LenProperties
<1> QED
  BY <1>1, <1>2 DEF ToSet

(***************************************************************************)
(* Nobody listed is ever kept out, after any rotation of the list          *)
(* (AccessMerkleTree::proof against allows_depositor).                     *)
(***************************************************************************)
THEOREM ListedAlwaysGetIn == Spec => []ListedWalletsGetIn
<1>1. TreeInv => ListedWalletsGetIn
  <2> SUFFICES ASSUME TreeInv, NEW w \in ToSet(published),
                      Len(layers(published)) - 1 <= MAX_ACCESS_PROOF_LEN
               PROVE  \E p \in proof(published, w) : allows_depositor(w, p)
    BY DEF ListedWalletsGetIn
  <2>1. published \in Seq(Nat) /\ root = tree_root(published)
    BY ListsAreNumbers DEF TreeInv
  <2>2. \E p \in proof(published, w) : verify_access_merkle_proof(w, tree_root(published), p)
    BY <2>1, AccessAssumption, TheListedHaveProofs
  <2> QED
    BY <2>1, <2>2 DEF allows_depositor
<1> QED
  BY <1>1, TreeInductive, PTL DEF Spec

\* What a depositor can present has a length.
LEMMA PresentableHasLength ==
    ASSUME TreeInv, NEW p \in Presentable
    PROVE  Len(p) \in Nat
<1>1. CASE p \in UNION {proof(list, w) : list \in {published, rotated_out}, w \in Wallets}
  <2>1. PICK list \in {published, rotated_out}, w \in Wallets : p \in proof(list, w)
    BY <1>1
  <2>2. list \in Seq(Nat)
    BY ListsAreNumbers DEF TreeInv
  <2>3. w \in ToSet(list) /\ p = siblings(list, w)[Len(layers(list)) - 1]
    BY <2>1 DEF proof
  <2> QED
    BY <2>2, <2>3, WholeProof
<1>2. CASE p \in BoundedSeq(known(published) \cup known(rotated_out), ForgedLen)
  <2> DEFINE K == known(published) \cup known(rotated_out)
  <2> HIDE DEF K
  <2>1. p \in UNION {[1..m -> K] : m \in 0..ForgedLen}
    BY <1>2 DEF BoundedSeq, SeqOf, K
  <2>2. PICK m \in 0..ForgedLen : p \in [1..m -> K]
    BY <2>1
  <2>3. m \in Nat
    BY AccessAssumption
  <2>4. p \in Seq(K)
    BY <2>2, <2>3, SeqDef
  <2> QED
    BY <2>4, LenProperties
<1> QED
  BY <1>1, <1>2 DEF Presentable

(***************************************************************************)
(* The tree implements the list: whatever is presented, whoever is let in  *)
(* is on the list in force or the vault is open (allows_depositor,         *)
(* try_set_vault_access).                                                  *)
(***************************************************************************)
THEOREM TreeImplementsList == Spec => ImplementsList
<1>1. Init => AbstractList!Init
  <2> SUFFICES ASSUME Init PROVE AbstractList!Init
    OBVIOUS
  <2>1. TreeInv
    BY TreeInductive
  <2> QED
    BY <2>1, ListsAreNumbers DEF Init, AbstractList!Init, TreeInv
<1>2. ASSUME TreeInv, [Next]_vars
      PROVE  [AbstractList!Next]_<<private, ToSet(published), admitted>>
  <2>1. ASSUME NEW p \in BOOLEAN, NEW list \in Lists, SetVaultAccess(p, list)
        PROVE  AbstractList!Next
    <3>1. ToSet(list) \in SUBSET Wallets
      BY AccessAssumption, ListsAreNumbers
    <3>2. AbstractList!SetAccess(p, ToSet(list))
      BY <2>1 DEF SetVaultAccess, AbstractList!SetAccess
    <3> QED
      BY <3>1, <3>2 DEF AbstractList!Next
  <2>2. ASSUME NEW w \in Wallets, NEW p \in Presentable, Deposit(w, p)
        PROVE  AbstractList!Next
    <3>1. Len(p) \in Nat
      BY <1>2, PresentableHasLength
    <3>2. published \in Seq(Nat) /\ root = tree_root(published)
      BY <1>2, ListsAreNumbers DEF TreeInv
    <3>3. private => w \in ToSet(published)
      BY <2>2, <3>1, <3>2, ProofsAdmitOnlyTheListed DEF Deposit, allows_depositor
    <3>4. AbstractList!Admit(w)
      BY <2>2, <3>3 DEF Deposit, AbstractList!Admit
    <3> QED
      BY <3>4 DEF AbstractList!Next
  <2>3. CASE UNCHANGED vars
    BY <2>3 DEF vars
  <2> QED
    BY <1>2, <2>1, <2>2, <2>3 DEF Next
<1> QED
  BY <1>1, <1>2, TreeInductive, PTL DEF Spec, ImplementsList, AbstractList!Spec
=============================================================================
