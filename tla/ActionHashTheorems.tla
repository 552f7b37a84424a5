------------------------ MODULE ActionHashTheorems -------------------------
(***************************************************************************)
(* The hash of an action pins the pattern: what is hashed can be read back *)
(* from its bytes in one way only.                                         *)
(***************************************************************************)
EXTENDS ActionHash, SequenceTheorems, ArithmeticTheorems

-----------------------------------------------------------------------------
(* The bytes of one op.                                                      *)

\* A slice of instruction data, byte by byte.
LEMMA SliceBytes ==
    ASSUME NEW data, Bytes(data), NEW offset \in Nat, NEW len \in Nat,
           instruction_slice_ok(data, offset, len)
    PROVE  /\ instruction_slice(data, offset, len) \in Seq(Int)
           /\ Len(instruction_slice(data, offset, len)) = len
           /\ \A i \in 1..len : instruction_slice(data, offset, len)[i] = data[offset + i]
<1> DEFINE m == offset + 1
           n == offset + len
<1>1. data \in Seq(Nat) /\ n <= Len(data)
  BY DEF Bytes, instruction_slice_ok
<1>2. Len(data) \in Nat /\ data \in [1..Len(data) -> Nat]
  BY <1>1, LenProperties
<1>3. \A i \in m..n : data[i] \in Int
  BY <1>1, <1>2
<1>4. m \in Int /\ n \in Int
  OBVIOUS
<1>5. /\ SubSeq(data, m, n) \in Seq(Int)
      /\ Len(SubSeq(data, m, n)) = IF m <= n THEN n - m + 1 ELSE 0
      /\ \A i \in 1..n - m + 1 : SubSeq(data, m, n)[i] = data[m + i - 1]
  <2> HIDE DEF m, n
  <2> QED
    BY <1>3, <1>4, SubSeqProperties
<1>6. instruction_slice(data, offset, len) = SubSeq(data, m, n)
  BY DEF instruction_slice
<1>7. Len(SubSeq(data, m, n)) = len
  BY <1>5
<1>8. ASSUME NEW i \in 1..len PROVE SubSeq(data, m, n)[i] = data[offset + i]
  <2>1. i \in 1..n - m + 1 /\ m + i - 1 = offset + i
    OBVIOUS
  <2> HIDE DEF m, n
  <2> QED
    BY <1>5, <2>1
<1> QED
  BY <1>5, <1>6, <1>7, <1>8

\* The number two or four little-endian bytes stand for.
Word2(w) == w[1] + 256 * w[2]
Word4(w) == w[1] + 256 * (w[2] + 256 * (w[3] + 256 * w[4]))

\* A number of two bytes is the word of its bytes.
LEMMA TwoBytes ==
    ASSUME NEW n \in Nat, n \div 256 < 256
    PROVE  le_bytes(n, 2) \in Seq(Int) /\ Len(le_bytes(n, 2)) = 2 /\ Word2(le_bytes(n, 2)) = n
<1> DEFINE a == (n \div 1) % 256
           b == (n \div 256) % 256
           w == <<a, b>>
<1>1. le_bytes(n, 2) = w
  BY DEF le_bytes
<1>2. n = a + 256 * b
  BY SMT
<1>3. a \in Int /\ b \in Int
  BY SMT
<1> HIDE DEF a, b
<1>4. w \in Seq(Int) /\ Len(w) = 2 /\ w[1] = a /\ w[2] = b
  BY <1>3
<1>5. Word2(w) = n
  BY <1>2, <1>4 DEF Word2
<1> HIDE DEF w
<1> QED
  BY <1>1, <1>4, <1>5, Zenon

\* So is a number of four.
LEMMA FourBytes ==
    ASSUME NEW n \in Nat, n \div (256 * 256 * 256) < 256
    PROVE  le_bytes(n, 4) \in Seq(Int) /\ Len(le_bytes(n, 4)) = 4 /\ Word4(le_bytes(n, 4)) = n
<1> DEFINE a == (n \div 1) % 256
           b == (n \div 256) % 256
           c == (n \div (256 * 256)) % 256
           d == (n \div (256 * 256 * 256)) % 256
           w == <<a, b, c, d>>
<1>1. le_bytes(n, 4) = w
  BY DEF le_bytes
<1>2. n = a + 256 * (b + 256 * (c + 256 * d))
  BY SMT
<1>3. a \in Int /\ b \in Int /\ c \in Int /\ d \in Int
  BY SMT
<1> HIDE DEF a, b, c, d
<1>4. w \in Seq(Int) /\ Len(w) = 4 /\ w[1] = a /\ w[2] = b /\ w[3] = c /\ w[4] = d
  BY <1>3
<1>5. Word4(w) = n
  BY <1>2, <1>4 DEF Word4
<1> HIDE DEF w
<1> QED
  BY <1>1, <1>4, <1>5, Zenon

\* The kinds of ops, and what each carries.
LEMMA OpKinds ==
    ASSUME NEW op \in ActionOps
    PROVE  \/ op = Noop
           \/ op = IngestInstructionDataSize
           \/ op.offset \in U16 /\ op.len \in U8 /\ op = IngestInstruction(op.offset, op.len)
           \/ op.index \in U8 /\ op = IngestAccount(op.index)
           \/ /\ op.relative_index \in I8 /\ op.offset \in U8 /\ op.len \in U8
              /\ op = IngestSiblingInstruction(op.relative_index, op.offset, op.len)
           \/ /\ op.relative_index \in I8 /\ op.index \in U8
              /\ op = IngestSiblingAccount(op.relative_index, op.index)
BY DEF ActionOps, IngestInstruction, IngestAccount, IngestSiblingInstruction, IngestSiblingAccount

\* The names of the kinds.
LEMMA OpNames ==
    ASSUME NEW a, NEW b, NEW c
    PROVE  /\ Noop.kind = "Noop"
           /\ IngestInstructionDataSize.kind = "IngestInstructionDataSize"
           /\ IngestInstruction(a, b).kind = "IngestInstruction"
           /\ IngestAccount(a).kind = "IngestAccount"
           /\ IngestSiblingInstruction(a, b, c).kind = "IngestSiblingInstruction"
           /\ IngestSiblingAccount(a, b).kind = "IngestSiblingAccount"
BY DEF Noop, IngestInstructionDataSize, IngestInstruction, IngestAccount,
       IngestSiblingInstruction, IngestSiblingAccount

\* A kind determines what an op carries.
LEMMA OpFields ==
    ASSUME NEW op \in ActionOps
    PROVE  /\ op.kind \in {"Noop", "IngestInstructionDataSize", "IngestInstruction", "IngestAccount",
                           "IngestSiblingInstruction", "IngestSiblingAccount"}
           /\ op.kind = "Noop" => op = Noop
           /\ op.kind = "IngestInstructionDataSize" => op = IngestInstructionDataSize
           /\ op.kind = "IngestInstruction" =>
                op.offset \in U16 /\ op.len \in U8 /\ op = IngestInstruction(op.offset, op.len)
           /\ op.kind = "IngestAccount" => op.index \in U8 /\ op = IngestAccount(op.index)
           /\ op.kind = "IngestSiblingInstruction" =>
                /\ op.relative_index \in I8 /\ op.offset \in U8 /\ op.len \in U8
                /\ op = IngestSiblingInstruction(op.relative_index, op.offset, op.len)
           /\ op.kind = "IngestSiblingAccount" =>
                /\ op.relative_index \in I8 /\ op.index \in U8
                /\ op = IngestSiblingAccount(op.relative_index, op.index)
<1>1. CASE op = Noop
  <2>1. op.kind = "Noop"
    BY <1>1, OpNames
  <2> QED
    BY <1>1, <2>1
<1>2. CASE op = IngestInstructionDataSize
  <2>1. op.kind = "IngestInstructionDataSize"
    BY <1>2, OpNames
  <2> QED
    BY <1>2, <2>1
<1>3. CASE op.offset \in U16 /\ op.len \in U8 /\ op = IngestInstruction(op.offset, op.len)
  <2>1. op.kind = "IngestInstruction"
    BY <1>3 DEF IngestInstruction
  <2> QED
    BY <1>3, <2>1
<1>4. CASE op.index \in U8 /\ op = IngestAccount(op.index)
  <2>1. op.kind = "IngestAccount"
    BY <1>4 DEF IngestAccount
  <2> QED
    BY <1>4, <2>1
<1>5. CASE /\ op.relative_index \in I8 /\ op.offset \in U8 /\ op.len \in U8
           /\ op = IngestSiblingInstruction(op.relative_index, op.offset, op.len)
  <2>1. op.kind = "IngestSiblingInstruction"
    BY <1>5 DEF IngestSiblingInstruction
  <2> QED
    BY <1>5, <2>1
<1>6. CASE /\ op.relative_index \in I8 /\ op.index \in U8
           /\ op = IngestSiblingAccount(op.relative_index, op.index)
  <2>1. op.kind = "IngestSiblingAccount"
    BY <1>6 DEF IngestSiblingAccount
  <2> QED
    BY <1>6, <2>1
<1> QED
  BY <1>1, <1>2, <1>3, <1>4, <1>5, <1>6, OpKinds, Zenon

\* An offset fits two bytes.
LEMMA OffsetRange ==
    ASSUME NEW n \in U16
    PROVE  n \in Nat /\ n < 256 * 256
<1> DEFINE top == (256 * 256) - 1
<1>1. top \in Nat /\ top < 256 * 256
  OBVIOUS
<1>2. n \in 0..top
  BY Zenon DEF U16
<1> HIDE DEF top
<1> QED
  BY <1>1, <1>2

\* The widths, as numbers.
LEMMA Widths ==
    /\ \A n \in U8 : n \in Nat
    /\ \A n \in U16 : n \in Nat
    /\ \A n \in I8 : n \in Int
<1>1. (\A n \in U8 : n \in Nat) /\ (\A n \in I8 : n \in Int)
  BY DEF U8, I8
<1>2. ASSUME NEW n \in U16 PROVE n \in Nat
  BY OffsetRange, Zenon
<1> QED
  BY <1>1, <1>2

\* A header of four cells in front of a slice.
LEMMA HeadedSlice ==
    ASSUME NEW head \in Seq(Int), NEW slice \in Seq(Int)
    PROVE  /\ head \o slice \in Seq(Int) /\ Len(head \o slice) = Len(head) + Len(slice)
           /\ \A i \in 1..Len(head) : (head \o slice)[i] = head[i]
           /\ \A i \in 1..Len(slice) : (head \o slice)[Len(head) + i] = slice[i]
<1>1. Len(head) \in Nat /\ Len(slice) \in Nat
  BY LenProperties
<1>2. /\ head \o slice \in Seq(Int) /\ Len(head \o slice) = Len(head) + Len(slice)
      /\ \A i \in 1..Len(head) + Len(slice) :
           (head \o slice)[i] = IF i <= Len(head) THEN head[i] ELSE slice[i - Len(head)]
  BY ConcatProperties
<1>3. ASSUME NEW i \in 1..Len(head) PROVE (head \o slice)[i] = head[i]
  <2>1. i \in 1..Len(head) + Len(slice) /\ i <= Len(head)
    BY <1>1
  <2> QED
    BY <1>2, <2>1
<1>4. ASSUME NEW i \in 1..Len(slice) PROVE (head \o slice)[Len(head) + i] = slice[i]
  <2> DEFINE j == Len(head) + i
  <2>1. j \in 1..Len(head) + Len(slice) /\ ~(j <= Len(head)) /\ j - Len(head) = i
    BY <1>1
  <2> HIDE DEF j
  <2>2. (head \o slice)[j] = slice[i]
    BY <1>2, <2>1
  <2> QED
    BY <2>2 DEF j
<1> QED
  BY <1>2, <1>3, <1>4

\* What an instruction slice leaves in the hash.
LEMMA InstructionBytes ==
    ASSUME NEW op \in ActionOps, op.kind = "IngestInstruction",
           NEW call, well_formed(call), ingestable(op, call)
    PROVE  /\ op.offset \in Nat /\ op.len \in Nat
           /\ op_bytes(op, call) \in Seq(Int) /\ Len(op_bytes(op, call)) = 4 + op.len
           /\ op_bytes(op, call)[1] = 1
           /\ op_bytes(op, call)[2] + 256 * op_bytes(op, call)[3] = op.offset
           /\ op_bytes(op, call)[4] = op.len
           /\ \A i \in 1..op.len : op_bytes(op, call)[4 + i] = call.data[op.offset + i]
<1>1. op.offset \in U16 /\ op.len \in U8
  BY OpFields
<1>3. op.offset \in Nat /\ op.len \in Nat
  BY <1>1, Widths
<1>4. op.offset \div 256 < 256
  <2>1. ASSUME NEW n \in U16 PROVE n \div 256 < 256
    <3>1. n \in Nat /\ n < 256 * 256
      BY OffsetRange, Zenon
    <3> QED
      BY <3>1, SMT
  <2> QED
    BY <1>1, <2>1
<1> DEFINE le == le_bytes(op.offset, 2)
           slice == instruction_slice(call.data, op.offset, op.len)
           b == op_bytes(op, call)
<1>5. le \in Seq(Int) /\ Len(le) = 2 /\ Word2(le) = op.offset
  BY <1>3, <1>4, TwoBytes
<1>6. slice \in Seq(Int) /\ Len(slice) = op.len /\ \A i \in 1..op.len : slice[i] = call.data[op.offset + i]
  <2>1. Bytes(call.data) /\ instruction_slice_ok(call.data, op.offset, op.len)
    BY DEF well_formed, ingestable
  <2> QED
    BY <1>3, <2>1, SliceBytes
<1>7. b = <<1>> \o le \o <<op.len>> \o slice
  BY DEF op_bytes
<1> HIDE DEF le, slice, b
<1> DEFINE one == <<1>> \o le
           head == one \o <<op.len>>
<1>8. one \in Seq(Int) /\ Len(one) = 3 /\ one[1] = 1 /\ one[2] = le[1] /\ one[3] = le[2]
  <2> DEFINE tag == <<1>>
  <2>1. tag \in Seq(Int) /\ Len(tag) = 1 /\ tag[1] = 1 /\ one = tag \o le
    OBVIOUS
  <2> HIDE DEF tag, one
  <2>2. /\ one \in Seq(Int) /\ Len(one) = Len(tag) + Len(le)
        /\ \A i \in 1..Len(tag) : one[i] = tag[i]
        /\ \A i \in 1..Len(le) : one[Len(tag) + i] = le[i]
    BY <1>5, <2>1, HeadedSlice
  <2>3. one[1 + 1] = le[1] /\ one[1 + 2] = le[2]
    BY <1>5, <2>1, <2>2
  <2> QED
    BY <1>5, <2>1, <2>2, <2>3
<1> HIDE DEF one
<1>9. head \in Seq(Int) /\ Len(head) = 4 /\ head[1] = 1 /\ head[2] = le[1] /\ head[3] = le[2] /\ head[4] = op.len
  <2> DEFINE last == <<op.len>>
  <2>1. last \in Seq(Int) /\ Len(last) = 1 /\ last[1] = op.len /\ head = one \o last
    BY <1>3
  <2> HIDE DEF last, head
  <2>2. /\ head \in Seq(Int) /\ Len(head) = Len(one) + Len(last)
        /\ \A i \in 1..Len(one) : head[i] = one[i]
        /\ \A i \in 1..Len(last) : head[Len(one) + i] = last[i]
    BY <1>8, <2>1, HeadedSlice
  <2>3. head[3 + 1] = op.len
    BY <1>8, <2>1, <2>2
  <2> QED
    BY <1>8, <2>1, <2>2, <2>3
<1>10. b = head \o slice
  BY <1>7 DEF one
<1> HIDE DEF head
<1>11. /\ b \in Seq(Int) /\ Len(b) = Len(head) + Len(slice)
       /\ \A i \in 1..Len(head) : b[i] = head[i]
       /\ \A i \in 1..Len(slice) : b[Len(head) + i] = slice[i]
  BY <1>6, <1>9, <1>10, HeadedSlice
<1>12. b[1] = 1 /\ b[2] = le[1] /\ b[3] = le[2] /\ b[4] = op.len
  BY <1>9, <1>11
<1>13. b[2] + 256 * b[3] = op.offset
  BY <1>5, <1>12 DEF Word2
<1>14. Len(b) = 4 + op.len /\ \A i \in 1..op.len : b[4 + i] = call.data[op.offset + i]
  BY <1>6, <1>9, <1>11
<1> QED
  BY <1>3, <1>11, <1>12, <1>13, <1>14 DEF b

\* What an account leaves in the hash: its key and its privileges.
LEMMA AccountBytes ==
    ASSUME NEW op \in ActionOps, op.kind = "IngestAccount",
           NEW call, well_formed(call), ingestable(op, call)
    PROVE  LET meta == call.metas[op.index + 1]
           IN  /\ op.index \in Nat /\ meta \in MetaRecord
               /\ op_bytes(op, call)
                    = <<2, op.index, meta.key, flag(meta.is_signer), flag(meta.is_writable)>>
               /\ op_bytes(op, call) \in Seq(Int)
<1> DEFINE meta == call.metas[op.index + 1]
<1>1. op.index \in U8
  BY OpFields
<1>2. op.index \in Nat
  BY <1>1, Widths
<1>3. op.index < Len(call.metas) /\ call.metas \in Seq(MetaRecord)
  BY DEF ingestable, well_formed
<1>4. meta \in MetaRecord
  <2>1. Len(call.metas) \in Nat /\ op.index + 1 \in 1..Len(call.metas)
    BY <1>2, <1>3, LenProperties
  <2> QED
    BY <1>3, <2>1, ElementOfSeq
<1>5. op_bytes(op, call) = <<2, op.index, meta.key, flag(meta.is_signer), flag(meta.is_writable)>>
  BY DEF op_bytes
<1>6. meta.key \in Int /\ flag(meta.is_signer) \in Int /\ flag(meta.is_writable) \in Int
  BY <1>4 DEF MetaRecord, flag
<1> HIDE DEF meta
<1>7. <<2, op.index, meta.key, flag(meta.is_signer), flag(meta.is_writable)>> \in Seq(Int)
  BY <1>2, <1>6
<1> QED
  BY <1>2, <1>4, <1>5, <1>7 DEF meta

\* What a sibling leaves in the hash: its program and a slice of its data.
LEMMA SiblingBytes ==
    ASSUME NEW op \in ActionOps, op.kind = "IngestSiblingInstruction",
           NEW call, well_formed(call), ingestable(op, call)
    PROVE  LET sibling == call.siblings[op.relative_index]
               b == op_bytes(op, call)
           IN  /\ op.offset \in Nat /\ op.len \in Nat
               /\ b \in Seq(Int) /\ Len(b) = 5 + op.len
               /\ b[1] = 4 /\ b[2] = op.relative_index % 256
               /\ b[3] = sibling.program /\ b[4] = op.offset /\ b[5] = op.len
               /\ \A i \in 1..op.len : b[5 + i] = sibling.data[op.offset + i]
<1> DEFINE sibling == call.siblings[op.relative_index]
           slice == instruction_slice(sibling.data, op.offset, op.len)
           b == op_bytes(op, call)
           head == <<4, op.relative_index % 256, sibling.program, op.offset, op.len>>
<1>1. op.relative_index \in Int /\ op.offset \in Nat /\ op.len \in Nat
  <2>1. op.relative_index \in I8 /\ op.offset \in U8 /\ op.len \in U8
    BY OpFields
  <2> QED
    BY <2>1, Widths
<1>2. op.relative_index \in DOMAIN call.siblings /\ instruction_slice_ok(sibling.data, op.offset, op.len)
  BY DEF ingestable
<1>3. sibling.program \in Nat /\ Bytes(sibling.data)
  BY <1>2 DEF well_formed
<1>4. b = head \o slice
  BY DEF op_bytes
<1>5. slice \in Seq(Int) /\ Len(slice) = op.len /\ \A i \in 1..op.len : slice[i] = sibling.data[op.offset + i]
  <2> HIDE DEF sibling
  <2> QED
    BY <1>1, <1>2, <1>3, SliceBytes
<1> HIDE DEF sibling, slice, b
<1>6. op.relative_index % 256 \in Int
  BY <1>1
<1>7. /\ head \in Seq(Int) /\ Len(head) = 5 /\ head[1] = 4 /\ head[2] = op.relative_index % 256
      /\ head[3] = sibling.program /\ head[4] = op.offset /\ head[5] = op.len
  BY <1>1, <1>3, <1>6
<1> HIDE DEF head
<1>8. /\ b \in Seq(Int) /\ Len(b) = Len(head) + Len(slice)
      /\ \A i \in 1..Len(head) : b[i] = head[i]
      /\ \A i \in 1..Len(slice) : b[Len(head) + i] = slice[i]
  BY <1>4, <1>5, <1>7, HeadedSlice, ZenonT(30)
<1>9. /\ b[1] = 4 /\ b[2] = op.relative_index % 256
      /\ b[3] = sibling.program /\ b[4] = op.offset /\ b[5] = op.len
  BY <1>7, <1>8
<1>10. Len(b) = 5 + op.len /\ \A i \in 1..op.len : b[5 + i] = sibling.data[op.offset + i]
  BY <1>5, <1>7, <1>8
<1> QED
  BY <1>1, <1>8, <1>9, <1>10 DEF b, sibling

\* What a sibling's account leaves in the hash: its key.
LEMMA SiblingAccountBytes ==
    ASSUME NEW op \in ActionOps, op.kind = "IngestSiblingAccount",
           NEW call, well_formed(call), ingestable(op, call)
    PROVE  /\ op.relative_index \in Int /\ op.index \in Nat
           /\ op_bytes(op, call) = <<5, op.relative_index % 256, op.index,
                                     call.siblings[op.relative_index].accounts[op.index + 1]>>
           /\ op_bytes(op, call) \in Seq(Int)
<1> DEFINE accounts == call.siblings[op.relative_index].accounts
           key == accounts[op.index + 1]
<1>1. op.relative_index \in Int /\ op.index \in Nat
  <2>1. op.relative_index \in I8 /\ op.index \in U8
    BY OpFields
  <2> QED
    BY <2>1, Widths
<1>2. op.relative_index \in DOMAIN call.siblings /\ op.index < Len(accounts)
  BY DEF ingestable
<1>3. accounts \in Seq(Nat)
  BY <1>2 DEF well_formed
<1>4. key \in Nat
  <2> HIDE DEF accounts
  <2>1. Len(accounts) \in Nat /\ op.index + 1 \in 1..Len(accounts)
    BY <1>1, <1>2, <1>3, LenProperties
  <2> QED
    BY <1>3, <2>1, ElementOfSeq
<1>5. op_bytes(op, call) = <<5, op.relative_index % 256, op.index, key>>
  BY DEF op_bytes
<1>6. op.relative_index % 256 \in Int
  BY <1>1
<1> HIDE DEF key
<1>7. <<5, op.relative_index % 256, op.index, key>> \in Seq(Int)
  BY <1>1, <1>4, <1>6
<1> QED
  BY <1>1, <1>5, <1>7 DEF key

\* What the data's size leaves in the hash.
LEMMA DataSizeBytes ==
    ASSUME NEW op \in ActionOps, op.kind = "IngestInstructionDataSize",
           NEW call, well_formed(call)
    PROVE  LET b == op_bytes(op, call)
           IN  /\ b \in Seq(Int) /\ Len(b) = 5 /\ b[1] = 3
               /\ Len(call.data) = b[2] + 256 * (b[3] + 256 * (b[4] + 256 * b[5]))
<1> DEFINE n == Len(call.data)
           le == le_bytes(n, 4)
           b == op_bytes(op, call)
           tag == <<3>>
<1>1. n \in Nat /\ n \div (256 * 256 * 256) < 256
  BY LenProperties DEF well_formed, Bytes
<1>2. b = tag \o le
  BY DEF op_bytes
<1> HIDE DEF n
<1>3. le \in Seq(Int) /\ Len(le) = 4 /\ Word4(le) = n
  BY <1>1, FourBytes
<1> HIDE DEF le, b
<1>4. tag \in Seq(Int) /\ Len(tag) = 1 /\ tag[1] = 3
  OBVIOUS
<1> HIDE DEF tag
<1>5. /\ b \in Seq(Int) /\ Len(b) = Len(tag) + Len(le)
      /\ \A i \in 1..Len(tag) : b[i] = tag[i]
      /\ \A i \in 1..Len(le) : b[Len(tag) + i] = le[i]
  BY <1>2, <1>3, <1>4, HeadedSlice
<1>6. b[1 + 1] = le[1] /\ b[1 + 2] = le[2] /\ b[1 + 3] = le[3] /\ b[1 + 4] = le[4] /\ b[1] = 3
  BY <1>3, <1>4, <1>5
<1>7. b[2] = le[1] /\ b[3] = le[2] /\ b[4] = le[3] /\ b[5] = le[4]
  BY <1>6
<1>8. n = b[2] + 256 * (b[3] + 256 * (b[4] + 256 * b[5]))
  BY <1>3, <1>7 DEF Word4
<1>9. Len(b) = 5
  BY <1>3, <1>4, <1>5
<1> QED
  BY <1>5, <1>6, <1>8, <1>9 DEF b, n

\* The first byte of an op.
Tag(op) ==
    CASE op.kind = "Noop" -> 0
      [] op.kind = "IngestInstruction" -> 1
      [] op.kind = "IngestAccount" -> 2
      [] op.kind = "IngestInstructionDataSize" -> 3
      [] op.kind = "IngestSiblingInstruction" -> 4
      [] op.kind = "IngestSiblingAccount" -> 5

\* Every op leaves bytes, the first of which is its tag.
LEMMA OpBytes ==
    ASSUME NEW op \in ActionOps, NEW call, well_formed(call), ingestable(op, call)
    PROVE  /\ op_bytes(op, call) \in Seq(Int) /\ Len(op_bytes(op, call)) \in Nat \ {0}
           /\ op_bytes(op, call)[1] = Tag(op)
<1> DEFINE b == op_bytes(op, call)
<1>1. CASE op.kind = "Noop"
  <2>1. b = <<0>> /\ Tag(op) = 0
    BY <1>1 DEF op_bytes, Tag
  <2> QED
    BY <2>1
<1>2. CASE op.kind = "IngestInstruction"
  <2>1. op.len \in Nat /\ b \in Seq(Int) /\ Len(b) = 4 + op.len /\ b[1] = 1
    BY <1>2, InstructionBytes
  <2>2. Tag(op) = 1
    BY <1>2 DEF Tag
  <2> HIDE DEF b
  <2>3. b \in Seq(Int) /\ Len(b) \in Nat \ {0} /\ b[1] = Tag(op)
    BY <2>1, <2>2
  <2> QED
    BY <2>3 DEF b
<1>3. CASE op.kind = "IngestAccount"
  <2> DEFINE meta == call.metas[op.index + 1]
  <2>1. b = <<2, op.index, meta.key, flag(meta.is_signer), flag(meta.is_writable)>> /\ b \in Seq(Int)
    BY <1>3, AccountBytes
  <2>2. Tag(op) = 2
    BY <1>3 DEF Tag
  <2> HIDE DEF b, meta
  <2>3. b \in Seq(Int) /\ Len(b) \in Nat \ {0} /\ b[1] = Tag(op)
    BY <2>1, <2>2
  <2> QED
    BY <2>3 DEF b
<1>4. CASE op.kind = "IngestInstructionDataSize"
  <2>1. b \in Seq(Int) /\ Len(b) = 5 /\ b[1] = 3
    BY <1>4, DataSizeBytes
  <2>2. Tag(op) = 3
    BY <1>4 DEF Tag
  <2> HIDE DEF b
  <2>3. b \in Seq(Int) /\ Len(b) \in Nat \ {0} /\ b[1] = Tag(op)
    BY <2>1, <2>2
  <2> QED
    BY <2>3 DEF b
<1>5. CASE op.kind = "IngestSiblingInstruction"
  <2>1. op.len \in Nat /\ b \in Seq(Int) /\ Len(b) = 5 + op.len /\ b[1] = 4
    BY <1>5, SiblingBytes
  <2>2. Tag(op) = 4
    BY <1>5 DEF Tag
  <2> HIDE DEF b
  <2>3. b \in Seq(Int) /\ Len(b) \in Nat \ {0} /\ b[1] = Tag(op)
    BY <2>1, <2>2
  <2> QED
    BY <2>3 DEF b
<1>6. CASE op.kind = "IngestSiblingAccount"
  <2> DEFINE key == call.siblings[op.relative_index].accounts[op.index + 1]
  <2>1. b = <<5, op.relative_index % 256, op.index, key>> /\ b \in Seq(Int)
    BY <1>6, SiblingAccountBytes
  <2>2. Tag(op) = 5
    BY <1>6 DEF Tag
  <2> HIDE DEF b, key
  <2>3. b \in Seq(Int) /\ Len(b) \in Nat \ {0} /\ b[1] = Tag(op)
    BY <2>1, <2>2
  <2> QED
    BY <2>3 DEF b
<1> QED
  BY <1>1, <1>2, <1>3, <1>4, <1>5, <1>6, OpFields

\* A tag stands for one kind.
LEMMA TagsTellKinds ==
    ASSUME NEW op \in ActionOps, NEW other \in ActionOps, Tag(op) = Tag(other)
    PROVE  op.kind = other.kind
BY OpFields DEF Tag

\* An i8 is what its byte says.
LEMMA BytesTellI8 ==
    ASSUME NEW r \in I8, NEW s \in I8, r % 256 = s % 256
    PROVE  r = s
BY DEF I8

\* As far as both go, two byte strings are the same.
Agree(b, c) == \A i \in 1..Len(b) : i <= Len(c) => b[i] = c[i]

(***************************************************************************)
(* The bytes of an op can be read in one way only: two ops whose bytes     *)
(* agree as far as both go are one op, and it sees the same in both calls. *)
(***************************************************************************)
LEMMA OpsAreReadOneWay ==
    ASSUME NEW op \in ActionOps, NEW other \in ActionOps, NEW x, NEW y,
           well_formed(x), well_formed(y), ingestable(op, x), ingestable(other, y),
           Agree(op_bytes(op, x), op_bytes(other, y))
    PROVE  /\ op = other
           /\ Len(op_bytes(op, x)) = Len(op_bytes(other, y))
           /\ SameThrough(op, x, y)
<1> DEFINE b == op_bytes(op, x)
           c == op_bytes(other, y)
<1>1. /\ b \in Seq(Int) /\ Len(b) \in Nat \ {0} /\ b[1] = Tag(op)
      /\ c \in Seq(Int) /\ Len(c) \in Nat \ {0} /\ c[1] = Tag(other)
  BY OpBytes
<1>2. op.kind = other.kind
  <2>1. 1 \in 1..Len(b) /\ 1 <= Len(c)
    BY <1>1
  <2>2. b[1] = c[1]
    BY <2>1 DEF Agree
  <2> HIDE DEF b, c
  <2> QED
    BY <1>1, <2>2, TagsTellKinds
<1>3. \A i \in 1..Len(b) : i <= Len(c) => b[i] = c[i]
  BY DEF Agree
<1>4. CASE op.kind = "Noop"
  <2>1. op = other
    BY <1>2, <1>4, OpFields
  <2>2. b = <<0>> /\ c = <<0>>
    BY <1>2, <1>4 DEF op_bytes
  <2>3. SameThrough(op, x, y)
    BY <1>4 DEF SameThrough
  <2> QED
    BY <2>1, <2>2, <2>3
<1>5. CASE op.kind = "IngestInstructionDataSize"
  <2>1. op = other
    BY <1>2, <1>5, OpFields
  <2>2. /\ Len(b) = 5 /\ Len(x.data) = b[2] + 256 * (b[3] + 256 * (b[4] + 256 * b[5]))
        /\ Len(c) = 5 /\ Len(y.data) = c[2] + 256 * (c[3] + 256 * (c[4] + 256 * c[5]))
    <3>1. other.kind = "IngestInstructionDataSize"
      BY <1>2, <1>5
    <3>2. Len(b) = 5 /\ Len(x.data) = b[2] + 256 * (b[3] + 256 * (b[4] + 256 * b[5]))
      BY <1>5, DataSizeBytes
    <3>3. Len(c) = 5 /\ Len(y.data) = c[2] + 256 * (c[3] + 256 * (c[4] + 256 * c[5]))
      BY <3>1, DataSizeBytes
    <3> QED
      BY <3>2, <3>3, Zenon
  <2> HIDE DEF b, c
  <2>3. b[2] = c[2] /\ b[3] = c[3] /\ b[4] = c[4] /\ b[5] = c[5]
    BY <1>3, <2>2
  <2>4. Len(x.data) = Len(y.data)
    BY <2>2, <2>3
  <2>5. SameThrough(op, x, y)
    BY <1>5, <2>4 DEF SameThrough
  <2> QED
    BY <2>1, <2>2, <2>5 DEF b, c
<1>6. CASE op.kind = "IngestInstruction"
  <2>1. /\ op.offset \in Nat /\ op.len \in Nat /\ Len(b) = 4 + op.len
        /\ b[2] + 256 * b[3] = op.offset /\ b[4] = op.len
        /\ \A i \in 1..op.len : b[4 + i] = x.data[op.offset + i]
    BY <1>6, InstructionBytes
  <2>2. /\ other.offset \in Nat /\ other.len \in Nat /\ Len(c) = 4 + other.len
        /\ c[2] + 256 * c[3] = other.offset /\ c[4] = other.len
        /\ \A i \in 1..other.len : c[4 + i] = y.data[other.offset + i]
    BY <1>2, <1>6, InstructionBytes, ZenonT(60)
  <2> HIDE DEF b, c
  <2>3. b[2] = c[2] /\ b[3] = c[3] /\ b[4] = c[4]
    BY <1>3, <2>1, <2>2
  <2>4. op.offset = other.offset /\ op.len = other.len
    BY <2>1, <2>2, <2>3
  <2>5. op = other
    <3>1. op = IngestInstruction(op.offset, op.len) /\ other = IngestInstruction(other.offset, other.len)
      BY <1>2, <1>6, OpFields
    <3> QED
      BY <2>4, <3>1, Zenon
  <2>6. ASSUME NEW j \in op.offset + 1 .. op.offset + op.len PROVE x.data[j] = y.data[j]
    <3> DEFINE i == j - op.offset
    <3>1. i \in 1..op.len /\ op.offset + i = j /\ 4 + i \in 1..Len(b) /\ 4 + i <= Len(c)
      <4>1. op.offset \in Nat /\ op.len \in Nat /\ Len(b) = 4 + op.len /\ Len(c) = 4 + op.len
        BY <2>1, <2>2, <2>4
      <4> QED
        BY <4>1
    <3> HIDE DEF i
    <3>2. b[4 + i] = c[4 + i] /\ b[4 + i] = x.data[j] /\ c[4 + i] = y.data[j]
      BY <1>3, <2>1, <2>2, <2>4, <3>1
    <3> QED
      BY <3>2
  <2>7. SameThrough(op, x, y)
    BY <1>6, <2>6 DEF SameThrough
  <2> QED
    BY <2>1, <2>2, <2>4, <2>5, <2>7 DEF b, c
<1>7. CASE op.kind = "IngestAccount"
  <2> DEFINE m == x.metas[op.index + 1]
             n == y.metas[other.index + 1]
  <2>1. /\ m \in MetaRecord /\ b = <<2, op.index, m.key, flag(m.is_signer), flag(m.is_writable)>>
        /\ n \in MetaRecord /\ c = <<2, other.index, n.key, flag(n.is_signer), flag(n.is_writable)>>
    BY <1>2, <1>7, AccountBytes
  <2> HIDE DEF b, c, m, n
  <2>2. Len(b) = 5 /\ Len(c) = 5
    BY <2>1
  <2>3. b[2] = c[2] /\ b[3] = c[3] /\ b[4] = c[4] /\ b[5] = c[5]
    BY <1>3, <2>2
  <2>4. /\ op.index = other.index /\ m.key = n.key
        /\ flag(m.is_signer) = flag(n.is_signer) /\ flag(m.is_writable) = flag(n.is_writable)
    BY <2>1, <2>3
  <2>5. op = other
    <3>1. op = IngestAccount(op.index) /\ other = IngestAccount(other.index)
      BY <1>2, <1>7, OpFields
    <3> QED
      BY <2>4, <3>1, Zenon
  <2>6. m.is_signer = n.is_signer /\ m.is_writable = n.is_writable
    BY <2>1, <2>4 DEF flag, MetaRecord
  <2>7. m = n
    BY <2>1, <2>4, <2>6 DEF MetaRecord
  <2>8. SameThrough(op, x, y)
    BY <1>7, <2>4, <2>7 DEF SameThrough, m, n
  <2> QED
    BY <2>2, <2>5, <2>8 DEF b, c
<1>8. CASE op.kind = "IngestSiblingInstruction"
  <2> DEFINE s == x.siblings[op.relative_index]
             t == y.siblings[other.relative_index]
  <2>1. /\ op.offset \in Nat /\ op.len \in Nat /\ Len(b) = 5 + op.len
        /\ b[2] = op.relative_index % 256 /\ b[3] = s.program /\ b[4] = op.offset /\ b[5] = op.len
        /\ \A i \in 1..op.len : b[5 + i] = s.data[op.offset + i]
    BY <1>8, SiblingBytes
  <2>2. /\ other.offset \in Nat /\ other.len \in Nat /\ Len(c) = 5 + other.len
        /\ c[2] = other.relative_index % 256 /\ c[3] = t.program /\ c[4] = other.offset /\ c[5] = other.len
        /\ \A i \in 1..other.len : c[5 + i] = t.data[other.offset + i]
    <3>1. other.kind = "IngestSiblingInstruction"
      BY <1>2, <1>8
    <3> QED
      BY <3>1, SiblingBytes
  <2>3. /\ op.relative_index \in I8 /\ other.relative_index \in I8
        /\ op = IngestSiblingInstruction(op.relative_index, op.offset, op.len)
        /\ other = IngestSiblingInstruction(other.relative_index, other.offset, other.len)
    BY <1>2, <1>8, OpFields
  <2> HIDE DEF b, c, s, t
  <2>4. b[2] = c[2] /\ b[3] = c[3] /\ b[4] = c[4] /\ b[5] = c[5]
    <3>1. \A i \in 2..5 : i \in 1..Len(b) /\ i <= Len(c)
      BY <2>1, <2>2
    <3>2. \A i \in 2..5 : b[i] = c[i]
      BY <1>3, <3>1
    <3> QED
      BY <3>2
  <2>5. op.relative_index = other.relative_index
    <3>1. op.relative_index % 256 = other.relative_index % 256
      BY <2>1, <2>2, <2>4
    <3> QED
      BY <2>3, <3>1, BytesTellI8
  <2>6. op.offset = other.offset /\ op.len = other.len /\ s.program = t.program
    BY <2>1, <2>2, <2>4
  <2>7. op = other
    BY <2>3, <2>5, <2>6, Zenon
  <2>8. ASSUME NEW j \in op.offset + 1 .. op.offset + op.len PROVE s.data[j] = t.data[j]
    <3> DEFINE i == j - op.offset
    <3>1. i \in 1..op.len /\ op.offset + i = j /\ 5 + i \in 1..Len(b) /\ 5 + i <= Len(c)
      <4>1. op.offset \in Nat /\ op.len \in Nat /\ Len(b) = 5 + op.len /\ Len(c) = 5 + op.len
        BY <2>1, <2>2, <2>6
      <4> QED
        BY <4>1
    <3> HIDE DEF i
    <3>2. b[5 + i] = c[5 + i] /\ b[5 + i] = s.data[j] /\ c[5 + i] = t.data[j]
      BY <1>3, <2>1, <2>2, <2>6, <3>1, ZenonT(30)
    <3> QED
      BY <3>2
  <2>9. SameThrough(op, x, y)
    BY <1>8, <2>5, <2>6, <2>8 DEF SameThrough, s, t
  <2> QED
    BY <2>1, <2>2, <2>6, <2>7, <2>9 DEF b, c
<1>9. CASE op.kind = "IngestSiblingAccount"
  <2> DEFINE k == x.siblings[op.relative_index].accounts[op.index + 1]
             l == y.siblings[other.relative_index].accounts[other.index + 1]
  <2>1. b = <<5, op.relative_index % 256, op.index, k>> /\ c = <<5, other.relative_index % 256, other.index, l>>
    BY <1>2, <1>9, SiblingAccountBytes
  <2>2. /\ op.relative_index \in I8 /\ other.relative_index \in I8
        /\ op = IngestSiblingAccount(op.relative_index, op.index)
        /\ other = IngestSiblingAccount(other.relative_index, other.index)
    BY <1>2, <1>9, OpFields
  <2> HIDE DEF b, c, k, l
  <2>3. Len(b) = 4 /\ Len(c) = 4
    BY <2>1
  <2>4. b[2] = c[2] /\ b[3] = c[3] /\ b[4] = c[4]
    BY <1>3, <2>3
  <2>5. op.relative_index % 256 = other.relative_index % 256 /\ op.index = other.index /\ k = l
    BY <2>1, <2>4
  <2>6. op.relative_index = other.relative_index
    BY <2>2, <2>5, BytesTellI8
  <2>7. op = other
    BY <2>2, <2>5, <2>6, Zenon
  <2>8. SameThrough(op, x, y)
    BY <1>9, <2>5, <2>6 DEF SameThrough, k, l
  <2> QED
    BY <2>3, <2>7, <2>8 DEF b, c
<1> QED
  BY <1>4, <1>5, <1>6, <1>7, <1>8, <1>9, OpFields

-----------------------------------------------------------------------------
(* The bytes of a list of ops.                                               *)

\* What is in the buffer after each of the first m ops.
Ingested(ops, call, m, f) ==
    f = [n \in 0..m |-> IF n = 0 THEN <<call.program>> ELSE f[n - 1] \o op_bytes(ops[n], call)]

\* That, op by op.
LEMMA IngestedAt ==
    ASSUME NEW ops, NEW call, NEW m \in Nat, NEW f, Ingested(ops, call, m, f), NEW k \in 0..m
    PROVE  /\ k = 0 => f[k] = <<call.program>>
           /\ k # 0 => f[k] = f[k - 1] \o op_bytes(ops[k], call)
<1> DEFINE next(j) == IF j = 0 THEN <<call.program>> ELSE f[j - 1] \o op_bytes(ops[j], call)
<1>1. f = [j \in 0..m |-> next(j)]
  BY DEF Ingested
<1>2. f[k] = next(k)
  <2> HIDE DEF next
  <2> QED
    BY <1>1
<1> QED
  BY <1>2

\* It starts with the program.
LEMMA IngestedFirst ==
    ASSUME NEW ops, NEW call, NEW m \in Nat, NEW f, Ingested(ops, call, m, f)
    PROVE  f[0] = <<call.program>>
<1> DEFINE next(j) == IF j = 0 THEN <<call.program>> ELSE f[j - 1] \o op_bytes(ops[j], call)
<1>1. f = [j \in 0..m |-> next(j)]
  BY DEF Ingested
<1>2. f[0] = next(0)
  <2> HIDE DEF next
  <2> QED
    BY <1>1
<1>3. next(0) = <<call.program>>
  OBVIOUS
<1> QED
  BY <1>2, <1>3

\* There is such a buffer for every m.
LEMMA IngestedExists ==
    ASSUME NEW ops, NEW call, NEW m \in Nat
    PROVE  \E f : Ingested(ops, call, m, f)
<1> DEFINE Bad == {j \in Nat : ~ \E f : Ingested(ops, call, j, f)}
<1> SUFFICES ASSUME Bad # {} PROVE FALSE
  OBVIOUS
<1>1. PICK j \in Bad : \A i \in Bad : j <= i
  <2>1. Bad \in SUBSET Nat
    OBVIOUS
  <2> HIDE DEF Bad
  <2> QED
    BY <2>1, LeastNat
<1>2. j \in Nat /\ ~ \E f : Ingested(ops, call, j, f)
  BY <1>1
<1> DEFINE more(h, n) == h[n - 1] \o op_bytes(ops[n], call)
           start == <<call.program>>
<1>3. CASE j = 0
  <2> DEFINE f == [n \in 0..0 |-> start]
  <2>1. f = [n \in 0..0 |-> IF n = 0 THEN start ELSE more(f, n)]
    <3> HIDE DEF start, more
    <3> QED
      OBVIOUS
  <2> QED
    BY <1>2, <1>3, <2>1 DEF Ingested
<1>4. CASE j # 0
  <2>1. j - 1 \in Nat
    BY <1>2, <1>4
  <2>2. j - 1 \notin Bad
    <3> HIDE DEF Bad
    <3> QED
      BY <1>1, <1>2, <2>1
  <2>3. PICK h : Ingested(ops, call, j - 1, h)
    BY <2>1, <2>2
  <2> DEFINE f == [n \in 0..j |-> IF n = 0 THEN start ELSE more(h, n)]
  <2>4. ASSUME NEW k \in 0..(j - 1) PROVE f[k] = h[k]
    <3>1. k \in 0..j /\ k \in Nat
      BY <1>2
    <3>2. (k = 0 => h[k] = start) /\ (k # 0 => h[k] = more(h, k))
      <4> DEFINE last == j - 1
      <4>1. last \in Nat /\ k \in 0..last /\ Ingested(ops, call, last, h)
        BY <2>1, <2>3
      <4> DEFINE turn(n) == IF n = 0 THEN start ELSE more(h, n)
      <4>2. h = [n \in 0..last |-> turn(n)]
        BY <4>1, Zenon DEF Ingested
      <4> HIDE DEF f, last, Bad, turn
      <4>3. h[k] = turn(k)
        BY <4>1, <4>2, Zenon
      <4> HIDE DEF start, more
      <4> QED
        BY <4>3, Zenon DEF turn
    <3> HIDE DEF start, more
    <3> QED
      BY <3>1, <3>2
  <2>5. ASSUME NEW n \in 0..j, n # 0 PROVE f[n - 1] = h[n - 1]
    <3>1. n - 1 \in 0..(j - 1)
      BY <1>2, <2>5
    <3> HIDE DEF f
    <3> QED
      BY <2>4, <3>1
  <2> DEFINE one(n) == IF n = 0 THEN start ELSE more(h, n)
             two(n) == IF n = 0 THEN start ELSE more(f, n)
  <2>6. \A n \in 0..j : one(n) = two(n)
    <3> HIDE DEF f
    <3> QED
      BY <2>5
  <2>7. f = [n \in 0..j |-> one(n)]
    OBVIOUS
  <2> HIDE DEF f, one, two
  <2>8. f = [n \in 0..j |-> two(n)]
    BY <2>6, <2>7
  <2>9. Ingested(ops, call, j, f)
    BY <2>8 DEF two, Ingested
  <2> QED
    BY <1>2, <2>9
<1> QED
  BY <1>3, <1>4

\* The hash is what is in the buffer after the last op.
LEMMA HashIsLast ==
    ASSUME NEW ops, NEW call, Len(ops) \in Nat
    PROVE  \E f : /\ Ingested(ops, call, Len(ops), f)
                  /\ compute_action_hash_from_metas(ops, call) = f[Len(ops)]
<1>1. PICK f : Ingested(ops, call, Len(ops), f)
  BY IngestedExists
<1> DEFINE Step(g) == [n \in 0..Len(ops) |->
                         IF n = 0 THEN <<call.program>> ELSE g[n - 1] \o op_bytes(ops[n], call)]
           preimage == CHOOSE g : g = Step(g)
<1>2. f = Step(f)
  BY <1>1 DEF Ingested
<1>3. preimage = Step(preimage)
  <2> HIDE DEF Step
  <2> QED
    BY <1>2
<1>4. Ingested(ops, call, Len(ops), preimage)
  <2> HIDE DEF preimage
  <2> QED
    BY <1>3 DEF Ingested
<1>5. compute_action_hash_from_metas(ops, call) = preimage[Len(ops)]
  BY DEF compute_action_hash_from_metas
<1> QED
  BY <1>4, <1>5

\* A list of ops that a call can be hashed through, and its buffer.
Hashed(ops, call, f) ==
    /\ ops \in Seq(ActionOps) /\ well_formed(call) /\ hashable(ops, call)
    /\ Ingested(ops, call, Len(ops), f)

\* One op further.
LEMMA HashedStep ==
    ASSUME NEW ops, NEW call, NEW f, Hashed(ops, call, f), NEW k \in 1..Len(ops)
    PROVE  /\ k - 1 \in 0..Len(ops) /\ Len(ops) \in Nat
           /\ ops[k] \in ActionOps /\ ingestable(ops[k], call)
           /\ f[k] = f[k - 1] \o op_bytes(ops[k], call)
<1>1. Len(ops) \in Nat /\ ops[k] \in ActionOps /\ DOMAIN ops = 1..Len(ops)
  BY LenProperties, ElementOfSeq DEF Hashed
<1>2. ingestable(ops[k], call)
  BY <1>1 DEF Hashed, hashable
<1>3. k \in 0..Len(ops) /\ k # 0 /\ k - 1 \in 0..Len(ops)
  BY <1>1
<1>4. f[k] = f[k - 1] \o op_bytes(ops[k], call)
  BY <1>1, <1>3, IngestedAt, ZenonT(30) DEF Hashed
<1> QED
  BY <1>1, <1>2, <1>3, <1>4

\* The buffer starts with the program.
LEMMA HashedStart ==
    ASSUME NEW ops, NEW call, NEW f, Hashed(ops, call, f)
    PROVE  Len(ops) \in Nat /\ call.program \in Nat /\ f[0] = <<call.program>>
<1>1. Len(ops) \in Nat /\ call.program \in Nat /\ Ingested(ops, call, Len(ops), f)
  BY LenProperties DEF Hashed, well_formed
<1>2. f[0] = <<call.program>>
  BY <1>1, IngestedFirst, Zenon
<1> QED
  BY <1>1, <1>2

\* The buffer holds bytes.
LEMMA HashedSeq ==
    ASSUME NEW ops, NEW call, NEW f, Hashed(ops, call, f), NEW k \in 0..Len(ops)
    PROVE  f[k] \in Seq(Int)
<1> DEFINE Bad == {j \in 0..Len(ops) : f[j] \notin Seq(Int)}
<1>1. Len(ops) \in Nat
  BY LenProperties DEF Hashed
<1> SUFFICES ASSUME Bad # {} PROVE FALSE
  OBVIOUS
<1>2. PICK j \in Bad : \A i \in Bad : j <= i
  <2>1. Bad \in SUBSET Nat
    BY <1>1
  <2> HIDE DEF Bad
  <2> QED
    BY <2>1, LeastNat
<1>3. CASE j = 0
  <2>1. f[0] = <<call.program>>
    BY HashedStart
  <2>2. call.program \in Nat
    BY HashedStart
  <2>3. <<call.program>> \in Seq(Int)
    BY <2>2
  <2> QED
    BY <1>2, <1>3, <2>1, <2>3
<1>4. CASE j # 0
  <2>1. j \in 1..Len(ops) /\ j - 1 \in 0..Len(ops) /\ j - 1 < j
    BY <1>1, <1>2, <1>4
  <2>2. j - 1 \notin Bad
    <3> HIDE DEF Bad
    <3> QED
      BY <1>1, <1>2, <2>1
  <2>3. f[j - 1] \in Seq(Int)
    BY <2>1, <2>2
  <2> DEFINE b == op_bytes(ops[j], call)
             before == f[j - 1]
  <2>4. b \in Seq(Int) /\ f[j] = before \o b
    BY <2>1, HashedStep, OpBytes, ZenonT(40) DEF Hashed
  <2> HIDE DEF b, before
  <2>5. before \o b \in Seq(Int)
    BY <2>3, <2>4, ConcatProperties DEF before
  <2> QED
    BY <1>2, <2>4, <2>5
<1> QED
  BY <1>3, <1>4

\* The k-th op is appended to the buffer.
Appended(ops, call, f, k) == f[k] = f[k - 1] \o op_bytes(ops[k], call)

\* That is so for each of them.
LEMMA HashedAppends ==
    ASSUME NEW ops, NEW call, NEW f, Hashed(ops, call, f), NEW k \in 1..Len(ops)
    PROVE  Appended(ops, call, f, k)
BY HashedStep DEF Appended

\* Each op extends the buffer.
LEMMA HashedExtends ==
    ASSUME NEW ops, NEW call, NEW f, Hashed(ops, call, f), NEW k \in 1..Len(ops)
    PROVE  /\ op_bytes(ops[k], call) \in Seq(Int) /\ Len(op_bytes(ops[k], call)) \in Nat \ {0}
           /\ f[k - 1] \in Seq(Int) /\ f[k] = f[k - 1] \o op_bytes(ops[k], call)
<1>1. /\ k - 1 \in 0..Len(ops) /\ ops[k] \in ActionOps /\ ingestable(ops[k], call)
      /\ f[k] = f[k - 1] \o op_bytes(ops[k], call)
  BY HashedStep
<1>2. op_bytes(ops[k], call) \in Seq(Int) /\ Len(op_bytes(ops[k], call)) \in Nat \ {0}
  BY <1>1, OpBytes DEF Hashed
<1>3. f[k - 1] \in Seq(Int)
  BY <1>1, HashedSeq
<1> QED
  BY <1>1, <1>2, <1>3

\* So it only grows.
LEMMA HashedGrows ==
    ASSUME NEW ops, NEW call, NEW f, Hashed(ops, call, f), NEW k \in 1..Len(ops)
    PROVE  /\ Len(f[k - 1]) \in Nat /\ Len(f[k - 1]) < Len(f[k])
           /\ \A i \in 1..Len(f[k - 1]) : f[k][i] = f[k - 1][i]
<1> DEFINE b == op_bytes(ops[k], call)
           before == f[k - 1]
           after == f[k]
<1>1. b \in Seq(Int) /\ Len(b) \in Nat \ {0} /\ before \in Seq(Int) /\ after = before \o b
  BY HashedExtends, ZenonT(30)
<1> HIDE DEF b, before, after
<1>2. Len(before) \in Nat
  BY <1>1, LenProperties
<1>3. Len(after) = Len(before) + Len(b) /\ \A i \in 1..Len(before) : after[i] = before[i]
  BY <1>1, HeadedSlice
<1>4. Len(before) < Len(after)
  BY <1>1, <1>2, <1>3
<1> QED
  BY <1>2, <1>3, <1>4 DEF before, after

\* What is in the buffer at some point is still there at the end.
LEMMA HashedPrefix ==
    ASSUME NEW ops, NEW call, NEW f, Hashed(ops, call, f), NEW k \in 0..Len(ops)
    PROVE  /\ Len(f[k]) <= Len(f[Len(ops)])
           /\ \A i \in 1..Len(f[k]) : f[Len(ops)][i] = f[k][i]
<1> DEFINE last == Len(ops)
           Kept(j) == Len(f[j]) <= Len(f[last]) /\ \A i \in 1..Len(f[j]) : f[last][i] = f[j][i]
           Bad == {d \in 0..last : ~Kept(last - d)}
<1>1. last \in Nat
  BY HashedStart
<1>2. \A j \in 0..last : Len(f[j]) \in Nat
  <2>1. ASSUME NEW j \in 0..last PROVE Len(f[j]) \in Nat
    <3>1. f[j] \in Seq(Int)
      BY HashedSeq
    <3> QED
      BY <3>1, LenProperties
  <2> QED
    BY <2>1
<1> HIDE DEF last
<1>3. Bad = {}
  <2> SUFFICES ASSUME Bad # {} PROVE FALSE
    OBVIOUS
  <2>1. PICK d \in Bad : \A e \in Bad : d <= e
    <3>1. Bad \in SUBSET Nat
      BY <1>1
    <3> HIDE DEF Bad
    <3> QED
      BY <3>1, LeastNat
  <2>2. d \in 0..last /\ ~Kept(last - d)
    BY <2>1
  <2>3. CASE d = 0
    <3>1. last - d = last /\ Len(f[last]) \in Nat
      BY <1>1, <1>2, <2>3
    <3>2. Kept(last)
      BY <3>1
    <3> HIDE DEF Kept
    <3> QED
      BY <2>2, <3>1, <3>2
  <2>4. CASE d # 0
    <3> DEFINE j == last - d
               n == j + 1
    <3>1. j \in 0..last /\ n \in 1..last /\ n - 1 = j /\ last - (d - 1) = n /\ d - 1 \in 0..last /\ d - 1 < d
      BY <1>1, <2>2, <2>4
    <3>2. Kept(n)
      <4>1. d - 1 \notin Bad
        <5> HIDE DEF Bad
        <5> QED
          BY <2>1, <2>2, <3>1
      <4>2. Kept(last - (d - 1))
        <5> HIDE DEF Kept
        <5> QED
          BY <3>1, <4>1
      <4> HIDE DEF Kept, n
      <4> QED
        BY <3>1, <4>2
    <3> HIDE DEF j, n
    <3>3. Len(f[n]) >= Len(f[j]) /\ \A i \in 1..Len(f[j]) : f[n][i] = f[j][i]
      <4>1. n \in 1..Len(ops)
        BY <3>1 DEF last
      <4>2. /\ Len(f[n - 1]) \in Nat /\ Len(f[n - 1]) < Len(f[n])
            /\ \A i \in 1..Len(f[n - 1]) : f[n][i] = f[n - 1][i]
        BY <4>1, HashedGrows
      <4> QED
        BY <1>2, <3>1, <4>2
    <3>4. Kept(j)
      <4>1. Len(f[j]) \in Nat /\ Len(f[n]) \in Nat /\ Len(f[last]) \in Nat
        BY <1>1, <1>2, <3>1
      <4>2. Len(f[n]) <= Len(f[last]) /\ \A i \in 1..Len(f[n]) : f[last][i] = f[n][i]
        BY <3>2
      <4> QED
        BY <3>3, <4>1, <4>2
    <3> QED
      BY <2>2, <3>4 DEF j
  <2> QED
    BY <2>3, <2>4
<1>4. Kept(k)
  <2>1. last - k \in 0..last /\ last - (last - k) = k
    BY <1>1 DEF last
  <2>2. Kept(last - (last - k))
    <3> HIDE DEF Kept
    <3> QED
      BY <1>3, <2>1
  <2> HIDE DEF Kept
  <2> QED
    BY <2>1, <2>2
<1> QED
  BY <1>4 DEF last

\* The first k ops of two lists are the same and see the same in both calls.
AlikeUpTo(k, left, x, right, y) ==
    \A i \in 1..k : left[i] = right[i] /\ SameThrough(left[i], x, y)

\* Equal hashes: as far as the buffers have been compared, so are the ops.
LEMMA HashesComparedUpTo ==
    ASSUME NEW left, NEW x, NEW f, Hashed(left, x, f),
           NEW right, NEW y, NEW g, Hashed(right, y, g),
           f[Len(left)] = g[Len(right)], NEW k \in 0..Len(left)
    PROVE  /\ k <= Len(right) /\ f[k] = g[k]
           /\ x.program = y.program /\ AlikeUpTo(k, left, x, right, y)
<1> DEFINE m == Len(left)
           n == Len(right)
           Good(j) == /\ j <= n /\ f[j] = g[j]
                      /\ x.program = y.program /\ AlikeUpTo(j, left, x, right, y)
           Bad == {j \in 0..m : ~Good(j)}
<1>1. /\ m \in Nat /\ x.program \in Nat /\ f[0] = <<x.program>>
      /\ n \in Nat /\ y.program \in Nat /\ g[0] = <<y.program>>
  BY HashedStart
<1>2. \A j \in 0..m : f[j] \in Seq(Int) /\ Len(f[j]) <= Len(f[m]) /\ \A i \in 1..Len(f[j]) : f[m][i] = f[j][i]
  BY HashedSeq, HashedPrefix
<1>3. \A j \in 0..n : g[j] \in Seq(Int) /\ Len(g[j]) <= Len(g[n]) /\ \A i \in 1..Len(g[j]) : g[n][i] = g[j][i]
  BY HashedSeq, HashedPrefix
<1>4. f[m] = g[n]
  OBVIOUS
<1> HIDE DEF m, n
<1>5. \A j \in 0..m : Len(f[j]) \in Nat
  BY <1>2, LenProperties
<1>6. \A j \in 0..n : Len(g[j]) \in Nat
  BY <1>3, LenProperties
<1>7. Bad = {}
  <2> SUFFICES ASSUME Bad # {} PROVE FALSE
    OBVIOUS
  <2>1. PICK j \in Bad : \A i \in Bad : j <= i
    <3>1. Bad \in SUBSET Nat
      BY <1>1
    <3> HIDE DEF Bad
    <3> QED
      BY <3>1, LeastNat
  <2>2. j \in 0..m /\ ~Good(j)
    BY <2>1
  <2>3. CASE j = 0
    <3>1. Len(f[0]) = 1 /\ f[0][1] = x.program /\ Len(g[0]) = 1 /\ g[0][1] = y.program
      BY <1>1
    <3>2. 0 \in 0..m /\ 0 \in 0..n
      BY <1>1
    <3>3. f[m][1] = f[0][1] /\ g[n][1] = g[0][1]
      <4>1. (\A i \in 1..Len(f[0]) : f[m][i] = f[0][i]) /\ (\A i \in 1..Len(g[0]) : g[n][i] = g[0][i])
        BY <1>2, <1>3, <3>2
      <4>2. 1 \in 1..Len(f[0]) /\ 1 \in 1..Len(g[0])
        BY <3>1
      <4> QED
        BY <4>1, <4>2
    <3>4. x.program = y.program
      BY <1>4, <3>1, <3>3
    <3>5. AlikeUpTo(0, left, x, right, y)
      BY DEF AlikeUpTo
    <3> QED
      BY <1>1, <2>2, <2>3, <3>4, <3>5
  <2>4. CASE j # 0
    <3> DEFINE p == j - 1
    <3>1. p \in 0..m /\ p < j /\ j = p + 1 /\ j \in 1..m
      BY <1>1, <2>2, <2>4
    <3>2. Good(p)
      <4>1. p \notin Bad
        <5> HIDE DEF Bad, p
        <5> QED
          BY <1>1, <2>1, <2>2, <3>1
      <4> HIDE DEF Good, p
      <4> QED
        BY <3>1, <4>1
    <3>3. p <= n /\ f[p] = g[p] /\ x.program = y.program /\ AlikeUpTo(p, left, x, right, y)
      BY <3>2
    <3> HIDE DEF Good, Bad
    <3>4. /\ left[j] \in ActionOps /\ ingestable(left[j], x) /\ well_formed(x)
          /\ op_bytes(left[j], x) \in Seq(Int) /\ Len(op_bytes(left[j], x)) \in Nat \ {0}
          /\ f[p] \in Seq(Int) /\ f[j] = f[p] \o op_bytes(left[j], x)
      <4>1. j \in 1..Len(left)
        BY <3>1 DEF m
      <4>2. well_formed(x)
        BY DEF Hashed
      <4>3. left[j] \in ActionOps /\ ingestable(left[j], x)
        BY <4>1, HashedStep
      <4>4. /\ op_bytes(left[j], x) \in Seq(Int) /\ Len(op_bytes(left[j], x)) \in Nat \ {0}
            /\ f[j - 1] \in Seq(Int) /\ f[j] = f[j - 1] \o op_bytes(left[j], x)
        <5>1. op_bytes(left[j], x) \in Seq(Int)
          BY <4>1, HashedExtends
        <5>2. Len(op_bytes(left[j], x)) \in Nat \ {0}
          BY <4>1, HashedExtends
        <5>3. f[j - 1] \in Seq(Int)
          BY <4>1, HashedExtends
        <5>4. f[j] = f[j - 1] \o op_bytes(left[j], x)
          <6>1. Appended(left, x, f, j)
            BY <4>1, HashedAppends
          <6> QED
            BY <6>1 DEF Appended
        <5> QED
          BY <5>1, <5>2, <5>3, <5>4
      <4> QED
        BY <4>2, <4>3, <4>4
    <3>5. j <= n
      <4> SUFFICES ASSUME ~(j <= n) PROVE FALSE
        OBVIOUS
      <4>1. p = n
        BY <1>1, <3>1, <3>3
      <4>2. Len(f[p]) < Len(f[j]) /\ Len(f[p]) \in Nat
        <5>1. j \in 1..Len(left)
          BY <3>1 DEF m
        <5> QED
          BY <5>1, HashedGrows
      <4>3. Len(f[j]) \in Nat /\ Len(f[j]) <= Len(f[m])
        BY <1>2, <1>5, <2>2
      <4>4. Len(f[m]) = Len(f[p])
        BY <1>4, <3>3, <4>1
      <4> QED
        BY <4>2, <4>3, <4>4
    <3>6. j \in 1..n /\ j \in 0..n
      BY <1>1, <3>1, <3>5
    <3>7. /\ right[j] \in ActionOps /\ ingestable(right[j], y) /\ well_formed(y)
          /\ op_bytes(right[j], y) \in Seq(Int) /\ Len(op_bytes(right[j], y)) \in Nat \ {0}
          /\ g[p] \in Seq(Int) /\ g[j] = g[p] \o op_bytes(right[j], y)
      <4>1. j \in 1..Len(right)
        BY <3>6 DEF n
      <4>2. well_formed(y)
        BY DEF Hashed
      <4>3. right[j] \in ActionOps /\ ingestable(right[j], y)
        BY <4>1, HashedStep
      <4>4. /\ op_bytes(right[j], y) \in Seq(Int) /\ Len(op_bytes(right[j], y)) \in Nat \ {0}
            /\ g[j - 1] \in Seq(Int) /\ g[j] = g[j - 1] \o op_bytes(right[j], y)
        <5>1. op_bytes(right[j], y) \in Seq(Int)
          BY <4>1, HashedExtends
        <5>2. Len(op_bytes(right[j], y)) \in Nat \ {0}
          BY <4>1, HashedExtends
        <5>3. g[j - 1] \in Seq(Int)
          BY <4>1, HashedExtends
        <5>4. g[j] = g[j - 1] \o op_bytes(right[j], y)
          <6>1. Appended(right, y, g, j)
            BY <4>1, HashedAppends
          <6> QED
            BY <6>1 DEF Appended
        <5> QED
          BY <5>1, <5>2, <5>3, <5>4
      <4> QED
        BY <4>2, <4>3, <4>4
    <3> DEFINE b == op_bytes(left[j], x)
               c == op_bytes(right[j], y)
               before == f[p]
               fj == f[j]
               gj == g[j]
               all == f[m]
    <3>8. /\ b \in Seq(Int) /\ Len(b) \in Nat /\ c \in Seq(Int) /\ Len(c) \in Nat
          /\ before \in Seq(Int) /\ fj = before \o b /\ gj = before \o c
      BY <3>3, <3>4, <3>7
    <3>9. /\ Len(fj) <= Len(all) /\ \A i \in 1..Len(fj) : all[i] = fj[i]
          /\ Len(gj) <= Len(all) /\ \A i \in 1..Len(gj) : all[i] = gj[i]
      BY <1>2, <1>3, <1>4, <2>2, <3>6
    <3>10. Agree(b, c)
      <4> HIDE DEF b, c, before, fj, gj, all, p
      <4>1. Len(before) \in Nat
        BY <3>8, LenProperties
      <4>2. Len(fj) = Len(before) + Len(b) /\ \A i \in 1..Len(b) : fj[Len(before) + i] = b[i]
        BY <3>8, HeadedSlice
      <4>3. Len(gj) = Len(before) + Len(c) /\ \A i \in 1..Len(c) : gj[Len(before) + i] = c[i]
        BY <3>8, HeadedSlice
      <4>4. ASSUME NEW i \in 1..Len(b), i <= Len(c) PROVE b[i] = c[i]
        <5> DEFINE q == Len(before) + i
        <5>1. i \in 1..Len(c) /\ q \in 1..Len(fj) /\ q \in 1..Len(gj)
          BY <3>8, <4>1, <4>2, <4>3, <4>4
        <5>2. fj[q] = b[i] /\ gj[q] = c[i]
          BY <4>2, <4>3, <5>1
        <5> HIDE DEF q
        <5>3. fj[q] = gj[q]
          BY <3>9, <5>1
        <5> QED
          BY <5>2, <5>3
      <4> QED
        BY <4>4 DEF Agree
    <3>11. left[j] = right[j] /\ Len(b) = Len(c) /\ SameThrough(left[j], x, y)
      <4> HIDE DEF p
      <4> QED
        BY <3>4, <3>7, <3>10, OpsAreReadOneWay
    <3>12. f[j] = g[j]
      <4> HIDE DEF p
      <4>1. \A i \in 1..Len(b) : b[i] = c[i]
        <5> HIDE DEF b, c
        <5> QED
          BY <3>8, <3>10, <3>11 DEF Agree
      <4>2. b = c
        <5> HIDE DEF b, c
        <5> QED
          BY <3>8, <3>11, <4>1, SeqEqual
      <4> QED
        BY <3>8, <4>2
    <3>13. AlikeUpTo(j, left, x, right, y)
      <4>1. ASSUME NEW i \in 1..j PROVE left[i] = right[i] /\ SameThrough(left[i], x, y)
        <5>1. CASE i = j
          BY <3>11, <5>1
        <5>2. CASE i # j
          <6>1. i \in 1..p
            BY <1>1, <3>1, <5>2
          <6> HIDE DEF p
          <6> QED
            BY <3>3, <6>1 DEF AlikeUpTo
        <5> QED
          BY <5>1, <5>2
      <4> QED
        BY <4>1 DEF AlikeUpTo
    <3> QED
      BY <2>2, <3>3, <3>5, <3>12, <3>13 DEF Good
  <2> QED
    BY <2>3, <2>4
<1>8. Good(k)
  <2>1. k \in 0..m
    BY DEF m
  <2> HIDE DEF Good
  <2> QED
    BY <1>7, <2>1
<1> QED
  BY <1>8 DEF n

(***************************************************************************)
(* Two actions have the same hash only if they are the same pattern: the   *)
(* same ops and program, and calls that agree on everything the ops        *)
(* ingest.  No byte of one field can be read as another field's, although  *)
(* slices have different lengths, for every list of ops and every call     *)
(* (compute_action_hash_from_metas).                                       *)
(***************************************************************************)
THEOREM HashesPinPatterns ==
    ASSUME NEW left \in Seq(ActionOps), NEW right \in Seq(ActionOps), NEW x, NEW y,
           well_formed(x), well_formed(y)
    PROVE  PinsThePattern(left, x, right, y)
<1> SUFFICES ASSUME hashable(left, x), hashable(right, y),
                    compute_action_hash_from_metas(left, x) = compute_action_hash_from_metas(right, y)
             PROVE  /\ left = right /\ x.program = y.program
                    /\ \A i \in DOMAIN left : SameThrough(left[i], x, y)
  BY DEF PinsThePattern
<1>1. /\ Len(left) \in Nat /\ DOMAIN left = 1..Len(left)
      /\ Len(right) \in Nat /\ DOMAIN right = 1..Len(right)
  BY LenProperties
<1>2. PICK f : Ingested(left, x, Len(left), f) /\ compute_action_hash_from_metas(left, x) = f[Len(left)]
  BY <1>1, HashIsLast
<1>3. PICK g : Ingested(right, y, Len(right), g) /\ compute_action_hash_from_metas(right, y) = g[Len(right)]
  BY <1>1, HashIsLast
<1>4. Hashed(left, x, f) /\ Hashed(right, y, g) /\ f[Len(left)] = g[Len(right)]
  BY <1>2, <1>3 DEF Hashed
<1>5. /\ Len(left) <= Len(right) /\ x.program = y.program
      /\ AlikeUpTo(Len(left), left, x, right, y)
  <2>1. Len(left) \in 0..Len(left)
    BY <1>1
  <2> QED
    BY <1>4, <2>1, HashesComparedUpTo
<1>6. Len(right) <= Len(left)
  <2>1. Len(right) \in 0..Len(right)
    BY <1>1
  <2> QED
    BY <1>4, <2>1, HashesComparedUpTo
<1>7. left = right
  <2>1. Len(left) = Len(right)
    <3> DEFINE m == Len(left)
               n == Len(right)
    <3>1. m \in Nat /\ n \in Nat /\ m <= n /\ n <= m
      BY <1>1, <1>5, <1>6
    <3> HIDE DEF m, n
    <3>2. m = n
      BY <3>1
    <3> QED
      BY <3>2 DEF m, n
  <2>2. \A i \in 1..Len(left) : left[i] = right[i]
    BY <1>5 DEF AlikeUpTo
  <2> QED
    BY <2>1, <2>2, SeqEqual
<1> QED
  BY <1>1, <1>5, <1>7 DEF AlikeUpTo
=============================================================================
