---------------------- MODULE SpendingConditionProofs ----------------------
(***************************************************************************)
(* Proofs about SpendingCondition for every value of the constants.       *)
(***************************************************************************)
EXTENDS SpendingCondition, SequenceTheorems, TLAPS

USE LenAssumption, InputAssumption

-----------------------------------------------------------------------------
(* Lemmas about the byte-buffer helpers.                                  *)

\* write_bytes keeps the buffer a byte string of the same length.
LEMMA FillType ==
  ASSUME NEW b \in Seq(Byte), NEW p \in Int, NEW n \in Int, NEW v \in Byte
  PROVE  /\ Fill(b, p, n, v) \in Seq(Byte)
         /\ Len(Fill(b, p, n, v)) = Len(b)
         /\ \A k \in 1..Len(b) :
              Fill(b, p, n, v)[k] = IF p < k /\ k <= p + n THEN v ELSE b[k]
BY LenProperties DEF Fill

\* copy_from_slice keeps the buffer a byte string of the same length.
LEMMA CopyAtType ==
  ASSUME NEW b \in Seq(Byte), NEW p \in Int, NEW s \in Seq(Byte)
  PROVE  /\ CopyAt(b, p, s) \in Seq(Byte)
         /\ Len(CopyAt(b, p, s)) = Len(b)
<1>1. \A k \in 1..Len(b) :
        (IF p < k /\ k <= p + Len(s) THEN s[k - p] ELSE b[k]) \in Byte
  BY LenProperties
<1>2. CopyAt(b, p, s) = [k \in 1..Len(b) |-> IF p < k /\ k <= p + Len(s) THEN s[k - p] ELSE b[k]]
  BY LenProperties DEF CopyAt
<1>. QED
  BY <1>1, <1>2, LenProperties

\* A buffer of n copies of a byte is a byte string.
LEMMA ConstSeqType ==
  ASSUME NEW n \in Nat, NEW v \in Byte
  PROVE  [k \in 1..n |-> v] \in Seq(Byte) /\ Len([k \in 1..n |-> v]) = n
OBVIOUS

\* The bytes taken at an offset inside the buffer are bytes.
LEMMA BytesType ==
  ASSUME NEW b \in Seq(Byte), NEW p \in Nat, NEW n \in Nat,
         Len(b) - p >= n
  PROVE  \A i \in 1..n : Bytes(b, p, n)[i] \in Byte
<1>1. \A i \in (p + 1)..(p + n) : b[i] \in Byte
  BY LenProperties
<1>2. \A i \in 1..n : SubSeq(b, p + 1, p + n)[i] = b[p + 1 + i - 1]
  BY <1>1, SubSeqProperties
<1>. QED
  BY <1>1, <1>2 DEF Bytes

\* be_u16 and be_u32 of bytes are naturals.
LEMMA BeU16Type ==
  ASSUME NEW s, s[1] \in Byte, s[2] \in Byte
  PROVE  BeU16(s) \in U16
<1>1. PICK a1 \in 0..255, a2 \in 0..255 : a1 = s[1] /\ a2 = s[2]
  BY DEF Byte
<1>2. a1 * 256 + a2 \in U16
  BY DEF U16
<1>. QED
  BY <1>1, <1>2 DEF BeU16

LEMMA BeU32Type ==
  ASSUME NEW s, s[1] \in Byte, s[2] \in Byte, s[3] \in Byte, s[4] \in Byte
  PROVE  BeU32(s) \in Nat
<1>1. PICK a1 \in 0..255, a2 \in 0..255, a3 \in 0..255, a4 \in 0..255 :
        a1 = s[1] /\ a2 = s[2] /\ a3 = s[3] /\ a4 = s[4]
  BY DEF Byte
<1>2. ((a1 * 256 + a2) * 256 + a3) * 256 + a4 \in Nat
  OBVIOUS
<1>. QED
  BY <1>1, <1>2 DEF BeU32

\* The two buffers init_sighash writes are byte strings.
LEMMA PlaceholderType ==
  ASSUME NEW n \in Nat, NEW v \in Byte, NEW r \in U16
  PROVE  /\ Fill([k \in 1..n |-> v], 0, STANDARD_SINGLESIG_AUTH_LEN, 0) \in Seq(Byte)
         /\ CopyAt(Fill([k \in 1..n |-> v], 0, 20, 0), 20, ToBeBytes(r)) \in Seq(Byte)
<1>1. [k \in 1..n |-> v] \in Seq(Byte)
  BY ConstSeqType
<1>2. 0 \in Byte /\ STANDARD_SINGLESIG_AUTH_LEN \in Int
  BY DEF Byte, STANDARD_SINGLESIG_AUTH_LEN, SINGLE_SPENDING_CONDITION_LEN
<1>3. ToBeBytes(r) \in Seq(Byte)
  <2>1. r \div 256 \in Byte /\ r % 256 \in Byte
    BY DEF Byte, U16
  <2>. QED
    BY <2>1 DEF ToBeBytes
<1>4. Fill([k \in 1..n |-> v], 0, 20, 0) \in Seq(Byte)
  BY <1>1, <1>2, FillType
<1>5. Fill([k \in 1..n |-> v], 0, STANDARD_SINGLESIG_AUTH_LEN, 0) \in Seq(Byte)
  BY <1>1, <1>2, FillType
<1>6. CopyAt(Fill([k \in 1..n |-> v], 0, 20, 0), 20, ToBeBytes(r)) \in Seq(Byte)
  BY <1>3, <1>4, CopyAtType
<1>. QED
  BY <1>5, <1>6

\* An error return keeps every variable in its type.
LEMMA FailType ==
  ASSUME TypeOK, NEW e \in Errors, Fail(e), UNCHANGED pos
  PROVE  TypeOK'
<1>1. pc' \in PCs /\ err' \in Errors \cup {"none"}
  BY DEF Fail, PCs
<1>2. UNCHANGED <<buf, orig, pos, mode, start, numFields, fields, cond, cleared, sighash>>
  BY DEF Fail
<1>. QED
  BY <1>1, <1>2 DEF TypeOK

-----------------------------------------------------------------------------
(***************************************************************************)
(* Type correctness: every step of the decoder, of clearing, of           *)
(* init_sighash and of the end of an operation keeps every variable in    *)
(* its type; in particular the buffer stays a byte string, the field      *)
(* count a natural and the auth-field list a sequence of tagged offsets.  *)
(***************************************************************************)
\* While the fields are read the decoder has not moved back past the
\* field count, so the raw span `bytes.len() - end.len()` is a length.
Scanned == pc = "msField" => start <= pos

TypeInv == TypeOK /\ Scanned

\* Scanned is kept by every step.
LEMMA ScannedStep == TypeOK /\ Scanned /\ [Next]_vars => Scanned'
<1> SUFFICES ASSUME TypeOK, Scanned, [Next]_vars PROVE Scanned'
  OBVIOUS
<1>1. ASSUME NEW b \in Inputs, SignerFromBytes(b) PROVE Scanned'
  BY <1>1 DEF SignerFromBytes, Scanned
<1>2. CASE SinglesigFromBytes
  BY <1>2 DEF SinglesigFromBytes, Fail, Scanned
<1>3. CASE MultisigReadCount
  BY <1>3 DEF MultisigReadCount, Fail, Scanned, TypeOK
<1>4. CASE MultisigReadField
  <2>1. FieldEnd(pos, buf[pos + 1]) \in Nat /\ FieldEnd(pos, buf[pos + 1]) > pos
    BY DEF FieldEnd, AuthFieldLen, TypeOK
  <2>. QED
    BY <1>4, <2>1 DEF MultisigReadField, Fail, Scanned, TypeOK
<1>5. CASE MultisigReadRequired
  BY <1>5 DEF MultisigReadRequired, Fail, Scanned
<1>6. CASE SinglesigClearSignature \/ MultisigClearSignature
  BY <1>6 DEF SinglesigClearSignature, MultisigClearSignature, Scanned
<1>7. ASSUME NEW n \in SighashBufLens, InitSighash(n) PROVE Scanned'
  BY <1>7 DEF InitSighash, Scanned
<1>8. CASE EndOperation
  BY <1>8 DEF EndOperation, Scanned
<1>9. CASE UNCHANGED vars
  BY <1>9 DEF vars, Scanned
<1>. QED
  BY <1>1, <1>2, <1>3, <1>4, <1>5, <1>6, <1>7, <1>8, <1>9 DEF Next, Parse

THEOREM TypeCorrect == Spec => []TypeOK
<1>1. Init => TypeOK
  <2>1. <<>> \in Seq(Byte) /\ <<>> \in Seq(AuthField)
    BY EmptySeq
  <2> SUFFICES ASSUME Init PROVE TypeOK
    OBVIOUS
  <2>2. cond \in Condition
    BY <2>1 DEF Init, Idle, Condition, U16, NoCondition
  <2>3. sighash \in [buf : Seq(Byte), len : Nat, err : Errors \cup {"none"}]
    BY <2>1 DEF Init, Idle, NoSighash
  <2>4. cleared \in BOOLEAN
    BY Zenon DEF Init, Idle
  <2>. QED
    BY <2>1, <2>2, <2>3, <2>4 DEF Init, Idle, TypeOK, PCs, HashModes
<1>2. TypeOK /\ Scanned /\ [Next]_vars => TypeOK'
  <2> SUFFICES ASSUME TypeOK, Scanned, [Next]_vars PROVE TypeOK'
    OBVIOUS
  <2> USE DEF TypeOK
  <2>1. ASSUME NEW b \in Inputs, SignerFromBytes(b) PROVE TypeOK'
    <3>1. pc' \in PCs /\ err' \in Errors \cup {"none"}
      BY <2>1 DEF SignerFromBytes, PCs, Errors
    <3>2. buf' \in Seq(Byte) /\ orig' \in Seq(Byte)
      BY <2>1 DEF SignerFromBytes
    <3>3. pos' \in Nat /\ mode' \in HashModes
      BY <2>1 DEF SignerFromBytes, HashModes, SPENDING_CONDITION_SIGNER_LEN
    <3>4. UNCHANGED <<start, numFields, fields, cond, cleared, sighash>>
      BY <2>1 DEF SignerFromBytes
    <3>. QED
      BY <3>1, <3>2, <3>3, <3>4
  <2>2. CASE SinglesigFromBytes
    <3>1. CASE \E e \in Errors : Fail(e) /\ UNCHANGED pos
      BY <3>1, FailType
    <3>2. CASE /\ Len(buf) - pos >= SINGLE_SPENDING_CONDITION_LEN
               /\ pc' = "done"
               /\ cond' = [kind |-> "Singlesig", at |-> pos,
                           len |-> SINGLE_SPENDING_CONDITION_LEN,
                           fields |-> <<>>, required |-> 0]
               /\ pos' = pos + SINGLE_SPENDING_CONDITION_LEN
               /\ UNCHANGED <<buf, orig, mode, start, numFields, fields, err,
                              cleared, sighash>>
      <4>1. cond' \in Condition
        BY <3>2, EmptySeq DEF Condition, U16, SINGLE_SPENDING_CONDITION_LEN
      <4>. QED
        BY <3>2, <4>1 DEF PCs, SINGLE_SPENDING_CONDITION_LEN
    <3>. QED
      BY <2>2, <3>1, <3>2, Zenon DEF SinglesigFromBytes, Errors
  <2>3. CASE MultisigReadCount
    <3>1. CASE \E e \in Errors : Fail(e) /\ UNCHANGED pos
      BY <3>1, FailType
    <3>2. CASE /\ Len(buf) - pos >= 4
               /\ start' = pos
               /\ numFields' = BeU32(Bytes(buf, pos, 4))
               /\ fields' = <<>>
               /\ pos' = pos + 4
               /\ pc' = "msField"
               /\ UNCHANGED <<buf, orig, mode, cond, err, cleared, sighash>>
      <4>1. \A i \in 1..4 : Bytes(buf, pos, 4)[i] \in Byte
        BY <3>2, BytesType
      <4>2. numFields' \in Nat
        BY <3>2, <4>1, BeU32Type
      <4>. QED
        BY <3>2, <4>2, EmptySeq DEF PCs
    <3>. QED
      BY <2>3, <3>1, <3>2, Zenon DEF MultisigReadCount, Errors
  <2>4. CASE MultisigReadField
    <3>1. CASE \E e \in Errors : Fail(e) /\ UNCHANGED pos
      BY <3>1, FailType
    <3>2. CASE /\ pc' = "panic"
               /\ UNCHANGED <<buf, orig, pos, mode, start, numFields, fields, cond,
                              err, cleared, sighash>>
      BY <3>2 DEF PCs
    <3>3. CASE /\ Len(buf) - pos >= 1
               /\ buf[pos + 1] \in AuthFieldIDs
               /\ fields' = Append(fields, [id |-> buf[pos + 1], at |-> pos + 1])
               /\ pos' = FieldEnd(pos, buf[pos + 1])
               /\ UNCHANGED <<pc, buf, orig, mode, start, numFields, cond, err,
                              cleared, sighash>>
      <4>1. [id |-> buf[pos + 1], at |-> pos + 1] \in AuthField
        BY <3>3 DEF AuthField
      <4>2. fields' \in Seq(AuthField)
        BY <3>3, <4>1, AppendProperties
      <4>3. pos' \in Nat
        BY <3>3 DEF FieldEnd, AuthFieldLen
      <4>. QED
        BY <3>3, <4>2, <4>3
    <3>. QED
      BY <2>4, <3>1, <3>2, <3>3, Zenon DEF MultisigReadField, Errors
  <2>5. CASE MultisigReadRequired
    <3>1. CASE \E e \in Errors : Fail(e) /\ UNCHANGED pos
      BY <3>1, FailType
    <3>2. CASE /\ Len(buf) - pos >= 2
               /\ pc' = "done"
               /\ cond' = [kind |-> "Multisig", at |-> start, len |-> pos + 2 - start,
                           fields |-> fields, required |-> BeU16(Bytes(buf, pos, 2))]
               /\ pos' = pos + 2
               /\ UNCHANGED <<buf, orig, mode, start, numFields, fields, err,
                              cleared, sighash>>
      <4>1. \A i \in 1..2 : Bytes(buf, pos, 2)[i] \in Byte
        BY <3>2, BytesType
      <4>2. BeU16(Bytes(buf, pos, 2)) \in U16
        BY <4>1, BeU16Type
      <4>0. start <= pos
        BY <2>5 DEF MultisigReadRequired, Scanned
      <4>3. cond' \in Condition
        BY <3>2, <4>0, <4>2, SMTT(30) DEF Condition, U16
      <4>. QED
        BY <3>2, <4>3 DEF PCs
    <3>. QED
      BY <2>5, <3>1, <3>2, Zenon DEF MultisigReadRequired, Errors
  <2>6. CASE SinglesigClearSignature
    <3>0. cond.at \in Nat
      BY DEF Condition, U16
    <3>1. buf' \in Seq(Byte)
      <4>1. Compressed \in Byte /\ 0 \in Byte
        BY DEF Compressed, Byte
      <4>2. Fill(buf, cond.at, 1, Compressed) \in Seq(Byte)
        BY <3>0, <4>1, FillType
      <4>3. Fill(Fill(buf, cond.at, 1, Compressed), cond.at, SigLen, 0) \in Seq(Byte)
        BY <3>0, <4>1, <4>2, FillType
      <4>. QED
        BY <2>6, <4>3 DEF SinglesigClearSignature
    <3>2. cleared' \in BOOLEAN
      BY <2>6 DEF SinglesigClearSignature
    <3>3. UNCHANGED <<pc, orig, pos, mode, start, numFields, fields, cond, err, sighash>>
      BY <2>6 DEF SinglesigClearSignature
    <3>. QED
      BY <3>1, <3>2, <3>3
  <2>7. CASE MultisigClearSignature
    <3>0. cond.at \in Nat /\ cond.len \in Nat
      BY DEF Condition, U16
    <3>1. buf' \in Seq(Byte)
      <4>1. 0 \in Byte
        BY DEF Byte
      <4>2. Fill(buf, cond.at, cond.len - 2, 0) \in Seq(Byte)
        BY <3>0, <4>1, FillType
      <4>. QED
        BY <2>7, <4>2 DEF MultisigClearSignature
    <3>2. cleared' \in BOOLEAN
      BY <2>7 DEF MultisigClearSignature
    <3>3. UNCHANGED <<pc, orig, pos, mode, start, numFields, fields, cond, err, sighash>>
      BY <2>7 DEF MultisigClearSignature
    <3>. QED
      BY <3>1, <3>2, <3>3
  <2>8. ASSUME NEW n \in SighashBufLens, InitSighash(n) PROVE TypeOK'
    <3> DEFINE dst == [k \in 1..n |-> Filler]
    <3>1. dst \in Seq(Byte)
      BY ConstSeqType
    <3>2. cond.required \in U16
      BY DEF Condition
    <3>3. /\ Fill(dst, 0, STANDARD_SINGLESIG_AUTH_LEN, 0) \in Seq(Byte)
          /\ CopyAt(Fill(dst, 0, 20, 0), 20, ToBeBytes(RequiredSignatures)) \in Seq(Byte)
      BY <3>2, PlaceholderType DEF RequiredSignatures
    <3>4. STANDARD_SINGLESIG_AUTH_LEN \in Nat /\ STANDARD_MULTISIG_AUTH_LEN \in Nat
      BY DEF STANDARD_SINGLESIG_AUTH_LEN, STANDARD_MULTISIG_AUTH_LEN,
         SINGLE_SPENDING_CONDITION_LEN
    <3>5. sighash' \in [buf : Seq(Byte), len : Nat, err : Errors \cup {"none"}]
      BY <2>8, <3>1, <3>3, <3>4 DEF InitSighash, Errors
    <3>6. UNCHANGED <<pc, buf, orig, pos, mode, start, numFields, fields, cond, err, cleared>>
      BY <2>8 DEF InitSighash
    <3>. QED
      BY <3>5, <3>6
  <2>9. CASE EndOperation
    <3>1. cleared' \in BOOLEAN
      BY <2>9, Zenon DEF EndOperation
    <3>2. fields' \in Seq(AuthField) /\ buf' \in Seq(Byte) /\ orig' \in Seq(Byte)
      BY <2>9, EmptySeq DEF EndOperation
    <3>3. cond' \in Condition /\ sighash' \in [buf : Seq(Byte), len : Nat, err : Errors \cup {"none"}]
      BY <2>9, EmptySeq DEF EndOperation, Condition, U16, NoCondition, NoSighash
    <3>4. pc' \in PCs /\ pos' \in Nat /\ mode' \in HashModes /\ start' \in Nat
          /\ numFields' \in Nat /\ err' \in Errors \cup {"none"}
      BY <2>9 DEF EndOperation, PCs, HashModes
    <3>. QED
      BY <3>1, <3>2, <3>3, <3>4
  <2>10. CASE UNCHANGED vars
    BY <2>10 DEF vars
  <2>. QED
    BY <2>1, <2>2, <2>3, <2>4, <2>5, <2>6, <2>7, <2>8, <2>9, <2>10 DEF Next, Parse
<1>3. Init => Scanned
  BY DEF Init, Idle, Scanned
<1>. QED
  BY <1>1, <1>2, <1>3, ScannedStep, PTL DEF Spec
=============================================================================
