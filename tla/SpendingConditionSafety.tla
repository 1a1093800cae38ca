---------------------- MODULE SpendingConditionSafety ----------------------
(***************************************************************************)
(* Proofs of the safety invariants of SpendingCondition for every value of *)
(* the constants: a decoded condition is well formed (DecodedWellFormed),  *)
(* clear_signature writes only witness content (ClearConfined) and zeroes *)
(* a multisig raw span but its count (MultisigClearCanonical), and        *)
(* init_sighash writes the placeholder (SighashPlaceholder).  They rest   *)
(* on one inductive invariant, Safe, which also says where the decoder   *)
(* is at each point of control (Shape).                                   *)
(***************************************************************************)
EXTENDS SpendingConditionProofs

USE LenAssumption, InputAssumption

-----------------------------------------------------------------------------
(* Lemmas about the byte helpers.                                         *)

\* take(2) inside the buffer is the pair of bytes at that offset.
LEMMA BytesPair ==
  ASSUME NEW b \in Seq(Byte), NEW p \in Nat, p + 2 <= Len(b)
  PROVE  Bytes(b, p, 2) = <<b[p + 1], b[p + 2]>>
<1>1. \A i \in (p + 1)..(p + 2) : b[i] \in Byte
  BY LenProperties
<1>2. /\ SubSeq(b, p + 1, p + 2) \in Seq(Byte)
      /\ Len(SubSeq(b, p + 1, p + 2)) = 2
      /\ \A i \in 1..2 : SubSeq(b, p + 1, p + 2)[i] = b[p + i]
  BY <1>1, SubSeqProperties
<1>3. <<b[p + 1], b[p + 2]>> \in Seq(Byte) /\ Len(<<b[p + 1], b[p + 2]>>) = 2
  BY <1>1
<1>4. \A i \in 1..2 : SubSeq(b, p + 1, p + 2)[i] = <<b[p + 1], b[p + 2]>>[i]
  BY <1>2
<1>5. SubSeq(b, p + 1, p + 2) = <<b[p + 1], b[p + 2]>>
  BY <1>2, <1>3, <1>4, SeqEqual
<1>. QED
  BY <1>5 DEF Bytes

\* u16::to_be_bytes undoes be_u16: the placeholder gets the very bytes.
LEMMA BeU16ToBeBytes ==
  ASSUME NEW x \in Byte, NEW y \in Byte
  PROVE  ToBeBytes(BeU16(<<x, y>>)) = <<x, y>>
<1>1. (x * 256 + y) \div 256 = x /\ (x * 256 + y) % 256 = y
  BY DEF Byte
<1>. QED
  BY <1>1 DEF ToBeBytes, BeU16

\* What copy_from_slice leaves at each offset.
LEMMA CopyAtValues ==
  ASSUME NEW b \in Seq(Byte), NEW p \in Int, NEW s \in Seq(Byte)
  PROVE  \A k \in 1..Len(b) :
           CopyAt(b, p, s)[k] = IF p < k /\ k <= p + Len(s) THEN s[k - p] ELSE b[k]
BY LenProperties DEF CopyAt

-----------------------------------------------------------------------------
(***************************************************************************)
(* Where the decoder is at each point of control: what has been read and *)
(* which state is still untouched.                                        *)
(***************************************************************************)
Shape ==
  /\ pc # "done" => ~cleared /\ sighash = NoSighash
  /\ pc \in {"idle"} \cup Decoding => buf = orig
  /\ pc \in {"singlesig", "msCount"} => pos = SPENDING_CONDITION_SIGNER_LEN
  /\ pc = "singlesig" => mode \in SinglesigModes
  /\ pc \in {"msCount", "msField"} => mode \notin SinglesigModes
  /\ pc = "msField" => /\ start = SPENDING_CONDITION_SIGNER_LEN
                      /\ start + 4 <= pos
                      /\ Len(fields) <= numFields
                      /\ Len(fields) <= Capacity
  /\ pc = "done" /\ cond.kind = "Singlesig" => cond.len = SINGLE_SPENDING_CONDITION_LEN

\* The inductive invariant: the shape and the four checked invariants.
Safe == Shape /\ DecodedWellFormed /\ ClearConfined /\ MultisigClearCanonical
          /\ SighashPlaceholder

\* Before init_sighash runs the placeholder property holds trivially.
LEMMA NoSighashPlaceholder ==
  sighash = NoSighash => SighashPlaceholder
BY DEF SighashPlaceholder, NoSighash

\* An error return outside the done state keeps Safe.
LEMMA FailSafe ==
  ASSUME TypeOK, Safe, pc # "done", NEW e \in Errors, Fail(e), UNCHANGED pos
  PROVE  Safe'
<1>1. pc' = "error" /\ UNCHANGED <<cleared, sighash>>
  BY DEF Fail
<1>2. ~cleared /\ sighash = NoSighash
  BY DEF Safe, Shape
<1>3. Shape'
  BY <1>1, <1>2 DEF Shape, Decoding
<1>4. (DecodedWellFormed /\ ClearConfined /\ MultisigClearCanonical)'
  BY <1>1 DEF DecodedWellFormed, ClearConfined, MultisigClearCanonical
<1>5. SighashPlaceholder'
  BY <1>1, <1>2 DEF SighashPlaceholder, NoSighash
<1>. QED
  BY <1>3, <1>4, <1>5 DEF Safe

\* A step that ends outside the done state keeps Safe once it keeps Shape.
LEMMA NotDoneSafe ==
  ASSUME Shape', pc' # "done", sighash' = NoSighash
  PROVE  Safe'
<1>1. (DecodedWellFormed /\ ClearConfined /\ MultisigClearCanonical)'
  BY DEF DecodedWellFormed, ClearConfined, MultisigClearCanonical
<1>2. SighashPlaceholder'
  BY DEF SighashPlaceholder, NoSighash
<1>. QED
  BY <1>1, <1>2 DEF Safe

-----------------------------------------------------------------------------
(* One lemma per action of the decoder.                                   *)

\* SpendingConditionSigner::from_bytes and the dispatch on the hash mode.
LEMMA SignerSafe ==
  ASSUME TypeOK, Safe, NEW b \in Inputs, SignerFromBytes(b)
  PROVE  Safe'
<1>1. pc = "idle" /\ ~cleared /\ sighash = NoSighash
  BY DEF SignerFromBytes, Safe, Shape
<1>2. UNCHANGED <<cleared, sighash>> /\ buf' = orig'
  BY DEF SignerFromBytes
<1>3. CASE pc' = "error"
  <2>1. Shape'
    BY <1>1, <1>2, <1>3 DEF Shape, Decoding
  <2>. QED
    BY <1>1, <1>2, <1>3, <2>1, NotDoneSafe
<1>4. CASE pc' # "error"
  <2>1. /\ pos' = SPENDING_CONDITION_SIGNER_LEN
        /\ mode' = b[1]
        /\ pc' = IF b[1] \in SinglesigModes THEN "singlesig" ELSE "msCount"
    BY <1>4 DEF SignerFromBytes
  <2>2. Shape'
    BY <1>1, <1>2, <2>1 DEF Shape, Decoding
  <2>. QED
    BY <1>1, <1>2, <2>1, <2>2, NotDoneSafe
<1>. QED
  BY <1>3, <1>4

\* SinglesigSpendingCondition::from_bytes and the P2WPKH check.
LEMMA SinglesigSafe ==
  ASSUME TypeOK, Safe, SinglesigFromBytes
  PROVE  Safe'
<1>1. /\ pc = "singlesig" /\ ~cleared /\ sighash = NoSighash /\ buf = orig
      /\ pos = SPENDING_CONDITION_SIGNER_LEN /\ mode \in SinglesigModes
  BY DEF SinglesigFromBytes, Safe, Shape, Decoding
<1>2. CASE \E e \in Errors : Fail(e) /\ UNCHANGED pos
  BY <1>1, <1>2, FailSafe
<1>3. CASE /\ Len(buf) - pos >= SINGLE_SPENDING_CONDITION_LEN
           /\ buf[pos + 1] \in KeyEncodings /\ IsValidHashMode(buf[pos + 1], mode)
           /\ pc' = "done"
           /\ cond' = [kind |-> "Singlesig", at |-> pos,
                       len |-> SINGLE_SPENDING_CONDITION_LEN,
                       fields |-> <<>>, required |-> 0]
           /\ pos' = pos + SINGLE_SPENDING_CONDITION_LEN
           /\ UNCHANGED <<buf, orig, mode, start, numFields, fields, err,
                          cleared, sighash>>
  <2>1. Shape'
    BY <1>3 DEF Shape, Decoding
  <2>2. DecodedWellFormed'
    <3>1. cond'.at + cond'.len = pos' /\ pos' <= Len(orig')
      <4>1. cond'.at = pos /\ cond'.len = SINGLE_SPENDING_CONDITION_LEN
        BY <1>3
      <4>2. Len(orig') = Len(buf) /\ Len(buf) \in Nat
        BY <1>1, <1>3 DEF TypeOK
      <4>3. SINGLE_SPENDING_CONDITION_LEN \in Nat /\ pos \in Nat
        BY DEF SINGLE_SPENDING_CONDITION_LEN, TypeOK
      <4>. QED
        BY <1>3, <4>1, <4>2, <4>3
    <3>2. (cond'.kind = "Singlesig") = (mode' \in SinglesigModes)
      BY <1>1, <1>3
    <3>3. /\ cond'.at = SPENDING_CONDITION_SIGNER_LEN
          /\ orig'[cond'.at + 1] \in KeyEncodings
          /\ (mode' = P2WPKH => orig'[cond'.at + 1] = Compressed)
      BY <1>1, <1>3 DEF IsValidHashMode
    <3>. QED
      BY <1>3, <3>1, <3>2, <3>3 DEF DecodedWellFormed
  <2>3. ClearConfined'
    BY <1>1, <1>3 DEF ClearConfined
  <2>4. MultisigClearCanonical'
    BY <1>1, <1>3 DEF MultisigClearCanonical
  <2>5. SighashPlaceholder'
    BY <1>1, <1>3 DEF SighashPlaceholder, NoSighash
  <2>. QED
    BY <2>1, <2>2, <2>3, <2>4, <2>5 DEF Safe
<1>. QED
  BY <1>2, <1>3, Zenon DEF SinglesigFromBytes, Errors

\* MultisigSpendingCondition::from_bytes: the u32 count.
LEMMA CountSafe ==
  ASSUME TypeOK, TypeOK', Safe, MultisigReadCount
  PROVE  Safe'
<1>1. /\ pc = "msCount" /\ ~cleared /\ sighash = NoSighash /\ buf = orig
      /\ pos = SPENDING_CONDITION_SIGNER_LEN /\ mode \notin SinglesigModes
  BY DEF MultisigReadCount, Safe, Shape, Decoding
<1>2. CASE \E e \in Errors : Fail(e) /\ UNCHANGED pos
  BY <1>1, <1>2, FailSafe
<1>3. CASE /\ start' = pos
           /\ numFields' = BeU32(Bytes(buf, pos, 4))
           /\ fields' = <<>>
           /\ pos' = pos + 4
           /\ pc' = "msField"
           /\ UNCHANGED <<buf, orig, mode, cond, err, cleared, sighash>>
  <2>1. numFields' \in Nat /\ Len(fields') = 0
    BY <1>3 DEF TypeOK
  <2>2. Shape'
    BY <1>1, <1>3, <2>1 DEF Shape, Decoding
  <2>. QED
    BY <1>1, <1>3, <2>2, NotDoneSafe
<1>. QED
  BY <1>2, <1>3, Zenon DEF MultisigReadCount, Errors

\* One auth field: TransactionAuthField::from_bytes and auth_fields[i] = tx.
LEMMA FieldSafe ==
  ASSUME TypeOK, TypeOK', Safe, MultisigReadField
  PROVE  Safe'
<1>1. /\ pc = "msField" /\ ~cleared /\ sighash = NoSighash /\ buf = orig
      /\ mode \notin SinglesigModes
      /\ start = SPENDING_CONDITION_SIGNER_LEN /\ start + 4 <= pos
      /\ Len(fields) < numFields /\ Len(fields) <= Capacity
  BY DEF MultisigReadField, Safe, Shape, Decoding
<1>2. CASE \E e \in Errors : Fail(e) /\ UNCHANGED pos
  BY <1>1, <1>2, FailSafe
<1>3. CASE /\ pc' = "panic"
           /\ UNCHANGED <<buf, orig, pos, mode, start, numFields, fields, cond,
                          err, cleared, sighash>>
  <2>1. Shape'
    BY <1>1, <1>3 DEF Shape, Decoding
  <2>. QED
    BY <1>1, <1>3, <2>1, NotDoneSafe
<1>4. CASE /\ buf[pos + 1] \in AuthFieldIDs
           /\ Len(fields) < Capacity
           /\ fields' = Append(fields, [id |-> buf[pos + 1], at |-> pos + 1])
           /\ pos' = FieldEnd(pos, buf[pos + 1])
           /\ UNCHANGED <<pc, buf, orig, mode, start, numFields, cond, err,
                          cleared, sighash>>
  <2>1. Len(fields') = Len(fields) + 1
    <3>1. [id |-> buf[pos + 1], at |-> pos + 1] \in AuthField
      BY <1>4 DEF AuthField, TypeOK
    <3>. QED
      BY <1>4, <3>1, AppendProperties DEF TypeOK
  <2>2. pos' > pos
    BY <1>4 DEF FieldEnd, AuthFieldLen, TypeOK
  <2>3. Shape'
    BY <1>1, <1>4, <2>1, <2>2 DEF Shape, Decoding, TypeOK
  <2>. QED
    BY <1>1, <1>4, <2>3, NotDoneSafe
<1>. QED
  BY <1>2, <1>3, <1>4, Zenon DEF MultisigReadField, Errors

\* After the loop: the required count, its bound and the raw span.
LEMMA RequiredSafe ==
  ASSUME TypeOK, TypeOK', Safe, MultisigReadRequired
  PROVE  Safe'
<1>1. /\ pc = "msField" /\ ~cleared /\ sighash = NoSighash /\ buf = orig
      /\ mode \notin SinglesigModes
      /\ start = SPENDING_CONDITION_SIGNER_LEN /\ start + 4 <= pos
      /\ Len(fields) = numFields /\ numFields <= Capacity
  BY DEF MultisigReadRequired, Safe, Shape, Decoding, TypeOK
<1>2. CASE \E e \in Errors : Fail(e) /\ UNCHANGED pos
  BY <1>1, <1>2, FailSafe
<1>3. CASE /\ Len(buf) - pos >= 2
           /\ BeU16(Bytes(buf, pos, 2)) <= numFields
           /\ pc' = "done"
           /\ cond' = [kind |-> "Multisig", at |-> start, len |-> pos + 2 - start,
                       fields |-> fields, required |-> BeU16(Bytes(buf, pos, 2))]
           /\ pos' = pos + 2
           /\ UNCHANGED <<buf, orig, mode, start, numFields, fields, err,
                          cleared, sighash>>
  <2>1. Shape'
    BY <1>3 DEF Shape, Decoding
  <2>2. DecodedWellFormed'
    <3>1. cond'.at + cond'.len = pos' /\ pos' <= Len(orig')
      <4>1. cond'.at = start /\ cond'.len = pos + 2 - start
        BY <1>3
      <4>2. Len(orig') = Len(buf) /\ Len(buf) \in Nat /\ pos \in Nat /\ start \in Nat
        BY <1>1, <1>3 DEF TypeOK
      <4>. QED
        BY <1>3, <4>1, <4>2
    <3>2. (cond'.kind = "Singlesig") = (mode' \in SinglesigModes)
      BY <1>1, <1>3
    <3>3. /\ cond'.at = SPENDING_CONDITION_SIGNER_LEN
          /\ Len(cond'.fields) = numFields'
          /\ numFields' <= Capacity
          /\ cond'.required <= numFields'
          /\ cond'.len >= 6
      BY <1>1, <1>3 DEF TypeOK
    <3>4. BeU16(Bytes(orig', pos' - 2, 2)) = cond'.required
      BY <1>1, <1>3 DEF TypeOK
    <3>. QED
      BY <1>3, <3>1, <3>2, <3>3, <3>4 DEF DecodedWellFormed
  <2>3. ClearConfined'
    BY <1>1, <1>3 DEF ClearConfined
  <2>4. MultisigClearCanonical'
    BY <1>1, <1>3 DEF MultisigClearCanonical
  <2>5. SighashPlaceholder'
    BY <1>1, <1>3 DEF SighashPlaceholder, NoSighash
  <2>. QED
    BY <2>1, <2>2, <2>3, <2>4, <2>5 DEF Safe
<1>. QED
  BY <1>2, <1>3, Zenon DEF MultisigReadRequired, Errors

-----------------------------------------------------------------------------
(* Clearing, init_sighash and the end of an operation.                    *)

\* A step that only writes the caller's buffer keeps what depends on the
\* decoded condition and the placeholder.
LEMMA BufferOnlySafe ==
  ASSUME Safe, pc = "done",
         UNCHANGED <<pc, orig, pos, mode, start, numFields, fields, cond, err, sighash>>
  PROVE  (Shape /\ DecodedWellFormed /\ SighashPlaceholder)'
<1>1. Shape'
  BY DEF Safe, Shape, Decoding
<1>2. DecodedWellFormed'
  BY DEF Safe, DecodedWellFormed
<1>3. SighashPlaceholder'
  BY DEF Safe, SighashPlaceholder, IsSinglesig, IsMultisig, RequiredSignatures
<1>. QED
  BY <1>1, <1>2, <1>3

\* SinglesigSpendingCondition::clear_signature writes inside the witness.
LEMMA SinglesigClearSafe ==
  ASSUME TypeOK, Safe, SinglesigClearSignature
  PROVE  Safe'
<1> DEFINE at == cond.at
           b1 == Fill(buf, at, 1, Compressed)
<1>1. /\ pc = "done" /\ cond.kind = "Singlesig"
      /\ at \in Nat /\ cond.len = 1 + SigLen
      /\ Len(buf) = Len(orig)
      /\ \A k \in 1..Len(buf) : buf[k] # orig[k] => k \in at + 1 .. at + cond.len
  BY DEF SinglesigClearSignature, Safe, Shape, ClearConfined, WitnessContent,
         SINGLE_SPENDING_CONDITION_LEN, TypeOK, Condition
<1>2. buf' = Fill(b1, at, SigLen, 0) /\ cleared' = TRUE
      /\ UNCHANGED <<pc, orig, pos, mode, start, numFields, fields, cond, err, sighash>>
  BY DEF SinglesigClearSignature
<1>0. buf \in Seq(Byte) /\ at \in Int /\ SigLen \in Int /\ Compressed \in Byte /\ 0 \in Byte
  BY <1>1 DEF TypeOK, Compressed, Byte
<1>3. /\ b1 \in Seq(Byte) /\ Len(b1) = Len(buf)
      /\ \A k \in 1..Len(buf) : b1[k] = IF at < k /\ k <= at + 1 THEN Compressed ELSE buf[k]
  BY <1>0, FillType
<1>4. /\ Len(buf') = Len(buf)
      /\ \A k \in 1..Len(buf) : buf'[k] = IF at < k /\ k <= at + SigLen THEN 0 ELSE b1[k]
  <2>1. /\ Len(Fill(b1, at, SigLen, 0)) = Len(b1)
        /\ \A k \in 1..Len(b1) :
             Fill(b1, at, SigLen, 0)[k] = IF at < k /\ k <= at + SigLen THEN 0 ELSE b1[k]
    BY <1>0, <1>3, FillType
  <2>. QED
    BY <1>2, <1>3, <2>1
<1>5. ClearConfined'
  <2>1. \A k \in 1..Len(buf') : buf'[k] # orig'[k] => k \in WitnessContent(cond')
    BY <1>1, <1>2, <1>3, <1>4 DEF WitnessContent
  <2>. QED
    BY <1>1, <1>2, <1>4, <2>1 DEF ClearConfined
<1>6. MultisigClearCanonical'
  BY <1>1, <1>2 DEF MultisigClearCanonical, IsMultisig
<1>. QED
  BY <1>1, <1>2, <1>5, <1>6, BufferOnlySafe DEF Safe

\* MultisigSpendingCondition::clear_signature zeroes raw but its count.
LEMMA MultisigClearSafe ==
  ASSUME TypeOK, Safe, MultisigClearSignature
  PROVE  Safe'
<1> DEFINE at == cond.at
           n == cond.len - 2
<1>1. /\ pc = "done" /\ cond.kind = "Multisig"
      /\ at \in Nat /\ n \in Nat /\ at + n + 2 <= Len(buf)
      /\ Len(buf) = Len(orig)
      /\ \A k \in 1..Len(buf) : buf[k] # orig[k] => k \in at + 1 .. at + n
  BY DEF MultisigClearSignature, Safe, DecodedWellFormed, ClearConfined,
         WitnessContent, TypeOK, Condition
<1>2. buf' = Fill(buf, at, n, 0) /\ cleared' = TRUE
      /\ UNCHANGED <<pc, orig, pos, mode, start, numFields, fields, cond, err, sighash>>
  BY DEF MultisigClearSignature
<1>3. /\ Len(buf') = Len(buf)
      /\ \A k \in 1..Len(buf) : buf'[k] = IF at < k /\ k <= at + n THEN 0 ELSE buf[k]
  <2>1. buf \in Seq(Byte) /\ at \in Int /\ n \in Int /\ 0 \in Byte
    BY <1>1 DEF TypeOK, Byte
  <2>2. /\ Len(Fill(buf, at, n, 0)) = Len(buf)
        /\ \A k \in 1..Len(buf) :
             Fill(buf, at, n, 0)[k] = IF at < k /\ k <= at + n THEN 0 ELSE buf[k]
    BY <2>1, FillType
  <2>. QED
    BY <1>2, <2>2
<1>4. WitnessContent(cond') = at + 1 .. at + n
  BY <1>1, <1>2 DEF WitnessContent
<1>5. ClearConfined'
  BY <1>1, <1>2, <1>3, <1>4 DEF ClearConfined
<1>6. MultisigClearCanonical'
  <2>1. \A k \in at + 1 .. at + n : k \in 1..Len(buf) /\ at < k /\ k <= at + n
    BY <1>1
  <2>2. \A k \in at + 1 .. at + n : buf'[k] = 0
    BY <1>3, <2>1
  <2>. QED
    BY <1>4, <2>2 DEF MultisigClearCanonical
<1>. QED
  BY <1>1, <1>2, <1>5, <1>6, BufferOnlySafe DEF Safe

\* The caller drops the condition: back to the idle state.
LEMMA EndSafe ==
  ASSUME Safe, EndOperation
  PROVE  Safe'
<1>1. Shape'
  BY DEF EndOperation, Shape, Decoding
<1>. QED
  BY <1>1, NotDoneSafe DEF EndOperation

\* The count a multisig condition reports, written back big-endian, is the
\* two bytes it was read from (required_signatures().to_be_bytes()).
LEMMA RequiredBytes ==
  ASSUME TypeOK, DecodedWellFormed, pc = "done", cond.kind = "Multisig"
  PROVE  /\ ToBeBytes(RequiredSignatures) = Bytes(orig, pos - 2, 2)
         /\ ToBeBytes(RequiredSignatures) \in Seq(Byte)
         /\ Len(ToBeBytes(RequiredSignatures)) = 2
<1>1. pos - 2 \in Nat /\ pos - 2 + 2 <= Len(orig) /\ orig \in Seq(Byte)
  BY DEF DecodedWellFormed, TypeOK, Condition
<1> DEFINE p == pos - 2
<1>2. Bytes(orig, p, 2) = <<orig[p + 1], orig[p + 2]>>
  BY <1>1, BytesPair
<1>3. orig[p + 1] \in Byte /\ orig[p + 2] \in Byte
  <2>1. p + 1 \in 1..Len(orig) /\ p + 2 \in 1..Len(orig)
    BY <1>1
  <2>. QED
    BY <1>1, <2>1, ElementOfSeq
<1>4. RequiredSignatures = BeU16(<<orig[p + 1], orig[p + 2]>>)
  BY <1>2 DEF DecodedWellFormed, RequiredSignatures
<1>5. ToBeBytes(RequiredSignatures) = <<orig[p + 1], orig[p + 2]>>
  BY <1>3, <1>4, BeU16ToBeBytes
<1>. QED
  BY <1>2, <1>3, <1>5

\* MultisigSpendingCondition / SinglesigSpendingCondition::init_sighash
\* write the placeholder the hash is computed over, or refuse a short buffer.
LEMMA InitSighashSafe ==
  ASSUME TypeOK, Safe, NEW n \in SighashBufLens, InitSighash(n)
  PROVE  Safe'
<1> DEFINE dst == [k \in 1..n |-> Filler]
           need == IF IsSinglesig THEN STANDARD_SINGLESIG_AUTH_LEN
                                  ELSE STANDARD_MULTISIG_AUTH_LEN
<1>0. /\ pc = "done" /\ cond.kind \in {"Singlesig", "Multisig"}
      /\ UNCHANGED <<pc, buf, orig, pos, mode, start, numFields, fields, cond, err, cleared>>
  BY DEF InitSighash, Safe, DecodedWellFormed
<1>1. n \in Nat /\ dst \in Seq(Byte) /\ Len(dst) = n /\ 0 \in Byte
  BY ConstSeqType DEF Byte
<1>2. (Shape /\ DecodedWellFormed /\ ClearConfined /\ MultisigClearCanonical)'
  BY <1>0 DEF Safe, Shape, Decoding, DecodedWellFormed, ClearConfined,
              MultisigClearCanonical, WitnessContent, IsMultisig
<1>3. SighashPlaceholder'
  <2>1. CASE IsSinglesig /\ n >= STANDARD_SINGLESIG_AUTH_LEN
    <3> DEFINE o == Fill(dst, 0, STANDARD_SINGLESIG_AUTH_LEN, 0)
    <3>1. sighash' = [buf |-> o, len |-> STANDARD_SINGLESIG_AUTH_LEN, err |-> "none"]
      BY <2>1 DEF InitSighash
    <3>2. /\ Len(o) = n
          /\ \A k \in 1..n : o[k] = IF 0 < k /\ k <= STANDARD_SINGLESIG_AUTH_LEN
                                    THEN 0 ELSE Filler
      BY <1>1, FillType DEF STANDARD_SINGLESIG_AUTH_LEN, SINGLE_SPENDING_CONDITION_LEN
    <3>3. need = STANDARD_SINGLESIG_AUTH_LEN /\ ~IsMultisig'
      BY <1>0, <2>1 DEF IsSinglesig, IsMultisig
    <3>. QED
      BY <1>0, <2>1, <3>1, <3>2, <3>3
         DEF SighashPlaceholder, IsSinglesig, STANDARD_SINGLESIG_AUTH_LEN,
             SINGLE_SPENDING_CONDITION_LEN
  <2>2. CASE ~(IsSinglesig /\ n >= STANDARD_SINGLESIG_AUTH_LEN)
             /\ IsMultisig /\ n >= STANDARD_MULTISIG_AUTH_LEN
    <3> DEFINE f == Fill(dst, 0, 20, 0)
               t == ToBeBytes(RequiredSignatures)
               o == CopyAt(f, 20, t)
    <3>1. sighash' = [buf |-> o, len |-> STANDARD_MULTISIG_AUTH_LEN, err |-> "none"]
      BY <2>2 DEF InitSighash
    <3> HIDE DEF o, f, t
    <3>2. /\ t = Bytes(orig, pos - 2, 2) /\ t \in Seq(Byte) /\ Len(t) = 2
      BY <1>0, <2>2, RequiredBytes DEF Safe, IsMultisig, t
    <3>3. /\ f \in Seq(Byte) /\ Len(f) = n
          /\ \A k \in 1..n : f[k] = IF 0 < k /\ k <= 20 THEN 0 ELSE Filler
      BY <1>1, FillType DEF f
    <3>4. o \in Seq(Byte) /\ Len(o) = n
      BY <3>2, <3>3, CopyAtType DEF o
    <3>5. \A k \in 1..n : o[k] = IF 20 < k /\ k <= 22 THEN t[k - 20] ELSE f[k]
      <4>1. \A k \in 1..Len(f) : o[k] = IF 20 < k /\ k <= 20 + Len(t) THEN t[k - 20] ELSE f[k]
        BY <3>2, <3>3, CopyAtValues DEF o
      <4>. QED
        BY <3>2, <3>3, <4>1
    <3>6. n >= 22
      BY <2>2 DEF STANDARD_MULTISIG_AUTH_LEN
    <3>7. /\ \A k \in 1..n : k > 22 => o[k] = Filler
          /\ \A k \in 1..20 : o[k] = 0
          /\ o[21] = t[1] /\ o[22] = t[2]
      BY <1>1, <3>3, <3>5, <3>6
    <3>8. Bytes(o, 20, 2) = <<o[21], o[22]>>
      BY <3>4, <3>6, BytesPair
    <3>9. t = <<t[1], t[2]>>
      BY <3>2
    <3>10. Bytes(o, 20, 2) = Bytes(orig, pos - 2, 2)
      BY <3>2, <3>7, <3>8, <3>9
    <3>11. IsMultisig' /\ ~IsSinglesig' /\ orig' = orig /\ pos' = pos
      BY <1>0, <2>2 DEF IsSinglesig, IsMultisig
    <3>. QED
      BY <3>1, <3>4, <3>6, <3>7, <3>10, <3>11
         DEF SighashPlaceholder, STANDARD_MULTISIG_AUTH_LEN
  <2>3. CASE ~(IsSinglesig /\ n >= STANDARD_SINGLESIG_AUTH_LEN)
             /\ ~(IsMultisig /\ n >= STANDARD_MULTISIG_AUTH_LEN)
    <3>1. sighash' = [buf |-> dst, len |-> 0, err |-> "NoData"]
      BY <2>3 DEF InitSighash
    <3>2. n < need
      BY <1>0, <1>1, <2>3 DEF IsSinglesig, IsMultisig, STANDARD_SINGLESIG_AUTH_LEN,
                              SINGLE_SPENDING_CONDITION_LEN, STANDARD_MULTISIG_AUTH_LEN
    <3>. QED
      BY <1>0, <1>1, <3>1, <3>2 DEF SighashPlaceholder, IsSinglesig
  <2>. QED
    BY <2>1, <2>2, <2>3
<1>. QED
  BY <1>2, <1>3 DEF Safe

-----------------------------------------------------------------------------
(* The invariant.                                                         *)

\* Every step of the signing flow, a stutter included, keeps Safe.
LEMMA SafeStep == TypeOK /\ TypeOK' /\ Safe /\ [Next]_vars => Safe'
<1> SUFFICES ASSUME TypeOK, TypeOK', Safe, [Next]_vars PROVE Safe'
  OBVIOUS
<1>1. CASE \E b \in Inputs : SignerFromBytes(b)
  BY <1>1, SignerSafe
<1>2. CASE SinglesigFromBytes
  BY <1>2, SinglesigSafe
<1>3. CASE MultisigReadCount
  BY <1>3, CountSafe
<1>4. CASE MultisigReadField
  BY <1>4, FieldSafe
<1>5. CASE MultisigReadRequired
  BY <1>5, RequiredSafe
<1>6. CASE SinglesigClearSignature
  BY <1>6, SinglesigClearSafe
<1>7. CASE MultisigClearSignature
  BY <1>7, MultisigClearSafe
<1>8. CASE \E n \in SighashBufLens : InitSighash(n)
  BY <1>8, InitSighashSafe
<1>9. CASE EndOperation
  BY <1>9, EndSafe
<1>10. CASE UNCHANGED vars
  BY <1>10 DEF vars, Safe, Shape, Decoding, DecodedWellFormed, ClearConfined,
               WitnessContent, MultisigClearCanonical, SighashPlaceholder,
               IsSinglesig, IsMultisig
<1>. QED
  BY <1>1, <1>2, <1>3, <1>4, <1>5, <1>6, <1>7, <1>8, <1>9, <1>10 DEF Next, Parse

\* The host's first buffer finds the decoder idle, with nothing decoded.
LEMMA InitSafe == Init => Safe
<1> SUFFICES ASSUME Init PROVE Safe
  OBVIOUS
<1>1. Shape
  BY DEF Init, Idle, Shape, Decoding
<1>. QED
  BY <1>1 DEF Init, Idle, Safe, DecodedWellFormed,
     ClearConfined, MultisigClearCanonical, SighashPlaceholder, NoSighash

(***************************************************************************)
(* Safe holds in every state of the signing flow, for every value of the  *)
(* constants: from the first from_bytes through clear_signature,          *)
(* init_sighash and the end of the operation.                             *)
(***************************************************************************)
THEOREM SafetyInvariant == Spec => []Safe
<1>1. Init => Safe
  BY InitSafe
<1>2. TypeOK /\ TypeOK' /\ Safe /\ [Next]_vars => Safe'
  BY SafeStep
<1>3. Spec => []TypeOK
  BY TypeCorrect
<1>. QED
  BY <1>1, <1>2, <1>3, PTL DEF Spec

(***************************************************************************)
(* A condition TransactionSpendingCondition::from_bytes accepted is well  *)
(* formed, for every length of hash, signature and key and every field    *)
(* capacity: it ends where the cursor stopped, inside the buffer; its     *)
(* kind agrees with the hash mode; a singlesig witness has a valid key    *)
(* encoding (compressed under P2WPKH); a multisig keeps no more fields    *)
(* than declared and the capacity, requires no more signatures than it    *)
(* has fields, and its count is the last two bytes it consumed.           *)
(***************************************************************************)
THEOREM DecodedWellFormedHolds == Spec => []DecodedWellFormed
BY SafetyInvariant, PTL DEF Safe

(***************************************************************************)
(* While a condition is decoded, clear_signature writes only inside its   *)
(* witness content: the caller's buffer keeps its length and differs from *)
(* what the host supplied at no byte of the signer record, the multisig   *)
(* required count or the rest of the transaction.                         *)
(***************************************************************************)
THEOREM ClearConfinedHolds == Spec => []ClearConfined
BY SafetyInvariant, PTL DEF Safe

(***************************************************************************)
(* After MultisigSpendingCondition::clear_signature every byte of the raw *)
(* span but the required count is zero, whatever the fields held.         *)
(***************************************************************************)
THEOREM MultisigClearCanonicalHolds == Spec => []MultisigClearCanonical
BY SafetyInvariant, PTL DEF Safe

(***************************************************************************)
(* init_sighash writes the placeholder of the code's layout (zeroed       *)
(* fee, nonce and field count, then the required count big-endian for a   *)
(* multisig) and the filler beyond it, and reports NoData only for a      *)
(* buffer too short to hold it.                                           *)
(***************************************************************************)
THEOREM SighashPlaceholderHolds == Spec => []SighashPlaceholder
BY SafetyInvariant, PTL DEF Safe
=============================================================================
