------------------------- MODULE SpendingCondition -------------------------
(***************************************************************************)
(* The spending-condition decoder of app/rust/src/parser/                 *)
(* spending_condition.rs, followed through one signing operation:         *)
(*                                                                         *)
(*   TransactionSpendingCondition::from_bytes  (signer, then one witness)  *)
(*   SpendingConditionSignature::clear_signature  (in-place canonicalising)*)
(*   TransactionSpendingCondition::init_sighash  (placeholder into a       *)
(*                                                caller buffer)           *)
(*                                                                         *)
(* The multisig decoder's loop over auth fields is one step per field, so *)
(* its early returns happen in the order the code takes them.  A new      *)
(* signing operation starts over with a fresh buffer from the host: no    *)
(* state survives from one operation to the next.                          *)
(*                                                                         *)
(* Bytes are the integers 0..255; offsets are 0-based, the byte at offset *)
(* p of a buffer b being b[p + 1].  The lengths of the hash, signature and *)
(* public key and the auth-field capacity are constants (20, 65, 33, 16   *)
(* in the code) so that TLC can run with small ones; the fixed-width      *)
(* integers (u64 nonce and fee, u32 count, u16 required count) keep their *)
(* widths.                                                                 *)
(***************************************************************************)
EXTENDS Naturals, Sequences

CONSTANTS HashLen,        \* public-key hash bytes (20)
          SigLen,         \* SIGNATURE_LEN (65)
          PubkeyLen,      \* PUBKEY_LEN (33)
          Capacity,       \* capacity of the auth_fields ArrayVec (16)
          Inputs,         \* the buffers the host may hand to from_bytes
          SighashBufLens, \* lengths of the caller buffer given to init_sighash
          Filler          \* the byte that caller buffer holds beforehand

Byte == 0..255
\* The values of a u16.
U16 == {v \in Nat : v < 65536}

ASSUME LenAssumption ==
  /\ HashLen \in Nat \ {0}
  /\ SigLen \in Nat \ {0}
  /\ PubkeyLen \in Nat \ {0}
  /\ Capacity \in Nat
ASSUME InputAssumption ==
  /\ Inputs \subseteq Seq(Byte)
  /\ SighashBufLens \subseteq Nat
  /\ Filler \in Byte

-----------------------------------------------------------------------------
(* Constants and enumerations of the source.                              *)

SPENDING_CONDITION_SIGNER_LEN == 1 + HashLen + 8 + 8
SINGLE_SPENDING_CONDITION_LEN == 1 + SigLen
\* 16 bytes of fee and nonce + the 66-byte singlesig witness
STANDARD_SINGLESIG_AUTH_LEN == 16 + SINGLE_SPENDING_CONDITION_LEN
\* 16 bytes of fee and nonce + 4-byte field count + 2-byte required count
STANDARD_MULTISIG_AUTH_LEN == 22

\* HashMode (parser_common): P2PKH = 0, P2WPKH = 1, P2SH = 2, P2WSH = 3.
P2PKH == 0
P2WPKH == 1
HashModes == 0..3
SinglesigModes == {0, 1}

\* TransactionPublicKeyEncoding and TransactionAuthFieldID.
Compressed == 0
Uncompressed == 1
KeyEncodings == {Compressed, Uncompressed}
AuthFieldIDs == 0..3
PublicKeyIDs == {0, 1}

Errors == {"InsufficientData", "UnexpectedValue", "InvalidPublicKeyEncoding",
           "ValueOutOfRange", "NoData"}

\* Mutant: the P2WPKH rule applied to the wrong mode.
IsValidHashModeP2PKH(enc, m) == ~(m = P2PKH /\ enc # Compressed)

\* BIPs 141/143: a P2WPKH signer must use a compressed key.
IsValidHashMode(enc, m) == ~(m = P2WPKH /\ enc # Compressed)

\* Mutant: the key and signature lengths swapped.
AuthFieldLenSwapped(id) == IF id \in PublicKeyIDs THEN SigLen ELSE PubkeyLen

\* Payload length after the tag byte of an auth field.
AuthFieldLen(id) == IF id \in PublicKeyIDs THEN PubkeyLen ELSE SigLen

\* nom's be_u16 / be_u32 / be_u64 on the n bytes at offset p.
Bytes(b, p, n) == SubSeq(b, p + 1, p + n)
BeU16(s) == s[1] * 256 + s[2]
BeU32(s) == ((s[1] * 256 + s[2]) * 256 + s[3]) * 256 + s[4]
BeU64(s) == BeU32(<<s[1], s[2], s[3], s[4]>>) * 65536 * 65536
              + BeU32(<<s[5], s[6], s[7], s[8]>>)
\* Mutant: the count written little-endian.
ToLeBytes(v) == <<v % 256, v \div 256>>

\* u16::to_be_bytes
ToBeBytes(v) == <<v \div 256, v % 256>>

\* ptr.write_bytes(v, n) at offset p, and copy_from_slice at offset p.
Fill(b, p, n, v) == [k \in DOMAIN b |-> IF p < k /\ k <= p + n THEN v ELSE b[k]]
CopyAt(b, p, s) == [k \in DOMAIN b |-> IF p < k /\ k <= p + Len(s) THEN s[k - p] ELSE b[k]]

-----------------------------------------------------------------------------
VARIABLES
  pc,        \* where the signing operation is
  buf,       \* the caller's input buffer (clear_signature writes into it)
  orig,      \* history: the buffer as the host supplied it
  pos,       \* bytes consumed so far: offset of the unconsumed remainder
  mode,      \* hash mode decoded from the signer record
  start,     \* offset where MultisigSpendingCondition::from_bytes began
  numFields, \* the u32 field count read by the multisig decoder
  fields,    \* auth_fields: [id, at] per decoded field (at = payload offset)
  cond,      \* the decoded SpendingConditionSignature
  err,       \* the error from_bytes returned
  cleared,   \* history: clear_signature has run on this condition
  sighash    \* init_sighash: caller buffer, returned length, error

vars == <<pc, buf, orig, pos, mode, start, numFields, fields, cond, err,
          cleared, sighash>>

PCs == {"idle", "singlesig", "msCount", "msField", "done", "error", "panic"}
AuthField == [id : AuthFieldIDs, at : Nat]
Condition == [kind : {"None", "Singlesig", "Multisig"}, at : Nat, len : Nat,
              fields : Seq(AuthField), required : U16]
NoCondition == [kind |-> "None", at |-> 0, len |-> 0, fields |-> <<>>, required |-> 0]
NoSighash == [buf |-> <<>>, len |-> 0, err |-> "none"]

Fail(e) == /\ pc' = "error"
           /\ err' = e
           /\ UNCHANGED <<buf, orig, mode, start, numFields, fields, cond,
                          cleared, sighash>>

\* The state between signing operations: nothing decoded, nothing kept.
Idle ==
  /\ pc = "idle"
  /\ buf = <<>>
  /\ orig = <<>>
  /\ pos = 0
  /\ mode = 0
  /\ start = 0
  /\ numFields = 0
  /\ fields = <<>>
  /\ cond = NoCondition
  /\ err = "none"
  /\ cleared = FALSE
  /\ sighash = NoSighash

Init == Idle

\* Mutant: HashMode::try_from's rejection of unknown modes dropped.
SignerFromBytesNoModeCheck(b) ==
  /\ pc = "idle"
  /\ buf' = b
  /\ orig' = b
  /\ \/ /\ Len(b) < SPENDING_CONDITION_SIGNER_LEN
        /\ pc' = "error" /\ err' = "InsufficientData"
        /\ UNCHANGED <<pos, mode>>
     \/ /\ Len(b) >= SPENDING_CONDITION_SIGNER_LEN
        /\ pos' = SPENDING_CONDITION_SIGNER_LEN
        /\ mode' = b[1]
        /\ pc' = IF b[1] \in SinglesigModes THEN "singlesig" ELSE "msCount"
        /\ UNCHANGED err
  /\ UNCHANGED <<start, numFields, fields, cond, cleared, sighash>>

(***************************************************************************)
(* TransactionSpendingCondition::from_bytes, first part: a new signing    *)
(* operation hands buffer b to the decoder, which takes the 37-byte       *)
(* signer record and its hash mode and dispatches on the mode.            *)
(***************************************************************************)
SignerFromBytes(b) ==
  /\ pc = "idle"
  /\ buf' = b
  /\ orig' = b
  /\ \/ /\ Len(b) < SPENDING_CONDITION_SIGNER_LEN
        /\ pc' = "error" /\ err' = "InsufficientData"
        /\ UNCHANGED <<pos, mode>>
     \/ /\ Len(b) >= SPENDING_CONDITION_SIGNER_LEN
        /\ b[1] \notin HashModes
        /\ pc' = "error" /\ err' = "UnexpectedValue"
        /\ UNCHANGED <<pos, mode>>
     \/ /\ Len(b) >= SPENDING_CONDITION_SIGNER_LEN
        /\ b[1] \in HashModes
        /\ pos' = SPENDING_CONDITION_SIGNER_LEN
        /\ mode' = b[1]
        /\ pc' = IF b[1] \in SinglesigModes THEN "singlesig" ELSE "msCount"
        /\ UNCHANGED err
  /\ UNCHANGED <<start, numFields, fields, cond, cleared, sighash>>

(***************************************************************************)
(* SinglesigSpendingCondition::from_bytes and key_encoding, then the      *)
(* P2WPKH encoding check of TransactionSpendingCondition::from_bytes.     *)
(***************************************************************************)
SinglesigFromBytes ==
  /\ pc = "singlesig"
  /\ LET enc == buf[pos + 1] IN
     \/ /\ Len(buf) - pos < SINGLE_SPENDING_CONDITION_LEN
        /\ Fail("InsufficientData") /\ UNCHANGED pos
     \/ /\ Len(buf) - pos >= SINGLE_SPENDING_CONDITION_LEN
        /\ ~(enc \in KeyEncodings /\ IsValidHashMode(enc, mode))
        /\ Fail("InvalidPublicKeyEncoding") /\ UNCHANGED pos
     \/ /\ Len(buf) - pos >= SINGLE_SPENDING_CONDITION_LEN
        /\ enc \in KeyEncodings /\ IsValidHashMode(enc, mode)
        /\ pc' = "done"
        /\ cond' = [kind |-> "Singlesig", at |-> pos,
                    len |-> SINGLE_SPENDING_CONDITION_LEN,
                    fields |-> <<>>, required |-> 0]
        /\ pos' = pos + SINGLE_SPENDING_CONDITION_LEN
        /\ UNCHANGED <<buf, orig, mode, start, numFields, fields, err,
                       cleared, sighash>>

(***************************************************************************)
(* MultisigSpendingCondition::from_bytes: the u32 field count, then a     *)
(* fresh ArrayVec.  There is no check of the count against the capacity.  *)
(***************************************************************************)
MultisigReadCount ==
  /\ pc = "msCount"
  /\ \/ /\ Len(buf) - pos < 4
        /\ Fail("InsufficientData") /\ UNCHANGED pos
     \/ /\ Len(buf) - pos >= 4
        /\ start' = pos
        /\ numFields' = BeU32(Bytes(buf, pos, 4))
        /\ fields' = <<>>
        /\ pos' = pos + 4
        /\ pc' = "msField"
        /\ UNCHANGED <<buf, orig, mode, cond, err, cleared, sighash>>

\* The rest after the field at offset p: `end = e`.
FieldEnd(p, id) == p + 1 + AuthFieldLen(id)

(***************************************************************************)
(* One iteration i = Len(fields) of `for i in 0..num_fields`:             *)
(* TransactionAuthField::from_bytes (tag byte, then the key or the        *)
(* signature), then `auth_fields[i] = tx`, which is out of bounds, a      *)
(* panic, once i reaches the capacity.                                     *)
(***************************************************************************)
MultisigReadField ==
  /\ pc = "msField"
  /\ Len(fields) < numFields
  /\ LET id == buf[pos + 1] IN
     \/ /\ Len(buf) - pos < 1
        /\ Fail("InsufficientData") /\ UNCHANGED pos
     \/ /\ Len(buf) - pos >= 1
        /\ id \notin AuthFieldIDs
        /\ Fail("UnexpectedValue") /\ UNCHANGED pos
     \/ /\ Len(buf) - pos >= 1
        /\ id \in AuthFieldIDs
        /\ Len(buf) - pos - 1 < AuthFieldLen(id)
        /\ Fail("InsufficientData") /\ UNCHANGED pos
     \/ /\ Len(buf) - pos >= 1
        /\ id \in AuthFieldIDs
        /\ Len(buf) - pos - 1 >= AuthFieldLen(id)
        /\ Len(fields) >= Capacity
        /\ pc' = "panic"
        /\ UNCHANGED <<buf, orig, pos, mode, start, numFields, fields, cond,
                       err, cleared, sighash>>
     \/ /\ Len(buf) - pos >= 1
        /\ id \in AuthFieldIDs
        /\ Len(buf) - pos - 1 >= AuthFieldLen(id)
        /\ Len(fields) < Capacity
        /\ fields' = Append(fields, [id |-> id, at |-> pos + 1])
        /\ pos' = FieldEnd(pos, id)
        /\ UNCHANGED <<pc, buf, orig, mode, start, numFields, cond, err,
                       cleared, sighash>>

\* Mutant: the `signature_count > num_fields` check dropped.
MultisigReadRequiredNoBound ==
  /\ pc = "msField"
  /\ Len(fields) >= numFields
  /\ LET r == BeU16(Bytes(buf, pos, 2)) IN
     \/ /\ Len(buf) - pos < 2
        /\ Fail("InsufficientData") /\ UNCHANGED pos
     \/ /\ Len(buf) - pos >= 2
        /\ pc' = "done"
        /\ cond' = [kind |-> "Multisig", at |-> start, len |-> pos + 2 - start,
                    fields |-> fields, required |-> r]
        /\ pos' = pos + 2
        /\ UNCHANGED <<buf, orig, mode, start, numFields, fields, err,
                       cleared, sighash>>

(***************************************************************************)
(* After the loop: the u16 required count, `signature_count > num_fields` *)
(* and the raw span from the count to the end of the required count.      *)
(***************************************************************************)
MultisigReadRequired ==
  /\ pc = "msField"
  /\ Len(fields) >= numFields
  /\ LET r == BeU16(Bytes(buf, pos, 2)) IN
     \/ /\ Len(buf) - pos < 2
        /\ Fail("InsufficientData") /\ UNCHANGED pos
     \/ /\ Len(buf) - pos >= 2
        /\ r > numFields
        /\ Fail("ValueOutOfRange") /\ UNCHANGED pos
     \/ /\ Len(buf) - pos >= 2
        /\ r <= numFields
        /\ pc' = "done"
        /\ cond' = [kind |-> "Multisig", at |-> start, len |-> pos + 2 - start,
                    fields |-> fields, required |-> r]
        /\ pos' = pos + 2
        /\ UNCHANGED <<buf, orig, mode, start, numFields, fields, err,
                       cleared, sighash>>

(***************************************************************************)
(* SinglesigSpendingCondition::clear_signature: write Compressed at the   *)
(* first byte, then zero SIGNATURE_LEN bytes from that same pointer.      *)
(***************************************************************************)
SinglesigClearSignature ==
  /\ pc = "done"
  /\ cond.kind = "Singlesig"
  /\ buf' = Fill(Fill(buf, cond.at, 1, Compressed), cond.at, SigLen, 0)
  /\ cleared' = TRUE
  /\ UNCHANGED <<pc, orig, pos, mode, start, numFields, fields, cond, err,
                 sighash>>

\* Mutants: the whole raw span zeroed (count included); one byte short.
MultisigClearSignatureWhole ==
  /\ pc = "done"
  /\ cond.kind = "Multisig"
  /\ buf' = Fill(buf, cond.at, cond.len, 0)
  /\ cleared' = TRUE
  /\ UNCHANGED <<pc, orig, pos, mode, start, numFields, fields, cond, err,
                 sighash>>
MultisigClearSignatureShort ==
  /\ pc = "done"
  /\ cond.kind = "Multisig"
  /\ buf' = Fill(buf, cond.at, cond.len - 3, 0)
  /\ cleared' = TRUE
  /\ UNCHANGED <<pc, orig, pos, mode, start, numFields, fields, cond, err,
                 sighash>>

(***************************************************************************)
(* MultisigSpendingCondition::clear_signature: zero raw except its last   *)
(* two bytes, the required-signature count.                               *)
(***************************************************************************)
MultisigClearSignature ==
  /\ pc = "done"
  /\ cond.kind = "Multisig"
  /\ buf' = Fill(buf, cond.at, cond.len - 2, 0)
  /\ cleared' = TRUE
  /\ UNCHANGED <<pc, orig, pos, mode, start, numFields, fields, cond, err,
                 sighash>>

\* is_singlesig, is_multisig, required_signatures, num_auth_fields.
IsSinglesig == cond.kind = "Singlesig"
IsMultisig == cond.kind = "Multisig"
RequiredSignatures == cond.required
NumAuthFields == Len(cond.fields)

(***************************************************************************)
(* TransactionSpendingCondition::init_sighash on a caller buffer of n     *)
(* bytes, each holding Filler.                                            *)
(***************************************************************************)
InitSighash(n) ==
  /\ pc = "done"
  /\ LET dst == [k \in 1..n |-> Filler] IN
     \/ /\ IsSinglesig /\ n >= STANDARD_SINGLESIG_AUTH_LEN
        /\ sighash' = [buf |-> Fill(dst, 0, STANDARD_SINGLESIG_AUTH_LEN, 0),
                       len |-> STANDARD_SINGLESIG_AUTH_LEN, err |-> "none"]
     \/ /\ ~(IsSinglesig /\ n >= STANDARD_SINGLESIG_AUTH_LEN)
        /\ IsMultisig /\ n >= STANDARD_MULTISIG_AUTH_LEN
        /\ sighash' = [buf |-> CopyAt(Fill(dst, 0, 20, 0), 20,
                                      ToBeBytes(RequiredSignatures)),
                       len |-> STANDARD_MULTISIG_AUTH_LEN, err |-> "none"]
     \/ /\ ~(IsSinglesig /\ n >= STANDARD_SINGLESIG_AUTH_LEN)
        /\ ~(IsMultisig /\ n >= STANDARD_MULTISIG_AUTH_LEN)
        /\ sighash' = [buf |-> dst, len |-> 0, err |-> "NoData"]
  /\ UNCHANGED <<pc, buf, orig, pos, mode, start, numFields, fields, cond,
                 err, cleared>>

\* SpendingConditionSigner::nonce and fee: be_u64 at bytes 21..29, 29..37.
Nonce == BeU64(Bytes(orig, 1 + HashLen, 8))
Fee == BeU64(Bytes(orig, 1 + HashLen + 8, 8))

(***************************************************************************)
(* The signing flow is over (approved, rejected or aborted): the decoded  *)
(* views over the buffer are dropped and nothing is kept for the next.    *)
(***************************************************************************)
EndOperation ==
  /\ pc \in {"done", "error", "panic"}
  /\ pc' = "idle"
  /\ buf' = <<>>
  /\ orig' = <<>>
  /\ pos' = 0
  /\ mode' = 0
  /\ start' = 0
  /\ numFields' = 0
  /\ fields' = <<>>
  /\ cond' = NoCondition
  /\ err' = "none"
  /\ cleared' = FALSE
  /\ sighash' = NoSighash

-----------------------------------------------------------------------------
\* The decoder runs from_bytes to completion once called.
Parse ==
  \/ SinglesigFromBytes
  \/ MultisigReadCount
  \/ MultisigReadField
  \/ MultisigReadRequired

Next ==
  \/ \E b \in Inputs : SignerFromBytes(b)
  \/ Parse
  \/ SinglesigClearSignature
  \/ MultisigClearSignature
  \/ \E n \in SighashBufLens : InitSighash(n)
  \/ EndOperation

Spec == Init /\ [][Next]_vars /\ WF_vars(Parse)

\* The points of control inside from_bytes.
Decoding == {"singlesig", "msCount", "msField"}

-----------------------------------------------------------------------------
(* Properties.                                                            *)

Wire == INSTANCE WireFormat

TypeOK ==
  /\ pc \in PCs
  /\ buf \in Seq(Byte)
  /\ orig \in Seq(Byte)
  /\ pos \in Nat
  /\ mode \in HashModes
  /\ start \in Nat
  /\ numFields \in Nat
  /\ fields \in Seq(AuthField)
  /\ cond \in Condition
  /\ err \in Errors \cup {"none"}
  /\ cleared \in BOOLEAN
  /\ sighash \in [buf : Seq(Byte), len : Nat, err : Errors \cup {"none"}]

\* Offsets (as 1-based indices) of the witness content clear_signature
\* must erase: the whole singlesig witness, or the multisig raw span but
\* its trailing required-signature count.
WitnessContent(c) ==
  IF c.kind = "Singlesig" THEN c.at + 1 .. c.at + c.len
                          ELSE c.at + 1 .. c.at + c.len - 2

(***************************************************************************)
(* A condition from_bytes accepted obeys the data model: it ends where    *)
(* the unconsumed remainder begins; its shape is the one the hash mode    *)
(* selects; a singlesig witness has a valid encoding, compressed for      *)
(* P2WPKH; a multisig one holds exactly the declared number of fields,    *)
(* at most the capacity, requires no more signatures than it has fields,  *)
(* and its raw span ends with the required count it reports.             *)
(***************************************************************************)
DecodedWellFormed ==
  pc = "done" =>
    /\ cond.at + cond.len = pos
    /\ pos <= Len(orig)
    /\ cond.kind \in {"Singlesig", "Multisig"}
    /\ (cond.kind = "Singlesig") = (mode \in SinglesigModes)
    /\ cond.kind = "Singlesig" =>
         /\ cond.at = SPENDING_CONDITION_SIGNER_LEN
         /\ orig[cond.at + 1] \in KeyEncodings
         /\ (mode = P2WPKH => orig[cond.at + 1] = Compressed)
    /\ cond.kind = "Multisig" =>
         /\ cond.at = SPENDING_CONDITION_SIGNER_LEN
         /\ Len(cond.fields) = numFields
         /\ numFields <= Capacity
         /\ cond.required <= numFields
         /\ cond.len >= 6
         /\ BeU16(Bytes(orig, pos - 2, 2)) = cond.required

(***************************************************************************)
(* The step-wise decoder computes what the wire format prescribes: an     *)
(* accepted buffer is one the format accepts, with the same condition and *)
(* remainder; and, unless the declared field count exceeds the capacity,  *)
(* a rejected buffer is one the format rejects, with the same error (no   *)
(* abort).                                                                *)
(***************************************************************************)
ParseAgreesWithWireFormat ==
  LET w == Wire!Decode(orig) IN
  /\ pc = "done" => w.ok /\ w.cond = cond /\ w.rest = pos
  /\ pc \in {"error", "panic"} /\ ~Wire!Oversized(orig) =>
       pc = "error" /\ ~w.ok /\ w.err = err

(***************************************************************************)
(* clear_signature writes only witness content: the signer record, the   *)
(* multisig required count and every byte after the condition (the rest  *)
(* of the transaction that will be signed) keep the host's values.        *)
(***************************************************************************)
ClearConfined ==
  pc = "done" =>
    /\ Len(buf) = Len(orig)
    /\ \A k \in 1..Len(buf) : buf[k] # orig[k] => k \in WitnessContent(cond)

(***************************************************************************)
(* After clear_signature on a multisig condition every byte of the raw   *)
(* span but the required count is zero, whatever the fields held.         *)
(***************************************************************************)
MultisigClearCanonical ==
  pc = "done" /\ cleared /\ IsMultisig =>
    \A k \in WitnessContent(cond) : buf[k] = 0

(***************************************************************************)
(* Spec 4.2: after clear_signature on a singlesig condition the witness   *)
(* is the encoding Compressed followed by 65 zero bytes, so the sighash   *)
(* does not depend on the signature.                                      *)
(***************************************************************************)
SinglesigClearCanonical ==
  pc = "done" /\ cleared /\ IsSinglesig =>
    /\ buf[cond.at + 1] = Compressed
    /\ \A k \in cond.at + 2 .. cond.at + cond.len : buf[k] = 0

(***************************************************************************)
(* init_sighash writes the standard placeholder and nothing past it: 82  *)
(* zero bytes for singlesig; for multisig 20 zero bytes and then the two  *)
(* required-count bytes exactly as they stand in the host's transaction;  *)
(* it fails with NoData only when the caller buffer is too short.         *)
(***************************************************************************)
SighashPlaceholder ==
  LET o == sighash.buf
      need == IF IsSinglesig THEN STANDARD_SINGLESIG_AUTH_LEN
                             ELSE STANDARD_MULTISIG_AUTH_LEN
  IN
  /\ sighash.len > 0 =>
       /\ sighash.len = need
       /\ Len(o) >= need
       /\ \A k \in 1..Len(o) : k > need => o[k] = Filler
       /\ IsSinglesig => \A k \in 1..need : o[k] = 0
       /\ IsMultisig => /\ \A k \in 1..20 : o[k] = 0
                        /\ Bytes(o, 20, 2) = Bytes(orig, pos - 2, 2)
  /\ sighash.err = "NoData" => Len(o) < need

(***************************************************************************)
(* Spec 4.4 step 2: a field count above the capacity fails with           *)
(* ValueOutOfRange before any field is read, never with another error and *)
(* never by an abort.                                                     *)
(***************************************************************************)
OversizedCountRejected ==
  pc \in {"done", "error", "panic"} /\ numFields > Capacity =>
    pc = "error" /\ err = "ValueOutOfRange"

(***************************************************************************)
(* The step-wise decoder implements the contract of SpendingConditionAbs: *)
(* while from_bytes runs the caller sees a busy call on the host's        *)
(* buffer; it returns with the condition or error WireFormat prescribes   *)
(* (any error or an abort for an oversized field count); clearing and     *)
(* init_sighash are invisible at that level.                              *)
(***************************************************************************)
Abs == INSTANCE SpendingConditionAbs
         WITH phase <- IF pc \in Decoding THEN "busy" ELSE pc,
              input <- orig, decoded <- cond, error <- err

\* Every behaviour of Spec is a behaviour of the abstract contract, whose
\* fairness says a started call returns.
Refines == Abs!Spec
=============================================================================
