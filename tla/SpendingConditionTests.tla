----------------------- MODULE SpendingConditionTests -----------------------
(***************************************************************************)
(* The unit tests of spending_condition.rs (its `mod test`), translated:   *)
(* each test's byte vector, the structure it expects from_bytes to return *)
(* and its assertions.  The decoder model of SpendingCondition runs on     *)
(* these vectors at the code's real lengths (20-byte hash, 65-byte         *)
(* signature, 33-byte key, 16 fields), so the assertions, the comparison   *)
(* with the reference decoder and the clearing properties are checked on   *)
(* full-size transactions.                                                 *)
(***************************************************************************)
EXTENDS SpendingCondition, SequencesExt

\* parser_common::HashMode, the two multisig modes (spec section 6).
P2SH  == 2
P2WSH == 3

\* The array-repeat expression [v; n].
Rep(n, v) == [k \in 1..n |-> v]

\* usize::to_be_bytes on the 64-bit host the tests run on: eight bytes,
\* most significant first; the tests' values are all below 2^32.
UsizeToBeBytes(v) == [k \in 1..8 |-> IF k <= 4 THEN 0 ELSE (v \div 256^(8 - k)) % 256]

\* let hash = [0x11; 20]
TestHash == Rep(20, 17)

\* The signer record a test builds with extend_from_slice.
TestSigner(m, nonce, fee) == <<m>> \o TestHash \o UsizeToBeBytes(nonce) \o UsizeToBeBytes(fee)

\* The witness a test builds: the key encoding, then the 65 signature bytes.
TestSignature(enc, s) == <<enc>> \o Rep(65, s)

\* The key of field #3 of the multisig vectors.
TestKey == <<3, 239, 35, 64, 81, 139, 88, 103, 178, 53, 152, 169, 207, 116, 97,
             31, 139, 152, 6, 79, 125, 85, 205, 184, 193, 7, 198, 123, 94, 252,
             188, 92, 119>>

-----------------------------------------------------------------------------
(* The byte vectors, as the tests write them out.                          *)

P2PKHUncompressedBytes ==
  <<P2PKH>> \o TestHash \o Rep(7, 0) \o <<123>> \o Rep(6, 0) \o <<1, 200>>
    \o <<Uncompressed>> \o Rep(65, 255)

P2PKHCompressedBytes ==
  <<P2PKH>> \o TestHash \o Rep(6, 0) \o <<1, 89>> \o Rep(6, 0) \o <<1, 200>>
    \o <<Compressed>> \o Rep(65, 254)

P2WPKHCompressedBytes ==
  <<P2WPKH>> \o TestHash \o Rep(6, 0) \o <<1, 89>> \o Rep(6, 0) \o <<2, 55>>
    \o <<Compressed>> \o Rep(65, 254)

BadHashModeBytes ==
  <<255>> \o TestHash \o Rep(6, 0) \o <<1, 200>> \o Rep(6, 0) \o <<2, 55>>
    \o <<Compressed>> \o Rep(66, 253)

BadP2WPKHUncompressedBytes ==
  <<P2WSH>> \o TestHash \o Rep(7, 0) \o <<123>> \o Rep(6, 0) \o <<2, 55>>
    \o <<Uncompressed>> \o Rep(65, 255)

\* A multisig vector: mode, nonce and fee bytes, three fields with the
\* given tags (two signatures and a key), two signatures required.
MultisigTestBytes(m, nonceLo, feeLo, t1, t2, t3) ==
  <<m>> \o TestHash \o Rep(6, 0) \o nonceLo \o Rep(6, 0) \o feeLo
    \o <<0, 0, 0, 3>> \o <<t1>> \o Rep(65, 255) \o <<t2>> \o Rep(65, 254)
    \o <<t3>> \o TestKey \o <<0, 2>>

P2SHUncompressedBytes == MultisigTestBytes(P2SH, <<0, 123>>, <<1, 200>>, 3, 3, 1)
P2SHCompressedBytes   == MultisigTestBytes(P2SH, <<1, 200>>, <<2, 55>>, 2, 2, 0)
P2WSHBytes            == MultisigTestBytes(P2WSH, <<1, 200>>, <<2, 55>>, 2, 2, 0)

-----------------------------------------------------------------------------
(* What each test expects.                                                 *)

\* A singlesig test: from_bytes(bytes).unwrap() equals the structure built
\* from `signer` and `signature`, and leaves no bytes.
P2PKHUncompressedExpected ==
  [bytes |-> P2PKHUncompressedBytes, signer |-> TestSigner(P2PKH, 123, 456),
   signature |-> TestSignature(Uncompressed, 255)]
P2PKHCompressedExpected ==
  [bytes |-> P2PKHCompressedBytes, signer |-> TestSigner(P2PKH, 345, 456),
   signature |-> TestSignature(Compressed, 254)]
P2WPKHCompressedExpected ==
  [bytes |-> P2WPKHCompressedBytes, signer |-> TestSigner(P2WPKH, 345, 567),
   signature |-> TestSignature(Compressed, 254)]

\* A multisig test: required_signatures, num_auth_fields, nonce and fee.
P2SHUncompressedTest ==
  [bytes |-> P2SHUncompressedBytes, required |-> 2, fields |-> 3, nonce |-> 123, fee |-> 456]
P2SHCompressedTest ==
  [bytes |-> P2SHCompressedBytes, required |-> 2, fields |-> 3, nonce |-> 456, fee |-> 567]
P2WSHTest ==
  [bytes |-> P2WSHBytes, required |-> 2, fields |-> 3, nonce |-> 456, fee |-> 567]

SinglesigTests == {P2PKHUncompressedExpected, P2PKHCompressedExpected, P2WPKHCompressedExpected}
MultisigTests  == {P2SHUncompressedTest, P2SHCompressedTest, P2WSHTest}
\* test_invalid_spending_conditions: both buffers must give an Err.
InvalidTests   == {BadHashModeBytes, BadP2WPKHUncompressedBytes}

TestVectors == {t.bytes : t \in SinglesigTests \cup MultisigTests} \cup InvalidTests

\* The vectors and every truncation of them: each "insufficient data" exit
\* of the decoder is taken at the code's real offsets.
TestInputs == UNION {Prefixes(b) : b \in TestVectors}

-----------------------------------------------------------------------------
(***************************************************************************)
(* Every assertion of the unit tests holds of the decoder, at every point *)
(* after from_bytes returned (also after clearing and init_sighash): the   *)
(* singlesig vectors decode to exactly the signer record and witness the   *)
(* tests build, with nothing left over; the multisig vectors report 2      *)
(* required signatures, 3 auth fields and the nonce and fee of their       *)
(* bytes (nonce() and fee() through be_u64); the invalid vectors return an *)
(* Err, not a panic, and the bad hash mode is UnexpectedValue (spec 4.1).  *)
(***************************************************************************)
TestAssertions ==
  pc \in {"done", "error", "panic"} =>
    /\ \A t \in SinglesigTests :
         orig = t.bytes =>
           /\ pc = "done" /\ IsSinglesig /\ Len(orig) - pos = 0
           /\ Bytes(orig, 0, SPENDING_CONDITION_SIGNER_LEN) = t.signer
           /\ Bytes(orig, cond.at, cond.len) = t.signature
    /\ \A t \in MultisigTests :
         orig = t.bytes =>
           /\ pc = "done" /\ IsMultisig
           /\ RequiredSignatures = t.required /\ NumAuthFields = t.fields
           /\ Nonce = t.nonce /\ Fee = t.fee
    /\ orig \in InvalidTests => pc = "error"
    /\ orig = BadHashModeBytes => err = "UnexpectedValue"

(***************************************************************************)
(* The vector bad_p2wpkh_uncompressed_bytes, by its name and comment, and  *)
(* spec vector (b), is a P2WPKH signer with an uncompressed witness, which *)
(* TransactionSpendingCondition::from_bytes must refuse with               *)
(* InvalidPublicKeyEncoding (the is_valid_hash_mode check).                *)
(***************************************************************************)
BadP2WPKHRejectedForEncoding ==
  pc = "error" /\ orig = BadP2WPKHUncompressedBytes => err = "InvalidPublicKeyEncoding"
=============================================================================
