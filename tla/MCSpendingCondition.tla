------------------------ MODULE MCSpendingCondition ------------------------
(***************************************************************************)
(* Small instance of SpendingCondition for TLC.  Hash 1 byte, signature  *)
(* 2 bytes, public key 1 byte, capacity 2: a signer record is 18 bytes, a *)
(* singlesig witness 3.  The host's buffers are built from the pieces the *)
(* decoder tells apart: every hash-mode byte class, every encoding class, *)
(* every auth-field tag class, field counts around the capacity and far   *)
(* above it, required counts around the field count, a trailing byte of  *)
(* the rest of the transaction, and every truncation of a few of them.    *)
(***************************************************************************)
EXTENDS SpendingCondition, SequencesExt

MCHashLen == 1
MCSigLen == 2
MCPubkeyLen == 1
MCCapacity == 2
MCFiller == 238
\* around STANDARD_SINGLESIG_AUTH_LEN = 19 and STANDARD_MULTISIG_AUTH_LEN = 22
MCSighashBufLens == {18, 19, 21, 22}

\* Test vectors of spending_condition.rs: nonce 123, fee 456.
NonceBytes == <<0, 0, 0, 0, 0, 0, 0, 123>>
FeeBytes == <<0, 0, 0, 0, 0, 0, 1, 200>>
Signer(m) == <<m, 17>> \o NonceBytes \o FeeBytes
SigBytes == <<171, 205>>
KeyBytes == <<171>>
Trailer == <<153>>

\* hash-mode bytes: the four modes and one invalid value
ModeBytes == {0, 1, 2, 3, 255}
Singles == { <<e>> \o SigBytes : e \in {0, 1, 7} }

\* auth-field tags: an uncompressed key, a compressed signature, invalid
Field(t) == <<t>> \o (IF t = 2 THEN SigBytes ELSE KeyBytes)
FieldLists == UNION { [1..k -> {1, 2, 9}] : k \in 0..3 }
Concat(ts) == FoldLeft(LAMBDA acc, t : acc \o Field(t), <<>>, ts)
CountBytes == { <<0, 0, 0, c>> : c \in 0..3 } \cup {<<0, 0, 1, 0>>}
Multis == { c \o Concat(ts) \o <<0, r>> :
              c \in CountBytes, ts \in FieldLists, r \in 0..3 }

Full == { Signer(m) \o w \o Trailer : m \in ModeBytes, w \in Singles \cup Multis }

\* every prefix of a few well-formed and malformed buffers
TruncBase ==
  { Signer(1) \o <<0>> \o SigBytes,
    Signer(2) \o <<0, 0, 0, 2>> \o Field(1) \o Field(2) \o <<0, 1>>,
    Signer(3) \o <<0, 0, 0, 3>> \o Field(2) \o Field(1) \o Field(1) \o <<0, 3>> }

MCInputs == Full \cup UNION { Prefixes(b) : b \in TruncBase }
=============================================================================
