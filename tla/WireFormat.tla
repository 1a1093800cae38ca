----------------------------- MODULE WireFormat -----------------------------
(***************************************************************************)
(* The wire layout of a spending condition as the specification describes *)
(* it (spec sections 4 and 6), written as one declarative decoding         *)
(* function.  It is the reference the step-wise model of the Rust decoder *)
(* in SpendingCondition is compared against: it states what a successful *)
(* decode must produce and which error each malformed buffer must give,    *)
(* including the field-count capacity check of spec step 4.4.2.  The      *)
(* checks are tried in the order the spec lists them, as IF ... ELSE       *)
(* chains: the first that fails gives the error.                           *)
(*                                                                         *)
(* Offsets are 0-based byte offsets into a buffer b \in Seq(0..255); the  *)
(* byte at offset p is b[p + 1].                                          *)
(***************************************************************************)
EXTENDS Naturals, Sequences

CONSTANTS HashLen,    \* bytes of the public-key hash (20)
          SigLen,     \* bytes of a recoverable signature (65)
          PubkeyLen,  \* bytes of a compressed public key (33)
          Capacity    \* maximum number of auth fields (16)

\* Spec section 6: signer record, singlesig witness, auth-field payloads.
SignerBytes   == 1 + HashLen + 8 + 8
SinglesigBytes == 1 + SigLen
PayloadBytes(tag) == IF tag \in {0, 1} THEN PubkeyLen ELSE SigLen

\* Big-endian unsigned value of a byte string.
BigEndian(s) ==
  LET v[k \in 0..Len(s)] == IF k = 0 THEN 0 ELSE v[k - 1] * 256 + s[k]
  IN  v[Len(s)]

Bytes(b, p, n) == SubSeq(b, p + 1, p + n)
Avail(b, p) == Len(b) - p

NoCondition == [kind |-> "None", at |-> 0, len |-> 0, fields |-> <<>>, required |-> 0]
Reject(e) == [ok |-> FALSE, err |-> e, cond |-> NoCondition, rest |-> 0]
Accept(c, r) == [ok |-> TRUE, err |-> "none", cond |-> c, rest |-> r]

\* The n auth fields starting at offset p: each is a tag in 0..3 and its
\* payload; the first field that is short or badly tagged rejects all.
Fields(b, p, n) ==
  LET w[k \in 0..n] ==
        IF k = 0 THEN [ok |-> TRUE, err |-> "none", p |-> p, fs |-> <<>>]
        ELSE LET s == w[k - 1]
                 tag == b[s.p + 1]
             IN  IF ~s.ok THEN s
                 ELSE IF Avail(b, s.p) < 1
                   THEN [s EXCEPT !.ok = FALSE, !.err = "InsufficientData"]
                 ELSE IF tag \notin 0..3
                   THEN [s EXCEPT !.ok = FALSE, !.err = "UnexpectedValue"]
                 ELSE IF Avail(b, s.p + 1) < PayloadBytes(tag)
                   THEN [s EXCEPT !.ok = FALSE, !.err = "InsufficientData"]
                 ELSE [s EXCEPT !.p = s.p + 1 + PayloadBytes(tag),
                                !.fs = Append(s.fs, [id |-> tag, at |-> s.p + 1])]
  IN  w[n]

\* Spec 4.4: count, capacity check, n fields, required count, required <= n.
Multisig(b, p) ==
  LET n == BigEndian(Bytes(b, p, 4))
      f == Fields(b, p + 4, n)
      r == BigEndian(Bytes(b, f.p, 2))
  IN  IF Avail(b, p) < 4 THEN Reject("InsufficientData")
      ELSE IF n > Capacity THEN Reject("ValueOutOfRange")
      ELSE IF ~f.ok THEN Reject(f.err)
      ELSE IF Avail(b, f.p) < 2 THEN Reject("InsufficientData")
      ELSE IF r > n THEN Reject("ValueOutOfRange")
      ELSE Accept([kind |-> "Multisig", at |-> p, len |-> f.p + 2 - p,
                   fields |-> f.fs, required |-> r], f.p + 2)

\* Spec 4.2 and 4.5: 66-byte witness, encoding 0 or 1, P2WPKH compressed.
Singlesig(b, p, mode) ==
  IF Avail(b, p) < SinglesigBytes THEN Reject("InsufficientData")
  ELSE IF b[p + 1] \notin {0, 1} THEN Reject("InvalidPublicKeyEncoding")
  ELSE IF mode = 1 /\ b[p + 1] # 0 THEN Reject("InvalidPublicKeyEncoding")
  ELSE Accept([kind |-> "Singlesig", at |-> p, len |-> SinglesigBytes,
               fields |-> <<>>, required |-> 0], p + SinglesigBytes)

\* Spec 4.1 and 4.5: the signer record, then the witness its mode selects.
Decode(b) ==
  IF Len(b) < SignerBytes THEN Reject("InsufficientData")
  ELSE IF b[1] \notin 0..3 THEN Reject("UnexpectedValue")
  ELSE IF b[1] \in {0, 1} THEN Singlesig(b, SignerBytes, b[1])
  ELSE Multisig(b, SignerBytes)

\* The buffer declares more auth fields than the fixed capacity holds.
Oversized(b) ==
  /\ Len(b) >= SignerBytes + 4
  /\ b[1] \in {2, 3}
  /\ BigEndian(Bytes(b, SignerBytes, 4)) > Capacity
=============================================================================
