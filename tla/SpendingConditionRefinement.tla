-------------------- MODULE SpendingConditionRefinement --------------------
(***************************************************************************)
(* The step-wise decoder implements the safety part of the contract of    *)
(* SpendingConditionAbs under the refinement mapping Abs of               *)
(* SpendingCondition: every state of SpendingCondition maps to an initial *)
(* or reachable state of the contract, and every step to a step of it or  *)
(* a stutter.  The decoder's result is related to the wire format by      *)
(* ParseAgreesWithWireFormat; what the recursive decoding functions of    *)
(* WireFormat compute is beyond the provers, so that invariant enters as  *)
(* a hypothesis of the theorem (TLC checks it on the runs), and the proof *)
(* establishes everything else: the phases, the call and return points,   *)
(* what a return reports, and the reset.                                  *)
(***************************************************************************)
EXTENDS SpendingConditionProofs

USE LenAssumption, InputAssumption

\* The states in which from_bytes has returned.
Returns == {"done", "error", "panic"}

\* What a returned or pending call reports: no condition unless it
\* succeeded, no error unless it failed.
Settled ==
  /\ pc # "done" => cond = NoCondition
  /\ pc \in {"idle", "done", "panic"} \cup Decoding => err = "none"
  /\ pc = "error" => err \in Errors

-----------------------------------------------------------------------------
(* Facts about the wire format that need no unfolding of its recursion.   *)

\* The two instances of WireFormat, the detailed module's and the
\* contract's, define the same decoder.
LEMMA SameDecoder ==
  ASSUME NEW b
  PROVE  /\ Wire!Decode(b) = Abs!Wire!Decode(b)
         /\ Wire!Oversized(b) = Abs!Wire!Oversized(b)
         /\ Abs!Wire!NoCondition = NoCondition
BY DEF Wire!Decode, Abs!Wire!Decode, Wire!Oversized, Abs!Wire!Oversized,
       Abs!Wire!NoCondition, NoCondition, Wire!Singlesig, Abs!Wire!Singlesig,
       Wire!Multisig, Abs!Wire!Multisig, Wire!Fields, Abs!Wire!Fields,
       Wire!BigEndian, Abs!Wire!BigEndian, Wire!Bytes, Abs!Wire!Bytes,
       Wire!Avail, Abs!Wire!Avail, Wire!Reject, Abs!Wire!Reject,
       Wire!Accept, Abs!Wire!Accept, Wire!SignerBytes, Abs!Wire!SignerBytes,
       Wire!SinglesigBytes, Abs!Wire!SinglesigBytes, Wire!PayloadBytes,
       Abs!Wire!PayloadBytes, Wire!NoCondition

\* A rejected buffer decodes to no condition; an accepted one to no error.
LEMMA DecodeOutcome ==
  ASSUME NEW b
  PROVE  /\ ~Wire!Decode(b).ok => Wire!Decode(b).cond = NoCondition
         /\ Wire!Decode(b).ok => Wire!Decode(b).err = "none"
BY DEF Wire!Decode, Wire!Singlesig, Wire!Multisig, Wire!Reject, Wire!Accept,
       Wire!NoCondition, NoCondition

\* A buffer that declares more fields than the capacity is rejected.
LEMMA OversizedRejected ==
  ASSUME NEW b \in Seq(Byte), Wire!Oversized(b)
  PROVE  ~Wire!Decode(b).ok
<1>1. /\ Len(b) >= Wire!SignerBytes + 4 /\ b[1] \in {2, 3}
      /\ Wire!BigEndian(Wire!Bytes(b, Wire!SignerBytes, 4)) > Capacity
      /\ Wire!SignerBytes \in Nat
  BY DEF Wire!Oversized, Wire!SignerBytes
<1>2. Wire!Decode(b) = Wire!Multisig(b, Wire!SignerBytes)
  BY <1>1 DEF Wire!Decode
<1>3. Wire!Multisig(b, Wire!SignerBytes) = Wire!Reject("ValueOutOfRange")
  BY <1>1 DEF Wire!Multisig, Wire!Avail
<1>. QED
  BY <1>2, <1>3 DEF Wire!Reject

-----------------------------------------------------------------------------
(* What a step of from_bytes after the signer record can do.              *)

\* A step inside from_bytes keeps the input, and either fails with an
\* error, moves on or aborts leaving the result alone, or returns a
\* condition leaving the error alone.
ParseOutcome ==
  /\ pc \in Decoding /\ UNCHANGED orig
  /\ \/ pc' = "error" /\ err' \in Errors /\ UNCHANGED cond
     \/ pc' \in Decoding \cup {"panic"} /\ UNCHANGED <<cond, err>>
     \/ pc' = "done" /\ UNCHANGED err

LEMMA ParseOutcomeHolds == Parse => ParseOutcome
<1>1. CASE SinglesigFromBytes
  BY <1>1 DEF SinglesigFromBytes, Fail, Errors, Decoding, ParseOutcome
<1>2. CASE MultisigReadCount
  BY <1>2 DEF MultisigReadCount, Fail, Errors, Decoding, ParseOutcome
<1>3. CASE MultisigReadField
  BY <1>3 DEF MultisigReadField, Fail, Errors, Decoding, ParseOutcome
<1>4. CASE MultisigReadRequired
  BY <1>4 DEF MultisigReadRequired, Fail, Errors, Decoding, ParseOutcome
<1>. QED
  BY <1>1, <1>2, <1>3, <1>4 DEF Parse

-----------------------------------------------------------------------------
(* Settled is inductive.                                                  *)

\* Every step of the signing flow keeps Settled: from_bytes records a
\* condition only when it succeeds and an error only when it fails, and
\* the end of the operation clears both.
LEMMA SettledStep == Settled /\ [Next]_vars => Settled'
<1> SUFFICES ASSUME Settled, [Next]_vars PROVE Settled'
  OBVIOUS
<1>2. CASE \E b \in Inputs : SignerFromBytes(b)
  BY <1>2 DEF SignerFromBytes, Settled, Decoding, Errors, SinglesigModes
<1>3. CASE Parse
  BY <1>3, ParseOutcomeHolds DEF ParseOutcome, Settled, Decoding
<1>7. CASE SinglesigClearSignature \/ MultisigClearSignature
  BY <1>7 DEF SinglesigClearSignature, MultisigClearSignature, Settled
<1>8. CASE \E n \in SighashBufLens : InitSighash(n)
  BY <1>8 DEF InitSighash, Settled
<1>9. CASE EndOperation
  BY <1>9 DEF EndOperation, Settled, Decoding
<1>10. CASE UNCHANGED vars
  BY <1>10 DEF vars, Settled
<1>. QED
  BY <1>2, <1>3, <1>7, <1>8, <1>9, <1>10 DEF Next

-----------------------------------------------------------------------------
(* The refinement, step by step.                                          *)

\* A call that has returned reports what the contract prescribes for its
\* buffer: the wire format's result, or, for a buffer declaring more
\* fields than the capacity, no condition and an error or an abort.
LEMMA ReturnedHolds ==
  ASSUME TypeOK', Settled', ParseAgreesWithWireFormat', pc' \in Returns,
         NEW b, b = orig'
  PROVE  Abs!Returned(b)
<1> DEFINE w == Wire!Decode(b)
<1>1. /\ Abs!Wire!Decode(b) = w
      /\ Abs!Wire!Oversized(b) = Wire!Oversized(b)
      /\ Abs!Wire!NoCondition = NoCondition
  BY SameDecoder
<1>2. (IF pc' \in Decoding THEN "busy" ELSE pc') = pc'
  BY DEF Returns, Decoding
<1>3. /\ pc' = "done" => w.ok /\ w.cond = cond'
      /\ pc' \in {"error", "panic"} /\ ~Wire!Oversized(b) =>
           pc' = "error" /\ ~w.ok /\ w.err = err'
  BY DEF ParseAgreesWithWireFormat
<1>4. /\ pc' # "done" => cond' = NoCondition
      /\ pc' \in {"done", "panic"} => err' = "none"
      /\ pc' = "error" => err' \in Errors
  BY DEF Settled, Decoding
<1>5. CASE ~Wire!Oversized(b)
  <2>1. ~w.ok => w.cond = NoCondition
    BY DecodeOutcome
  <2>2. w.ok => w.err = "none"
    BY DecodeOutcome
  <2>3. /\ (IF pc' \in Decoding THEN "busy" ELSE pc') = IF w.ok THEN "done" ELSE "error"
        /\ cond' = w.cond
        /\ err' = w.err
    BY <1>2, <1>3, <1>4, <1>5, <2>1, <2>2 DEF Returns
  <2>. QED
    BY <1>1, <1>5, <2>3 DEF Abs!Returned
<1>6. CASE Wire!Oversized(b)
  <2>1. b \in Seq(Byte)
    BY DEF TypeOK
  <2>2. ~w.ok
    BY <1>6, <2>1, OversizedRejected
  <2>3. pc' \in {"error", "panic"}
    BY <1>3, <2>2 DEF Returns
  <2>4. Abs!Errors = Errors
    BY DEF Abs!Errors, Errors
  <2>. QED
    BY <1>1, <1>2, <1>4, <1>6, <2>3, <2>4 DEF Abs!Returned
<1>. QED
  BY <1>5, <1>6

\* Under the mapping, the host's call of from_bytes is the contract's
\* Call, each decoding step a stutter or its Return, clearing and
\* init_sighash stutters, and the end of the operation its Reset.
LEMMA RefinementStep ==
  ASSUME TypeOK, TypeOK', Settled, Settled', ParseAgreesWithWireFormat', [Next]_vars
  PROVE  [Abs!Next]_Abs!avars
<1> DEFINE phase == IF pc \in Decoding THEN "busy" ELSE pc
<1>1. CASE \E b \in Inputs : SignerFromBytes(b)
  <2>1. PICK b \in Inputs : SignerFromBytes(b)
    BY <1>1
  <2>2. phase = "idle" /\ orig' = b /\ orig' \in Inputs
    BY <2>1 DEF SignerFromBytes, Decoding
  <2>3. CASE pc' \in Decoding
    <3>1. (IF pc' \in Decoding THEN "busy" ELSE pc') = "busy" /\ UNCHANGED <<cond, err>>
      BY <2>1, <2>3 DEF SignerFromBytes, Decoding
    <3>. QED
      BY <2>2, <3>1 DEF Abs!Next, Abs!Call
  <2>4. CASE pc' \notin Decoding
    <3>1. pc' = "error"
      BY <2>1, <2>4 DEF SignerFromBytes, Decoding, SinglesigModes
    <3>2. Abs!Returned(orig')
      BY <3>1, ReturnedHolds DEF Returns
    <3>. QED
      BY <2>2, <3>2 DEF Abs!Next, Abs!Call
  <2>. QED
    BY <2>3, <2>4
<1>2. CASE Parse
  <2>1. ParseOutcome
    BY <1>2, ParseOutcomeHolds
  <2>2. CASE pc' \in Decoding
    <3>1. /\ (IF pc' \in Decoding THEN "busy" ELSE pc') = phase
          /\ UNCHANGED <<orig, cond, err>>
      BY <2>1, <2>2 DEF ParseOutcome, Decoding
    <3>. QED
      BY <3>1 DEF Abs!avars
  <2>3. CASE pc' \notin Decoding
    <3>1. phase = "busy" /\ pc' \in Returns /\ UNCHANGED orig
      BY <2>1, <2>3 DEF ParseOutcome, Returns
    <3>2. Abs!Returned(orig)
      BY <3>1, ReturnedHolds
    <3>. QED
      BY <3>1, <3>2 DEF Abs!Next, Abs!Return
  <2>. QED
    BY <2>2, <2>3
<1>3. CASE \/ SinglesigClearSignature \/ MultisigClearSignature
           \/ \E n \in SighashBufLens : InitSighash(n)
  <2>1. UNCHANGED <<pc, orig, cond, err>>
    BY <1>3 DEF SinglesigClearSignature, MultisigClearSignature, InitSighash
  <2>. QED
    BY <2>1 DEF Abs!avars
<1>4. CASE EndOperation
  <2>1. phase \in {"done", "error", "panic"}
    BY <1>4 DEF EndOperation, Decoding
  <2>2. Abs!Init'
    BY <1>4, SameDecoder DEF EndOperation, Abs!Init, Decoding
  <2>. QED
    BY <2>1, <2>2 DEF Abs!Next, Abs!Reset
<1>5. CASE UNCHANGED vars
  BY <1>5 DEF vars, Abs!avars
<1>. QED
  BY <1>1, <1>2, <1>3, <1>4, <1>5 DEF Next

\* The host's first call finds the contract idle.
LEMMA InitRefined == Init => Abs!Init /\ Settled
BY SameDecoder DEF Init, Idle, Abs!Init, Settled, Decoding

(***************************************************************************)
(* For every value of the constants, and given that the decoder agrees    *)
(* with the wire format (ParseAgreesWithWireFormat, which TLC checks),    *)
(* every behaviour of the signing flow is allowed by the safety part of   *)
(* the contract of TransactionSpendingCondition::from_bytes: a call       *)
(* starts only when the last operation has ended, it returns once, with   *)
(* the result the wire format prescribes (or, for a buffer that declares *)
(* more fields than the capacity, no condition and an error or an         *)
(* abort), nothing after it changes that result, and the end of the       *)
(* operation leaves nothing behind.                                       *)
(***************************************************************************)
THEOREM RefinementSafety ==
  Spec /\ []ParseAgreesWithWireFormat => Abs!Init /\ [][Abs!Next]_Abs!avars
<1>1. Init => Abs!Init /\ Settled
  BY InitRefined
<1>2. Settled /\ [Next]_vars => Settled'
  BY SettledStep
<1>3. TypeOK /\ TypeOK' /\ Settled /\ Settled' /\ ParseAgreesWithWireFormat'
        /\ [Next]_vars => [Abs!Next]_Abs!avars
  BY RefinementStep
<1>4. Spec => []TypeOK
  BY TypeCorrect
<1>. QED
  BY <1>1, <1>2, <1>3, <1>4, PTL DEF Spec
=============================================================================
