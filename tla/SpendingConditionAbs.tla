------------------------ MODULE SpendingConditionAbs ------------------------
(***************************************************************************)
(* What TransactionSpendingCondition::from_bytes promises its caller, with *)
(* the steps of the decoder hidden: a call on buffer b returns, either at  *)
(* once or after it has been "busy" for a while, with the result the wire  *)
(* format (WireFormat!Decode) prescribes for b.  The one freedom is a      *)
(* buffer that declares more auth fields than the capacity: the code has   *)
(* no check for it, so such a call may fail with any error or abort.       *)
(* Clearing and init_sighash leave this view unchanged; the caller ends    *)
(* the operation and the next call starts afresh.                         *)
(***************************************************************************)
EXTENDS Naturals, Sequences

CONSTANTS HashLen, SigLen, PubkeyLen, Capacity, Inputs

VARIABLES phase,    \* "idle", "busy", or how the call ended
          input,    \* the buffer of the current call
          decoded,  \* the condition the call returned
          error     \* the error the call returned

avars == <<phase, input, decoded, error>>

Wire == INSTANCE WireFormat

Errors == {"InsufficientData", "UnexpectedValue", "InvalidPublicKeyEncoding",
           "ValueOutOfRange", "NoData"}

\* The call on b returns what the wire format prescribes.
Returned(b) ==
  LET w == Wire!Decode(b) IN
  \/ /\ ~Wire!Oversized(b)
     /\ phase' = IF w.ok THEN "done" ELSE "error"
     /\ decoded' = w.cond
     /\ error' = w.err
  \/ /\ Wire!Oversized(b)
     /\ decoded' = Wire!NoCondition
     /\ \/ phase' = "panic" /\ error' = "none"
        \/ phase' = "error" /\ error' \in Errors

Init ==
  /\ phase = "idle"
  /\ input = <<>>
  /\ decoded = Wire!NoCondition
  /\ error = "none"

\* The host calls from_bytes on one of its buffers; the call may end at
\* its first read.
Call ==
  /\ phase = "idle"
  /\ input' \in Inputs
  /\ \/ phase' = "busy" /\ UNCHANGED <<decoded, error>>
     \/ Returned(input')

\* The call in progress returns.
Return ==
  /\ phase = "busy"
  /\ Returned(input)
  /\ UNCHANGED input

\* The caller drops the result; the next call starts from nothing.
Reset ==
  /\ phase \in {"done", "error", "panic"}
  /\ Init'

Next == Call \/ Return \/ Reset

\* A call that has started returns: from_bytes runs to its end.
Spec == Init /\ [][Next]_avars /\ WF_avars(Return)
=============================================================================
