\* The unit tests of spending_condition.rs at the code's real lengths.
CONSTANTS
  HashLen = 20
  SigLen = 65
  PubkeyLen = 33
  Capacity = 16
  Inputs <- TestInputs
  SighashBufLens = {21, 22, 81, 82}
  Filler = 238

SPECIFICATION Spec

INVARIANT TestAssertions
INVARIANT ParseAgreesWithWireFormat
INVARIANT MultisigClearCanonical
INVARIANT SighashPlaceholder

PROPERTY Refines
