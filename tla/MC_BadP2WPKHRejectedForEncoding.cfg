\* The vector of test_invalid_spending_conditions named for a P2WPKH signer.
CONSTANTS
  HashLen = 20
  SigLen = 65
  PubkeyLen = 33
  Capacity = 16
  Inputs <- TestInputs
  SighashBufLens = {21, 22, 81, 82}
  Filler = 238

SPECIFICATION Spec

INVARIANT BadP2WPKHRejectedForEncoding
