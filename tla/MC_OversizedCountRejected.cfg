CONSTANTS
  HashLen <- MCHashLen
  SigLen <- MCSigLen
  PubkeyLen <- MCPubkeyLen
  Capacity <- MCCapacity
  Inputs <- MCInputs
  SighashBufLens <- MCSighashBufLens
  Filler <- MCFiller

SPECIFICATION Spec

INVARIANT OversizedCountRejected
