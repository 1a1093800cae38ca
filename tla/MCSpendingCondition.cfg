CONSTANTS
  HashLen <- MCHashLen
  SigLen <- MCSigLen
  PubkeyLen <- MCPubkeyLen
  Capacity <- MCCapacity
  Inputs <- MCInputs
  SighashBufLens <- MCSighashBufLens
  Filler <- MCFiller

SPECIFICATION Spec

INVARIANT TypeOK
INVARIANT DecodedWellFormed
INVARIANT ParseAgreesWithWireFormat
INVARIANT ClearConfined
INVARIANT MultisigClearCanonical
INVARIANT SighashPlaceholder
PROPERTY Refines
