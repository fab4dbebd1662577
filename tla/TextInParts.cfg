CONSTANTS
  Artifacts = {a1}
  Keys = {k1}
  MaxCharacters = 3
  MaxChunk = 4
  MaxInline = 4
  MaxIndividual = 8
  MaxTotal = 16
SPECIFICATION Spec
INVARIANT NoCharacterSplit
CHECK_DEADLOCK FALSE
