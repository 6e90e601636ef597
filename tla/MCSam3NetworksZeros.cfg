SPECIFICATION Spec
CONSTANTS
  Sam3Sizes = {28, 41, 336, 500, 1008}
  Sam2Sizes = {256, 512, 1024}
  EdgeTamSizes = {256, 1024}
  Exemplars = {0, 2}
  SparseTokens = {2, 3}
  Slots = {1, 7}
  Pointers = {0, 16}
INVARIANTS
  DecoderInputsAreWritten
CHECK_DEADLOCK FALSE
