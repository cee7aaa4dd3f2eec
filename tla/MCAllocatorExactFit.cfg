CONSTANTS
  BufferSize = 17
  Word = 2
  Sizes <- MCSizes
  WrapMarker = WrapMarker
  Unwritten = Unwritten
SPECIFICATION Spec
PROPERTIES
  StartsFromTheBeginning
