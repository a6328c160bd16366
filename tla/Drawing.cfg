SPECIFICATION DrawingSpec
CONSTANTS
  Word <- MCWord
  Geometries <- MCGeometries
  Operations <- MCOperations
  Glyphs <- MCGlyphs
  Noise <- MCNoise
  MaxDraws = 1
INVARIANT
  PictureRestored
PROPERTIES
  PaddingUntouched
  ImplementsCanvas
