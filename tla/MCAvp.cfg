\* Messages of up to two attributes, and bodies of up to five words.
SPECIFICATION FairSpec
CONSTANTS
  GX = GX
  GY = GY
  SY = SY
  S6A = S6A
  Unknown = Unknown
  Messages <- MCMessages
INVARIANT DecodesTree
PROPERTY EndsUnlessMisled
CHECK_DEADLOCK FALSE
