\* TCP segments and SCTP packets of up to three messages, one after the other.
SPECIFICATION DecodeFairSpec
CONSTANTS
  GX = GX
  GY = GY
  SY = SY
  S6A = S6A
  NoApp = NoApp
  Instances = 2
  Segments <- MCSegments
  Bundles <- MCBundles
INVARIANTS
  Faithful
  GxLossExplained
PROPERTY PacketDone
\* A packet with endless attributes keeps its router in them.
CHECK_DEADLOCK FALSE
