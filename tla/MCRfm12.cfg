SPECIFICATION FairSpec
CONSTANT Lengths <- MCLengths
INVARIANTS
  TypeOK
  NirqNeverBlocks
  OneOwner
  ReceptionNotCut
  FrameOnAir
  ModeAgrees
PROPERTIES
  ImplementsHalfDuplex
  TransmissionCompletes
  QuietChannelSends
