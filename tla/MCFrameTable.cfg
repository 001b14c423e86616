SPECIFICATION Spec
CONSTANTS
  Names = {x}
  Symbols = {v1, v2}
  NoSymbol = NoSymbol
  Frames <- MCFrames
  Parent <- MCParent
INVARIANTS
  TypeOK
  StaticLink
  FramesFollowParent
PROPERTIES
  ImplementsLexicalScope
