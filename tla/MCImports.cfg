SPECIFICATION Spec
CONSTANTS
  Compilers = {c1, c2}
  Texts <- MCTexts
  MaxCompilations = 3
INVARIANTS
  TypeOK
  ImportsWhole
  FilesWhole
  VerdictRight
  NamesGenerated
  LinksResolve
PROPERTY CompilationEnds
CHECK_DEADLOCK FALSE
