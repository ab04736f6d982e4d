\* Every program of MCSourceMap.
SPECIFICATION Spec
CONSTANTS
  Null = Null
  Infinity = Infinity
  Parts <- PartsHere
  Schemes = {"http:", "file:"}
  Above <- AboveHere
  Base = 4
  Modulus = 32
  Programs <- Uses
  Undefined = Undefined
INVARIANTS TypeOK MapSurvives SearchIsExact AnswersAreNearest AnswersAgree
  SectionsSpeakForAll TreeIsMapped
PROPERTIES SearchAdvances ApplyIsWhole CopiesKeep
