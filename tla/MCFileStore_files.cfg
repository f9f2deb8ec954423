SPECIFICATION Spec
CONSTANTS
  h1 = h1
  h2 = h2
  Handler = {h1, h2}
  MaxSize = 2
  MaxObjects = 3
SYMMETRY Symmetry
INVARIANTS
  TypeOK
  RowsBacked
  AnswersExact
