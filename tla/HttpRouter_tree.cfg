\* Two registrations of paths of up to three segments, any search.
CONSTANTS
  a = a
  b = b
  h1 = h1
  h2 = h2
  r1 = r1
  Keys = {a, b}
  Blank = Blank
  Handlers = {h1, h2}
  Null = Null
  Readers = {r1}
  MaxSegs = 3
  MaxInserts = 2
SYMMETRY Symmetry
SPECIFICATION Spec
INVARIANTS
  TypeOK
  TreeCorrect
  SearchCorrect
CHECK_DEADLOCK FALSE
