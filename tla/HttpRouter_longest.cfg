\* Two registrations: what the longest matching algorithm would find.
CONSTANTS
  a = a
  b = b
  h1 = h1
  h2 = h2
  r1 = r1
  Keys = {a, b}
  Blank = Blank
  Handlers = {h1, h2}
  Null = Null
  Readers = {r1}
  MaxSegs = 3
  MaxInserts = 2
SPECIFICATION Spec
INVARIANT LongestMatch
CHECK_DEADLOCK FALSE
