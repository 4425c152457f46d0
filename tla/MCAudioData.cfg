\* Two Audio objects and a newbuf, one block more than they can hold at a time,
\* lists of up to 3 samples that grow two samples at a time and stretch to 4.
CONSTANTS
  Holder = {a1, a2}
  newbuf = newbuf
  Block = {b1, b2, b3, b4}
  Null = Null
  Value = {x, y}
  Junk = Junk
  CHUNKSIZE = 2
  Rates <- MCRates
  MaxCount = 3
  MaxStretched = 4
SPECIFICATION Spec
SYMMETRY Interchangeable
INVARIANTS
  TypeOK
  Ownership
PROPERTIES
  NoNewJunk
  ImplementsSampleList
CHECK_DEADLOCK FALSE
