SPECIFICATION Spec
CONSTANTS
  r1 = r1
  a1 = a1
  Rigs = {r1}
  Addresses = {a1}
  Valid = {a1}
  NoAddress = NoAddress
  Imported <- MCImported
  MaxStarts = 2
  MaxListed = 3
  MaxEdits = 3
INVARIANTS
  TypeOK
  RigsConsistent
  SentValid
PROPERTY MonitorsEnd
