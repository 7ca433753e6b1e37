SPECIFICATION Spec
CONSTANTS
  r1 = r1
  a1 = a1
  Rigs = {r1}
  Addresses = {a1, a2}
  Valid = {a1, a2}
  NoAddress = NoAddress
  Imported <- MCImported
  MaxStarts = 1
  MaxListed = 2
  MaxEdits = 3
INVARIANT MainWalletPaid
