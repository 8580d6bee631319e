SPECIFICATION Spec
CHECK_DEADLOCK FALSE
CONSTANTS
  zip = zip
  csv = csv
  a = a
  b = b
  None = None
  Directory = Directory
  Members <- TwoMembers
  SizeOf <- SameSize
  Files = {zip}
  Archives = {zip}
  Sources <- OneSource
  Pinnings <- NoPins
  MaxBuilds = 2
INVARIANTS
  ExtractionsWhole
