SPECIFICATION Spec
CHECK_DEADLOCK FALSE
CONSTANTS
  zip = zip
  csv = csv
  a = a
  b = b
  None = None
  Directory = Directory
  Members <- TwoMembers
  SizeOf <- SameSize
  Files = {zip, csv}
  Archives = {zip}
  Sources <- ThreeSources
  Pinnings <- PinsOrNot
  MaxBuilds = 3
INVARIANTS
  TypeOK
  LoadsCurrent
  LoadsWhole
