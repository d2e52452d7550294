\* Two names, with a dot or without, in every assignment to four files.
CONSTANTS
  a = a  Unnamed = Unnamed
  f1 = f1  f2 = f2  f3 = f3  f4 = f4
  Files <- InOrder
  Name = {a, Unnamed}
  Known = {f1, f3, f4}
  FirstDots = {0, 1}
  MaxFaults = 2
SPECIFICATION Spec
INVARIANTS FilesAgree UniqueUIDs
PROPERTIES FilesKept
