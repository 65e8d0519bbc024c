CONSTANTS
  Request = {r1, r2}
  MaxFaults = 1
  Peer = {a, b, c}
  Group = {g1, g2}
  Command = {c1, c2}
  Draft = {d1, d2}
  Upload = {u1, u2, u3}
  MaxDrafts = 2
  MaxBytes = 6
  MaxUpload = 2
  DescriptorBytes = 1
  Folder = {f1, f2, f3}
  Item = {i1}
  picture = picture
  other = other
  Blob = {picture, other}
  Job = job
  FileForms <- Forms
  MaxMessages = 2
  MaxBegun = 3
  Versions = {0, 5, 9, 10, 12, 14, 15}
  MaxStops = 2
SYMMETRY Alike
SPECIFICATION ApplicationSpec
INVARIANT
  ListedAsStored
  
  PendingBounded
  FilesTrue
  MigratedWhole
  ListIsATree
PROPERTY
  EditsKept
  FoundWhileHeld
CHECK_DEADLOCK FALSE
