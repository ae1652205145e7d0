SPECIFICATION Spec
CONSTANTS
  xapp = xapp
  yapp = yapp
  s1 = s1
  s2 = s2
  s3 = s3
  Url = {xapp, yapp}
  Name = {"app"}
  NameOf <- MCNameOf
  Scan = {s1, s2, s3}
  MaxCommits = 2
SYMMETRY Symmetric
INVARIANTS
  TypeOK
  ReadsWhatItPinned
PROPERTY
  RevisionIsFound
CHECK_DEADLOCK FALSE
