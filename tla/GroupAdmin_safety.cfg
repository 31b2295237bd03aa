SPECIFICATION Spec
CONSTANTS
  ann = ann
  ben = ben
  cyd = cyd
  dan = dan
  r1 = r1
  r2 = r2
  NoUser = NoUser
  User = {ann, ben, cyd, dan}
  Creator = ann
  Req = {r1, r2}
  MaxMembers = 3
  MaxEpoch = 6
INVARIANTS WithinCap NoGhosts OldestOwns
PROPERTY ImplementsRoster
SYMMETRY Symmetry
