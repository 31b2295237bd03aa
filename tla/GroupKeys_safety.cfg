SPECIFICATION Spec
CONSTANTS
  ann = ann
  ben = ben
  cyd = cyd
  t1 = t1
  NoUser = NoUser
  NoText = NoText
  User = {ann, ben, cyd}
  Creator = ann
  Text = {t1}
  MaxEpoch = 4
  MaxFaults = 1
INVARIANTS OneKeyPerEpoch NoOutsiderKey TextsReadable
SYMMETRY Symmetry
