SPECIFICATION Spec
CONSTANTS
  alice = alice
  bob = bob
  carol = carol
  m1 = m1
  m2 = m2
  m3 = m3
  m4 = m4
  c1 = c1
  c2 = c2
  None = None
  Peer = {alice, bob, carol}
  Conn = {c1, c2}
  Msg = {m1, m2, m3}
  Target <- Each
  Sender <- From
  Recipient <- To
  Synced = {m1}
  Cap = 1
  MaxStarts = 1
  MaxQuits = 1
INVARIANTS RendezvousMeets
CHECK_DEADLOCK FALSE
