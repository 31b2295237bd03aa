SPECIFICATION Spec
CONSTANTS
  alice = alice
  bob = bob
  alice_chat = alice_chat
  alice_sync = alice_sync
  bob_chat = bob_chat
  bob_sync = bob_sync
  m1 = m1
  a1 = a1
  a2 = a2
  as = as
  b1 = b1
  b2 = b2
  bs = bs
  NoConn = NoConn
  NoMsg = NoMsg
  User = {alice, bob}
  Client = {alice_chat, alice_sync, bob_chat}
  Window = {alice_chat, bob_chat}
  Account <- AccountOf
  Msg = {m1}
  Conn = {a1, as, b1}
  Sender <- OneWay
  Recipient <- OneWayTo
  Owner <- OwnerOf
  MaxDrops = 1
  MaxErrors = 1
  MaxClears = 0
INVARIANTS NoLoss TicksAreTrue ConfirmedIsRecorded NoMissedReceipt Consistent
PROPERTIES TicksNeverRegress ImplementsDelivery
SYMMETRY Symmetry
CHECK_DEADLOCK FALSE
