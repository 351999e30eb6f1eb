CONSTANTS
  c1 = c1
  c2 = c2
  u1 = u1
  u2 = u2
  ann = ann
  bob = bob
  None = None
  Client = {c1, c2}
  Uid = {u1, u2}
  Name = {ann, bob}
  UidOf <- MCUidOf
  NameOf <- MCNameOf
  Sender = {1, 2}
  PublishSize = 1
  BufferSize = 1
  MaxEvents = 1
SPECIFICATION Spec
INVARIANT NoSendAfterDetach
CHECK_DEADLOCK FALSE
