CONSTANTS
  plugin = plugin
  ann = ann
  bob = bob
  a1 = a1
  a2 = a2
  b1 = b1
  None = None
  Service = {plugin}
  Plugin = {plugin}
  Play = {a1, a2, b1}
  User = {ann, bob}
  Instance = {1, 2}
  Request = {1}
  UserOf <- MCUserOf
  TimeOf <- MCTimeOf
  ServiceOf <- MCServiceOf
  MaxSubmits = 2
  MaxFaults = 1
  MaxLoads = 2
SPECIFICATION LiveSpec
INVARIANTS NoLostWakeup OneLoop
PROPERTIES DeliveryKept EveryScrobbleLeaves
