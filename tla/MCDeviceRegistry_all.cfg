\* Registrations, retries, deletes and callbacks in any order.
SPECIFICATION FairSpec
CONSTANTS
  phone = phone
  tablet = tablet
  web = web
  kiosk = kiosk
  p = p
  noDevice = noDevice
  i1 = i1
  i2 = i2
  i3 = i3
  x1 = x1
  Clients <- AllClients
  Devices <- AllDevices
  NoDevice = noDevice
  DeviceOf <- SharedDevice
  TypeOf <- AllTypes
  HasAPNs = TRUE
  Ids <- ThreeIds
  Callbacks <- OneCallback
  None = None
INVARIANTS
  TypeOK
  IndexesAgree
  RegisteredUntilReplaced
PROPERTIES
  ImplementsDirectory
  RetriesEnd
CHECK_DEADLOCK FALSE
