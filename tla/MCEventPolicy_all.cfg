\* The files are changed up to twice while the process looks for one; then a
\* connection sends events of every kind the rules tell apart while another
\* creates and deletes the group.
SPECIFICATION PolicySpec
CONSTANTS
  g1 = g1
  friend = friend
  stranger = stranger
  relay = relay
  key = key
  empty = empty
  Yaml = Yaml
  Yml = Yml
  Absent = Absent
  Denied = Denied
  Contents <- OneFiles
  Settings <- OneOfEach
  KindOf <- OneKind
  Defaults <- InLoad
  Unset = Unset
  Junk = Junk
  Environments <- OneEnvironments
  MaxEdits = 2
  Events <- OneEvents
  Groups = {g1}
  NoGroup = NoGroup
  KeyOf <- OneKeyOf
  NoEvent = NoEvent
INVARIANTS PolicyTypeOK FoundUnderEdit Precedence ExternalAccess GroupEventsHaveGroup
CHECK_DEADLOCK FALSE
