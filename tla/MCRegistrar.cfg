CONSTANTS
  hA = hA  iA = iA  gA = gA  hB = hB  iB = iB
  host = host  host2 = host2  inst = inst  type = type
  addr = addr  addr2 = addr2  srv = srv  srv2 = srv2  ptr = ptr
  Key = {hA, iA, hB, iB}
  Rec = {addr, srv, ptr}
  Name = {host, inst, type}
  Ptr = {ptr}
  KeyName <- MCKeyName
  Registrant <- MCRegistrant
  RecName <- MCRecName
  Target <- MCTarget
  Requests <- MCRequests
  NoKey = NoKey  NoTimer = NoTimer  Spent = Spent
  Slot = {s1, s2}
  RefuseForeign = TRUE
  MaxTime = 2
  MaxEvents = 4
  Specs <- MCSpecs
  Alphabet <- MCAlphabet
  DeleteNames = {"h", "i", "j"}
  BaseOf <- MCBaseOf
  ServiceOf <- MCServiceOf
  ServiceTypes = {"t"}
  NoName = NoName
  MaxRRs = 5
  Parts = {"handler", "host", "message"}
SPECIFICATION RegistrarSpec
INVARIANTS RegistrarInv StoreMatchesDNS ClassifyIsExact BuiltRoundTrips MessageInv
PROPERTIES FirstComeFirstServed ConflictIsGenuine ConfirmedIsLeased
SYMMETRY SlotSymmetry
CHECK_DEADLOCK FALSE
