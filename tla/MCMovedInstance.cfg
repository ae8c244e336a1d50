CONSTANTS
  hA = hA  iA = iA  gA = gA  hB = hB  iB = iB
  host = host  host2 = host2  inst = inst  type = type
  addr = addr  addr2 = addr2  srv = srv  srv2 = srv2  ptr = ptr
  Key = {hA, iA, gA, hB, iB}
  Rec = {addr, addr2, srv, srv2, ptr}
  Name = {host, host2, inst, type}
  Ptr = {ptr}
  KeyName <- MCKeyName
  Registrant <- MCRegistrant
  RecName <- MCRecName
  Target <- MCTarget
  Requests <- MoveRequests
  NoKey = NoKey  NoTimer = NoTimer  Spent = Spent
  Slot = {s1}
  RefuseForeign = TRUE
  MaxTime = 1
  MaxEvents = 4
  Specs <- MCSpecs
  Alphabet <- MCAlphabet
  DeleteNames = {"h", "i", "j"}
  BaseOf <- MCBaseOf
  ServiceOf <- MCServiceOf
  ServiceTypes = {"t"}
  NoName = NoName
  MaxRRs = 6
  Parts = {"handler"}
SPECIFICATION RegistrarSpec
PROPERTY HostDataGoesTogether
CHECK_DEADLOCK FALSE
