SPECIFICATION Spec
CONSTANTS
  Nil = Nil
  k1 = k1
  k2 = k2
  k3 = k3
  k4 = k4
  o1 = o1
  o2 = o2
  o3 = o3
  Callers = {c}
  Clients = {k1, k2, k3, k4}
  Objects = {o1, o2, o3}
  Registers <- SharedObject
  Length = 2
  MaxItems = 4
INVARIANTS
  TypeOK
  ScanInArray
  StaysRooted
CHECK_DEADLOCK FALSE
