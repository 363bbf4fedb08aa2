CONSTANTS
  l1 = l1 l2 = l2 l3 = l3 r1 = r1 f1 = f1 f2 = f2 f3 = f3 own = own other = other
  Msg = {own, other}
  Mine = {own}
  Client = {l1, l2, l3, r1}
  First = l1
  Remote = {r1}
  Fd = {f1, f2, f3}
  MAXCLIENTS = 2
  MAXMSGS = 2
  SeenCap = 3
  MaxServed = 2
  MaxHangups = 1
  Nobody = Nobody
  Empty = Empty
  Idle = Idle
SPECIFICATION Spec
INVARIANTS TypeOK UniqueSlot PlainStaysLocal AckedFirst  
SYMMETRY Alike
CHECK_DEADLOCK FALSE
