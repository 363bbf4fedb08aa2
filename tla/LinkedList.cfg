CONSTANTS
  a1 = a1 a2 = a2 a3 = a3 a4 = a4 d1 = d1 d2 = d2
  Addr = {a1, a2, a3, a4}
  Data = {d1, d2}
  NULL = NULL
  AllocFails = TRUE
SPECIFICATION Spec
INVARIANTS WellFormed NoLeak
 
