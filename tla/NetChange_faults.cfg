CONSTANTS
  Session = {s1, s2}
  Address = {a1}
  MaxSent = 4
  MaxNet = 2
  MaxReboot = 1
  Faulty = TRUE
SPECIFICATION Spec
SYMMETRY Sessions
INVARIANTS TypeOK KeptOnlyAtLogin
