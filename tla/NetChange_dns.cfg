CONSTANTS
  Session = {s1}
  Address = {a1, a2}
  MaxSent = 4
  MaxNet = 2
  MaxReboot = 0
  Faulty = FALSE
SPECIFICATION Spec
INVARIANTS ResetRestoresDns
