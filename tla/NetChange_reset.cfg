CONSTANTS
  Session = {s1, s2}
  Address = {a1, a2}
  MaxSent = 4
  MaxNet = 2
  MaxReboot = 1
  Faulty = FALSE
SPECIFICATION Spec
PROPERTIES ResetGoesBack
