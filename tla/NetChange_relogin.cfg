CONSTANTS
  Session = {s1, s2}
  Address = {a1, a2}
  MaxSent = 4
  MaxNet = 1
  MaxReboot = 0
  Faulty = FALSE
SPECIFICATION Spec
PROPERTIES ReloginIsNew
