CONSTANTS
  Session = {s1, s2}
  Address = {a1}
  MaxSent = 4
  MaxNet = 2
  MaxReboot = 1
  Faulty = FALSE
SPECIFICATION FairSpec
INVARIANTS FlagMeansConfirmed StandardInForce
PROPERTIES ResetOfOneGoesBack ComesBack
