CONSTANTS
  Times = {t1, t2}
  Other = {o1}
  Junk = Junk
  NoTime = NoTime
  MaxEvents = 5
SPECIFICATION FairSpec
INVARIANTS TypeOK NormalModeHasTime ClocksAgree SetOnceIsEnough
PROPERTIES GetIsAnswered DateIsHandled
CHECK_DEADLOCK FALSE
