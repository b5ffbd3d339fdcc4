CONSTANTS
  u1 = u1
  u2 = u2
  Uri = {u1, u2}
  Blocks <- MCBlocks
  BufSize = 4
  Retries = 3
  MaxEvents = 5
SPECIFICATION FairSpec
INVARIANTS TypeOK ContentIsComplete ContentIsExact AnswersAreOwn
PROPERTIES CallReturns WorksAgain
