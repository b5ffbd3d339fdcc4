CONSTANTS
  MaxId = 3
  Kind = {"del", "chg", "two", "net", "login", "unknown", "stuck"}
SPECIFICATION FairSpec
INVARIANTS TypeOK QueueIsPendingRows CursorIsUsable ReservationIsFresh
PROPERTIES RowsAreFinal ImplementsBus QuietBusServesAll
