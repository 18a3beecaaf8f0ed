SPECIFICATION SafeSpec
CHECK_DEADLOCK FALSE
CONSTANTS
  Clients = {"c1", "c2"}
  Providers = {"moneris"}
  Sweepers = {"next"}
  MaxStops = 1
  MaxCrashes = 0
INVARIANTS BooksBackedByMoney BooksAgree
PROPERTIES RowMovesForward BooksKeepPromise
