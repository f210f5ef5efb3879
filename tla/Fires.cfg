SPECIFICATION GameSpec
CONSTANTS
  None = None
  Eps = 20
  Short <- FallShort
  PmBooks <- SixBooks
  Rests = {44, 56}
  Opening <- FirstBooks
  Deltas <- Moves
  Scenarios <- BooksOrFires
  Slugs = {"w", "g"}
  CategoryOf <- Kinds
  Depths = {1, 3}
  Outcomes <- Ends
CHECK_DEADLOCK FALSE
INVARIANTS BooksInv GamesArePriced FiresAreTrue
