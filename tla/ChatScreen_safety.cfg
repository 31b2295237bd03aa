SPECIFICATION Spec
CONSTANTS
  d1 = d1
  d2 = d2
  g1 = g1
  None = None
  Direct = {d1, d2}
  Group = {g1}
  Order <- ListOrder
  Window = 2
  MaxMsgs = 2
  MaxAsks = 2
INVARIANTS ScreenShowsOpenChat ListedAreKnown QuoteStaysInChat UnreadIsMarked
PROPERTIES TwiceAsked MessageWithdraws
CHECK_DEADLOCK FALSE
