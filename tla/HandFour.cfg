SPECIFICATION Spec
CONSTANTS
  N = 4
  Button = 1
  SmallBlind = 1
  BigBlind = 2
  Ranks = 1
  Rules <- FourHanded
  MaxOffers = 0
INVARIANT SquareAtClose
