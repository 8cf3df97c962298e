SPECIFICATION FairSpec
CONSTANTS
  N = 3
  Button = 1
  SmallBlind = 1
  BigBlind = 2
  Ranks = 2
  Rules <- BothGames
  MaxOffers = 1
INVARIANT PotsPaidOut
INVARIANT PaidByStrength
INVARIANT TurnIsOwed
INVARIANT SquareAtClose
PROPERTY TimersPayWhatWasAsked
PROPERTY AbsentHandEnds
