CONSTANTS
  MaxDate = 2
  Times <- MCTimes
  DateArgs <- MCDateArgs
  LengthArgs <- MCLengthArgs
  Dates = {0, 1, 3}
  Delays = {0, 1}
SPECIFICATION Spec
INVARIANTS TypeOK ExactlyWhatIsAsked NothingEscapes
