SPECIFICATION FairSpec
CONSTANTS
  u1 = u1
  u2 = u2
  Keep = Keep
  Transitions = {t1}
  Updates = {e1}
  Users = {}
  ActorOf <- MCOneActor
  Titles = {a}
  CreatedRows <- MCPlainRow
INVARIANTS StatusHasItsReason
PROPERTIES DecidedOnWhatItChanges ImplementsBoard EveryRequestAnswered
\* Every request of the run may have been answered.
CHECK_DEADLOCK FALSE
