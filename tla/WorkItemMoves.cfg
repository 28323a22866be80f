SPECIFICATION Spec
CONSTANTS
  u1 = u1
  u2 = u2
  Keep = Keep
  Transitions = {t1, t2}
  Updates = {}
  Users = {u1, u2}
  ActorOf <- MCOneActor
  Titles = {a}
  CreatedRows <- MCReadyRow
SYMMETRY MCSymmetry
INVARIANTS Consistent AuditTrail AnswerIsTrue EventNamesItsMove
PROPERTIES ToldOncePerMove
