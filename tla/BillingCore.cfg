\* Two admins, the billing job and the collector on one subscription of one plan.
SPECIFICATION Spec
CONSTANTS
  Plans = {pl}
  NoPlan = NoPlan
  Terms <- MCTerms
  Limits = {2}
  Dates = {0}
  Boxes <- MCBoxes
  Never = Never
  NoDate = NoDate
  Gigabyte = 5
  Parts = 2
  Minute = 2
  Day = 1
  Admins = {a1,a2}
  MaxTime = 1
  Horizon = 1
  MaxUsed = 2
  Unborn = Unborn
  Gone = Gone
\* Plan and subscription are deleted in the end.
CHECK_DEADLOCK FALSE
SYMMETRY Symmetry
INVARIANT TypeOK
PROPERTIES UntouchedTermsStay ExtensionReaches MarksSayWhy LapsesAsAssumed
