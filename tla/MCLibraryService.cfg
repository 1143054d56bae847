\* Any three requests: enough for a row that is deleted and created anew under a third.
CONSTANTS
  App = {10, 20}
  Request = {1, 2, 3}
  NoRequest = 0
  Absent = "absent"
SPECIFICATION Spec
\* The requests come to an end.
CHECK_DEADLOCK FALSE
INVARIANTS
  TypeOK
  RefusedOnlyInARace
PROPERTY LibraryIsAMap
