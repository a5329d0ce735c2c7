\* Two requests against every stop, failure and time-out of the service.
CONSTANTS
  Requests = {q1, q2}
SPECIFICATION Spec
INVARIANTS ClosedAfterUse NobodyStopsAlone CleanExit
PROPERTY StopEnds
CHECK_DEADLOCK FALSE
