\* Two callers with one key, two kinds of calls, one fault.
CONSTANTS
  Callers = {p, q}
  Senders = {s}
  Calls = {k1, k2}
  Gases = {1, 2}
  None = None
  MaxNonce = 2
  MaxPushes = 3
  MaxFaults = 1
SPECIFICATION Spec
INVARIANTS TypeOK RefusedOnlyInARace SharedReceiptNeedsARace ReportedIsPushed
PROPERTY EveryCallEnds
CHECK_DEADLOCK FALSE
