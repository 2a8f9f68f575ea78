SPECIFICATION Spec
CONSTANTS
  Charts = {c1, c2}
  NoChart = NoChart
  Requests = {r1, r2}
  Payloads = {open, close}
  Closing = {close}
  NoRequest = NoRequest
  Modes = {TRUE, FALSE}
  MaxBoots = 3
  InitialLots = 2
SYMMETRY Symmetry
INVARIANTS
  TypeOK
  AtMostOneSend
  AnswersAgree
  JournalInv
  ServedIsPrefix
PROPERTIES
  FilledCloseUndisturbed
  ImplementsCustody
CHECK_DEADLOCK FALSE
