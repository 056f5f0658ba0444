SPECIFICATION Spec
CONSTANTS
  utc = utc button = button serial = serial console = console
  n1 = n1 n2 = n2 n3 = n3
  Topic = {utc, button}
  Callback = {serial, console}
  Cell = {n1, n2, n3}
  Nil = Nil
  QueueLength = 1
SYMMETRY Symmetry
INVARIANTS TypeOK  OnlySubscribers
