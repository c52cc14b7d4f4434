SPECIFICATION Spec
CONSTANTS
  t1 = t1
  t2 = t2
  t3 = t3
  Threads = {t1, t2, t3}
  Digits = {1, 2}
  Texts <- TwoTexts
  Restarts = 1
INVARIANTS
  NeverWrong
  TableInv
PROPERTIES
  Repaired
CHECK_DEADLOCK FALSE
