SPECIFICATION Spec
CONSTANTS
  a1 = a1 a2 = a2 b1 = b1 A = A B = B
  Mbuf = {a1, a2, b1}
  Pool = {A, B}
  PoolOf <- TwoPools
  RxPool = A
  Data = {d1, d2}
  FastFree = {TRUE, FALSE}
  TxDesc = 2
  BatchMax = 3
  MaxSends = 2
SYMMETRY MbufSymmetry
INVARIANTS TypeOK NothingLeaks OneOwnerUnlessRefused SentIntactUnlessRefused HomeUnlessMixed
CHECK_DEADLOCK FALSE
