SPECIFICATION FairApartSpec
CONSTANTS
  p1 = p1 p2 = p2 c1 = c1 r1 = r1 n1 = n1 n2 = n2 n3 = n3
  HeadCell = HeadCell NULL = NULL
  Producers = {p1, p2} Consumer = c1 Readers = {r1}
  Node = {n1, n2, n3} Oversize = {4} MaxItems = 4
INVARIANTS TypeOK NoDanglingAccess RingIntact
PROPERTIES IsFifo Delivery
