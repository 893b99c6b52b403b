SPECIFICATION FairApartSpec
CONSTANTS
  p1 = p1 p2 = p2 c1 = c1 r1 = r1 n1 = n1 n2 = n2 n3 = n3
  HeadCell = HeadCell NULL = NULL
  Producers = {p1} Consumer = c1 Readers = {}
  Node = {n1, n2} Oversize = {} MaxItems = 2
PROPERTIES AddReturns
