CONSTANTS
  w1 = w1  w2 = w2
  o1 = o1  o2 = o2
  i1 = i1  i2 = i2  i3 = i3
  u1 = u1  u2 = u2  u3 = u3
  p1 = p1  p2 = p2
  None = None
  Workers = {w1, w2}
  Orders = {o1, o2}
  Items = {i1, i2, i3}
  Units = {u1, u3}
  Products = {p1, p2}
  OrderOf <- MCOrderOf
  ItemProduct <- MCItemProduct
  UnitProduct <- MCUnitProduct
  ProductType <- MCProductType
  Targets = {"PROCESSING"}
SPECIFICATION FairSpec
PROPERTY JobsFinish
