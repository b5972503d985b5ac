CONSTANTS
  w1 = w1  w2 = w2
  o1 = o1  o2 = o2
  i1 = i1  i2 = i2
  u1 = u1  u2 = u2
  p1 = p1
  c1 = c1  c2 = c2  c3 = c3
  None = None
  Workers = {w1}
  Orders = {o1}
  Items = {i1}
  Units = {u1}
  Products = {p1}
  Charges = {c1, c2}
  OrderOf <- MCOrderOf
  ItemProduct <- MCItemProduct
  UnitProduct <- MCUnitProduct
  ProductType <- MCProductType
  Targets = {"CANCELLED", "PROCESSING", "REFUNDED"}
  AdminTargets = {"CANCELLED", "REFUNDED"}
  Methods = {"PIX"}
  Ops = {"pay", "refund"}
  Faults = {}
SPECIFICATION PaySpec
PROPERTY RefundIsFinal
