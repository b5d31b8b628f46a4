CONSTANTS
  OrderIds = {1, 2, 3, 4, 5, 6, 7}
  UnitPrices = {1, 2}
SPECIFICATION Spec
PROPERTIES
  ImplementsPriorityBook
