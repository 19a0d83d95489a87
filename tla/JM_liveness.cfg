\* No symmetry: liveness. One pool thread, so that tasks queue behind each other.
SPECIFICATION FairSpec
CONSTANTS
  Jobs = {j1, j2}
  s1 = s1
  Stocks <- MCStocks
  StockOf <- MCStockOf
  Managers = {m1}
  Callers = {c1, c2}
  Main = Main
  None = None
  PoolSize = 1
  MaxCalls = 3
  MaxCrashes = 0
PROPERTIES EventuallyReleased CancelTakesEffect
