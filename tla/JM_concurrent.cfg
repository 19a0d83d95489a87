\* One manager, two server threads, two jobs of one stock, one restart.
SPECIFICATION Spec
CONSTANTS
  Jobs = {j1, j2}
  s1 = s1
  Stocks <- MCStocks
  StockOf <- MCStockOf
  Managers = {m1}
  Callers = {c1, c2}
  Main = Main
  None = None
  PoolSize = 2
  MaxCalls = 4
  MaxCrashes = 1
SYMMETRY Symmetric
INVARIANTS TypeOK ManagerExclusion BusyIsExecuting
PROPERTY RestartRepairs
