\* Two handlers on one connection of the pool and a signal at any time.
CONSTANTS
  h1 = h1
  h2 = h2
  c1 = c1
  Handlers <- Pair
  Conns <- OneConn
  Ops <- Shapes
  HeaderTimeout = 1
  ReadTimeout = 2
  RequestTimeout = 1
  WriteTimeout = 3
  ShutdownTimeout = 3
SPECIFICATION FairServerSpec
INVARIANTS
  OneConnEach
  GaugeIsTrue
  CountedAsSent
  AnsweredInTime
  StoresOutliveHandlers
  SignalEndsCleanly
PROPERTIES
  RequestsEnd
  SignalStops
\* The process ends.
CHECK_DEADLOCK FALSE
