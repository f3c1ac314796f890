\* Two streams for one connection of market data, or one and a stream without a
\* cap, and two tasks in aclose.
CHECK_DEADLOCK FALSE
SPECIFICATION BoundedSpec
CONSTANTS
    s1 = s1
    s2 = s2
    s3 = s3
    marketData = marketData
    operations = operations
    Streams = {s1, s2, s3}
    Services = {marketData, operations}
    ServiceOf <- StreamServices
    Caps <- OneOfMarketData
    Enforce = TRUE
    MarketData = marketData
    Closers = {c1, c2}
    NoStream = none
    Credentials <- SomeCredentials
INVARIANTS
    CountExact
    PoolOutlivesStreams
PROPERTIES
    GivenBack
