\* Well-formed and malformed files, agreeing and drifted daemon catalogs, two
\* handlers that may hang, the metrics listener on or off.
CONSTANTS
  CapabilityIDs = {"chat", "embeddings", "unimplemented"}
  WorkUnits = {"token"}
  PriceValue <- MCPriceValue
  DecimalText <- MCDecimalText
  NilPriceInfo = NilPriceInfo
  Implemented = {"chat", "embeddings"}
  YAMLs <- MCYAMLs
  DaemonReplies <- MCDaemonReplies
  Handlers = {h1, h2}
SPECIFICATION FairSpec
INVARIANTS TypeOK ServesDaemonPrices FullCatalogOrNothing PublishedPricesCharged NoRegistrationPanic CleanExitDrained
PROPERTY SignalEndsProcess
