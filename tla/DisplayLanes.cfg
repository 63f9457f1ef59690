\* The link hooks alone, with two ports.
CONSTANTS
  Framebuffers = {0, 1}
  Refs = {0, 1, 2, 3}
  Cdclks <- EveryCdclk
  DmcArgs = {"skip", "tgl", "adlp"}
  Ports = {edp, dp}
  NoPort = NoPort
  Sinks <- SomeSinks
  Overrides = {0, 2, 3}
  Rates = {10}
  Platforms = {TRUE, FALSE}
  Personalities <- ManyPersonalities
  Tables <- ManyTables
  DriverValues <- Values
  Probes = 2
  Writes = 2
  Merge <- MergeDictionaryIntoDictionary
  Includes <- HasEntries
  Parts = {"link"}
SPECIFICATION PSpec
INVARIANT SinkFollowed
