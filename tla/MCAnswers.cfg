SPECIFICATION Spec
CONSTANTS
    Channels = {c1}
    Readers = {r1, r2}
    Writers = {w1}
    ListKey = list
    MaxEntries = 1
    Ttl = 2
    MaxLoad = 1
    MaxVersion = 2
    MaxTicks = 3
    Hooks = {h1, h2}
    Batches <- MCBatches
    Lines <- MCLines
    Calls = {1, 2}
    MaxCalls = 2
    Views = {v1, v2}
    Locales = {"en", "pt-BR"}
    StaleAfter = 2
    MaxGeneration = 2
    MaxReportAsks = 3
    MaxReportFaults = 1
PROPERTIES CacheHonest TranslationsTrue ReportTrue
CHECK_DEADLOCK FALSE
