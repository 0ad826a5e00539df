SPECIFICATION Spec
CONSTANTS
    Secrets = {s1, s2}
    NoSecret = NoSecret
    Generated = generated
    Keys = {"k1", "k2"}
    MaxBoots = 3
    MaxBootOps = 4
    Posts = {p1, p2, p3}
    Contents = {"a", "b"}
    MaxIntakeFaults = 1
    Editors = {e1, e2}
    MaxTemplates = 3
    MaxEdits = 6
    MaxTemplateFaults = 1
    Callers = {i1, i2}
    Burst = 2
    Window = 3
    IdleTtl = 3
    MaxKeys = 1
    MaxNow = 4
    Bots = {"GPTBot", "ClaudeBot"}
    MaxPageEdits = 2
    MaxLines = 4
    Pages = {"root", "a", "b"}
    Foreign = "foreign"
    Sitemaps = {"sitemap.xml", "other.xml"}
    MaxSitemaps = 2
    Limits = {0, 2}
    Items = 3
    Concurrency = 2
    RowLimit = 2
    MaxRows = 4
    Tags <- MCTags
    MaxStoreFailures = 1
    MaxDeaths = 1
    FixAudits = {"x", "y"}
    MaxFixRows = 2
    MaxFixCalls = 2
    MaxFixErrors = 1
    MaxGoes = 3
INVARIANTS VersionsKept RateKept SiteCovered CallsExplained CardsTrue
PROPERTIES SealedIsOpened AnsweredIsKept ScoresFollowEdits
CHECK_DEADLOCK FALSE
