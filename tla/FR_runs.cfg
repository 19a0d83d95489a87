SPECIFICATION FetchSpec
CONSTANTS
    Page = "page"
    Standard = {"ann", "fb"}
    Fallback = {"fb"}
    Quote = {}
    Dynamic = {"dyn"}
    Source <- SourceOf
    Ids = {"i1", "i2"}
    Workers = 2
    MaxAttempts = 2
    MaxRuns = 2
    MaxKills = 1
PROPERTIES
    PassMeansComplete
    SavedSuccessKept
    FailureHasCause
