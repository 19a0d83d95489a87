SPECIFICATION DataSpec
CONSTANTS
    Page = "page"
    Standard = {"ann", "quote"}
    Fallback = {}
    Quote = {"quote"}
    Dynamic = {"dyn"}
    Source <- SourceOf
    Ids = {"i1"}
    Workers = 2
    MaxRetries = 2
    MaxRestarts = 1
INVARIANT CompletedIsWhole
PROPERTY WorkEnds
