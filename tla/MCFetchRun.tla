----------------------------- MODULE MCFetchRun -----------------------------
\* Instance of FetchRun: PageAjax, a group that a dynamic group reads, one
\* with a fallback, and the dynamic group.
EXTENDS FetchRun

SourceOf == [d \in Dynamic |-> "ann"]
=============================================================================
