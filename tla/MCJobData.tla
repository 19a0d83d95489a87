------------------------------ MODULE MCJobData ------------------------------
\* Instance of JobData: PageAjax, a group that a dynamic group reads, one of
\* the quote transport, and the dynamic group.
EXTENDS JobData

SourceOf == [d \in Dynamic |-> "ann"]
=============================================================================
