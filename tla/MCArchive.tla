------------------------------ MODULE MCArchive ------------------------------
EXTENDS Archive

FourMappings == 1 .. 4
\* solutions 1 and 3, and 2 and 4, share their decision vectors
TwoDecisions == [m \in FourMappings |-> m % 2]
BelowAll == -1
=============================================================================
