--------------------------- MODULE MCInnerStreams ---------------------------
EXTENDS InnerStreams

CONSTANT s1

\* The first stream meets every kind of rule; the second meets a breakpoint in
\* its response phase at most, and competes for the origin.
MCReqActions(i) == IF i = s1 THEN {"none", "hang", "breakpoint"} ELSE {"none"}
MCRespActions(i) == IF i = s1 THEN {"none", "hang", "breakpoint"} ELSE {"none", "breakpoint"}
=============================================================================
