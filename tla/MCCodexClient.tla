--------------------------- MODULE MCCodexClient ---------------------------
EXTENDS CodexClient, TLC

CONSTANTS t1, t2, t3, s1, d1, c1

\* t1 and t3 are turns of one thread.
MCAbout == [r \in Stops \cup Decisions |-> t1]
MCThread == [t \in Turns |-> IF t = t3 THEN t1 ELSE t]
MCScenarios == {{t1, t2, d1}, {t1, s1, d1}, {t1, t3}, {t1, c1}, {Boot, c1}}
=============================================================================
