--------------------------- MODULE MCConnection ---------------------------
\* Two goroutines that deliver (the hub and one broadcaster), two envelopes,
\* small channels: the queue fills, the lock is contended, the pumps race.
EXTENDS Connection

CONSTANTS e1, e2, hubGo, broadcast
=============================================================================
