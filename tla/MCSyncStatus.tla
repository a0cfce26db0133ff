---------------------------- MODULE MCSyncStatus ----------------------------
\* One server with a tick it may give up on and one whose clock may be ahead.
EXTENDS SyncStatus
CONSTANTS s1, s2
MCSkew == [s \in Servers |-> IF s = s2 THEN 1 ELSE 0]
=============================================================================
