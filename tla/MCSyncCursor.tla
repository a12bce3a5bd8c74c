---------------------------- MODULE MCSyncCursor ----------------------------
(* Small instances of SyncCursor.                                          *)
EXTENDS SyncCursor
CONSTANTS n1, n2, n3
=============================================================================
