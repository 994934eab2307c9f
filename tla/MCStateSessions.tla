-------------------------- MODULE MCStateSessions --------------------------
(* Two sessions that race over two keys; there are no scans here. *)
EXTENDS StateSessions
MCKey == {1, 2}
MCNone == {}
=============================================================================
