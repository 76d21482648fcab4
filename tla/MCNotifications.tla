--------------------------- MODULE MCNotifications ---------------------------
(* One session, two deliverers, one mishap.  Three attempts leave room for *)
(* two that find a claim fresh, and the last one, which does not.          *)
EXTENDS Notifications

CONSTANTS s1, w1, w2
=============================================================================
