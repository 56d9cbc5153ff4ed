------------------------ MODULE MCNotificationOutbox ------------------------
(* Small instances of NotificationOutbox.                                   *)
EXTENDS NotificationOutbox

CONSTANTS slack, email, a1, t1, s1, s2
=============================================================================
