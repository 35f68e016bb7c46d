------------------------ MODULE MCNotificationOutbox ------------------------
(***************************************************************************)
(* Two API instances and one notice, which is claimed again and again: by  *)
(* retries, after a lease that ended, after a failure.                     *)
(***************************************************************************)
EXTENDS NotificationOutbox

CONSTANTS n1, w1, w2

=============================================================================
