------------------------------- MODULE MCLogs -------------------------------
(* Two streams whose chunks outgrow the queue, a segment and the spool.     *)
EXTENDS LogDelivery
=============================================================================
