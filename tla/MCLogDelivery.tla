--------------------------- MODULE MCLogDelivery ---------------------------
(* Three events from Runtime and one plugin, a queue of two, files of two. *)
EXTENDS LogDelivery

=============================================================================
