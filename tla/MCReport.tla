------------------------------ MODULE MCReport ------------------------------
(* Three clients that post again and again, one of them with a buffer that is
   too small, two kinds of event, and a collection that may be out of memory.
   A behaviour is followed up to the step with which a second report begins. *)
EXTENDS ReportState

Apart == ~met
=============================================================================
