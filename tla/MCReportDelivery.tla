--------------------------- MODULE MCReportDelivery ---------------------------
(* Instances of ReportDelivery for TLC.                                     *)
EXTENDS ReportDelivery
==============================================================================
