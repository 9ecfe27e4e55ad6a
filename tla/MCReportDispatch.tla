-------------------------- MODULE MCReportDispatch --------------------------
(***************************************************************************)
(* ReportDispatch on small instances.                                      *)
(***************************************************************************)
EXTENDS ReportDispatch
=============================================================================
