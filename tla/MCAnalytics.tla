---------------------------- MODULE MCAnalytics ----------------------------
(* AnalyticsCollection for TLC; the .cfg chooses the bounds.               *)
EXTENDS AnalyticsCollection
============================================================================
