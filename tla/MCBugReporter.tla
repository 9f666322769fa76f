--------------------------- MODULE MCBugReporter ---------------------------
(* The instance of BugReporter for TLC is all in reports.cfg.              *)
EXTENDS BugReporter
=============================================================================
