---------------------------- MODULE MCProcessIO ----------------------------
(* The instance of ProcessIO for TLC: the numbers are in pio.cfg.          *)
EXTENDS ProcessIO

(* Every fault by itself, and those that meet in what is reported.         *)
FewFaults ==
  {{}} \cup {{f} : f \in AllFaults}
    \cup {{"race", "close"}, {"thread", "close"}, {"close", "alloc"}}
=============================================================================
