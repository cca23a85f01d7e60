------------------------------ MODULE ClintClaims -----------------------------
(***************************************************************************)
(* What a comment says of the core and the core does not do, stated to be  *)
(* refuted; the run that refutes it gives the shortest trace.              *)
(***************************************************************************)
EXTENDS ClintRegMap

\* iob_clint.py:323,327: iob_rvalid_o is "Read data valid", and a read takes
\* "one clock cycle".  A write at the edge after a read holds iob_rvalid_o, so
\* it stays high for an edge at which no read was taken.
RvalidMeansRead ==
  [][Edge /\ iob_rvalid_o' => bus.valid /\ bus.wstrb = 0]_vars
===============================================================================
