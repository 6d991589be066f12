----------------------------- MODULE MCPorted -----------------------------
(* TestRun for TLC: one after the other, all the programs of PortedTests.  *)
EXTENDS TestRun

AllTests == DOMAIN Script

=============================================================================
