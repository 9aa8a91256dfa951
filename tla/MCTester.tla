------------------------------- MODULE MCTester -------------------------------
(* The small instances of TestSuite and of GtestScenarios, side by side.   *)
EXTENDS MCTestSuite, MCGtestScenarios, Tester
=============================================================================
