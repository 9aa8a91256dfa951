------------------------------ MODULE MCTestEnv ------------------------------
(* Small instances of TestEnv.                                             *)
EXTENDS TestEnv, TLC

CONSTANTS e1, e2, infra

\* Two runs of one test: side by side, or the second after the first ended or
\* was killed.
MCNames == [e \in Envs |-> infra]

EnvSymmetry == Permutations(Envs)
=============================================================================
