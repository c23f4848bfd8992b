---------------------------- MODULE MCScenarioRun ----------------------------
(* ScenarioRun for TLC: two login steps (login, login_as) and what follows. *)
EXTENDS ScenarioRun

LoginSteps == {1, 2}
=============================================================================
