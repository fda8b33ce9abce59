-------------------------- MODULE MCRunLifecycle --------------------------
(* Model checking of RunLifecycle on small instances. *)
EXTENDS RunLifecycle
=============================================================================
