----------------------------- MODULE MCDeployment ------------------------------
(* Model checking of Deployment. *)
EXTENDS Deployment
===============================================================================
