------------------------------ MODULE MCWatcher --------------------------------
(* Model checking of Watcher. *)
EXTENDS Watcher
===============================================================================
