-------------------------------- MODULE Cpus --------------------------------
(* The processors, for the modules that model what happens on each of them. *)
CONSTANT Cpu
=============================================================================
