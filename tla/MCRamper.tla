------------------------------ MODULE MCRamper ------------------------------
(* A short ramp of a few cycles; the window is out of step with the phases. *)
EXTENDS Ramper
=============================================================================
