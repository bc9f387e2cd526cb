----------------------------- MODULE MCLimiter ------------------------------
(* The control plane's credentials by themselves. *)
EXTENDS Plane
=============================================================================
