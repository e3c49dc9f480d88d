------------------------------ MODULE MCWebServer ------------------------------
(* WebServer for TLC. Descriptors and workers are model values; no symmetry, *)
(* as the run checks liveness.                                               *)
EXTENDS WebServer
===============================================================================
