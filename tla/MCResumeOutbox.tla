--------------------------- MODULE MCResumeOutbox ---------------------------
(* Instances of ResumeOutbox for TLC. *)
EXTENDS ResumeOutbox

\* Two background loops and an HTTP handler.
CONSTANTS w1, w2, h1
=============================================================================
