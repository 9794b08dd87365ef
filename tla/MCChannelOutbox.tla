--------------------------- MODULE MCChannelOutbox --------------------------
(* Instances of ChannelOutbox for TLC. *)
EXTENDS ChannelOutbox

\* A background loop and the HTTP task that drains a new request.
CONSTANTS w1, h1
=============================================================================
