--------------------------- MODULE MCSessionLife ---------------------------
(* SessionLife for TLC: every handler, two requests at a time.             *)
EXTENDS SessionLife, TLC

CONSTANTS r1, r2

Requests == Permutations({r1, r2})

=============================================================================
