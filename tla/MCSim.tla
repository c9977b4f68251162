-------------------------------- MODULE MCSim --------------------------------
(* Traces on which TLC checks the optimal replacement of Sim. *)
EXTENDS Sim

CONSTANTS a, b, c, d

\* Uses in a circle, and there and back; pages of which some are used for the
\* last time while others still come and go; and in the longest one a page that
\* comes back into another frame and is then the one to evict.
SomeTraces == { <<a, b, c, d, a, b, c, d>>,
                <<a, b, c, d, d, c, b, a>>,
                <<a, b, c, d, c, a, b, d>>,
                <<a, b, c, a, d, b, c, d>>,
                <<a, b, c, d, c, a, b>>,
                <<a, a, b, c, d, b, c>>,
                <<a, b, c, d, a, b, c, a, d, b, a, d, b, c>> }
=============================================================================
