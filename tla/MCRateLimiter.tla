--------------------------- MODULE MCRateLimiter ---------------------------
(***************************************************************************)
(* RateLimiter for TLC: two handlers, a client whose traffic is watched    *)
(* and another one, whose requests clean up the watched one's bucket.      *)
(***************************************************************************)
EXTENDS RateLimiter

CONSTANTS ann, bob, h1, h2, proxy

\* The handlers are interchangeable.
Handlers == Permutations(Thread)
=============================================================================
