---------------------------- MODULE CacheRequests ----------------------------
(* What the Coalescer and the ResponseCache have in common: the requests    *)
(* and the keys "GET:{uri}" under which both file them.                     *)
EXTENDS Integers, FiniteSets, FiniteSetsExt

CONSTANTS
    Tasks,  \* request handlers
    Keys    \* the URLs they ask for
=============================================================================
