------------------------- MODULE MCSearchLifecycle -------------------------
(***************************************************************************)
(* Two workers and a caller that asks for several searches, some of which  *)
(* fail in their setup, with cancels at any time.                          *)
(***************************************************************************)
EXTENDS SearchLifecycle

CONSTANTS w1, w2

MCWorkers == {w1, w2}
=============================================================================
