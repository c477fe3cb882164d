---------------------------- MODULE MCOutputPath ----------------------------
(***************************************************************************)
(* Two workers with few and small slots: records that fit a slot, fill it  *)
(* up and exceed it, so that slots run out, the overflow budget is used    *)
(* and records bigger than a slot are shipped on their own.                *)
(***************************************************************************)
EXTENDS OutputPath

CONSTANTS w1, w2

MCWorkers == {w1, w2}
MCSizes == (w1 :> {1, 3}) @@ (w2 :> {3})

\* w1 gets to use a slot twice while w2's record is under way.
MCMaxRecords == (w1 :> 3) @@ (w2 :> 1)
=============================================================================
