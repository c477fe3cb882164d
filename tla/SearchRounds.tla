---------------------------- MODULE SearchRounds ----------------------------
(***************************************************************************)
(* What the reusable worker pool of rawgrep promises about successive      *)
(* searches: they are rounds.  Every worker runs every round once, and a   *)
(* round starts only when no worker still owes a finish of the one before. *)
(* SearchLifecycle implements it.                                          *)
(***************************************************************************)
EXTENDS Naturals

CONSTANT Workers

VARIABLES round,      \* the searches started so far
          finishes    \* [Workers -> the rounds a worker has finished]

roundVars == <<round, finishes>>

RoundsInit ==
  /\ round \in {0, 1}       \* the single-search context starts in its round
  /\ finishes = [w \in Workers |-> 0]

StartRound ==
  /\ \A w \in Workers : finishes[w] = round
  /\ round' = round + 1
  /\ UNCHANGED finishes

FinishRound(w) ==
  /\ finishes[w] + 1 = round
  /\ finishes' = [finishes EXCEPT ![w] = @ + 1]
  /\ UNCHANGED round

RoundsNext == StartRound \/ \E w \in Workers : FinishRound(w)

RoundsSpec == RoundsInit /\ [][RoundsNext]_roundVars
=============================================================================
