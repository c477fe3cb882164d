-------------------------- MODULE MCWorkStealing --------------------------
(* Instances of WorkStealing for TLC.                                      *)
EXTENDS WorkStealing

CONSTANTS r, a, b, c, e, f, g, h

\* Two levels down a directory has three children, so the recursion keeps a
\* head of one (a pool of one), or of two (a pool of three) and queues the
\* tail; the root queues all but one, and b is stolen with a child below it.
TreeSubdirs ==
  [x \in Dirs |-> CASE x = r -> <<a, b>>
                    [] x = a -> <<c>>
                    [] x = c -> <<e, f, g>>
                    [] x = b -> <<h>>
                    [] OTHER -> <<>>]
TreeDepth ==
  [x \in Dirs |-> CASE x = r -> 0
                    [] x \in {a, b} -> 1
                    [] x \in {c, h} -> 2
                    [] OTHER -> 3]
=============================================================================
