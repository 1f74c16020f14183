-------------------------------- MODULE Loops --------------------------------
(***************************************************************************)
(* A loop of the code that goes on until there is nothing left to do: a    *)
(* turn that finds nothing to do changes nothing, so that any number of    *)
(* turns that is large enough is the loop.                                 *)
(***************************************************************************)
EXTENDS Integers

Repeat(Turn(_), x, n) ==
    LET after[i \in 0..n] == IF i = 0 THEN x ELSE Turn(after[i - 1])
    IN after[n]

=============================================================================
