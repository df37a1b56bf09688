------------------------- MODULE MCReverseLogistics -------------------------
(***************************************************************************)
(* ReverseLogistics for TLC: two orders whose money leaves cents over, one *)
(* of two units and one unit on two lines, one of three units on a line.   *)
(***************************************************************************)
EXTENDS ReverseLogistics

\* The second order has one line: nothing was ordered on the other.
MCSales == { [quantity |-> <<2, 1>>, gross |-> <<20, 5>>, target |-> 22],
             [quantity |-> <<0, 3>>, gross |-> <<0, 40>>, target |-> 20] }

=============================================================================
