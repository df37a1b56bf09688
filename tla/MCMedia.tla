------------------------------ MODULE MCMedia ------------------------------
(***************************************************************************)
(* Media for TLC: an upload and its retry with the same key.               *)
(***************************************************************************)
EXTENDS Media

MCKeyOf == [r \in Requests |-> "k"]

=============================================================================
