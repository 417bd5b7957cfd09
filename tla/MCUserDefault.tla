---------------------------- MODULE MCUserDefault ----------------------------
(* Instances of UserDefault for TLC. *)
EXTENDS UserDefault

CONSTANTS d1, d2, w1, w2, t

\* One device with two wqs, so that one may be in the way of the other.
OneDevOf  == [w \in {w1, w2} |-> d1]
OneDevSeq == <<d1>>
OneWqSeq  == [d \in {d1} |-> <<w1, w2>>]
OneType   == [d \in {d1} |-> "dsa"]
=============================================================================
