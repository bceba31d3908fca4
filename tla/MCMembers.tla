----------------------------- MODULE MCMembers -----------------------------
(* A small instance of MemberStore. *)
EXTENDS MemberStore, TLC

CONSTANTS i1, i2, x, d1, d2

MCIds    == {i1, i2}
MCNames  == {x}
MCPresent == {i1}
MCGiven  == {d1, d2}
MCFound  ==
    {[id |-> i1, name |-> x, hash |-> TRUE], [id |-> i1, name |-> NoName, hash |-> TRUE],
     [id |-> i2, name |-> x, hash |-> FALSE], [id |-> NoId, name |-> x, hash |-> FALSE]}
Symmetry == Permutations(MCGiven)
=============================================================================
