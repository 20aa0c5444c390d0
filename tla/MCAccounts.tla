------------------------------ MODULE MCAccounts ------------------------------
(* Instances of Accounts for TLC.  The settings are a limit, a number below *)
(* zero, and a blank; text and an unset variable take the same branch as    *)
(* the second.                                                              *)
EXTENDS Accounts, TLC

Number(n) == [kind |-> "number", value |-> n]
MCSettings == {Number(-1), Number(2), [kind |-> "blank", value |-> 0]}
MCDefaultLimit == [k \in Kinds |-> 1]

Symmetry == Permutations(Users) \cup Permutations(Emails) \cup Permutations(Slots)
=============================================================================
