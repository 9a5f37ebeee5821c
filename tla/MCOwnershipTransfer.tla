------------------------- MODULE MCOwnershipTransfer -------------------------
(***************************************************************************)
(* Instances of OwnershipTransfer for TLC: one invite, by which alice      *)
(* offers bob one form, or a form and a draft.                             *)
(***************************************************************************)
EXTENDS OwnershipTransfer, TLC

CONSTANTS alice, bob, form, draft, w1, w2, c1, c2

AliceOwns == [a \in Assets |-> alice]
FormScope == [i \in {1} |-> {form}]
PairScope == [i \in {1} |-> {draft, form}]
FromAlice == [i \in {1} |-> alice]
ToBob == [i \in {1} |-> bob]

WorkerSymmetry == Permutations({w1, w2})
ClientSymmetry == Permutations({c1, c2})
=============================================================================
