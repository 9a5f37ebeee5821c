------------------------ MODULE MCObjectPermissions -------------------------
(***************************************************************************)
(* Instances of ObjectPermissions for TLC.                                 *)
(***************************************************************************)
EXTENDS ObjectPermissions

CONSTANTS alice, bob, carol, c, s, t, none

\* A collection of alice with a template of hers, and a survey of bob that moves
\* in and out of it.
MCType == [a \in Assets |-> IF a = c THEN "collection" ELSE IF a = s THEN "survey" ELSE "template"]
MCOwner == [a \in Assets |-> IF a = s THEN bob ELSE alice]
MCPlaces == [a \in Assets |-> IF a = c THEN {none} ELSE IF a = s THEN {c, none} ELSE {c}]
MCAbout == [a \in Assets |-> IF a = s THEN {carol, Anonymous} ELSE {carol}]
MCGranted ==
    [a \in Assets |-> [u \in Everyone |->
        IF a = c /\ u = carol THEN {"change_asset"} ELSE
        IF a = s /\ u = carol THEN {Partial} ELSE
        IF a = s /\ u = Anonymous THEN {"view_submissions"} ELSE {}]]
MCFiltered == {{"change_submissions"}}
MCLists ==
    [a \in Assets |-> [u \in Everyone |->
        IF a = s /\ u = carol THEN {{"view_submissions"}, {Partial, "change_asset"}, {Partial, "view_submissions"}} ELSE {}]]
MCCopied == {<<s, t>>}
=============================================================================
