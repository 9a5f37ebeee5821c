---------------------------- MODULE AccessRules -----------------------------
(***************************************************************************)
(* What one user may do with one asset, and how granting and revoking a    *)
(* permission changes it: the tables of the Asset class and the part of    *)
(* assign_perm() and remove_perm() that is about a single user and asset.  *)
(***************************************************************************)
EXTENDS Naturals, FiniteSets

CONSTANT Anonymous    \* the user that stands for the public

SubmissionPerms == {"add_submissions", "view_submissions", "change_submissions",
                    "delete_submissions", "validate_submissions"}
AssetPerms == {"view_asset", "change_asset", "discover_asset", "manage_asset"}
Partial == "partial_submissions"
Perms == AssetPerms \cup SubmissionPerms \cup {Partial}

Assignable(type) ==
    IF type = "survey" THEN Perms \ {"discover_asset"} ELSE
    IF type = "collection" THEN AssetPerms ELSE AssetPerms \ {"discover_asset"}

Heritable == {"view_asset", "change_asset"}
AllowedAnonymous == {"view_asset", "discover_asset", "add_submissions", "view_submissions"}

\* The permissions that KoBoCAT keeps too, and those of the public, which are
\* flags of the XForm there.
KcMapped == SubmissionPerms
KcFlags == {"add_submissions", "view_submissions"}

\* IMPLIED_PERMISSIONS followed to the end.
Implied(p) ==
    IF p = "manage_asset" THEN (AssetPerms \cup SubmissionPerms) \ {p} ELSE
    IF p \in {"change_asset", "discover_asset", "view_submissions", Partial}
    THEN {"view_asset"} ELSE
    IF p = "change_submissions" THEN {"view_submissions", "add_submissions", "view_asset"} ELSE
    IF p \in {"delete_submissions", "validate_submissions"} THEN {"view_submissions", "view_asset"}
    ELSE {}

Implying(p) == {q \in Perms : p \in Implied(q)}

Contradictory(p) ==
    IF p = Partial THEN (SubmissionPerms \ {"add_submissions"}) \cup {"manage_asset"} ELSE
    IF p \in SubmissionPerms \ {"add_submissions"} THEN {Partial} ELSE {}

(***************************************************************************)
(* The rows about one user and one asset: the direct grants and denials,   *)
(* the inherited grants, the permissions that the partial row filters, and *)
(* what KoBoCAT has.  Denials are never inherited, and the unique key of   *)
(* the table makes each of them a set.                                     *)
(***************************************************************************)
Access == [granted: SUBSET Perms, denied: SUBSET Perms, inherited: SUBSET Perms,
           filters: SUBSET SubmissionPerms, kc: SUBSET KcMapped]

NoAccess == [granted |-> {}, denied |-> {}, inherited |-> {}, filters |-> {}, kc |-> {}]

\* A denial wins over every grant.
Effective(x, u) ==
    LET perms == (x.granted \cup x.inherited) \ x.denied
    IN  IF u = Anonymous THEN perms \cap AllowedAnonymous ELSE perms

\* Mutant: permissions that KoBoCAT does not know are sent to it.
MirroredUnmapped(u, perms) == perms

Mirrored(u, perms) == perms \cap (IF u = Anonymous THEN KcFlags ELSE KcMapped)

\* Mutant: a permission is revoked without those that imply it.
OnlyItself(p, type) == {p}

With(p, type) == {p} \cup (Implied(p) \cap Assignable(type))
WithImplying(p, type) == {p} \cup (Implying(p) \cap Assignable(type))

\* Mutant: contradictory permissions are left alone.
GrantingBeside(x, u, p, type, deployed) ==
    LET new == IF p \in x.granted THEN {} ELSE With(p, type) \ x.granted
    IN  [x EXCEPT !.granted = @ \cup new, !.denied = @ \ new,
                  !.kc = IF deployed THEN @ \cup Mirrored(u, new) ELSE @]

\* Mutant: KoBoCAT hears of the permission assigned and not of the implied ones.
GrantingNamed(x, u, p, type, deployed) ==
    LET new == IF p \in x.granted THEN {} ELSE With(p, type) \ x.granted
        contradicted == UNION {Contradictory(q) : q \in new}
    IN  [x EXCEPT !.granted = (@ \ contradicted) \cup new,
                  !.denied = @ \ (new \cup contradicted),
                  !.inherited = @ \ contradicted,
                  !.kc = IF deployed THEN @ \cup Mirrored(u, new \cap {p}) ELSE @]

\* assign_perm() and the nested calls for the implied permissions.  A permission
\* that is granted already keeps its row, and nothing else is looked at.
Granting(x, u, p, type, deployed) ==
    LET new == IF p \in x.granted THEN {} ELSE With(p, type) \ x.granted
        contradicted == UNION {Contradictory(q) : q \in new}
    IN  [x EXCEPT !.granted = (@ \ contradicted) \cup new,
                  !.denied = @ \ (new \cup contradicted),
                  !.inherited = @ \ contradicted,
                  !.kc = IF deployed THEN @ \cup Mirrored(u, new) ELSE @]

\* The nested calls of a denial meet what contradicts the partial permission again,
\* denied before or by another nested call: a call that finds its denial in place
\* deletes the row of the filters.
MeetsDenial(x, p, type) ==
    \E q \in Implying(p) \cap Assignable(type) \cap Contradictory(Partial) :
        q \in x.denied \/ \E r \in Implying(p) \cap Assignable(type) : q \in Implying(r)

\* assign_perm(deny=True): whatever implies the permission is denied too.
Denying(x, p, type, deployed) ==
    LET new == IF p \in x.denied THEN {} ELSE WithImplying(p, type) \ x.denied
    IN  [x EXCEPT !.granted = @ \ new,
                  !.denied = @ \cup new,
                  !.filters = IF new # {} /\ MeetsDenial(x, p, type) THEN {} ELSE @,
                  !.kc = IF deployed THEN @ \ (new \cap x.granted) ELSE @]

\* Mutant: every assignment or removal deletes the filters.
UnfilteredAlways(x, p) == [x EXCEPT !.filters = {}]

\* _update_partial_permissions(): an assignment that contradicts the partial
\* permission, or the removal of one, deletes the row of the filters.
Unfiltered(x, p) ==
    IF p \in Contradictory(Partial) THEN [x EXCEPT !.filters = {}] ELSE x

\* The filters of the permissions that the filtered ones imply are added, and
\* editing some submissions requires the right to add any.
Filtering(x, u, keys, deployed) ==
    LET all == keys \cup ((UNION {Implied(k) : k \in keys}) \cap SubmissionPerms)
        y == [x EXCEPT !.filters = all]
    IN  IF "add_submissions" \in all
        THEN Granting(y, u, "add_submissions", "survey", deployed) ELSE y

\* A request to assign a permission, with the filters of a partial one.
Assigning(x, u, p, keys, type, deployed) ==
    LET y == Granting(x, u, p, type, deployed)
    IN  IF p = Partial THEN Filtering(y, u, keys, deployed) ELSE Unfiltered(y, p)

\* The denials that remove_perm() adds, to stop the inherited permissions that
\* it deletes from coming back.
Blocked(x, p, type) == (WithImplying(p, type) \cap x.inherited) \ x.denied
Blocking(x, p, type) ==
    (UNION {WithImplying(q, type) : q \in Blocked(x, p, type)}) \ x.denied

\* The denial of viewing an asset denies the partial permission too, and where that
\* is denied already the call fails for want of filters, and the request with it.
Refused(x, p) ==
    /\ p = "view_asset"
    /\ p \in x.inherited \ x.denied
    /\ Partial \in x.denied

\* remove_perm() and the nested calls for the permissions that imply this one.
Revoking(x, p, type, deployed) ==
    LET gone == WithImplying(p, type)
        y == [x EXCEPT !.granted = @ \ gone,
                       !.inherited = @ \ gone,
                       !.denied = @ \cup Blocking(x, p, type),
                       !.filters = IF \E q \in Blocked(x, p, type) : MeetsDenial(x, q, type)
                                   THEN {} ELSE @,
                       !.kc = IF deployed THEN @ \ gone ELSE @]
    IN  IF p = Partial THEN [y EXCEPT !.filters = {}] ELSE Unfiltered(y, p)
=============================================================================
