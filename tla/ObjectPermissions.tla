------------------------- MODULE ObjectPermissions --------------------------
(***************************************************************************)
(* Who may do what with the assets: rows of permissions, direct and        *)
(* inherited from collections, the filters of partial permissions and the  *)
(* copy of the permissions that KoBoCAT keeps of deployed projects.  Every *)
(* request is one transaction on both databases.                           *)
(***************************************************************************)
EXTENDS AccessRules, FiniteSetsExt

CONSTANTS
    Assets,
    Type,       \* Type[a]: "survey", "collection" or another type of asset
    Owner,      \* Owner[a]: the user who owns asset a
    Users,      \* accounts, Anonymous not among them
    None,       \* the parent of an asset that is in no collection
    Places,     \* Places[a]: where requests put asset a, a collection or None
    About,      \* About[a]: the users whose permissions on a requests change
    Granted,    \* Granted[a][u]: the permissions that requests assign to u
    Filtered,   \* the sets of permissions that partial assignments filter
    Lists,      \* Lists[a][u]: the sets of permissions that bulk requests assign to u
    Copied      \* the pairs <<target, source>> that requests clone permissions between

Everyone == Users \cup {Anonymous}
Collections == {a \in Assets : Type[a] = "collection"}
Surveys == {a \in Assets : Type[a] = "survey"}

ASSUME PermissionsAssumption ==
    /\ IsFiniteSet(Assets)
    /\ Anonymous \notin Users
    /\ None \notin Assets
    /\ Type \in [Assets -> STRING]
    /\ Owner \in [Assets -> Users]
    /\ Places \in [Assets -> SUBSET (Collections \cup {None})]
    /\ About \in [Assets -> SUBSET Everyone]
    /\ Granted \in [Assets -> [Everyone -> SUBSET Perms]]
    /\ Filtered \subseteq (SUBSET SubmissionPerms) \ {{}}
    /\ Lists \in [Assets -> [Everyone -> SUBSET SUBSET Perms]]
    /\ Copied \subseteq Assets \X Assets

VARIABLES
    access,     \* access[a][u]: the rows about user u and asset a
    parent,     \* parent[a]: the collection that asset a is in
    deployed,   \* the surveys that have an XForm in KoBoCAT
    lagging     \* the assets in a collection that changed without passing it on

vars == <<access, parent, deployed, lagging>>

TypeOK ==
    /\ access \in [Assets -> [Everyone -> Access]]
    /\ parent \in [Assets -> Collections \cup {None}]
    /\ deployed \subseteq Surveys
    /\ lagging \subseteq Assets

(***************************************************************************)
(* Inheritance.                                                            *)
(***************************************************************************)
\* _get_effective_perms() of all the users.
AllEffective(row) == [u \in Everyone |-> Effective(row[u], u)]
Nobody == [u \in Everyone |-> {}]

\* Mutant: in a collection, the owner inherits as everybody else.
InheritingAlike(a, row, effective) ==
    [u \in Everyone |->
        [row[u] EXCEPT !.inherited =
            IF u = Owner[a] /\ effective = Nobody THEN Assignable(Type[a]) \ {Partial}
            ELSE effective[u] \cap Heritable]]

\* _recalculate_inherited_perms(): the owner gets every assignable permission,
\* and the other users what they effectively have on the parent and can inherit.
Inheriting(a, row, effective) ==
    [u \in Everyone |->
        [row[u] EXCEPT !.inherited =
            IF u = Owner[a] THEN Assignable(Type[a]) \ {Partial}
            ELSE effective[u] \cap Heritable]]

\* The collections that each asset is in, directly or not: the fewest that hold its
\* parent, and the parent of each of them.
Above(par) ==
    LET Holds(a, S) == \A b \in {a} \cup S : par[b] \in S \cup {None}
    IN  [a \in Assets |->
            {up \in Collections : \A S \in SUBSET Collections : Holds(a, S) => up \in S}]

\* Mutant: the stale inherited rows are not deleted first.
DescendedAdding(rows, par, a, effective) ==
    LET more(d) == Inheriting(d, rows[d], effective)
    IN  [d \in Assets |->
            IF par[d] # a THEN rows[d]
            ELSE [u \in Everyone |->
                    [more(d)[u] EXCEPT !.inherited = @ \cup rows[d][u].inherited]]]

\* recalculate_descendants_perms() of asset a, whose permissions are taken to be
\* effective: parents before their children.
Descended(rows, par, a, effective) ==
    LET above == Above(par)
        new[d \in Assets] ==
          IF a \notin above[d] THEN rows[d]
          ELSE Inheriting(d, rows[d],
                          IF par[d] = a THEN effective ELSE AllEffective(new[par[d]]))
    IN  IF a \in Collections THEN new ELSE rows

Below(a) == IF a \in Collections THEN {d \in Assets : a \in Above(parent)[d]} ELSE {}
Children(a) == {d \in Assets : parent[d] = a}

(***************************************************************************)
(* Requests.  The rows of the asset are in the cache of the request since  *)
(* it checked what its user may do, unless that is a superuser.  Saving a  *)
(* row empties the cache and deleting rows in bulk does not, so that a     *)
(* revocation that denies nothing passes on what was effective before it.  *)
(***************************************************************************)
AssignTo(a, u, p, keys) ==
    LET x == Assigning(access[a][u], u, p, keys, Type[a], a \in deployed)
        rows == [access EXCEPT ![a][u] = x]
        early == p \in access[a][u].granted
    IN  /\ access' = IF early THEN rows
                     ELSE Descended(rows, parent, a, AllEffective(rows[a]))
        /\ lagging' = IF early THEN lagging ELSE lagging \ Below(a)
        /\ UNCHANGED <<parent, deployed>>

AssignPerm(a, u, p) ==
    /\ u # Owner[a]
    /\ p \in (Granted[a][u] \cap Assignable(Type[a])) \ {Partial}
    /\ u = Anonymous => p \in AllowedAnonymous
    /\ AssignTo(a, u, p, {})

AssignPartial(a, u, keys) ==
    /\ u \notin {Owner[a], Anonymous}
    /\ Partial \in Granted[a][u] \cap Assignable(Type[a])
    /\ AssignTo(a, u, Partial, keys)

\* Rows are written for user u, and the descendants are recalculated from them
\* or from those in the cache.
PassOn(a, u, x, fresh) ==
    LET rows == [access EXCEPT ![a][u] = x]
    IN  /\ access' = Descended(rows, parent, a,
                               AllEffective(IF fresh THEN rows[a] ELSE access[a]))
        /\ lagging' = (lagging \ Below(a)) \cup (IF fresh THEN {} ELSE Children(a))
        /\ UNCHANGED <<parent, deployed>>

\* The request names a row that grants, direct or inherited.
RemovePerm(a, u, p, cached) ==
    LET x == access[a][u]
    IN  /\ u # Owner[a]
        /\ p \in x.granted \cup x.inherited
        /\ ~Refused(x, p)
        /\ PassOn(a, u, Revoking(x, p, Type[a], a \in deployed),
                  ~cached \/ Blocking(x, p, Type[a]) # {})

\* Mutant: a bulk request is taken literally.
CompletedWithNothing(list, type) == list

\* The assignments of a user are replaced by a list, completed with what it
\* implies: removals first, then additions.  Those of the others are sent as they
\* are.  What exists is read from the rows that grant, even those a denial overrides.
Completed(list, type) == list \cup ((UNION {Implied(p) : p \in list}) \cap Assignable(type))

Filters(keys) == keys \cup ((UNION {Implied(k) : k \in keys}) \cap SubmissionPerms)
Changed(x, list, keys) == IF Partial \in list /\ x.filters # Filters(keys) THEN {Partial} ELSE {}
Existing(x) == x.granted \cup x.inherited
Removals(x, list, keys, type) ==
    (Existing(x) \ Completed(list, type)) \cup (Existing(x) \cap Changed(x, list, keys))
Additions(x, list, keys, type) ==
    (Completed(list, type) \ Existing(x)) \cup Changed(x, list, keys)

Replacing(x, u, list, keys, type, isDeployed) ==
    LET Remove(p, y) == Revoking(y, p, type, isDeployed)
        Add(p, y) == Assigning(y, u, p, keys, type, isDeployed)
    IN  FoldSet(Add, FoldSet(Remove, x, Removals(x, list, keys, type)),
                Additions(x, list, keys, type))

Acceptable(u, list, keys, type) ==
    /\ list \subseteq Assignable(type)
    /\ Partial \in list <=> keys # {}
    /\ u = Anonymous => list \subseteq AllowedAnonymous

BulkAssign(a, u, list, keys, cached) ==
    LET x == access[a][u]
        removals == Removals(x, list, keys, Type[a])
        additions == Additions(x, list, keys, Type[a])
        stale == /\ cached
                 /\ additions = {}
                 /\ \E p \in removals : removals = {p} /\ Blocking(x, p, Type[a]) = {}
    IN  /\ u # Owner[a]
        /\ Acceptable(u, list, keys, Type[a])
        /\ removals \cup additions # {}
        /\ \A p \in removals : ~Refused(x, p)
        /\ PassOn(a, u, Replacing(x, u, list, keys, Type[a], a \in deployed), ~stale)

\* The rows of every user but the owner are replaced by those of another asset,
\* inherited ones included, in an order the query leaves open: here the grants
\* and the denials in turn.  The filters stay until an assignment changes them.
CopyPermissions(a, source, grantsFirst) ==
    LET Cleared(u) ==
          [NoAccess EXCEPT
             !.filters = access[a][u].filters,
             !.kc = IF a \in deployed
                    THEN access[a][u].kc \ (access[a][u].granted \cup access[a][u].inherited)
                    ELSE access[a][u].kc]
        grants(u) == access[source][u].granted \cup access[source][u].inherited
        denials(u) == access[source][u].denied
        keys(u) == access[source][u].filters
        Copy(u) ==
          LET Add(p, y) == Assigning(y, u, p, keys(u), Type[a], a \in deployed)
              Deny(p, y) ==
                LET z == Denying(y, p, Type[a], a \in deployed)
                IN  IF p = Partial THEN Filtering(z, u, keys(u), a \in deployed)
                    ELSE Unfiltered(z, p)
          IN  IF grantsFirst
              THEN FoldSet(Deny, FoldSet(Add, Cleared(u), grants(u)), denials(u))
              ELSE FoldSet(Add, FoldSet(Deny, Cleared(u), denials(u)), grants(u))
        copied == [u \in Everyone |-> IF u = Owner[a] THEN access[a][u] ELSE Copy(u)]
        some == \E u \in Everyone \ {Owner[a]} : grants(u) \cup denials(u) # {}
        rows == IF some
                THEN Descended([access EXCEPT ![a] = copied], parent, a, AllEffective(copied))
                ELSE [access EXCEPT ![a] = copied]
        above == IF parent[a] = None THEN Nobody ELSE AllEffective(access[parent[a]])
    IN  /\ <<a, source>> \in Copied
        /\ \A u \in Everyone \ {Owner[a]} :
              /\ grants(u) \cup denials(u) \subseteq Assignable(Type[a])
              /\ Partial \in grants(u) \cup denials(u) => keys(u) # {}
        /\ access' = [rows EXCEPT ![a] = Inheriting(a, copied, above)]
        /\ lagging' = (lagging \ ({a} \cup (IF some THEN Below(a) ELSE {}))) \cup Children(a)
        /\ UNCHANGED <<parent, deployed>>

\* Saving an asset, perhaps moved to another collection.  A move into itself
\* would recalculate for ever, and is undone by the error.
Saved(rows, a, to) ==
    LET par == [parent EXCEPT ![a] = to]
        row == Inheriting(a, rows[a], IF to = None THEN Nobody ELSE AllEffective(rows[to]))
    IN  /\ to # a /\ to \notin Below(a)
        /\ parent' = par
        /\ access' = Descended([rows EXCEPT ![a] = row], par, a, AllEffective(row))
        /\ lagging' = lagging \ ({a} \cup Below(a))

SaveAsset(a, to) ==
    /\ to \in Places[a]
    /\ Saved(access, a, to)
    /\ UNCHANGED deployed

\* deploy() of a project for the first time: what everyone may do is copied to
\* the new XForm, and the asset is saved.
Deploy(a) ==
    LET mapped == [u \in Everyone |->
                     IF u = Owner[a] THEN access[a][u]
                     ELSE [access[a][u] EXCEPT !.kc =
                             @ \cup Mirrored(u, Effective(access[a][u], u))]]
    IN  /\ a \in Surveys \ deployed
        /\ deployed' = deployed \cup {a}
        /\ Saved([access EXCEPT ![a] = mapped], a, parent[a])

\* The assets have just been created by their owners, in no collection.
Init ==
    /\ access = [a \in Assets |-> Inheriting(a, [u \in Everyone |-> NoAccess], Nobody)]
    /\ parent = [a \in Assets |-> None]
    /\ deployed = {}
    /\ lagging = {}

Next ==
    \/ \E a \in Assets :
         \/ \E u \in About[a] :
              \/ \E p \in Perms : AssignPerm(a, u, p)
              \/ \E keys \in Filtered : AssignPartial(a, u, keys)
              \/ \E p \in Perms, cached \in BOOLEAN : RemovePerm(a, u, p, cached)
              \/ \E list \in Lists[a][u], keys \in Filtered \cup {{}}, cached \in BOOLEAN :
                    BulkAssign(a, u, list, keys, cached)
         \/ \E source \in Assets, grantsFirst \in BOOLEAN :
               CopyPermissions(a, source, grantsFirst)
         \/ \E to \in Assets \cup {None} : SaveAsset(a, to)
         \/ Deploy(a)

Spec == Init /\ [][Next]_vars

(***************************************************************************)
(* Properties.                                                             *)
(***************************************************************************)
\* The owner of an asset is never locked out of it, whatever is granted, copied
\* or inherited from a collection of somebody else: _recalculate_inherited_perms().
OwnerHasAll ==
    \A a \in Assets :
        Assignable(Type[a]) \ {Partial} \subseteq Effective(access[a][Owner[a]], Owner[a])

\* Whoever may do something may do all it implies (who may change an asset may
\* view it), although grants, denials and inheritance come from three places:
\* get_implied_perms() in both directions.
ImpliedHeld ==
    \A a \in Assets, u \in Everyone :
        \A p \in Effective(access[a][u], u) :
            Implied(p) \cap Assignable(Type[a]) \subseteq Effective(access[a][u], u)

\* Nothing is both granted and denied directly, and nobody has both the right to
\* see some submissions only and the right to see all: CONTRADICTORY_PERMISSIONS.
NoContradiction ==
    \A a \in Assets, u \in Everyone :
        LET x == access[a][u]
        IN  /\ x.granted \cap x.denied = {}
            /\ \A p \in Effective(x, u) : Contradictory(p) \cap Effective(x, u) = {}

\* Whoever may see some submissions has filters that say which, whatever contradicts
\* the partial permission in between: _update_partial_permissions().  The exception:
\* the denial of managing the asset, for which the row of the filters is deleted
\* although the partial permission stays.
PartialHasFilters ==
    \A a \in Assets, u \in Everyone :
        Partial \in Effective(access[a][u], u) /\ "manage_asset" \notin access[a][u].denied
            => access[a][u].filters # {}

\* What KPI grants on the submissions of a deployed project KoBoCAT grants too,
\* the flags of the public included: assign_applicable_kc_permissions() after every
\* change, and what deploy() copies once.
KcComplete ==
    \A a \in deployed, u \in Everyone :
        u # Owner[a] =>
            Mirrored(u, Effective(access[a][u], u)) \subseteq access[a][u].kc

\* What users inherit they still have on the collection, through revocations,
\* moves and copies: recalculate_descendants_perms().  The exceptions are the
\* children of a collection that changed without passing it on.
Follows(a) ==
    \A u \in Everyone \ {Owner[a]} :
        access[a][u].inherited \subseteq
            IF parent[a] = None THEN {} ELSE Effective(access[parent[a]][u], u) \cap Heritable

InheritanceFollows == \A a \in Assets \ lagging : Follows(a)

\* A bulk request leaves the user with what it lists and what that implies, and
\* nothing else, whatever was granted, denied or inherited before, in whatever order
\* it is carried out.  The exceptions: a listed permission whose inherited row a
\* denial overrides passes for existing and stays denied; of a list that contradicts
\* itself what comes last wins; the right to add submissions comes and goes with the
\* filters.
BulkGivesWhatItLists ==
    \A a \in Assets : \A u \in About[a] \ {Owner[a]} :
        \A list \in Lists[a][u], keys \in Filtered \cup {{}} :
            LET x == access[a][u]
                listed == list \cup ((UNION {Implied(p) : p \in list}) \cap Assignable(Type[a]))
                y == Replacing(x, u, list, keys, Type[a], a \in deployed)
            IN  /\ Acceptable(u, list, keys, Type[a])
                /\ listed \cap x.inherited \cap x.denied = {}
                /\ \A p \in listed : Contradictory(p) \cap listed = {}
                => Effective(y, u) \ {"add_submissions"} = listed \ {"add_submissions"}
=============================================================================
