----------------------- MODULE ObjectPermissionsProofs ------------------------
(***************************************************************************)
(* First the rows about one user and one asset: they start sound, and      *)
(* granting, denying, revoking and inheriting keep them sound, whatever    *)
(* sequence of requests, nested calls and copies they are steps of; and    *)
(* sound rows give a user no permission without those it implies, none     *)
(* beside one that contradicts it, and no partial permission without       *)
(* filters.                                                                *)
(*                                                                         *)
(* Then all the rows of all the assets.  The collections stay free of      *)
(* cycles, so that passing on to the descendants is well founded: what     *)
(* Descended and the folds of bulk requests and copies compute is found by *)
(* recursion over a finite set, which is proved here to have a solution.   *)
(* From this, every request keeps the rows right, and what users inherit   *)
(* within what they have on the collection.  And a bulk request gives what *)
(* it lists: its removals leave of the rows what is listed, its additions  *)
(* add the rest, in whatever order either of them is folded.               *)
(***************************************************************************)
EXTENDS ObjectPermissions, FiniteRecursion, FiniteSetTheorems, WellFoundedInduction, TLAPS

\* Grants are closed under implication.  Denials are not closed the other way: the
\* partial permission lifts some of them.  But viewing is never denied without
\* changing, nor what contradicts the partial permission without managing.
Closed(x, type) ==
    /\ x.granted \subseteq Assignable(type) /\ x.denied \subseteq Assignable(type)
    /\ \A p \in x.granted : Implied(p) \cap Assignable(type) \subseteq x.granted
    /\ x.granted \cap x.denied = {}
    /\ x.inherited \subseteq Heritable
    /\ "change_asset" \in x.inherited => "view_asset" \in x.inherited
    /\ "view_asset" \in x.denied => "change_asset" \in x.denied
    /\ \A p \in x.denied \cap Contradictory(Partial) : "manage_asset" \in x.denied

Alone(x) == Partial \in x.granted => x.granted \cap Contradictory(Partial) = {}

\* The denial of managing the asset is the exception: see PartialHasFilters.
HasFilters(x) == Partial \in x.granted /\ "manage_asset" \notin x.denied => x.filters # {}

Sound(x, type) == x \in Access /\ Closed(x, type) /\ Alone(x) /\ HasFilters(x)

----------------------------------------------------------------------------
(* The tables *)

LEMMA ImpliedFacts ==
    /\ \A p : Implied(p) \subseteq Perms \ {p, Partial}
    /\ \A p, q : q \in Implied(p) => Implied(q) \subseteq Implied(p)
  BY DEF Implied, Perms, AssetPerms, SubmissionPerms, Partial

LEMMA ImplyingFacts ==
    /\ \A p : Implying(p) \subseteq Perms
    /\ \A p, q : q \in Implying(p) => p \in Implied(q)
    /\ \A p, q, r : q \in Implying(p) /\ r \in Implying(q) => r \in Implying(p)
    /\ \A p, q : q \in Perms /\ p \in Implied(q) => q \in Implying(p)
  BY ImpliedFacts DEF Implying

LEMMA AssignableFacts ==
    ASSUME NEW type
    PROVE  /\ Assignable(type) \subseteq Perms
           /\ "view_asset" \in Assignable(type) /\ "change_asset" \in Assignable(type)
           /\ "manage_asset" \in Assignable(type)
           /\ Partial \in Assignable(type) => SubmissionPerms \subseteq Assignable(type)
  BY DEF Assignable, Perms, AssetPerms, SubmissionPerms, Partial

LEMMA ContradictoryFacts ==
    /\ Contradictory(Partial) \subseteq Perms /\ Partial \notin Contradictory(Partial)
    /\ "view_asset" \notin Contradictory(Partial) /\ "change_asset" \notin Contradictory(Partial)
    /\ \A p : p # Partial => Contradictory(p) \subseteq {Partial}
    /\ \A p \in Contradictory(Partial) : p = "manage_asset" \/ Contradictory(p) = {Partial}
    /\ \A p \in Contradictory(Partial) : p = "manage_asset" \/ "manage_asset" \in Implying(p)
    /\ \A p, q : q \in Contradictory(Partial) /\ q \in Implied(p) /\ p \in Perms => p \in Contradictory(Partial)
    /\ \A p \in Contradictory(Partial) : p = "manage_asset" \/ p \in Implied("manage_asset")
    /\ "view_submissions" \in Implied("manage_asset") /\ Contradictory("view_submissions") = {Partial}
  BY DEF Contradictory, Implying, Implied, Perms, AssetPerms, SubmissionPerms, Partial

LEMMA WithFacts ==
    ASSUME NEW type, NEW p \in Assignable(type)
    PROVE  /\ p \in With(p, type) /\ With(p, type) \subseteq Assignable(type)
           /\ \A q \in With(p, type) : Implied(q) \cap Assignable(type) \subseteq With(p, type)
           /\ Partial \in With(p, type) => p = Partial
  BY ImpliedFacts DEF With

LEMMA WithImplyingFacts ==
    ASSUME NEW type, NEW p \in Perms
    PROVE  /\ p \in WithImplying(p, type) /\ WithImplying(p, type) \subseteq Perms
           /\ \A q \in WithImplying(p, type) : q = p \/ p \in Implied(q)
           /\ \A q \in WithImplying(p, type), r \in Assignable(type) :
                q \in Implied(r) => r \in WithImplying(p, type)
           /\ \A q \in WithImplying(p, type) : WithImplying(q, type) \subseteq WithImplying(p, type)
           /\ "view_asset" \in WithImplying(p, type) => p = "view_asset"
  BY ImpliedFacts, ImplyingFacts, AssignableFacts
     DEF WithImplying, Implied, Perms, AssetPerms, SubmissionPerms, Partial

\* What a new grant contradicts: everything that the partial permission does, or
\* the partial permission, or nothing.
LEMMA ContradictedFacts ==
    ASSUME NEW new, new \subseteq Perms
    PROVE  LET contradicted == UNION {Contradictory(q) : q \in new}
           IN  /\ contradicted \subseteq Contradictory(Partial) \cup {Partial}
               /\ Partial \notin new => contradicted \subseteq {Partial}
               /\ Partial \in new => Contradictory(Partial) \subseteq contradicted
               /\ \A q \in new : Contradictory(q) \subseteq contradicted
               /\ \A q \in contradicted : q = Partial => \E r \in new : Partial \in Contradictory(r)
  BY ContradictoryFacts

----------------------------------------------------------------------------
(* Granting *)

LEMMA GrantingStaysInAccess ==
    ASSUME NEW x \in Access, NEW u, NEW type, NEW p \in Assignable(type), NEW isDeployed
    PROVE  Granting(x, u, p, type, isDeployed) \in Access
<1> DEFINE new == IF p \in x.granted THEN {} ELSE With(p, type) \ x.granted
           contradicted == UNION {Contradictory(q) : q \in new}
           kc == IF isDeployed THEN x.kc \cup Mirrored(u, new) ELSE x.kc
<1>1. new \subseteq Perms
  BY WithFacts, AssignableFacts
<1>2. kc \subseteq KcMapped
  BY DEF Mirrored, KcFlags, KcMapped, SubmissionPerms, Access
<1>3. Granting(x, u, p, type, isDeployed) =
        [x EXCEPT !.granted = (x.granted \ contradicted) \cup new,
                  !.denied = x.denied \ (new \cup contradicted),
                  !.inherited = x.inherited \ contradicted, !.kc = kc]
  BY DEF Granting
<1> HIDE DEF new, contradicted, kc
<1>4. QED
  BY <1>1, <1>2, <1>3 DEF Access

\* The rows after a grant.
LEMMA GrantingFacts ==
    ASSUME NEW x \in Access, NEW u, NEW type, NEW p, NEW isDeployed
    PROVE  LET new == IF p \in x.granted THEN {} ELSE With(p, type) \ x.granted
               contradicted == UNION {Contradictory(q) : q \in new}
               y == Granting(x, u, p, type, isDeployed)
           IN  /\ y.granted = (x.granted \ contradicted) \cup new
               /\ y.denied = x.denied \ (new \cup contradicted)
               /\ y.inherited = x.inherited \ contradicted
               /\ y.filters = x.filters
  BY DEF Granting, Access

LEMMA GrantingKeepsClosed ==
    ASSUME NEW x \in Access, NEW u, NEW type, NEW p \in Assignable(type), NEW isDeployed,
           Closed(x, type), Alone(x)
    PROVE  LET y == Granting(x, u, p, type, isDeployed)
           IN  /\ Closed(y, type) /\ Alone(y)
               /\ p \in y.granted /\ y.filters = x.filters
               /\ p # Partial => /\ Partial \in y.granted => Partial \in x.granted
                                 /\ Partial \in y.granted /\ "manage_asset" \in x.denied
                                      => "manage_asset" \in y.denied
<1> DEFINE new == IF p \in x.granted THEN {} ELSE With(p, type) \ x.granted
           contradicted == UNION {Contradictory(q) : q \in new}
           y == Granting(x, u, p, type, isDeployed)
<1>1. /\ y.granted = (x.granted \ contradicted) \cup new
      /\ y.denied = x.denied \ (new \cup contradicted)
      /\ y.inherited = x.inherited \ contradicted /\ y.filters = x.filters
  BY GrantingFacts
<1>2. /\ new \subseteq Assignable(type) /\ new \cap x.granted = {} /\ new \subseteq Perms
      /\ \A q \in new : Implied(q) \cap Assignable(type) \subseteq x.granted \cup new
      /\ Partial \in new => p = Partial
      /\ p \in x.granted \cup new /\ (p \in x.granted => new = {})
  BY WithFacts, AssignableFacts
<1> HIDE DEF new
<1>3. /\ contradicted \subseteq Contradictory(Partial) \cup {Partial}
      /\ Partial \notin new => contradicted \subseteq {Partial}
      /\ Partial \in new => Contradictory(Partial) \subseteq contradicted
      /\ \A q \in new : Contradictory(q) \subseteq contradicted
      /\ \A q \in contradicted : q = Partial => \E r \in new : Partial \in Contradictory(r)
  BY <1>2, ContradictedFacts
<1>4. Partial \in new => new \subseteq {Partial, "view_asset"}
  BY <1>2 DEF new, With, Implied, Partial
<1> HIDE DEF contradicted, y
<1>5. new \cap contradicted = {}
  <2>1. CASE Partial \in new
    <3>1. Partial \notin Contradictory("view_asset")
      BY DEF Contradictory, Partial, SubmissionPerms
    <3>2. Partial \notin contradicted
      <4> SUFFICES ASSUME Partial \in contradicted PROVE FALSE
        OBVIOUS
      <4>1. PICK r \in new : Partial \in Contradictory(r)
        BY <1>3
      <4>2. r = Partial \/ r = "view_asset"
        BY <1>4, <2>1, <4>1
      <4>3. QED
        BY <3>1, <4>1, <4>2, ContradictoryFacts
    <3>3. QED
      BY <1>3, <1>4, <2>1, <3>2, ContradictoryFacts
  <2>2. CASE Partial \notin new
    BY <1>3, <2>2
  <2>3. QED
    BY <2>1, <2>2
<1>6. Closed(y, type)
  <2>1. y.granted \subseteq Assignable(type)
    BY <1>1, <1>2 DEF Closed
  <2>2. ASSUME NEW q \in y.granted, NEW r \in Implied(q) \cap Assignable(type) PROVE r \in y.granted
    <3>1. r \in x.granted \cup new
      BY <1>1, <1>2 DEF Closed
    <3>2. r # Partial
      BY ImpliedFacts
    <3>3. CASE r \in Contradictory(Partial) /\ Partial \in new
      <4>1. q \in Perms
        BY <2>1, AssignableFacts
      <4>2. q \in Contradictory(Partial)
        BY <3>3, <4>1, ContradictoryFacts
      <4>3. q \in new
        BY <1>1, <1>3, <3>3, <4>2
      <4>4. QED
        BY <1>3, <1>5, <3>3, <4>2, <4>3
    <3>4. QED
      BY <1>1, <1>3, <3>1, <3>2, <3>3
  <2>3. y.granted \cap y.denied = {}
    BY <1>1 DEF Closed
  <2>4. y.inherited \subseteq Heritable
    BY <1>1 DEF Closed
  <2>5. "view_asset" \notin contradicted /\ "change_asset" \notin contradicted
    BY <1>3, ContradictoryFacts DEF Partial
  <2>6. "change_asset" \in y.inherited => "view_asset" \in y.inherited
    BY <1>1, <2>5 DEF Closed
  <2>7. "change_asset" \in new => "view_asset" \in x.granted \cup new
    BY <1>2, AssignableFacts DEF Implied
  <2>8. "view_asset" \in y.denied => "change_asset" \in y.denied
    BY <1>1, <2>5, <2>7 DEF Closed
  <2>9. y.denied \subseteq Assignable(type)
    BY <1>1 DEF Closed
  <2>10. ASSUME NEW q \in y.denied, q \in Contradictory(Partial) PROVE "manage_asset" \in y.denied
    <3>1. /\ q \in x.denied /\ q \notin new /\ q \notin contradicted /\ q \notin x.granted
          /\ "manage_asset" \in x.denied /\ q \in Assignable(type)
      BY <1>1, <2>10 DEF Closed
    <3>2. Partial \notin new
      BY <1>3, <2>10, <3>1
    <3>3. "manage_asset" \notin contradicted
      BY <1>3, <3>2 DEF Partial
    <3>4. "manage_asset" \notin new
      BY <1>2, <2>10, <3>1, ContradictoryFacts
    <3>5. QED
      BY <1>1, <3>1, <3>3, <3>4
  <2>11. QED
    BY <2>1, <2>2, <2>3, <2>4, <2>6, <2>8, <2>9, <2>10 DEF Closed
<1>7. Alone(y)
  <2> SUFFICES ASSUME Partial \in y.granted, NEW q \in y.granted, q \in Contradictory(Partial) PROVE FALSE
    BY DEF Alone
  <2>1. CASE Partial \in new
    BY <1>1, <1>3, <1>5, <2>1
  <2>2. CASE Partial \notin new
    <3>1. Partial \in x.granted /\ Partial \notin contradicted
      BY <1>1, <2>2
    <3>2. q \in new
      BY <1>1, <3>1 DEF Alone
    <3>3. q = "manage_asset"
      BY <1>3, <3>1, <3>2, ContradictoryFacts
    <3>4. "view_submissions" \in Assignable(type)
      BY <3>1, AssignableFacts DEF Closed, SubmissionPerms
    <3>5. "view_submissions" \in x.granted \cup new
      BY <1>2, <3>2, <3>3, <3>4, ContradictoryFacts
    <3>6. "view_submissions" \in Contradictory(Partial)
      BY DEF Contradictory, SubmissionPerms
    <3>7. QED
      BY <1>3, <3>1, <3>5, <3>6, ContradictoryFacts DEF Alone
  <2>3. QED
    BY <2>1, <2>2
<1>8. p \in y.granted
  <2>1. new = {} => contradicted = {}
    BY DEF contradicted
  <2>2. QED
    BY <1>1, <1>2, <2>1
<1>9. ASSUME p # Partial
      PROVE  /\ Partial \in y.granted => Partial \in x.granted
             /\ Partial \in y.granted /\ "manage_asset" \in x.denied => "manage_asset" \in y.denied
  <2>1. Partial \notin new
    BY <1>2, <1>9
  <2>2. "manage_asset" \in new => Partial \notin y.granted
    BY <1>1, <1>7 DEF Alone, Contradictory
  <2>3. "manage_asset" \notin contradicted
    BY <1>3, <2>1 DEF Partial
  <2>4. QED
    BY <1>1, <2>1, <2>2, <2>3
<1>10. QED
  BY <1>1, <1>6, <1>7, <1>8, <1>9 DEF y

----------------------------------------------------------------------------
(* Denials *)

\* What is denied with a permission, whatever it is denied for, leaves the grants
\* closed; and what else it denies keeps up.
LEMMA DenyingKeepsClosed ==
    ASSUME NEW x \in Access, NEW type, NEW p \in Assignable(type), NEW isDeployed,
           Closed(x, type), Alone(x)
    PROVE  LET y == Denying(x, p, type, isDeployed)
           IN  /\ y \in Access /\ Closed(y, type) /\ Alone(y)
               /\ p \in y.denied /\ y.granted \subseteq x.granted
               /\ x.denied \subseteq y.denied
               /\ y.filters = x.filters \/ "manage_asset" \in y.denied
<1> DEFINE new == IF p \in x.denied THEN {} ELSE WithImplying(p, type) \ x.denied
           y == Denying(x, p, type, isDeployed)
<1>1. /\ p \in Perms
      /\ new \subseteq Assignable(type) /\ new \cap x.denied = {} /\ new \subseteq Perms
      /\ new # {} => new = WithImplying(p, type) \ x.denied
      /\ p \in x.denied \cup new
  BY AssignableFacts, WithImplyingFacts DEF WithImplying
<1>2. /\ y.granted = x.granted \ new /\ y.denied = x.denied \cup new
      /\ y.inherited = x.inherited
      /\ y.filters = IF new # {} /\ MeetsDenial(x, p, type) THEN {} ELSE x.filters
  BY DEF Denying, Access
<1>3. y \in Access
  BY <1>1, <1>2 DEF Denying, Access
<1> HIDE DEF new, y
<1>4. Closed(y, type)
  <2>1. ASSUME NEW q \in y.granted, NEW r \in Implied(q) \cap Assignable(type) PROVE r \in y.granted
    <3>1. q \in x.granted /\ r \in x.granted /\ q \in Assignable(type) /\ q \notin x.denied
      BY <1>2 DEF Closed
    <3>2. CASE r \in new
      BY <1>1, <1>2, <3>1, <3>2, WithImplyingFacts
    <3>3. QED
      BY <1>2, <3>1, <3>2
  <2>2. "view_asset" \in new => "change_asset" \in y.denied
    BY <1>1, <1>2, AssignableFacts, WithImplyingFacts DEF Implied
  <2>3. ASSUME NEW q \in new, q \in Contradictory(Partial) PROVE "manage_asset" \in y.denied
    <3>1. q \in WithImplying(p, type) /\ "manage_asset" \in Assignable(type)
      BY <1>1, <2>3, AssignableFacts
    <3>2. q = "manage_asset" \/ q \in Implied("manage_asset")
      BY <2>3, ContradictoryFacts
    <3>3. "manage_asset" \in WithImplying(p, type)
      BY <1>1, <3>1, <3>2, WithImplyingFacts
    <3>4. QED
      BY <1>1, <1>2, <2>3, <3>3
  <2>4. y.granted \subseteq Assignable(type) /\ y.denied \subseteq Assignable(type)
    BY <1>1, <1>2 DEF Closed
  <2>5. y.granted \cap y.denied = {}
    BY <1>2 DEF Closed
  <2>6. y.inherited \subseteq Heritable
        /\ ("change_asset" \in y.inherited => "view_asset" \in y.inherited)
    BY <1>2 DEF Closed
  <2>7. "view_asset" \in y.denied => "change_asset" \in y.denied
    BY <1>2, <2>2 DEF Closed
  <2>8. \A q \in y.denied \cap Contradictory(Partial) : "manage_asset" \in y.denied
    BY <1>2, <2>3 DEF Closed
  <2>9. QED
    BY <2>1, <2>4, <2>5, <2>6, <2>7, <2>8 DEF Closed
<1>5. ASSUME new # {}, MeetsDenial(x, p, type) PROVE "manage_asset" \in y.denied
  <2>1. PICK q \in Implying(p) \cap Assignable(type) : q \in Contradictory(Partial)
    BY <1>5 DEF MeetsDenial
  <2>2. q \in WithImplying(p, type)
    BY <2>1 DEF WithImplying
  <2>3. q \in y.denied
    BY <1>1, <1>2, <1>5, <2>2
  <2>4. QED
    BY <1>4, <2>1, <2>3 DEF Closed
<1>6. Alone(y)
  BY <1>2 DEF Alone
<1>7. QED
  BY <1>1, <1>2, <1>3, <1>4, <1>5, <1>6 DEF y

\* What is denied after a revocation.
LEMMA RevokingKeepsClosed ==
    ASSUME NEW x \in Access, NEW type, NEW p \in Assignable(type), NEW isDeployed,
           Closed(x, type), Alone(x)
    PROVE  LET y == Revoking(x, p, type, isDeployed)
           IN  /\ y \in Access /\ Closed(y, type) /\ Alone(y)
               /\ y.granted = x.granted \ WithImplying(p, type)
               /\ x.denied \subseteq y.denied
               /\ \/ y.filters = x.filters
                  \/ p = Partial \/ p \in Contradictory(Partial)
                  \/ "manage_asset" \in y.denied
<1> DEFINE gone == WithImplying(p, type)
           blocked == Blocked(x, p, type)
           blocking == Blocking(x, p, type)
           emptied == \E q \in blocked : MeetsDenial(x, q, type)
           y == Revoking(x, p, type, isDeployed)
<1>1. /\ p \in Perms /\ p \in gone /\ gone \subseteq Assignable(type) /\ gone \subseteq Perms
      /\ \A q \in gone, r \in Assignable(type) : q \in Implied(r) => r \in gone
      /\ "view_asset" \in gone => p = "view_asset"
      /\ \A q \in gone : WithImplying(q, type) \subseteq gone
  BY AssignableFacts, WithImplyingFacts DEF WithImplying
<1>2. blocked \subseteq gone
  BY DEF Blocked
<1>3. /\ blocking = (UNION {WithImplying(q, type) : q \in blocked}) \ x.denied
      /\ \A q \in blocking : \E b \in blocked : q \in WithImplying(b, type)
      /\ \A b \in blocked : WithImplying(b, type) \subseteq x.denied \cup blocking
      /\ blocking \subseteq gone
  BY <1>1, <1>2 DEF Blocking
<1> HIDE DEF gone, blocked, blocking
<1>4. /\ y.granted = x.granted \ gone /\ y.inherited = x.inherited \ gone
      /\ y.denied = x.denied \cup blocking
      /\ y.filters = IF p = Partial \/ p \in Contradictory(Partial) \/ emptied THEN {} ELSE x.filters
      /\ y \in Access
  <2> DEFINE z == [x EXCEPT !.granted = x.granted \ gone, !.inherited = x.inherited \ gone,
                            !.denied = x.denied \cup blocking,
                            !.filters = IF emptied THEN {} ELSE x.filters,
                            !.kc = IF isDeployed THEN x.kc \ gone ELSE x.kc]
  <2>1. /\ z \in Access /\ z.granted = x.granted \ gone /\ z.inherited = x.inherited \ gone
        /\ z.denied = x.denied \cup blocking
        /\ z.filters = IF emptied THEN {} ELSE x.filters
    BY <1>1, <1>3 DEF Access
  <2>2. y = IF p = Partial \/ p \in Contradictory(Partial) THEN [z EXCEPT !.filters = {}] ELSE z
    BY DEF Revoking, Unfiltered, gone, blocking, blocked
  <2> HIDE DEF z, y, emptied
  <2>3. [z EXCEPT !.filters = {}] \in Access
    BY <2>1 DEF Access
  <2>4. QED
    BY <2>1, <2>2, <2>3 DEF Access
<1> HIDE DEF y
<1>5. \A b \in blocked, q \in Assignable(type) :
        b = q \/ b \in Implied(q) => q \in y.denied
  BY <1>1, <1>2, <1>3, <1>4, WithImplyingFacts
<1>6. Closed(y, type)
  <2>1. ASSUME NEW q \in y.granted, NEW r \in Implied(q) \cap Assignable(type) PROVE r \in y.granted
    BY <1>1, <1>4 DEF Closed
  <2>2. "view_asset" \in gone => "change_asset" \in gone
    BY <1>1, AssignableFacts DEF Implied
  <2>3. ASSUME "view_asset" \in blocking PROVE "change_asset" \in y.denied
    <3>1. PICK b \in blocked : "view_asset" \in WithImplying(b, type)
      BY <1>3, <2>3
    <3>2. b \in Perms
      BY <1>1, <1>2
    <3>3. b = "view_asset"
      BY <3>1, <3>2, WithImplyingFacts
    <3>4. QED
      BY <1>5, <3>3, AssignableFacts DEF Implied
  <2>4. ASSUME NEW q \in blocking, q \in Contradictory(Partial) PROVE "manage_asset" \in y.denied
    <3>1. PICK b \in blocked : q \in WithImplying(b, type)
      BY <1>3
    <3>2. b \in Perms /\ "manage_asset" \in Assignable(type)
      BY <1>1, <1>2, AssignableFacts
    <3>3. q = "manage_asset" \/ q \in Implied("manage_asset")
      BY <2>4, ContradictoryFacts
    <3>4. "manage_asset" \in WithImplying(b, type)
      BY <3>1, <3>2, <3>3, WithImplyingFacts
    <3>5. QED
      BY <1>3, <1>4, <3>4
  <2>5. y.granted \subseteq Assignable(type) /\ y.denied \subseteq Assignable(type)
    BY <1>1, <1>3, <1>4 DEF Closed
  <2>6. y.granted \cap y.denied = {}
    BY <1>3, <1>4 DEF Closed
  <2>7. y.inherited \subseteq Heritable
        /\ ("change_asset" \in y.inherited => "view_asset" \in y.inherited)
    BY <1>4, <2>2 DEF Closed
  <2>8. "view_asset" \in y.denied => "change_asset" \in y.denied
    BY <1>4, <2>3 DEF Closed
  <2>9. \A q \in y.denied \cap Contradictory(Partial) : "manage_asset" \in y.denied
    BY <1>4, <2>4 DEF Closed
  <2>10. QED
    BY <2>1, <2>5, <2>6, <2>7, <2>8, <2>9 DEF Closed
<1>7. ASSUME emptied PROVE "manage_asset" \in y.denied
  <2>1. PICK b \in blocked : MeetsDenial(x, b, type)
    BY <1>7
  <2>2. PICK q \in Implying(b) \cap Assignable(type) : q \in Contradictory(Partial)
    BY <2>1 DEF MeetsDenial
  <2>3. q \in WithImplying(b, type)
    BY <2>2 DEF WithImplying
  <2>4. q \in y.denied
    BY <1>3, <1>4, <2>3
  <2>5. QED
    BY <1>6, <2>2, <2>4 DEF Closed
<1>8. Alone(y)
  BY <1>4 DEF Alone
<1>9. QED
  BY <1>4, <1>6, <1>7, <1>8 DEF y, gone

----------------------------------------------------------------------------
(* Requests and the steps of longer ones *)

LEMMA UnfilteredFacts ==
    ASSUME NEW x \in Access, NEW p
    PROVE  LET y == Unfiltered(x, p)
           IN  /\ y \in Access /\ y.granted = x.granted /\ y.denied = x.denied
               /\ y.inherited = x.inherited
               /\ y.filters = IF p \in Contradictory(Partial) THEN {} ELSE x.filters
  BY DEF Unfiltered, Access

\* New filters, and the right to add submissions that editing some requires.
LEMMA FilteringKeepsSound ==
    ASSUME NEW x \in Access, Closed(x, "survey"), Alone(x), NEW u, NEW isDeployed,
           NEW keys \in SUBSET SubmissionPerms, keys # {}
    PROVE  Sound(Filtering(x, u, keys, isDeployed), "survey")
<1> DEFINE all == keys \cup ((UNION {Implied(k) : k \in keys}) \cap SubmissionPerms)
           y == [x EXCEPT !.filters = all]
<1>1. all \subseteq SubmissionPerms /\ all # {}
  OBVIOUS
<1>2. /\ Filtering(x, u, keys, isDeployed) =
            IF "add_submissions" \in all
            THEN Granting(y, u, "add_submissions", "survey", isDeployed) ELSE y
      /\ y = [x EXCEPT !.filters = all]
  BY DEF Filtering
<1> HIDE DEF all, y
<1>3. /\ y \in Access /\ y.granted = x.granted /\ y.denied = x.denied
      /\ y.inherited = x.inherited /\ y.filters = all
  BY <1>1, <1>2 DEF Access
<1>4. Closed(y, "survey") /\ Alone(y)
  BY <1>3 DEF Closed, Alone
<1>5. "add_submissions" \in Assignable("survey")
  BY DEF Assignable, Perms, SubmissionPerms, Partial
<1>6. CASE "add_submissions" \in all
  <2> DEFINE z == Granting(y, u, "add_submissions", "survey", isDeployed)
  <2>1. z \in Access
    BY <1>3, <1>5, GrantingStaysInAccess
  <2>2. Closed(z, "survey") /\ Alone(z) /\ z.filters = y.filters
    BY <1>3, <1>4, <1>5, GrantingKeepsClosed
  <2> HIDE DEF z
  <2>3. Sound(z, "survey")
    BY <1>1, <1>3, <2>1, <2>2 DEF Sound, HasFilters
  <2>4. QED
    BY <1>2, <1>6, <2>3 DEF z
<1>7. CASE "add_submissions" \notin all
  BY <1>1, <1>2, <1>3, <1>4, <1>7 DEF Sound, HasFilters
<1>8. QED
  BY <1>6, <1>7

\* The rows of a new asset, and those that a copy starts from, which keep the filters
\* and KoBoCAT's permissions.
LEMMA NoAccessIsSound ==
    ASSUME NEW type, NEW filters \in SUBSET SubmissionPerms, NEW kc \in SUBSET KcMapped
    PROVE  Sound([NoAccess EXCEPT !.filters = filters, !.kc = kc], type)
<1> DEFINE x == [NoAccess EXCEPT !.filters = filters, !.kc = kc]
<1>1. /\ x.granted = {} /\ x.denied = {} /\ x.inherited = {} /\ x.filters = filters
      /\ x \in Access
  BY DEF NoAccess, Access
<1> HIDE DEF x
<1>2. Sound(x, type)
  BY <1>1 DEF Sound, Closed, Alone, HasFilters
<1>3. QED
  BY <1>2 DEF x

\* Assigning a permission keeps the rows sound: assign_perm() with its nested calls
\* and what _update_partial_permissions() does after it.  A partial permission
\* comes with filters.
THEOREM AssigningKeepsSound ==
    ASSUME NEW type, NEW x, Sound(x, type), NEW u, NEW p \in Assignable(type), NEW isDeployed,
           NEW keys \in SUBSET SubmissionPerms, p = Partial => keys # {}
    PROVE  Sound(Assigning(x, u, p, keys, type, isDeployed), type)
<1> DEFINE y == Granting(x, u, p, type, isDeployed)
<1>1. x \in Access /\ Closed(x, type) /\ Alone(x) /\ HasFilters(x)
  BY DEF Sound
<1>2. y \in Access
  BY <1>1, GrantingStaysInAccess
<1>3. /\ Closed(y, type) /\ Alone(y)
      /\ p \in y.granted /\ y.filters = x.filters
      /\ p # Partial => /\ Partial \in y.granted => Partial \in x.granted
                        /\ Partial \in y.granted /\ "manage_asset" \in x.denied
                             => "manage_asset" \in y.denied
  BY <1>1, GrantingKeepsClosed
<1>4. Assigning(x, u, p, keys, type, isDeployed) =
        IF p = Partial THEN Filtering(y, u, keys, isDeployed) ELSE Unfiltered(y, p)
  BY DEF Assigning
<1> HIDE DEF y
<1>5. CASE p = Partial
  <2>1. type = "survey"
    BY <1>5 DEF Assignable, AssetPerms, Partial
  <2>2. QED
    BY <1>2, <1>3, <1>4, <1>5, <2>1, FilteringKeepsSound
<1>6. CASE p # Partial
  <2> DEFINE z == Unfiltered(y, p)
  <2>1. /\ z \in Access /\ z.granted = y.granted /\ z.denied = y.denied
        /\ z.inherited = y.inherited
        /\ z.filters = IF p \in Contradictory(Partial) THEN {} ELSE x.filters
    BY <1>2, <1>3, UnfilteredFacts
  <2> HIDE DEF z
  <2>2. Closed(z, type) /\ Alone(z)
    BY <1>3, <2>1 DEF Closed, Alone
  <2>3. p \in Contradictory(Partial) => Partial \notin z.granted
    BY <1>3, <2>1 DEF Alone
  <2>4. HasFilters(z)
    BY <1>1, <1>3, <1>6, <2>1, <2>3 DEF HasFilters
  <2>5. QED
    BY <1>4, <1>6, <2>1, <2>2, <2>4 DEF Sound, z
<1>7. QED
  BY <1>5, <1>6

\* Denying a permission as a copy from another asset does keeps the rows sound:
\* assign_perm(deny=True), and what _update_partial_permissions() does after it.
THEOREM DenyingKeepsSound ==
    ASSUME NEW type, NEW x, Sound(x, type), NEW u, NEW p \in Assignable(type), NEW isDeployed,
           NEW keys \in SUBSET SubmissionPerms, p = Partial => keys # {}
    PROVE  LET y == Denying(x, p, type, isDeployed)
           IN  Sound(IF p = Partial THEN Filtering(y, u, keys, isDeployed) ELSE Unfiltered(y, p), type)
<1> DEFINE y == Denying(x, p, type, isDeployed)
<1>1. x \in Access /\ Closed(x, type) /\ Alone(x) /\ HasFilters(x)
  BY DEF Sound
<1>2. /\ y \in Access /\ Closed(y, type) /\ Alone(y)
      /\ p \in y.denied /\ y.granted \subseteq x.granted
      /\ x.denied \subseteq y.denied
      /\ y.filters = x.filters \/ "manage_asset" \in y.denied
  BY <1>1, DenyingKeepsClosed
<1> HIDE DEF y
<1>3. CASE p = Partial
  <2>1. type = "survey"
    BY <1>3 DEF Assignable, AssetPerms, Partial
  <2>2. QED
    BY <1>2, <1>3, <2>1, FilteringKeepsSound DEF y
<1>4. CASE p # Partial
  <2> DEFINE z == Unfiltered(y, p)
  <2>1. /\ z \in Access /\ z.granted = y.granted /\ z.denied = y.denied
        /\ z.inherited = y.inherited
        /\ z.filters = IF p \in Contradictory(Partial) THEN {} ELSE y.filters
    BY <1>2, UnfilteredFacts
  <2> HIDE DEF z
  <2>2. Closed(z, type) /\ Alone(z)
    BY <1>2, <2>1 DEF Closed, Alone
  <2>3. p \in Contradictory(Partial) => "manage_asset" \in z.denied
    BY <1>2, <2>1 DEF Closed
  <2>4. HasFilters(z)
    BY <1>1, <1>2, <2>1, <2>3 DEF HasFilters
  <2>5. QED
    BY <1>4, <2>1, <2>2, <2>4 DEF Sound, z, y
<1>5. QED
  BY <1>3, <1>4

\* Revoking a permission keeps the rows sound, the denials that stop inherited
\* permissions from coming back included: remove_perm().  It is asked of what
\* the user has, or had when a bulk request began, so that what contradicts the
\* partial permission is never revoked beside it.
THEOREM RevokingKeepsSound ==
    ASSUME NEW type, NEW x, Sound(x, type), NEW p \in Assignable(type), NEW isDeployed,
           p \in Contradictory(Partial) => Partial \notin x.granted
    PROVE  Sound(Revoking(x, p, type, isDeployed), type)
<1> DEFINE y == Revoking(x, p, type, isDeployed)
<1>1. x \in Access /\ Closed(x, type) /\ Alone(x) /\ HasFilters(x)
  BY DEF Sound
<1>2. /\ y \in Access /\ Closed(y, type) /\ Alone(y)
      /\ y.granted = x.granted \ WithImplying(p, type)
      /\ x.denied \subseteq y.denied
      /\ \/ y.filters = x.filters
         \/ p = Partial \/ p \in Contradictory(Partial)
         \/ "manage_asset" \in y.denied
  BY <1>1, RevokingKeepsClosed
<1> HIDE DEF y
<1>3. p \in WithImplying(p, type)
  BY DEF WithImplying
<1>4. p \in Contradictory(Partial) => Partial \notin y.granted
  BY <1>2
<1>5. HasFilters(y)
  BY <1>1, <1>2, <1>3, <1>4 DEF HasFilters
<1>6. QED
  BY <1>2, <1>5 DEF Sound, y

\* Inheriting what somebody effectively has on the collection keeps the rows sound,
\* provided that whoever may change the collection may view it, which sound rows
\* give: _recalculate_inherited_perms().
THEOREM InheritingKeepsSound ==
    ASSUME NEW type, NEW x, Sound(x, type), NEW perms,
           "change_asset" \in perms => "view_asset" \in perms
    PROVE  Sound([x EXCEPT !.inherited = perms \cap Heritable], type)
<1> DEFINE y == [x EXCEPT !.inherited = perms \cap Heritable]
<1>1. x \in Access /\ Closed(x, type) /\ Alone(x) /\ HasFilters(x)
  BY DEF Sound
<1>2. Heritable \subseteq Perms /\ "view_asset" \in Heritable
  BY DEF Heritable, Perms, AssetPerms
<1>3. /\ y.inherited = perms \cap Heritable /\ y.granted = x.granted
      /\ y.denied = x.denied /\ y.filters = x.filters /\ y \in Access
  BY <1>1, <1>2 DEF Access
<1> HIDE DEF y
<1>4. Closed(y, type)
  BY <1>1, <1>2, <1>3 DEF Closed
<1>5. QED
  BY <1>1, <1>3, <1>4 DEF Sound, Alone, HasFilters, y

\* What sound rows mean: nobody has a permission without those it implies, nor
\* beside one that contradicts it, nor a partial one without filters, and nothing is
\* both granted and denied: ImpliedHeld, NoContradiction and PartialHasFilters, of
\* one user and one asset.
THEOREM SoundRowsAreRight ==
    ASSUME NEW type, NEW x, Sound(x, type), NEW u
    PROVE  /\ \A p \in Effective(x, u) : Implied(p) \cap Assignable(type) \subseteq Effective(x, u)
           /\ \A p \in Effective(x, u) : Contradictory(p) \cap Effective(x, u) = {}
           /\ Partial \in Effective(x, u) /\ "manage_asset" \notin x.denied => x.filters # {}
           /\ x.granted \cap x.denied = {}
<1> DEFINE perms == (x.granted \cup x.inherited) \ x.denied
           effective == Effective(x, u)
<1>1. x \in Access /\ Closed(x, type) /\ Alone(x) /\ HasFilters(x)
  BY DEF Sound
<1>2. effective = IF u = Anonymous THEN perms \cap AllowedAnonymous ELSE perms
  BY DEF Effective
<1>3. ASSUME NEW p \in perms, NEW q \in Implied(p) \cap Assignable(type) PROVE q \in perms
  <2>1. CASE p \in x.granted
    BY <1>1, <2>1 DEF Closed
  <2>2. CASE p \in x.inherited
    <3>1. p = "change_asset" /\ q = "view_asset"
      BY <1>1, <2>2 DEF Closed, Heritable, Implied, Partial
    <3>2. QED
      BY <1>1, <2>2, <3>1 DEF Closed
  <2>3. QED
    BY <2>1, <2>2
<1>4. \A p \in AllowedAnonymous : Implied(p) \subseteq AllowedAnonymous
  BY DEF AllowedAnonymous, Implied, Partial
<1>5. ASSUME NEW p \in effective, NEW q \in Implied(p) \cap Assignable(type) PROVE q \in effective
  BY <1>2, <1>3, <1>4
<1>6. ASSUME NEW p \in perms, NEW q \in perms, q \in Contradictory(p) PROVE FALSE
  <2>1. Partial \notin Heritable /\ Contradictory(Partial) \cap Heritable = {}
    BY ContradictoryFacts DEF Heritable, Partial
  <2>2. CASE p = Partial
    BY <1>1, <1>6, <2>1, <2>2 DEF Closed, Alone
  <2>3. CASE p # Partial
    <3>1. q = Partial
      BY <1>6, <2>3, ContradictoryFacts
    <3>2. p \in Contradictory(Partial)
      BY <1>6, <2>3 DEF Contradictory
    <3>3. QED
      BY <1>1, <2>1, <3>1, <3>2 DEF Closed, Alone
  <2>4. QED
    BY <2>2, <2>3
<1>7. Partial \in perms /\ "manage_asset" \notin x.denied => x.filters # {}
  <2>1. Partial \in perms => Partial \in x.granted
    BY <1>1 DEF Closed, Heritable, Partial
  <2>2. QED
    BY <1>1, <2>1 DEF HasFilters
<1>8. effective \subseteq perms
  BY <1>2
<1> HIDE DEF perms, effective
<1>9. QED
  BY <1>1, <1>5, <1>6, <1>7, <1>8 DEF Closed, effective

----------------------------------------------------------------------------
(* Collections in collections *)

Parents == [Assets -> Collections \cup {None}]

\* No asset is in a collection that is in it: along `parent` one arrives outside.
Acyclic(par) == \A S \in SUBSET Assets : S # {} => \E a \in S : par[a] \notin S

Outermost(par) == {a \in Assets : par[a] = None}

LEMMA ParentsFacts ==
    ASSUME NEW par \in Parents, NEW d \in Assets
    PROVE  par[d] = None \/ (par[d] # None /\ par[d] \in Collections /\ par[d] \in Assets)
  BY PermissionsAssumption DEF Parents, Collections

LEMMA ParentsArrive ==
    ASSUME NEW par \in Parents, Acyclic(par)
    PROVE  Arrives(Assets, Outermost(par), par)
  BY ParentsFacts DEF Arrives, Outermost, Acyclic

LEMMA AboveFacts ==
    ASSUME NEW par \in Parents, NEW d \in Assets
    PROVE  /\ Above(par)[d] \subseteq Collections
           /\ par[d] = None => Above(par)[d] = {}
           /\ par[d] # None => Above(par)[d] = {par[d]} \cup Above(par)[par[d]]
<1> DEFINE Holds(a, S) == \A b \in {a} \cup S : par[b] \in S \cup {None}
           Up(a) == {up \in Collections : \A S \in SUBSET Collections : Holds(a, S) => up \in S}
<1>1. \A a \in Assets : Above(par)[a] = Up(a)
  BY DEF Above
<1>2. Up(d) \subseteq Collections
  OBVIOUS
<1>3. ASSUME par[d] = None PROVE Up(d) = {}
  <2>1. Holds(d, {}) /\ {} \in SUBSET Collections
    BY <1>3
  <2> HIDE DEF Holds
  <2>2. ASSUME NEW up \in Up(d) PROVE FALSE
    BY <2>1
  <2>3. QED
    BY <2>2
<1>4. ASSUME par[d] # None PROVE Up(d) = {par[d]} \cup Up(par[d])
  <2>1. par[d] \in Collections /\ par[d] \in Assets
    BY <1>4, ParentsFacts
  <2>2. par[d] \in Up(d)
    BY <1>4, <2>1
  <2>3. ASSUME NEW S \in SUBSET Collections, Holds(d, S) PROVE Holds(par[d], S)
    BY <1>4, <2>3
  <2>4. Up(par[d]) \subseteq Up(d)
    BY <2>3
  <2> DEFINE all == {par[d]} \cup Up(par[d])
  <2>5. all \in SUBSET Collections
    BY <2>1
  <2>6. ASSUME NEW b \in {par[d]} \cup Up(par[d]) PROVE par[b] \in Up(par[d]) \cup {None}
    <3> SUFFICES ASSUME par[b] # None PROVE par[b] \in Up(par[d])
      OBVIOUS
    <3>1. b \in Assets /\ par[b] \in Collections
      BY <2>1, <2>6, ParentsFacts DEF Collections
    <3>2. ASSUME NEW S \in SUBSET Collections, Holds(par[d], S) PROVE par[b] \in S
      <4>1. b \in {par[d]} \cup S
        BY <2>6, <3>2
      <4>2. QED
        BY <3>2, <4>1
    <3>3. QED
      BY <3>1, <3>2
  <2>7. Holds(d, all)
    BY <2>6
  <2>8. Up(d) \subseteq all
    BY <2>5, <2>7
  <2>9. QED
    BY <2>2, <2>4, <2>8
<1> HIDE DEF Up
<1>5. par[d] # None => par[d] \in Assets
  BY ParentsFacts
<1>6. QED
  BY <1>1, <1>2, <1>3, <1>4, <1>5

LEMMA NotAboveItself ==
    ASSUME NEW par \in Parents, Acyclic(par), NEW a \in Assets
    PROVE  a \notin Above(par)[a]
<1> SUFFICES ASSUME a \in Above(par)[a] PROVE FALSE
  OBVIOUS
<1> DEFINE S == {d \in Assets : a \in Above(par)[d]}
           Loop == {d \in S : d = a \/ d \in Above(par)[a]}
<1>1. Loop \subseteq Assets /\ Loop # {}
  OBVIOUS
<1>2. \A d, e \in Assets : d \in Above(par)[e] => par[d] = None \/ par[d] \in Above(par)[e]
  <2> DEFINE Good(d) == {e \in Assets : d \in Above(par)[e] => par[d] = None \/ par[d] \in Above(par)[e]}
  <2> SUFFICES ASSUME NEW d \in Assets PROVE Assets \subseteq Good(d)
    OBVIOUS
  <2>1. ASSUME NEW e \in Assets, e \in Outermost(par) \/ par[e] \in Good(d) PROVE e \in Good(d)
    <3> SUFFICES ASSUME d \in Above(par)[e], par[d] # None PROVE par[d] \in Above(par)[e]
      OBVIOUS
    <3>1. par[e] # None /\ Above(par)[e] = {par[e]} \cup Above(par)[par[e]]
      BY AboveFacts
    <3>2. par[e] \in Good(d)
      BY <2>1, <3>1 DEF Outermost
    <3>3. CASE d = par[e]
      <4>1. d # None /\ Above(par)[d] = {par[d]} \cup Above(par)[par[d]]
        BY <3>1, <3>3, AboveFacts
      <4>2. QED
        BY <3>1, <3>3, <4>1
    <3>4. CASE d # par[e]
      BY <3>1, <3>2, <3>4
    <3>5. QED
      BY <3>3, <3>4
  <2> HIDE DEF Good
  <2>2. QED
    BY <2>1, ParentsArrive, InductionAlong
<1>3. ASSUME NEW d \in Loop PROVE par[d] \in Loop
  <2>1. d \in Assets /\ a \in Above(par)[d]
    OBVIOUS
  <2>2. par[d] # None /\ par[d] \in Assets /\ Above(par)[d] = {par[d]} \cup Above(par)[par[d]]
    BY <2>1, AboveFacts, ParentsFacts
  <2>3. a \in Above(par)[par[d]]
    BY <2>1, <2>2
  <2>4. par[d] \in Above(par)[a]
    <3>1. CASE d = a
      BY <2>2, <3>1
    <3>2. CASE d \in Above(par)[a]
      BY <1>2, <2>1, <2>2, <3>2
    <3>3. QED
      BY <3>1, <3>2
  <2>5. QED
    BY <2>2, <2>3, <2>4
<1> HIDE DEF Loop
<1>4. QED
  BY <1>1, <1>3 DEF Acyclic

----------------------------------------------------------------------------
(* Passing on to the descendants *)

AllAccess == [Everyone -> Access]

LEMMA InheritingFacts ==
    ASSUME NEW a \in Assets, NEW row \in AllAccess, NEW effective
    PROVE  /\ Inheriting(a, row, effective) \in AllAccess
           /\ \A u \in Everyone :
                Inheriting(a, row, effective)[u] =
                  [row[u] EXCEPT !.inherited =
                     IF u = Owner[a] THEN Assignable(Type[a]) \ {Partial}
                     ELSE effective[u] \cap Heritable]
<1>1. Heritable \subseteq Perms
  BY DEF Heritable, Perms, AssetPerms
<1> DEFINE perms(u) == IF u = Owner[a] THEN Assignable(Type[a]) \ {Partial}
                       ELSE effective[u] \cap Heritable
<1>2. \A u : perms(u) \subseteq Perms
  BY <1>1, AssignableFacts
<1>3. Inheriting(a, row, effective) = [u \in Everyone |-> [row[u] EXCEPT !.inherited = perms(u)]]
  BY DEF Inheriting
<1> HIDE DEF perms
<1>4. \A u \in Everyone : [row[u] EXCEPT !.inherited = perms(u)] \in Access
  BY <1>2 DEF AllAccess, Access
<1>5. QED
  BY <1>3, <1>4 DEF AllAccess, perms

\* The recursion is well founded: the rows of a descendant follow from its parent's.
LEMMA DescendedIs ==
    ASSUME NEW par \in Parents, Acyclic(par), NEW rows \in [Assets -> AllAccess],
           NEW a \in Assets, NEW effective
    PROVE  LET new == Descended(rows, par, a, effective)
           IN  /\ new \in [Assets -> AllAccess]
               /\ \A d \in Assets :
                    new[d] = IF a \notin Above(par)[d] THEN rows[d]
                             ELSE Inheriting(d, rows[d],
                                    IF par[d] = a THEN effective ELSE AllEffective(new[par[d]]))
<1> DEFINE new == Descended(rows, par, a, effective)
           Body(f, d) == IF a \notin Above(par)[d] THEN rows[d]
                         ELSE Inheriting(d, rows[d],
                                IF par[d] = a THEN effective ELSE AllEffective(f[par[d]]))
           step == [x \in Assets \X AllAccess |->
                      IF a \notin Above(par)[x[1]] THEN rows[x[1]]
                      ELSE Inheriting(x[1], rows[x[1]],
                             IF par[x[1]] = a THEN effective ELSE AllEffective(x[2]))]
           Base == Outermost(par)
<1>1. step \in [Assets \X AllAccess -> AllAccess]
  BY InheritingFacts
<1>2. \A d \in Assets, v \in AllAccess :
        step[<<d, v>>] = IF a \notin Above(par)[d] THEN rows[d]
                         ELSE Inheriting(d, rows[d], IF par[d] = a THEN effective ELSE AllEffective(v))
  OBVIOUS
<1> HIDE DEF step
<1>3. PICK f \in [Assets -> AllAccess] : \A d \in Assets : f[d] = Follow(Base, par, rows, step, f, d)
  <2>1. IsFiniteSet(Assets) /\ Arrives(Assets, Base, par)
    BY ParentsArrive, PermissionsAssumption
  <2> HIDE DEF Base, AllAccess
  <2>2. Solvable(Assets, Base, par, AllAccess, rows, step)
    BY <1>1, <2>1, RecursionExists
  <2>3. QED
    BY <2>2 DEF Solvable
<1>4. ASSUME NEW d \in Assets PROVE f[d] = Body(f, d)
  <2>1. CASE d \in Base
    BY <1>3, <2>1, AboveFacts DEF Follow, Outermost
  <2>2. CASE d \notin Base
    <3>1. par[d] \in Assets /\ f[par[d]] \in AllAccess
      BY <2>2, ParentsFacts DEF Outermost
    <3>2. f[d] = step[<<d, f[par[d]]>>]
      BY <1>3, <2>2 DEF Follow
    <3>3. QED
      BY <1>2, <3>1, <3>2
  <2>3. QED
    BY <2>1, <2>2
<1>5. f = [d \in Assets |-> Body(f, d)]
  BY <1>4
<1> DEFINE solution == CHOOSE g : g = [d \in Assets |-> Body(g, d)]
<1>6. solution = [d \in Assets |-> Body(solution, d)]
  BY <1>5
<1>7. a \in Collections => new = solution
  BY DEF Descended
<1>8. a \notin Collections => new = rows /\ \A d \in Assets : a \notin Above(par)[d]
  BY AboveFacts DEF Descended
<1> HIDE DEF solution, new
<1>9. \A d \in Assets : new[d] = Body(new, d)
  BY <1>6, <1>7, <1>8
<1>10. DOMAIN new = Assets /\ new = [d \in Assets |-> new[d]]
  BY <1>6, <1>7, <1>8
<1> DEFINE Good == {d \in Assets : new[d] \in AllAccess}
<1>11. \A d \in Assets : d \in Good
  BY <1>9, InheritingFacts
<1>12. QED
  BY <1>9, <1>10, <1>11 DEF new

----------------------------------------------------------------------------
(* Folding over a finite set *)

First(s) == CHOOSE x \in s : TRUE
Rest == [s \in UNION {SUBSET Perms} |-> s \ {First(s)}]

LEMMA SubsetsArrive ==
    ASSUME NEW S \in SUBSET Perms, IsFiniteSet(S)
    PROVE  Arrives(SUBSET S, {{}}, Rest)
<1>1. \A s \in SUBSET S : Rest[s] = s \ {First(s)} /\ (s # {} => First(s) \in s)
  BY DEF Rest, First
<1>2. ASSUME NEW T \in SUBSET SUBSET S, T # {} PROVE \E s \in T : s \in {{}} \/ Rest[s] \notin T
  <2>1. PICK R \in T : \A s \in T : s \subseteq R => s = R
    BY <1>2, SmallestOf
  <2>2. R # {} => Rest[R] \subseteq R /\ Rest[R] # R
    BY <1>1, <2>1
  <2>3. QED
    BY <2>1, <2>2
<1>3. QED
  BY <1>1, <1>2 DEF Arrives

\* Where folding starts, and what a step makes of what the rest has been folded to.
FoldBody(base, step, f, s) == IF s = {} THEN base ELSE step[<<First(s), f[s \ {First(s)}]>>]

Foldable(S, V, base, step) ==
    \E f \in [SUBSET S -> V] : \A s \in SUBSET S : f[s] = FoldBody(base, step, f, s)

LEMMA FoldExists ==
    ASSUME NEW S \in SUBSET Perms, IsFiniteSet(S), NEW V, NEW base \in V, NEW step \in [S \X V -> V]
    PROVE  Foldable(S, V, base, step)
<1> DEFINE start == [s \in SUBSET S |-> base]
           next == [x \in (SUBSET S) \X V |-> IF x[1] = {} THEN base ELSE step[<<First(x[1]), x[2]>>]]
<1>1. IsFiniteSet(SUBSET S) /\ Arrives(SUBSET S, {{}}, Rest)
  BY SubsetsArrive, FS_SUBSET
<1>2. start \in [SUBSET S -> V]
  OBVIOUS
<1>3. \A s \in SUBSET S : s # {} => First(s) \in S
  BY DEF First
<1>4. next \in [(SUBSET S) \X V -> V]
  BY <1>3
<1>5. \A s \in SUBSET S, v \in V : s # {} => next[<<s, v>>] = step[<<First(s), v>>]
  OBVIOUS
<1>6. \A s \in SUBSET S : start[s] = base /\ Rest[s] = s \ {First(s)} /\ Rest[s] \in SUBSET S
  BY DEF Rest
<1> HIDE DEF start, next
<1>7. Solvable(SUBSET S, {{}}, Rest, V, start, next)
  BY <1>1, <1>2, <1>4, RecursionExists
<1>8. PICK f \in [SUBSET S -> V] : \A s \in SUBSET S : f[s] = Follow({{}}, Rest, start, next, f, s)
  BY <1>7 DEF Solvable
<1>9. ASSUME NEW s \in SUBSET S PROVE f[s] = FoldBody(base, step, f, s)
  <2>1. f[s] = Follow({{}}, Rest, start, next, f, s)
    BY <1>8
  <2>2. CASE s = {}
    BY <2>1, <2>2, <1>6 DEF Follow, FoldBody
  <2>3. CASE s # {}
    <3>1. f[s] = next[<<s, f[Rest[s]]>>] /\ f[Rest[s]] \in V
      BY <2>1, <2>3, <1>6, <1>8 DEF Follow
    <3>2. PICK v \in V : v = f[Rest[s]]
      BY <3>1
    <3>3. f[s] = step[<<First(s), v>>] /\ Rest[s] = s \ {First(s)}
      BY <3>1, <3>2, <2>3, <1>5, <1>6
    <3>4. QED
      BY <2>3, <3>2, <3>3 DEF FoldBody
  <2>4. QED
    BY <2>2, <2>3
<1>10. QED
  BY <1>9 DEF Foldable

\* What a fold, of which one step follows from another, arrives at.
LEMMA FoldArrives ==
    ASSUME NEW S \in SUBSET Perms, IsFiniteSet(S), NEW W, NEW f,
           f[{}] \in W[{}],
           \A s \in SUBSET S : s # {} /\ f[s \ {First(s)}] \in W[s \ {First(s)}] => f[s] \in W[s]
    PROVE  f[S] \in W[S]
<1> DEFINE Good == {s \in SUBSET S : f[s] \in W[s]}
<1>1. ASSUME NEW s \in SUBSET S, s \in {{}} \/ Rest[s] \in Good PROVE s \in Good
  BY <1>1 DEF Rest
<1> HIDE DEF Good
<1>2. PICK D, Base : D = SUBSET S /\ Base = {{}}
  OBVIOUS
<1>3. Arrives(D, Base, Rest) /\ \A s \in D : s \in Base \/ Rest[s] \in Good => s \in Good
  BY <1>1, <1>2, SubsetsArrive
<1>4. D \subseteq Good
  BY <1>3, InductionAlong
<1>5. QED
  BY <1>2, <1>4 DEF Good

\* The removals of a bulk request.
Revoked(x, S, type, isDeployed) ==
    LET Remove(p, y) == Revoking(y, p, type, isDeployed)
    IN  FoldSet(Remove, x, S)

LEMMA RevokingEach ==
    ASSUME NEW S \in SUBSET Perms, IsFiniteSet(S), NEW V, NEW x \in V, NEW type, NEW isDeployed,
           \A p \in S, y \in V : Revoking(y, p, type, isDeployed) \in V,
           NEW W, x \in W[{}], \A s \in SUBSET S : W[s] \subseteq V,
           \A s \in SUBSET S : \A p \in s : \A y \in W[s \ {p}] : Revoking(y, p, type, isDeployed) \in W[s]
    PROVE  Revoked(x, S, type, isDeployed) \in W[S]
<1> DEFINE Body(f, s) == IF s = {} THEN x ELSE Revoking(f[s \ {First(s)}], First(s), type, isDeployed)
           step == [z \in S \X V |-> Revoking(z[2], z[1], type, isDeployed)]
           result == CHOOSE f : f = [s \in SUBSET S |-> Body(f, s)]
<1>1. step \in [S \X V -> V] /\ \A p \in S, y \in V : step[<<p, y>>] = Revoking(y, p, type, isDeployed)
  OBVIOUS
<1> HIDE DEF step
<1>2. Foldable(S, V, x, step)
  BY <1>1, FoldExists
<1>3. PICK f \in [SUBSET S -> V] : \A s \in SUBSET S : f[s] = FoldBody(x, step, f, s)
  BY <1>2 DEF Foldable
<1>4. \A s \in SUBSET S : s # {} => First(s) \in S
  BY DEF First
<1>5. \A s \in SUBSET S : f[s] = Body(f, s)
  BY <1>1, <1>3, <1>4 DEF FoldBody
<1>6. f = [s \in SUBSET S |-> Body(f, s)]
  BY <1>5
<1>7. result = [s \in SUBSET S |-> Body(result, s)]
  BY <1>6
<1>8. Revoked(x, S, type, isDeployed) = result[S]
  BY DEF Revoked, FoldSet, MapThenFoldSet, First
<1> HIDE DEF result
<1>9. result[{}] = x /\ \A s \in SUBSET S : s # {} => result[s] = Revoking(result[s \ {First(s)}], First(s), type, isDeployed)
  BY <1>7
<1>10. ASSUME NEW s \in SUBSET S, s # {}, result[s \ {First(s)}] \in W[s \ {First(s)}]
       PROVE  result[s] \in W[s]
  <2>1. PICK p \in s : p = First(s)
    BY <1>10 DEF First
  <2>2. PICK y \in W[s \ {p}] : y = result[s \ {p}]
    BY <1>10, <2>1
  <2>3. result[s] = Revoking(y, p, type, isDeployed)
    BY <1>9, <1>10, <2>1, <2>2
  <2>4. QED
    BY <2>3
<1>11. result[S] \in W[S]
  BY <1>9, <1>10, FoldArrives
<1>12. QED
  BY <1>8, <1>11

LEMMA RevokingAll ==
    ASSUME NEW S \in SUBSET Perms, IsFiniteSet(S), NEW V, NEW x \in V, NEW type, NEW isDeployed,
           \A p \in S, y \in V : Revoking(y, p, type, isDeployed) \in V
    PROVE  Revoked(x, S, type, isDeployed) \in V
<1> DEFINE W == [s \in SUBSET S |-> V]
<1>1. x \in W[{}] /\ W[S] = V /\ \A s \in SUBSET S : W[s] \subseteq V
  OBVIOUS
<1>2. \A s \in SUBSET S : \A p \in s : \A y \in W[s \ {p}] : Revoking(y, p, type, isDeployed) \in W[s]
  OBVIOUS
<1> HIDE DEF W
<1>3. QED
  BY <1>1, <1>2, RevokingEach

\* The assignments of a bulk request or of a copy.
Assigned(x, S, u, keys, type, isDeployed) ==
    LET Add(p, y) == Assigning(y, u, p, keys, type, isDeployed)
    IN  FoldSet(Add, x, S)

LEMMA AssigningEach ==
    ASSUME NEW S \in SUBSET Perms, IsFiniteSet(S), NEW V, NEW x \in V, NEW u, NEW keys, NEW type, NEW isDeployed,
           \A p \in S, y \in V : Assigning(y, u, p, keys, type, isDeployed) \in V,
           NEW W, x \in W[{}], \A s \in SUBSET S : W[s] \subseteq V,
           \A s \in SUBSET S : \A p \in s : \A y \in W[s \ {p}] : Assigning(y, u, p, keys, type, isDeployed) \in W[s]
    PROVE  Assigned(x, S, u, keys, type, isDeployed) \in W[S]
<1> DEFINE Body(f, s) == IF s = {} THEN x ELSE Assigning(f[s \ {First(s)}], u, First(s), keys, type, isDeployed)
           step == [z \in S \X V |-> Assigning(z[2], u, z[1], keys, type, isDeployed)]
           result == CHOOSE f : f = [s \in SUBSET S |-> Body(f, s)]
<1>1. step \in [S \X V -> V] /\ \A p \in S, y \in V : step[<<p, y>>] = Assigning(y, u, p, keys, type, isDeployed)
  OBVIOUS
<1> HIDE DEF step
<1>2. Foldable(S, V, x, step)
  BY <1>1, FoldExists
<1>3. PICK f \in [SUBSET S -> V] : \A s \in SUBSET S : f[s] = FoldBody(x, step, f, s)
  BY <1>2 DEF Foldable
<1>4. \A s \in SUBSET S : s # {} => First(s) \in S
  BY DEF First
<1>5. \A s \in SUBSET S : f[s] = Body(f, s)
  BY <1>1, <1>3, <1>4 DEF FoldBody
<1>6. f = [s \in SUBSET S |-> Body(f, s)]
  BY <1>5
<1>7. result = [s \in SUBSET S |-> Body(result, s)]
  BY <1>6
<1>8. Assigned(x, S, u, keys, type, isDeployed) = result[S]
  BY DEF Assigned, FoldSet, MapThenFoldSet, First
<1> HIDE DEF result
<1>9. result[{}] = x /\ \A s \in SUBSET S : s # {} => result[s] = Assigning(result[s \ {First(s)}], u, First(s), keys, type, isDeployed)
  BY <1>7
<1>10. ASSUME NEW s \in SUBSET S, s # {}, result[s \ {First(s)}] \in W[s \ {First(s)}]
       PROVE  result[s] \in W[s]
  <2>1. PICK p \in s : p = First(s)
    BY <1>10 DEF First
  <2>2. PICK y \in W[s \ {p}] : y = result[s \ {p}]
    BY <1>10, <2>1
  <2>3. result[s] = Assigning(y, u, p, keys, type, isDeployed)
    BY <1>9, <1>10, <2>1, <2>2
  <2>4. \A q \in s, z \in V : z \in W[s \ {q}] => Assigning(z, u, q, keys, type, isDeployed) \in W[s]
    OBVIOUS
  <2>5. Assigning(y, u, p, keys, type, isDeployed) \in W[s]
    BY <2>4
  <2>6. QED
    BY <2>3, <2>5
<1>11. result[S] \in W[S]
  BY <1>9, <1>10, FoldArrives
<1>12. QED
  BY <1>8, <1>11

LEMMA AssigningAll ==
    ASSUME NEW S \in SUBSET Perms, IsFiniteSet(S), NEW V, NEW x \in V, NEW u, NEW keys, NEW type, NEW isDeployed,
           \A p \in S, y \in V : Assigning(y, u, p, keys, type, isDeployed) \in V
    PROVE  Assigned(x, S, u, keys, type, isDeployed) \in V
<1> DEFINE W == [s \in SUBSET S |-> V]
<1>1. x \in W[{}] /\ W[S] = V /\ \A s \in SUBSET S : W[s] \subseteq V
  OBVIOUS
<1>2. \A s \in SUBSET S : \A p \in s : \A y \in W[s \ {p}] : Assigning(y, u, p, keys, type, isDeployed) \in W[s]
  OBVIOUS
<1> HIDE DEF W
<1>3. QED
  BY <1>1, <1>2, AssigningEach

\* assign_perm(deny=True), with the filters of a partial permission.
DenyingWith(y, u, p, keys, type, isDeployed) ==
    LET z == Denying(y, p, type, isDeployed)
    IN  IF p = Partial THEN Filtering(z, u, keys, isDeployed) ELSE Unfiltered(z, p)

\* The denials of a copy.
Denied(x, S, u, keys, type, isDeployed) ==
    LET Deny(p, y) ==
          LET z == Denying(y, p, type, isDeployed)
          IN  IF p = Partial THEN Filtering(z, u, keys, isDeployed) ELSE Unfiltered(z, p)
    IN  FoldSet(Deny, x, S)

LEMMA DenyingAll ==
    ASSUME NEW S \in SUBSET Perms, IsFiniteSet(S), NEW V, NEW x \in V, NEW u, NEW keys, NEW type,
           NEW isDeployed,
           \A p \in S, y \in V : DenyingWith(y, u, p, keys, type, isDeployed) \in V
    PROVE  Denied(x, S, u, keys, type, isDeployed) \in V
<1> DEFINE Body(f, s) == IF s = {} THEN x ELSE DenyingWith(f[s \ {First(s)}], u, First(s), keys, type, isDeployed)
           step == [z \in S \X V |-> DenyingWith(z[2], u, z[1], keys, type, isDeployed)]
           result == CHOOSE f : f = [s \in SUBSET S |-> Body(f, s)]
<1>1. step \in [S \X V -> V] /\ \A p \in S, y \in V : step[<<p, y>>] = DenyingWith(y, u, p, keys, type, isDeployed)
  OBVIOUS
<1> HIDE DEF step
<1>2. Foldable(S, V, x, step)
  BY <1>1, FoldExists
<1>3. PICK f \in [SUBSET S -> V] : \A s \in SUBSET S : f[s] = FoldBody(x, step, f, s)
  BY <1>2 DEF Foldable
<1>4. \A s \in SUBSET S : s # {} => First(s) \in S
  BY DEF First
<1>5. \A s \in SUBSET S : f[s] = Body(f, s)
  BY <1>1, <1>3, <1>4 DEF FoldBody
<1>6. f = [s \in SUBSET S |-> Body(f, s)]
  BY <1>5
<1>7. result = [s \in SUBSET S |-> Body(result, s)]
  BY <1>6
<1>8. Denied(x, S, u, keys, type, isDeployed) = result[S]
  BY DEF Denied, FoldSet, MapThenFoldSet, First, DenyingWith
<1> HIDE DEF result
<1>9. result[{}] = x /\ \A s \in SUBSET S : s # {} => result[s] = DenyingWith(result[s \ {First(s)}], u, First(s), keys, type, isDeployed)
  BY <1>7
<1> DEFINE W == [s \in SUBSET S |-> V]
<1>10. /\ result[{}] \in W[{}]
       /\ \A s \in SUBSET S : s # {} /\ result[s \ {First(s)}] \in W[s \ {First(s)}] => result[s] \in W[s]
  BY <1>4, <1>9
<1>11. W[S] = V
  OBVIOUS
<1> HIDE DEF W
<1>12. result[S] \in V
  BY <1>10, <1>11, FoldArrives
<1>13. QED
  BY <1>8, <1>12

LEMMA PermsAreFinite == IsFiniteSet(Perms) /\ \A S \in SUBSET Perms : IsFiniteSet(S)
<1> DEFINE A1 == {} \cup {"view_asset"}
           A2 == A1 \cup {"change_asset"}
           A3 == A2 \cup {"discover_asset"}
           A4 == A3 \cup {"manage_asset"}
           A5 == A4 \cup {"add_submissions"}
           A6 == A5 \cup {"view_submissions"}
           A7 == A6 \cup {"change_submissions"}
           A8 == A7 \cup {"delete_submissions"}
           A9 == A8 \cup {"validate_submissions"}
           A10 == A9 \cup {Partial}
<1>1. Perms = A10
  BY DEF Perms, AssetPerms, SubmissionPerms
<1>2. IsFiniteSet(A3)
  BY FS_EmptySet, FS_AddElement
<1> HIDE DEF A3
<1>3. IsFiniteSet(A6)
  BY <1>2, FS_AddElement
<1> HIDE DEF A6
<1>4. IsFiniteSet(A10)
  BY <1>3, FS_AddElement
<1>5. QED
  BY <1>1, <1>4, FS_Subset

----------------------------------------------------------------------------
(* The rows of one user, KoBoCAT's copy included *)

RowIsRight(x, u, type, isDeployed) ==
    Sound(x, type) /\ (isDeployed => Mirrored(u, x.granted) \subseteq x.kc)

LEMMA GrantingIsMirrored ==
    ASSUME NEW x \in Access, NEW u, NEW type, NEW p, NEW isDeployed,
           isDeployed => Mirrored(u, x.granted) \subseteq x.kc
    PROVE  LET y == Granting(x, u, p, type, isDeployed)
           IN  /\ y.inherited \subseteq x.inherited
               /\ isDeployed => Mirrored(u, y.granted) \subseteq y.kc
<1> DEFINE new == IF p \in x.granted THEN {} ELSE With(p, type) \ x.granted
           contradicted == UNION {Contradictory(q) : q \in new}
           y == Granting(x, u, p, type, isDeployed)
<1>1. /\ y.granted = (x.granted \ contradicted) \cup new
      /\ y.inherited = x.inherited \ contradicted
      /\ y.kc = IF isDeployed THEN x.kc \cup Mirrored(u, new) ELSE x.kc
  BY DEF Granting, Access
<1> HIDE DEF new, contradicted, y
<1>2. Mirrored(u, y.granted) \subseteq Mirrored(u, x.granted) \cup Mirrored(u, new)
  BY <1>1 DEF Mirrored
<1>3. QED
  BY <1>1, <1>2 DEF y

LEMMA FilteringIsMirrored ==
    ASSUME NEW x \in Access, NEW u, NEW keys \in SUBSET SubmissionPerms, NEW isDeployed,
           isDeployed => Mirrored(u, x.granted) \subseteq x.kc
    PROVE  LET y == Filtering(x, u, keys, isDeployed)
           IN  /\ y.inherited \subseteq x.inherited
               /\ isDeployed => Mirrored(u, y.granted) \subseteq y.kc
<1> DEFINE all == keys \cup ((UNION {Implied(k) : k \in keys}) \cap SubmissionPerms)
           z == [x EXCEPT !.filters = all]
<1>1. all \subseteq SubmissionPerms
  OBVIOUS
<1>2. Filtering(x, u, keys, isDeployed) = IF "add_submissions" \in all
            THEN Granting(z, u, "add_submissions", "survey", isDeployed) ELSE z
  BY DEF Filtering
<1> HIDE DEF all
<1>3. z \in Access /\ z.granted = x.granted /\ z.inherited = x.inherited /\ z.kc = x.kc
  BY <1>1 DEF Access
<1> HIDE DEF z
<1>4. QED
  BY <1>2, <1>3, GrantingIsMirrored

LEMMA AssigningIsRight ==
    ASSUME NEW type, NEW x, NEW u, NEW isDeployed, RowIsRight(x, u, type, isDeployed),
           NEW p \in Assignable(type), NEW keys \in SUBSET SubmissionPerms, p = Partial => keys # {}
    PROVE  LET y == Assigning(x, u, p, keys, type, isDeployed)
           IN  RowIsRight(y, u, type, isDeployed) /\ y.inherited \subseteq x.inherited
<1> DEFINE g == Granting(x, u, p, type, isDeployed)
           y == Assigning(x, u, p, keys, type, isDeployed)
<1>1. x \in Access /\ Sound(x, type) /\ (isDeployed => Mirrored(u, x.granted) \subseteq x.kc)
  BY DEF RowIsRight, Sound
<1>2. Sound(y, type)
  BY <1>1, AssigningKeepsSound
<1>3. g \in Access /\ g.inherited \subseteq x.inherited /\ (isDeployed => Mirrored(u, g.granted) \subseteq g.kc)
  BY <1>1, GrantingStaysInAccess, GrantingIsMirrored
<1>4. y = IF p = Partial THEN Filtering(g, u, keys, isDeployed) ELSE Unfiltered(g, p)
  BY DEF Assigning
<1> HIDE DEF g, y
<1>5. LET z == Unfiltered(g, p)
      IN  z.inherited = g.inherited /\ z.granted = g.granted /\ z.kc = g.kc
  BY <1>3 DEF Unfiltered, Access
<1>6. y.inherited \subseteq x.inherited /\ (isDeployed => Mirrored(u, y.granted) \subseteq y.kc)
  BY <1>3, <1>4, <1>5, FilteringIsMirrored
<1>7. QED
  BY <1>2, <1>6 DEF RowIsRight, y

LEMMA DenyingIsRight ==
    ASSUME NEW type, NEW x, NEW u, NEW isDeployed, RowIsRight(x, u, type, isDeployed),
           NEW p \in Assignable(type), NEW keys \in SUBSET SubmissionPerms, p = Partial => keys # {}
    PROVE  RowIsRight(DenyingWith(x, u, p, keys, type, isDeployed), u, type, isDeployed)
<1> DEFINE g == Denying(x, p, type, isDeployed)
           y == DenyingWith(x, u, p, keys, type, isDeployed)
           new == IF p \in x.denied THEN {} ELSE WithImplying(p, type) \ x.denied
<1>1. x \in Access /\ Sound(x, type) /\ (isDeployed => Mirrored(u, x.granted) \subseteq x.kc)
  BY DEF RowIsRight, Sound
<1>2. Sound(y, type)
  BY <1>1, DenyingKeepsSound DEF DenyingWith
<1>3. g \in Access
  BY <1>1, DenyingKeepsClosed DEF Sound
<1>4. g.granted = x.granted \ new /\ g.kc = IF isDeployed THEN x.kc \ (new \cap x.granted) ELSE x.kc
  BY <1>1 DEF Denying, Access
<1> HIDE DEF new
<1>5. isDeployed => Mirrored(u, g.granted) \subseteq g.kc
  BY <1>1, <1>4 DEF Mirrored
<1>6. y = IF p = Partial THEN Filtering(g, u, keys, isDeployed) ELSE Unfiltered(g, p)
  BY DEF DenyingWith
<1> HIDE DEF g, y
<1>7. LET z == Unfiltered(g, p) IN z.granted = g.granted /\ z.kc = g.kc
  BY <1>3 DEF Unfiltered, Access
<1>8. isDeployed => Mirrored(u, y.granted) \subseteq y.kc
  BY <1>3, <1>5, <1>6, <1>7, FilteringIsMirrored
<1>9. QED
  BY <1>2, <1>8 DEF RowIsRight, y

LEMMA RevokingIsRight ==
    ASSUME NEW type, NEW x, NEW u, NEW isDeployed, RowIsRight(x, u, type, isDeployed),
           NEW p \in Assignable(type), p \in Contradictory(Partial) => Partial \notin x.granted
    PROVE  LET y == Revoking(x, p, type, isDeployed)
           IN  /\ RowIsRight(y, u, type, isDeployed)
               /\ y.granted \subseteq x.granted /\ y.inherited \subseteq x.inherited
<1> DEFINE y == Revoking(x, p, type, isDeployed)
           gone == WithImplying(p, type)
<1>1. x \in Access /\ Sound(x, type) /\ (isDeployed => Mirrored(u, x.granted) \subseteq x.kc)
  BY DEF RowIsRight, Sound
<1>2. Sound(y, type)
  BY <1>1, RevokingKeepsSound
<1>3. /\ y.granted = x.granted \ gone /\ y.inherited = x.inherited \ gone
      /\ y.kc = IF isDeployed THEN x.kc \ gone ELSE x.kc
  BY <1>1 DEF Revoking, Unfiltered, Access
<1> HIDE DEF y, gone
<1>4. isDeployed => Mirrored(u, y.granted) \subseteq y.kc
  BY <1>1, <1>3 DEF Mirrored
<1>5. QED
  BY <1>2, <1>3, <1>4 DEF RowIsRight, y

\* What a bulk request makes of the rows of a user.
LEMMA ReplacingIsRight ==
    ASSUME NEW type, NEW x, NEW u, NEW isDeployed, RowIsRight(x, u, type, isDeployed),
           NEW list, NEW keys \in SUBSET SubmissionPerms, Acceptable(u, list, keys, type)
    PROVE  LET y == Replacing(x, u, list, keys, type, isDeployed)
           IN  RowIsRight(y, u, type, isDeployed) /\ y.inherited \subseteq x.inherited
<1> DEFINE R == Removals(x, list, keys, type)
           A == Additions(x, list, keys, type)
           Less == {y \in Access : /\ RowIsRight(y, u, type, isDeployed)
                                   /\ y.granted \subseteq x.granted /\ y.inherited \subseteq x.inherited}
           More == {y \in Access : RowIsRight(y, u, type, isDeployed) /\ y.inherited \subseteq x.inherited}
<1>1. x \in Access /\ Closed(x, type) /\ Alone(x) /\ Heritable \subseteq Assignable(type)
  BY AssignableFacts DEF RowIsRight, Sound, Heritable
<1>2. Existing(x) \subseteq Assignable(type)
  BY <1>1 DEF Existing, Closed
<1>3. list \subseteq Assignable(type) /\ (Partial \in list => keys # {})
  BY DEF Acceptable
<1>4. R \subseteq Existing(x) /\ A \subseteq Assignable(type) /\ (Partial \in A => keys # {})
  <2>1. \A p \in Perms : Partial \notin Implied(p)
    BY ImpliedFacts
  <2>2. Completed(list, type) \subseteq Assignable(type) /\ (Partial \in Completed(list, type) => Partial \in list)
    BY <1>3, <2>1, AssignableFacts DEF Completed
  <2>3. Changed(x, list, keys) \subseteq list
    BY DEF Changed
  <2>4. QED
    BY <1>3, <2>2, <2>3 DEF Removals, Additions
<1> HIDE DEF R, A
<1>5. Assignable(type) \subseteq Perms
  BY AssignableFacts
<1>6. /\ R \in SUBSET Perms /\ IsFiniteSet(R)
      /\ A \in SUBSET Perms /\ IsFiniteSet(A)
  BY <1>2, <1>4, <1>5, PermsAreFinite
<1>7. ASSUME NEW p \in R, NEW y \in Less PROVE Revoking(y, p, type, isDeployed) \in Less
  <2>1. p \in Assignable(type) /\ RowIsRight(y, u, type, isDeployed)
    BY <1>2, <1>4
  <2>2. p \in Contradictory(Partial) => Partial \notin y.granted
    <3>1. p \in Contradictory(Partial) => p \in x.granted
      BY <1>1, <1>4, ContradictoryFacts DEF Existing, Closed, Heritable
    <3>2. QED
      BY <1>1, <3>1 DEF Alone
  <2>3. QED
    BY <2>1, <2>2, RevokingIsRight DEF RowIsRight, Sound
<1>8. ASSUME NEW p \in A, NEW y \in More PROVE Assigning(y, u, p, keys, type, isDeployed) \in More
  <2>1. p \in Assignable(type) /\ RowIsRight(y, u, type, isDeployed) /\ (p = Partial => keys # {})
    BY <1>4
  <2>2. QED
    BY <2>1, AssigningIsRight DEF RowIsRight, Sound
<1>9. x \in Less
  BY <1>1
<1> DEFINE mid == Revoked(x, R, type, isDeployed)
<1>10. mid \in Less
  <2> HIDE DEF Less
  <2>1. QED
    BY <1>6, <1>7, <1>9, RevokingAll
<1> HIDE DEF mid
<1>11. mid \in More
  BY <1>10
<1>12. Assigned(mid, A, u, keys, type, isDeployed) \in More
  <2> HIDE DEF More
  <2>1. QED
    BY <1>6, <1>8, <1>11, AssigningAll
<1>13. Replacing(x, u, list, keys, type, isDeployed) \in More
  BY <1>12 DEF Replacing, Assigned, Revoked, R, A, mid
<1>14. QED
  BY <1>13

----------------------------------------------------------------------------
(* The rows of an asset *)

OwnerIsRight(x, type) ==
    x \in Access /\ x.granted = {} /\ x.denied = {} /\ x.inherited = Assignable(type) \ {Partial}

RowsAreRight(a, row, isDeployed) ==
    /\ row \in AllAccess
    /\ \A u \in Everyone : IF u = Owner[a] THEN OwnerIsRight(row[u], Type[a])
                           ELSE RowIsRight(row[u], u, Type[a], isDeployed)

\* Nobody changes what they may not view.
Views(effective) == \A u \in Everyone : "change_asset" \in effective[u] => "view_asset" \in effective[u]

PermissionsInv ==
    /\ access \in [Assets -> AllAccess]
    /\ parent \in Parents /\ Acyclic(parent)
    /\ deployed \subseteq Surveys /\ lagging \subseteq Assets
    /\ \A a \in Assets : RowsAreRight(a, access[a], a \in deployed)

LEMMA OwnerFacts ==
    ASSUME NEW a \in Assets
    PROVE  Owner[a] \in Everyone /\ Owner[a] # Anonymous /\ "view_asset" \in Assignable(Type[a])
  BY PermissionsAssumption, AssignableFacts DEF Everyone

LEMMA RowsView ==
    ASSUME NEW a \in Assets, NEW row, NEW isDeployed, RowsAreRight(a, row, isDeployed)
    PROVE  Views(AllEffective(row))
<1> SUFFICES ASSUME NEW u \in Everyone, "change_asset" \in Effective(row[u], u)
             PROVE  "view_asset" \in Effective(row[u], u)
  BY DEF Views, AllEffective
<1>1. CASE u = Owner[a]
  <2>1. row[u].granted = {} /\ row[u].denied = {} /\ row[u].inherited = Assignable(Type[a]) \ {Partial}
    BY <1>1 DEF RowsAreRight, OwnerIsRight
  <2>2. "view_asset" \in row[u].inherited
    BY <2>1, OwnerFacts DEF Partial
  <2>3. QED
    BY <1>1, <2>1, <2>2, OwnerFacts DEF Effective
<1>2. CASE u # Owner[a]
  <2>1. Sound(row[u], Type[a])
    BY <1>2 DEF RowsAreRight, RowIsRight
  <2>2. "view_asset" \in Implied("change_asset") \cap Assignable(Type[a])
    BY OwnerFacts DEF Implied
  <2>3. QED
    BY <2>1, <2>2, SoundRowsAreRight
<1>3. QED
  BY <1>1, <1>2

LEMMA NobodyViews == Views(Nobody)
  BY DEF Views, Nobody

\* Inheriting makes the owner's row what it should be, and keeps those of the others.
LEMMA InheritingIsRight ==
    ASSUME NEW a \in Assets, NEW isDeployed, NEW row \in AllAccess,
           row[Owner[a]].granted = {}, row[Owner[a]].denied = {},
           \A u \in Everyone \ {Owner[a]} : RowIsRight(row[u], u, Type[a], isDeployed),
           NEW effective, Views(effective)
    PROVE  RowsAreRight(a, Inheriting(a, row, effective), isDeployed)
<1> DEFINE new == Inheriting(a, row, effective)
<1>1. /\ new \in AllAccess
      /\ \A u \in Everyone :
           new[u] = [row[u] EXCEPT !.inherited =
                       IF u = Owner[a] THEN Assignable(Type[a]) \ {Partial}
                       ELSE effective[u] \cap Heritable]
  BY InheritingFacts
<1>2. \A u \in Everyone : row[u] \in Access /\ new[u] \in Access
  BY <1>1 DEF AllAccess
<1> HIDE DEF new
<1>3. OwnerIsRight(new[Owner[a]], Type[a])
  BY <1>1, <1>2, OwnerFacts DEF OwnerIsRight, Access
<1>4. ASSUME NEW u \in Everyone, u # Owner[a] PROVE RowIsRight(new[u], u, Type[a], isDeployed)
  <2>1. Sound(row[u], Type[a]) /\ (isDeployed => Mirrored(u, row[u].granted) \subseteq row[u].kc)
    BY <1>4 DEF RowIsRight
  <2>2. new[u] = [row[u] EXCEPT !.inherited = effective[u] \cap Heritable]
    BY <1>1, <1>4
  <2>3. Sound(new[u], Type[a])
    BY <2>1, <2>2, InheritingKeepsSound DEF Views
  <2>4. new[u].granted = row[u].granted /\ new[u].kc = row[u].kc
    BY <1>2, <2>2 DEF Access
  <2>5. QED
    BY <2>1, <2>3, <2>4 DEF RowIsRight
<1>5. QED
  BY <1>1, <1>3, <1>4 DEF RowsAreRight, new

LEMMA RowsInherit ==
    ASSUME NEW a \in Assets, NEW isDeployed, NEW row, RowsAreRight(a, row, isDeployed),
           NEW effective, Views(effective)
    PROVE  RowsAreRight(a, Inheriting(a, row, effective), isDeployed)
<1>1. /\ row \in AllAccess /\ row[Owner[a]].granted = {} /\ row[Owner[a]].denied = {}
      /\ \A u \in Everyone \ {Owner[a]} : RowIsRight(row[u], u, Type[a], isDeployed)
  BY OwnerFacts DEF RowsAreRight, OwnerIsRight
<1>2. QED
  BY <1>1, InheritingIsRight

LEMMA DescendedIsRight ==
    ASSUME NEW par \in Parents, Acyclic(par), NEW rows \in [Assets -> AllAccess], NEW dep,
           \A d \in Assets : RowsAreRight(d, rows[d], d \in dep),
           NEW a \in Assets, NEW effective, Views(effective)
    PROVE  LET new == Descended(rows, par, a, effective)
           IN  /\ new \in [Assets -> AllAccess]
               /\ \A d \in Assets : RowsAreRight(d, new[d], d \in dep)
<1> DEFINE new == Descended(rows, par, a, effective)
           Good == {d \in Assets : RowsAreRight(d, new[d], d \in dep)}
<1>1. /\ new \in [Assets -> AllAccess]
      /\ \A d \in Assets :
           new[d] = IF a \notin Above(par)[d] THEN rows[d]
                    ELSE Inheriting(d, rows[d],
                           IF par[d] = a THEN effective ELSE AllEffective(new[par[d]]))
  BY DescendedIs
<1> HIDE DEF new
<1>2. ASSUME NEW d \in Assets, d \in Outermost(par) \/ par[d] \in Good PROVE d \in Good
  <2>1. CASE a \notin Above(par)[d]
    BY <1>1, <2>1
  <2>2. CASE a \in Above(par)[d]
    <3>1. par[d] \in Good
      BY <1>2, <2>2, AboveFacts DEF Outermost
    <3>2. Views(AllEffective(new[par[d]]))
      BY <3>1, RowsView
    <3>3. Views(IF par[d] = a THEN effective ELSE AllEffective(new[par[d]]))
      BY <3>2
    <3>4. RowsAreRight(d, rows[d], d \in dep)
      OBVIOUS
    <3>5. PICK e : e = IF par[d] = a THEN effective ELSE AllEffective(new[par[d]])
      OBVIOUS
    <3>6. RowsAreRight(d, Inheriting(d, rows[d], e), d \in dep)
      BY <3>3, <3>4, <3>5, RowsInherit
    <3>7. QED
      BY <1>1, <2>2, <3>5, <3>6
  <2>3. QED
    BY <2>1, <2>2
<1>3. Assets \subseteq Good
  <2> HIDE DEF Good
  <2>1. Arrives(Assets, Outermost(par), par)
    BY ParentsArrive
  <2>2. QED
    BY <1>2, <2>1, InductionAlong
<1>4. QED
  BY <1>1, <1>3 DEF new

----------------------------------------------------------------------------
(* The requests keep the rows right *)

LEMMA InvFacts ==
    ASSUME PermissionsInv, NEW a \in Assets
    PROVE  /\ access[a] \in AllAccess /\ RowsAreRight(a, access[a], a \in deployed)
           /\ \A u \in Everyone : access[a][u] \in Access
           /\ \A u \in Everyone \ {Owner[a]} : RowIsRight(access[a][u], u, Type[a], a \in deployed)
           /\ parent \in Parents /\ Acyclic(parent)
  BY DEF PermissionsInv, RowsAreRight, AllAccess

\* The rows of one user are replaced.
LEMMA OneUser ==
    ASSUME PermissionsInv, NEW a \in Assets, NEW u \in Everyone, u # Owner[a],
           NEW x, RowIsRight(x, u, Type[a], a \in deployed)
    PROVE  LET rows == [access EXCEPT ![a][u] = x]
               row == [access[a] EXCEPT ![u] = x]
           IN  /\ rows = [access EXCEPT ![a] = row] /\ rows[a] = row
               /\ RowsAreRight(a, row, a \in deployed)
<1> DEFINE row == [access[a] EXCEPT ![u] = x]
<1>1. x \in Access
  BY DEF RowIsRight, Sound
<1>2. access \in [Assets -> AllAccess] /\ access[a] \in AllAccess /\ RowsAreRight(a, access[a], a \in deployed)
  BY DEF PermissionsInv
<1>3. row \in AllAccess /\ \A v \in Everyone : row[v] = IF v = u THEN x ELSE access[a][v]
  BY <1>1, <1>2 DEF AllAccess
<1>4. [access EXCEPT ![a][u] = x] = [access EXCEPT ![a] = row] /\ [access EXCEPT ![a] = row][a] = row
  BY <1>2
<1> HIDE DEF row
<1>5. RowsAreRight(a, row, a \in deployed)
  BY <1>2, <1>3 DEF RowsAreRight
<1>6. QED
  BY <1>4, <1>5 DEF row

LEMMA RowsReplaced ==
    ASSUME PermissionsInv, NEW a \in Assets, NEW row, RowsAreRight(a, row, a \in deployed)
    PROVE  LET rows == [access EXCEPT ![a] = row]
           IN  /\ rows \in [Assets -> AllAccess] /\ rows[a] = row
               /\ \A d \in Assets : RowsAreRight(d, rows[d], d \in deployed)
               /\ \A d \in Assets \ {a} : rows[d] = access[d]
<1>1. row \in AllAccess /\ access \in [Assets -> AllAccess]
  BY DEF RowsAreRight, PermissionsInv
<1>2. QED
  BY <1>1 DEF PermissionsInv

\* The rows of an asset are replaced, and passed on.
LEMMA PassingOnIsRight ==
    ASSUME PermissionsInv, NEW a \in Assets, NEW row, RowsAreRight(a, row, a \in deployed),
           NEW effective, Views(effective),
           \/ access' = Descended([access EXCEPT ![a] = row], parent, a, effective)
           \/ access' = [access EXCEPT ![a] = row],
           UNCHANGED <<parent, deployed>>, lagging' \subseteq Assets
    PROVE  PermissionsInv'
<1> DEFINE rows == [access EXCEPT ![a] = row]
<1>1. rows \in [Assets -> AllAccess] /\ \A d \in Assets : RowsAreRight(d, rows[d], d \in deployed)
  BY RowsReplaced
<1>2. access' = rows \/ access' = Descended(rows, parent, a, effective)
  OBVIOUS
<1> HIDE DEF rows
<1>3. access' \in [Assets -> AllAccess] /\ \A d \in Assets : RowsAreRight(d, access'[d], d \in deployed)
  BY <1>1, <1>2, DescendedIsRight DEF PermissionsInv
<1>4. QED
  BY <1>3 DEF PermissionsInv

LEMMA AssignToIsRight ==
    ASSUME PermissionsInv, NEW a \in Assets, NEW u \in Everyone, u # Owner[a],
           NEW p \in Assignable(Type[a]), NEW keys \in SUBSET SubmissionPerms, p = Partial => keys # {},
           AssignTo(a, u, p, keys)
    PROVE  PermissionsInv'
<1> DEFINE x == Assigning(access[a][u], u, p, keys, Type[a], a \in deployed)
           row == [access[a] EXCEPT ![u] = x]
<1>1. RowIsRight(x, u, Type[a], a \in deployed)
  BY InvFacts, AssigningIsRight
<1> HIDE DEF x
<1>2. [access EXCEPT ![a][u] = x] = [access EXCEPT ![a] = row] /\ [access EXCEPT ![a] = row][a] = row
      /\ RowsAreRight(a, row, a \in deployed)
  BY <1>1, OneUser
<1> HIDE DEF row
<1>3. /\ \/ access' = [access EXCEPT ![a] = row]
         \/ access' = Descended([access EXCEPT ![a] = row], parent, a, AllEffective(row))
      /\ lagging' \subseteq lagging /\ UNCHANGED <<parent, deployed>>
  BY <1>2 DEF AssignTo, x
<1>4. lagging' \subseteq Assets /\ Views(AllEffective(row))
  BY <1>2, <1>3, RowsView DEF PermissionsInv
<1>5. QED
  BY <1>2, <1>3, <1>4, PassingOnIsRight

LEMMA PassOnIsRight ==
    ASSUME PermissionsInv, NEW a \in Assets, NEW u \in Everyone, u # Owner[a],
           NEW x, RowIsRight(x, u, Type[a], a \in deployed), NEW fresh \in BOOLEAN, PassOn(a, u, x, fresh)
    PROVE  PermissionsInv'
<1> DEFINE row == [access[a] EXCEPT ![u] = x]
<1>1. [access EXCEPT ![a][u] = x] = [access EXCEPT ![a] = row] /\ [access EXCEPT ![a] = row][a] = row
      /\ RowsAreRight(a, row, a \in deployed)
  BY OneUser
<1> HIDE DEF row
<1> DEFINE effective == AllEffective(IF fresh THEN row ELSE access[a])
<1>2. /\ access' = Descended([access EXCEPT ![a] = row], parent, a, effective)
      /\ lagging' = (lagging \ Below(a)) \cup (IF fresh THEN {} ELSE Children(a))
      /\ UNCHANGED <<parent, deployed>>
  BY <1>1 DEF PassOn
<1>3. Views(effective)
  BY <1>1, InvFacts, RowsView
<1>4. lagging' \subseteq Assets
  BY <1>2 DEF PermissionsInv, Children
<1> HIDE DEF effective
<1>5. QED
  BY <1>1, <1>2, <1>3, <1>4, PassingOnIsRight

\* A request names a row that grants, and what contradicts the partial permission is
\* never inherited.
LEMMA NamedIsRevoked ==
    ASSUME NEW type, NEW x, NEW u, NEW isDeployed, RowIsRight(x, u, type, isDeployed),
           NEW p \in x.granted \cup x.inherited
    PROVE  LET y == Revoking(x, p, type, isDeployed)
           IN  RowIsRight(y, u, type, isDeployed) /\ y.inherited \subseteq x.inherited
<1>1. Closed(x, type) /\ Alone(x) /\ Heritable \subseteq Assignable(type)
  BY AssignableFacts DEF RowIsRight, Sound, Heritable
<1>2. p \in Contradictory(Partial) => p \in x.granted
  BY <1>1, ContradictoryFacts DEF Closed, Heritable
<1>3. p \in Assignable(type) /\ (p \in Contradictory(Partial) => Partial \notin x.granted)
  BY <1>1, <1>2 DEF Closed, Alone
<1>4. QED
  BY <1>3, RevokingIsRight

LEMMA RemovePermIsRight ==
    ASSUME PermissionsInv, NEW a \in Assets, NEW u \in Everyone, NEW p \in Perms,
           NEW cached \in BOOLEAN, RemovePerm(a, u, p, cached)
    PROVE  PermissionsInv'
<1> DEFINE x == access[a][u]
           fresh == ~cached \/ Blocking(x, p, Type[a]) # {}
           y == Revoking(x, p, Type[a], a \in deployed)
<1>1. u # Owner[a] /\ p \in x.granted \cup x.inherited /\ PassOn(a, u, y, fresh)
  BY DEF RemovePerm
<1>2. RowIsRight(x, u, Type[a], a \in deployed)
  BY <1>1, InvFacts
<1> HIDE DEF x
<1>3. RowIsRight(y, u, Type[a], a \in deployed)
  BY <1>1, <1>2, NamedIsRevoked
<1>4. fresh \in BOOLEAN
  OBVIOUS
<1> HIDE DEF fresh, y
<1>5. QED
  BY <1>1, <1>3, <1>4, PassOnIsRight

LEMMA BulkAssignIsRight ==
    ASSUME PermissionsInv, NEW a \in Assets, NEW u \in Everyone, NEW list,
           NEW keys \in SUBSET SubmissionPerms, NEW cached \in BOOLEAN, BulkAssign(a, u, list, keys, cached)
    PROVE  PermissionsInv'
<1> DEFINE y == Replacing(access[a][u], u, list, keys, Type[a], a \in deployed)
<1>1. PICK fresh \in BOOLEAN : u # Owner[a] /\ Acceptable(u, list, keys, Type[a]) /\ PassOn(a, u, y, fresh)
  BY DEF BulkAssign
<1>2. RowIsRight(y, u, Type[a], a \in deployed)
  BY <1>1, InvFacts, ReplacingIsRight
<1> HIDE DEF y
<1>3. QED
  BY <1>1, <1>2, PassOnIsRight

\* The rows of one user after a copy: what is left of the old ones, and the grants
\* and denials of the source.
Cleared(a, u) ==
    [NoAccess EXCEPT
       !.filters = access[a][u].filters,
       !.kc = IF a \in deployed
              THEN access[a][u].kc \ (access[a][u].granted \cup access[a][u].inherited)
              ELSE access[a][u].kc]

CopiedRow(a, u, source, grantsFirst) ==
    LET grants == access[source][u].granted \cup access[source][u].inherited
        denials == access[source][u].denied
        keys == access[source][u].filters
    IN  IF grantsFirst
        THEN Denied(Assigned(Cleared(a, u), grants, u, keys, Type[a], a \in deployed),
                    denials, u, keys, Type[a], a \in deployed)
        ELSE Assigned(Denied(Cleared(a, u), denials, u, keys, Type[a], a \in deployed),
                      grants, u, keys, Type[a], a \in deployed)

LEMMA ClearedIsRight ==
    ASSUME PermissionsInv, NEW a \in Assets, NEW u \in Everyone
    PROVE  RowIsRight(Cleared(a, u), u, Type[a], a \in deployed)
<1> DEFINE kc == IF a \in deployed
                 THEN access[a][u].kc \ (access[a][u].granted \cup access[a][u].inherited)
                 ELSE access[a][u].kc
           filters == access[a][u].filters
<1>1. filters \in SUBSET SubmissionPerms /\ kc \in SUBSET KcMapped
  <2>1. access[a][u] \in Access
    BY InvFacts
  <2>2. QED
    BY <2>1 DEF Access
<1>2. Cleared(a, u) = [NoAccess EXCEPT !.filters = filters, !.kc = kc]
  BY DEF Cleared
<1> HIDE DEF filters, kc
<1>3. Sound(Cleared(a, u), Type[a])
  <2>1. Sound([NoAccess EXCEPT !.filters = filters, !.kc = kc], Type[a])
    BY <1>1, NoAccessIsSound
  <2>2. QED
    BY <1>2, <2>1
<1>4. Cleared(a, u).granted = {}
  BY <1>2 DEF NoAccess
<1>5. QED
  BY <1>3, <1>4 DEF RowIsRight, Mirrored

LEMMA CopiedRowIsRight ==
    ASSUME PermissionsInv, NEW a \in Assets, NEW source \in Assets, NEW u \in Everyone,
           NEW grantsFirst \in BOOLEAN,
           access[source][u].granted \cup access[source][u].inherited \cup access[source][u].denied
             \subseteq Assignable(Type[a]),
           Partial \in access[source][u].granted \cup access[source][u].inherited \cup access[source][u].denied
             => access[source][u].filters # {}
    PROVE  RowIsRight(CopiedRow(a, u, source, grantsFirst), u, Type[a], a \in deployed)
<1> DEFINE grants == access[source][u].granted \cup access[source][u].inherited
           denials == access[source][u].denied
           keys == access[source][u].filters
           type == Type[a]
           dep == a \in deployed
           V == {y \in Access : RowIsRight(y, u, type, dep)}
<1>1. /\ grants \subseteq Assignable(type) /\ denials \subseteq Assignable(type)
      /\ Partial \in grants \cup denials => keys # {}
  OBVIOUS
<1>2. keys \in SUBSET SubmissionPerms
  <2>1. access[source][u] \in Access
    BY InvFacts
  <2>2. QED
    BY <2>1 DEF Access
<1>3. CopiedRow(a, u, source, grantsFirst) =
        IF grantsFirst THEN Denied(Assigned(Cleared(a, u), grants, u, keys, type, dep), denials, u, keys, type, dep)
        ELSE Assigned(Denied(Cleared(a, u), denials, u, keys, type, dep), grants, u, keys, type, dep)
  BY DEF CopiedRow
<1>4. Cleared(a, u) \in V
  BY ClearedIsRight DEF RowIsRight, Sound
<1> HIDE DEF grants, denials, keys, type, dep
<1>5. /\ grants \in SUBSET Perms /\ IsFiniteSet(grants)
      /\ denials \in SUBSET Perms /\ IsFiniteSet(denials)
  BY <1>1, AssignableFacts, PermsAreFinite
<1>6. ASSUME NEW p \in grants, NEW y \in V PROVE Assigning(y, u, p, keys, type, dep) \in V
  BY <1>1, <1>2, AssigningIsRight DEF RowIsRight, Sound
<1>7. ASSUME NEW p \in denials, NEW y \in V PROVE DenyingWith(y, u, p, keys, type, dep) \in V
  BY <1>1, <1>2, DenyingIsRight DEF RowIsRight, Sound
<1> HIDE DEF V
<1>8. \A y \in V : Assigned(y, grants, u, keys, type, dep) \in V
  BY <1>5, <1>6, AssigningAll
<1>9. \A y \in V : Denied(y, denials, u, keys, type, dep) \in V
  BY <1>5, <1>7, DenyingAll
<1>10. CopiedRow(a, u, source, grantsFirst) \in V
  BY <1>3, <1>4, <1>8, <1>9
<1>11. QED
  BY <1>10 DEF V, type, dep

CopiedRows(a, source, grantsFirst) ==
    [u \in Everyone |-> IF u = Owner[a] THEN access[a][u] ELSE CopiedRow(a, u, source, grantsFirst)]

\* The collection's, from which asset a inherits.
FromParent(a) == IF parent[a] = None THEN Nobody ELSE AllEffective(access[parent[a]])

CopyEnds(a, copied) ==
    LET rows == [access EXCEPT ![a] = copied]
        passed == Descended(rows, parent, a, AllEffective(copied))
        top == Inheriting(a, copied, FromParent(a))
    IN  /\ parent' = parent /\ deployed' = deployed
        /\ \/ /\ access' = [passed EXCEPT ![a] = top]
              /\ lagging' = (lagging \ ({a} \cup Below(a))) \cup Children(a)
           \/ /\ access' = [rows EXCEPT ![a] = top]
              /\ lagging' = (lagging \ {a}) \cup Children(a)

LEMMA CopyIs ==
    ASSUME NEW a \in Assets, NEW source \in Assets, NEW grantsFirst \in BOOLEAN,
           CopyPermissions(a, source, grantsFirst)
    PROVE  LET copied == CopiedRows(a, source, grantsFirst)
           IN  /\ \A u \in Everyone \ {Owner[a]} :
                    LET x == access[source][u]
                    IN  /\ x.granted \cup x.inherited \cup x.denied \subseteq Assignable(Type[a])
                        /\ Partial \in x.granted \cup x.inherited \cup x.denied => x.filters # {}
               /\ CopyEnds(a, copied)
  BY DEF CopyPermissions, CopyEnds, CopiedRows, CopiedRow, Cleared, Assigned, Denied, FromParent

LEMMA FromParentViews ==
    ASSUME PermissionsInv, NEW a \in Assets
    PROVE  Views(FromParent(a))
<1>1. parent[a] # None => parent[a] \in Assets
  BY ParentsFacts DEF PermissionsInv
<1>2. QED
  BY <1>1, InvFacts, RowsView, NobodyViews DEF FromParent

LEMMA CopiedRowsAreRight ==
    ASSUME PermissionsInv, NEW a \in Assets, NEW source \in Assets, NEW grantsFirst \in BOOLEAN,
           CopyPermissions(a, source, grantsFirst)
    PROVE  RowsAreRight(a, CopiedRows(a, source, grantsFirst), a \in deployed)
<1> DEFINE copied == CopiedRows(a, source, grantsFirst)
<1>1. \A u \in Everyone : copied[u] = IF u = Owner[a] THEN access[a][u] ELSE CopiedRow(a, u, source, grantsFirst)
  BY DEF CopiedRows
<1>2. \A u \in Everyone \ {Owner[a]} : RowIsRight(CopiedRow(a, u, source, grantsFirst), u, Type[a], a \in deployed)
  BY CopyIs, CopiedRowIsRight
<1>3. copied \in AllAccess
  <2>1. \A u \in Everyone : copied[u] \in Access
    BY <1>1, <1>2, InvFacts DEF RowIsRight, Sound
  <2>2. QED
    BY <2>1 DEF AllAccess, CopiedRows
<1> HIDE DEF copied
<1>4. \A u \in Everyone : IF u = Owner[a] THEN OwnerIsRight(copied[u], Type[a])
                          ELSE RowIsRight(copied[u], u, Type[a], a \in deployed)
  BY <1>1, <1>2, InvFacts DEF RowsAreRight
<1>5. QED
  BY <1>3, <1>4 DEF RowsAreRight, copied

LEMMA CopyPermissionsIsRight ==
    ASSUME PermissionsInv, NEW a \in Assets, NEW source \in Assets, NEW grantsFirst \in BOOLEAN,
           CopyPermissions(a, source, grantsFirst)
    PROVE  PermissionsInv'
<1> DEFINE copied == CopiedRows(a, source, grantsFirst)
           rows == [access EXCEPT ![a] = copied]
           passed == Descended(rows, parent, a, AllEffective(copied))
           top == Inheriting(a, copied, FromParent(a))
<1>1. RowsAreRight(a, copied, a \in deployed) /\ RowsAreRight(a, top, a \in deployed)
  BY CopiedRowsAreRight, FromParentViews, RowsInherit
<1>2. /\ parent' = parent /\ deployed' = deployed
      /\ \/ access' = [passed EXCEPT ![a] = top] /\ lagging' = (lagging \ ({a} \cup Below(a))) \cup Children(a)
         \/ access' = [rows EXCEPT ![a] = top] /\ lagging' = (lagging \ {a}) \cup Children(a)
  <2>1. CopyEnds(a, copied)
    BY CopyIs
  <2>2. QED
    BY <2>1 DEF CopyEnds
<1> HIDE DEF copied
<1>3. rows \in [Assets -> AllAccess] /\ \A d \in Assets : RowsAreRight(d, rows[d], d \in deployed)
  BY <1>1, RowsReplaced
<1>4. Views(AllEffective(copied))
  BY <1>1, RowsView
<1> HIDE DEF rows
<1>5. passed \in [Assets -> AllAccess] /\ \A d \in Assets : RowsAreRight(d, passed[d], d \in deployed)
  BY <1>3, <1>4, DescendedIsRight DEF PermissionsInv
<1> HIDE DEF passed, top
<1>6. top \in AllAccess
  BY <1>1 DEF RowsAreRight
<1>7. access' \in [Assets -> AllAccess] /\ \A d \in Assets : RowsAreRight(d, access'[d], d \in deployed)
  BY <1>1, <1>2, <1>3, <1>5, <1>6
<1>8. lagging' \subseteq Assets
  BY <1>2 DEF PermissionsInv, Children
<1>9. QED
  BY <1>2, <1>7, <1>8 DEF PermissionsInv

\* An asset that is moved stays outside the collections that it holds.
LEMMA MovedIsAcyclic ==
    ASSUME PermissionsInv, NEW a \in Assets, NEW to \in Collections \cup {None},
           to # a, to \notin Below(a)
    PROVE  LET par == [parent EXCEPT ![a] = to] IN par \in Parents /\ Acyclic(par)
<1> DEFINE par == [parent EXCEPT ![a] = to]
<1>1. parent \in Parents /\ Acyclic(parent)
  BY DEF PermissionsInv
<1>2. par \in Parents /\ \A d \in Assets : par[d] = IF d = a THEN to ELSE parent[d]
  BY <1>1 DEF Parents
<1> HIDE DEF par
<1>3. ASSUME NEW S \in SUBSET Assets, S # {}, \A d \in S : par[d] \in S PROVE FALSE
  <2>1. a \in S
    <3> SUFFICES ASSUME a \notin S PROVE FALSE
      OBVIOUS
    <3>1. \A d \in S : parent[d] \in S
      BY <1>2, <1>3
    <3>2. QED
      BY <1>1, <1>3, <3>1 DEF Acyclic
  <2>2. to \in S /\ to \in Assets
    BY <1>2, <1>3, <2>1
  <2> DEFINE T == S \ ({a} \cup Below(a))
  <2>3. to \in T /\ T \in SUBSET Assets
    BY <2>2
  <2>4. PICK d \in T : parent[d] \notin T
    BY <1>1, <2>3 DEF Acyclic
  <2>5. d \in Assets /\ d # a /\ d \notin Below(a) /\ parent[d] \in S
    BY <1>2, <1>3, <2>4
  <2>6. parent[d] = a \/ parent[d] \in Below(a)
    BY <2>4, <2>5
  <2>7. parent[d] # None /\ parent[d] \in Assets /\ parent[d] \in Collections
        /\ Above(parent)[d] = {parent[d]} \cup Above(parent)[parent[d]]
    BY <1>1, <2>5, <2>6, ParentsFacts, AboveFacts, PermissionsAssumption
  <2>8. a \in Collections /\ a \in Above(parent)[d]
    BY <1>1, <2>6, <2>7 DEF Below
  <2>9. QED
    BY <2>5, <2>8 DEF Below
<1>4. QED
  BY <1>2, <1>3 DEF Acyclic, par

LEMMA SavedIsRight ==
    ASSUME PermissionsInv, NEW a \in Assets, NEW to \in Collections \cup {None}, NEW rows \in [Assets -> AllAccess],
           \A d \in Assets : RowsAreRight(d, rows[d], d \in deployed'),
           deployed' \subseteq Surveys, Saved(rows, a, to)
    PROVE  PermissionsInv'
<1> DEFINE par == [parent EXCEPT ![a] = to]
           above == IF to = None THEN Nobody ELSE AllEffective(rows[to])
           row == Inheriting(a, rows[a], above)
           all == [rows EXCEPT ![a] = row]
<1>1. /\ to # a /\ to \notin Below(a) /\ parent' = par /\ lagging' \subseteq lagging
      /\ access' = Descended(all, par, a, AllEffective(row))
  BY DEF Saved
<1>2. par \in Parents /\ Acyclic(par)
  BY <1>1, MovedIsAcyclic
<1>3. Views(above)
  <2>1. to = None \/ to \in Assets
    BY DEF Collections
  <2>2. QED
    BY <2>1, RowsView, NobodyViews
<1> HIDE DEF above, par
<1>4. RowsAreRight(a, row, a \in deployed')
  BY <1>3, RowsInherit
<1> HIDE DEF row
<1>5. row \in AllAccess /\ Views(AllEffective(row))
  BY <1>4, RowsView DEF RowsAreRight
<1>6. all \in [Assets -> AllAccess] /\ \A d \in Assets : RowsAreRight(d, all[d], d \in deployed')
  BY <1>4, <1>5
<1> HIDE DEF all
<1>7. access' \in [Assets -> AllAccess] /\ \A d \in Assets : RowsAreRight(d, access'[d], d \in deployed')
  BY <1>1, <1>2, <1>5, <1>6, DescendedIsRight
<1>8. QED
  BY <1>1, <1>2, <1>7 DEF PermissionsInv

LEMMA SaveAssetIsRight ==
    ASSUME PermissionsInv, NEW a \in Assets, NEW to, SaveAsset(a, to)
    PROVE  PermissionsInv'
<1>1. to \in Collections \cup {None}
  BY PermissionsAssumption DEF SaveAsset
<1>2. Saved(access, a, to) /\ deployed' = deployed
  BY DEF SaveAsset
<1>3. QED
  BY <1>1, <1>2, SavedIsRight DEF PermissionsInv

\* What everyone may do is copied to the new XForm.
Mapped(a) ==
    [u \in Everyone |->
       IF u = Owner[a] THEN access[a][u]
       ELSE [access[a][u] EXCEPT !.kc = @ \cup Mirrored(u, Effective(access[a][u], u))]]

LEMMA MappedIsRight ==
    ASSUME PermissionsInv, NEW a \in Assets
    PROVE  RowsAreRight(a, Mapped(a), TRUE)
<1>1. ASSUME NEW u \in Everyone, u # Owner[a]
      PROVE  Mapped(a)[u] \in Access /\ RowIsRight(Mapped(a)[u], u, Type[a], TRUE)
  <2> DEFINE x == access[a][u]
             effective == Effective(x, u)
             y == Mapped(a)[u]
  <2>1. x \in Access /\ Sound(x, Type[a])
    BY <1>1, InvFacts DEF RowIsRight
  <2>2. y = [x EXCEPT !.kc = @ \cup Mirrored(u, effective)]
    BY <1>1 DEF Mapped
  <2>3. Mirrored(u, effective) \subseteq KcMapped
    BY DEF Mirrored, KcFlags, KcMapped, SubmissionPerms
  <2>4. Mirrored(u, x.granted) \subseteq Mirrored(u, effective)
    <3>1. x.granted \cap x.denied = {} /\ KcFlags \subseteq AllowedAnonymous
      BY <2>1 DEF Sound, Closed, KcFlags, AllowedAnonymous
    <3>2. QED
      BY <3>1 DEF Mirrored, Effective
  <2> HIDE DEF x, effective, y
  <2>5. y \in Access /\ y.granted = x.granted /\ y.denied = x.denied /\ y.inherited = x.inherited
        /\ y.filters = x.filters /\ y.kc = x.kc \cup Mirrored(u, effective)
    BY <2>1, <2>2, <2>3 DEF Access
  <2>6. Sound(y, Type[a])
    BY <2>1, <2>5 DEF Sound, Closed, Alone, HasFilters
  <2>7. QED
    BY <2>4, <2>5, <2>6 DEF RowIsRight, y
<1>2. Mapped(a)[Owner[a]] = access[a][Owner[a]]
  BY OwnerFacts DEF Mapped
<1>3. OwnerIsRight(Mapped(a)[Owner[a]], Type[a])
  BY <1>2, InvFacts, OwnerFacts DEF RowsAreRight
<1>4. Mapped(a) \in AllAccess
  <2>1. \A u \in Everyone : Mapped(a)[u] \in Access
    BY <1>1, <1>3 DEF OwnerIsRight
  <2>2. QED
    BY <2>1 DEF Mapped, AllAccess
<1>5. QED
  BY <1>1, <1>3, <1>4 DEF RowsAreRight

LEMMA DeployIsRight ==
    ASSUME PermissionsInv, NEW a \in Assets, Deploy(a)
    PROVE  PermissionsInv'
<1> DEFINE rows == [access EXCEPT ![a] = Mapped(a)]
<1>1. a \in Surveys \ deployed /\ deployed' = deployed \cup {a} /\ Saved(rows, a, parent[a])
  BY DEF Deploy, Mapped
<1>2. Mapped(a) \in AllAccess /\ RowsAreRight(a, Mapped(a), TRUE)
  BY MappedIsRight DEF RowsAreRight
<1>3. access \in [Assets -> AllAccess] /\ parent[a] \in Collections \cup {None} /\ deployed \subseteq Surveys
  BY DEF PermissionsInv, Parents
<1>4. rows \in [Assets -> AllAccess]
  BY <1>2, <1>3
<1>5. ASSUME NEW d \in Assets PROVE RowsAreRight(d, rows[d], d \in deployed')
  <2>1. CASE d = a
    <3>1. rows[d] = Mapped(a) /\ (d \in deployed') = TRUE
      BY <1>1, <1>3, <2>1
    <3>2. QED
      BY <1>2, <2>1, <3>1
  <2>2. CASE d # a
    <3>1. rows[d] = access[d] /\ (d \in deployed') = (d \in deployed)
      BY <1>1, <1>3, <2>2
    <3>2. QED
      BY <3>1, InvFacts
  <2>3. QED
    BY <2>1, <2>2
<1> HIDE DEF rows
<1>6. QED
  BY <1>1, <1>3, <1>4, <1>5, SavedIsRight

LEMMA InitPermissions == Init => PermissionsInv
<1> SUFFICES ASSUME Init PROVE PermissionsInv
  OBVIOUS
<1> DEFINE none == [u \in Everyone |-> NoAccess]
<1>1. /\ NoAccess \in Access /\ NoAccess.granted = {} /\ NoAccess.denied = {}
      /\ NoAccess.filters = {} /\ NoAccess.kc = {}
  BY DEF NoAccess, Access
<1>2. \A type : Sound(NoAccess, type)
  <2> TAKE type
  <2>1. \A p : p \notin NoAccess.granted /\ p \notin NoAccess.denied /\ p \notin NoAccess.inherited
    BY DEF NoAccess
  <2>2. NoAccess \in Access
    BY <1>1
  <2>3. Closed(NoAccess, type)
    BY <2>1, <1>1 DEF Closed
  <2>4. Alone(NoAccess) /\ HasFilters(NoAccess)
    BY <2>1 DEF Alone, HasFilters
  <2>5. QED
    BY <2>2, <2>3, <2>4 DEF Sound
<1>3. none \in AllAccess /\ \A u \in Everyone : none[u] = NoAccess
  BY <1>1 DEF AllAccess
<1> HIDE DEF none
<1>4. ASSUME NEW a \in Assets PROVE RowsAreRight(a, access[a], FALSE)
  <2>1. access[a] = Inheriting(a, none, Nobody)
    BY DEF Init, none
  <2>2. none[Owner[a]].granted = {} /\ none[Owner[a]].denied = {}
    BY <1>1, <1>3, OwnerFacts
  <2>3. \A u \in Everyone \ {Owner[a]} : RowIsRight(none[u], u, Type[a], FALSE)
    BY <1>2, <1>3 DEF RowIsRight
  <2>4. QED
    BY <1>3, <2>1, <2>2, <2>3, InheritingIsRight, NobodyViews
<1>5. access \in [Assets -> AllAccess]
  <2>1. \A a \in Assets : access[a] \in AllAccess
    BY <1>4 DEF RowsAreRight
  <2>2. QED
    BY <2>1 DEF Init
<1>6. deployed = {} /\ lagging = {} /\ parent \in Parents /\ \A a \in Assets : parent[a] = None
  BY DEF Init, Parents
<1>7. Acyclic(parent)
  BY <1>6, PermissionsAssumption DEF Acyclic
<1>8. \A a \in Assets : (a \in deployed) = FALSE
  BY <1>6
<1>9. QED
  BY <1>4, <1>5, <1>6, <1>7, <1>8 DEF PermissionsInv

LEMMA NextPermissions == PermissionsInv /\ [Next]_vars => PermissionsInv'
<1> SUFFICES ASSUME PermissionsInv, [Next]_vars PROVE PermissionsInv'
  OBVIOUS
<1>1. ASSUME NEW a \in Assets, NEW u \in About[a], NEW p \in Perms, AssignPerm(a, u, p) PROVE PermissionsInv'
  <2>1. u \in Everyone /\ u # Owner[a] /\ p \in Assignable(Type[a]) /\ p # Partial /\ AssignTo(a, u, p, {})
    BY <1>1, PermissionsAssumption DEF AssignPerm
  <2>2. QED
    BY <2>1, AssignToIsRight
<1>2. ASSUME NEW a \in Assets, NEW u \in About[a], NEW keys \in Filtered, AssignPartial(a, u, keys)
      PROVE  PermissionsInv'
  <2>1. /\ u \in Everyone /\ u # Owner[a] /\ Partial \in Assignable(Type[a]) /\ AssignTo(a, u, Partial, keys)
        /\ keys \in SUBSET SubmissionPerms /\ keys # {}
    BY <1>2, PermissionsAssumption DEF AssignPartial
  <2>2. QED
    BY <2>1, AssignToIsRight
<1>3. ASSUME NEW a \in Assets, NEW u \in About[a], NEW p \in Perms, NEW cached \in BOOLEAN,
             RemovePerm(a, u, p, cached)
      PROVE  PermissionsInv'
  BY <1>3, RemovePermIsRight, PermissionsAssumption
<1>4. ASSUME NEW a \in Assets, NEW u \in About[a], NEW list \in Lists[a][u], NEW keys \in Filtered \cup {{}},
             NEW cached \in BOOLEAN, BulkAssign(a, u, list, keys, cached)
      PROVE  PermissionsInv'
  BY <1>4, BulkAssignIsRight, PermissionsAssumption
<1>5. ASSUME NEW a \in Assets, NEW source \in Assets, NEW grantsFirst \in BOOLEAN,
             CopyPermissions(a, source, grantsFirst)
      PROVE  PermissionsInv'
  BY <1>5, CopyPermissionsIsRight
<1>6. ASSUME NEW a \in Assets, NEW to \in Assets \cup {None}, SaveAsset(a, to) PROVE PermissionsInv'
  BY <1>6, SaveAssetIsRight
<1>7. ASSUME NEW a \in Assets, Deploy(a) PROVE PermissionsInv'
  BY <1>7, DeployIsRight
<1>8. CASE UNCHANGED vars
  BY <1>8 DEF PermissionsInv, vars
<1>9. QED
  BY <1>1, <1>2, <1>3, <1>4, <1>5, <1>6, <1>7, <1>8 DEF Next

\* Every request leaves the rows, the collections and the deployed projects of their
\* types (TypeOK).  In particular what a bulk request or a copy makes of a row, and
\* what is passed on to the descendants, is defined for collections of any depth.
THEOREM PermissionsTypeCorrect == Spec => []TypeOK
<1>1. PermissionsInv => TypeOK
  BY DEF PermissionsInv, TypeOK, AllAccess, Parents
<1>2. QED
  BY <1>1, InitPermissions, NextPermissions, PTL DEF Spec

\* The owner keeps every permission that can be assigned but the partial one
\* (OwnerHasAll), through moves into collections of others and copies from them:
\* _recalculate_inherited_perms() and the requests that leave the owner's rows alone.
THEOREM OwnersKeepAll == Spec => []OwnerHasAll
<1>1. PermissionsInv => OwnerHasAll
  <2> SUFFICES ASSUME PermissionsInv, NEW a \in Assets
               PROVE  Assignable(Type[a]) \ {Partial} \subseteq Effective(access[a][Owner[a]], Owner[a])
    BY DEF OwnerHasAll
  <2>1. OwnerIsRight(access[a][Owner[a]], Type[a])
    BY InvFacts, OwnerFacts DEF RowsAreRight
  <2>2. QED
    BY <2>1, OwnerFacts DEF OwnerIsRight, Effective
<1>2. QED
  BY <1>1, InitPermissions, NextPermissions, PTL DEF Spec

LEMMA RightRowsHold ==
    ASSUME PermissionsInv, NEW a \in Assets, NEW u \in Everyone
    PROVE  LET x == access[a][u]
               effective == Effective(x, u)
           IN  /\ \A p \in effective : Implied(p) \cap Assignable(Type[a]) \subseteq effective
               /\ \A p \in effective : Contradictory(p) \cap effective = {}
               /\ Partial \in effective /\ "manage_asset" \notin x.denied => x.filters # {}
               /\ x.granted \cap x.denied = {}
<1> DEFINE x == access[a][u]
           effective == Effective(x, u)
<1>1. CASE u # Owner[a]
  <2>1. Sound(access[a][u], Type[a])
    BY <1>1, InvFacts DEF RowIsRight
  <2>2. QED
    BY <2>1, SoundRowsAreRight
<1>2. CASE u = Owner[a]
  <2>1. OwnerIsRight(x, Type[a])
    BY <1>2, InvFacts DEF RowsAreRight
  <2>2. effective = Assignable(Type[a]) \ {Partial} /\ x.granted = {}
    BY <1>2, <2>1, OwnerFacts DEF OwnerIsRight, Effective
  <2> HIDE DEF x, effective
  <2>3. \A p \in effective : Implied(p) \cap Assignable(Type[a]) \subseteq effective
    BY <2>2, ImpliedFacts
  <2>4. \A p \in effective : Contradictory(p) \cap effective = {}
    BY <2>2, ContradictoryFacts
  <2>5. QED
    BY <2>2, <2>3, <2>4 DEF x, effective
<1>3. QED
  BY <1>1, <1>2

\* Nobody has a permission without all those that it implies (ImpliedHeld), whatever
\* sequence of assignments, removals, bulk requests, copies and moves came before.
THEOREM ImpliedAreHeld == Spec => []ImpliedHeld
<1>1. PermissionsInv => ImpliedHeld
  BY RightRowsHold DEF ImpliedHeld
<1>2. QED
  BY <1>1, InitPermissions, NextPermissions, PTL DEF Spec

\* Nothing is both granted and denied, and nobody has both a partial permission and
\* one that contradicts it (NoContradiction), inherited ones and the nested calls of
\* bulk requests included.
THEOREM NothingContradicts == Spec => []NoContradiction
<1>1. PermissionsInv => NoContradiction
  BY RightRowsHold DEF NoContradiction
<1>2. QED
  BY <1>1, InitPermissions, NextPermissions, PTL DEF Spec

\* Whoever has a partial permission, and is not denied managing the asset, has the
\* filters that say which submissions it is about (PartialHasFilters).
THEOREM PartialIsFiltered == Spec => []PartialHasFilters
<1>1. PermissionsInv => PartialHasFilters
  BY RightRowsHold DEF PartialHasFilters
<1>2. QED
  BY <1>1, InitPermissions, NextPermissions, PTL DEF Spec

\* What KPI grants on a deployed project KoBoCAT grants too (KcComplete): every direct
\* row is mirrored when it is written, and what is inherited is never about
\* submissions.
THEOREM KobocatIsComplete == Spec => []KcComplete
<1>1. PermissionsInv => KcComplete
  <2> SUFFICES ASSUME PermissionsInv, NEW a \in deployed, NEW u \in Everyone, u # Owner[a]
               PROVE  Mirrored(u, Effective(access[a][u], u)) \subseteq access[a][u].kc
    BY DEF KcComplete
  <2>1. a \in Assets
    BY DEF PermissionsInv, Surveys
  <2>2. Sound(access[a][u], Type[a]) /\ Mirrored(u, access[a][u].granted) \subseteq access[a][u].kc
    BY <2>1, InvFacts DEF RowIsRight
  <2>3. access[a][u].inherited \subseteq Heritable /\ Heritable \cap KcMapped = {} /\ Heritable \cap KcFlags = {}
    BY <2>2 DEF Sound, Closed, Heritable, KcMapped, KcFlags, SubmissionPerms
  <2>4. Mirrored(u, Effective(access[a][u], u)) \subseteq Mirrored(u, access[a][u].granted)
    BY <2>3 DEF Mirrored, Effective
  <2>5. QED
    BY <2>2, <2>4
<1>2. QED
  BY <1>1, InitPermissions, NextPermissions, PTL DEF Spec

----------------------------------------------------------------------------
(* What a bulk request gives *)

LEMMA RevokingFacts ==
    ASSUME NEW x \in Access, NEW type, NEW isDeployed, NEW p \in Assignable(type)
    PROVE  LET gone == WithImplying(p, type)
               y == Revoking(x, p, type, isDeployed)
           IN  /\ y \in Access
               /\ y.granted = x.granted \ gone /\ y.inherited = x.inherited \ gone
               /\ y.denied = x.denied \cup Blocking(x, p, type)
<1> DEFINE gone == WithImplying(p, type)
           blocking == Blocking(x, p, type)
           filters == IF \E q \in Blocked(x, p, type) : MeetsDenial(x, q, type) THEN {} ELSE x.filters
           kc == IF isDeployed THEN x.kc \ gone ELSE x.kc
           y == [x EXCEPT !.granted = @ \ gone, !.inherited = @ \ gone, !.denied = @ \cup blocking,
                          !.filters = filters, !.kc = kc]
           z == Revoking(x, p, type, isDeployed)
<1>1. blocking \subseteq Perms
  BY WithImplyingFacts, AssignableFacts, ImplyingFacts DEF Blocking, Blocked, Access, WithImplying
<1>2. filters \subseteq SubmissionPerms /\ kc \subseteq KcMapped
  BY DEF Access
<1>3. z = IF p = Partial THEN [y EXCEPT !.filters = {}] ELSE Unfiltered(y, p)
  BY DEF Revoking
<1> HIDE DEF gone, blocking, filters, kc, z
<1>4. /\ y \in Access /\ y.granted = x.granted \ gone /\ y.inherited = x.inherited \ gone
      /\ y.denied = x.denied \cup blocking
  BY <1>1, <1>2 DEF Access
<1> HIDE DEF y
<1>5. LET c == [y EXCEPT !.filters = {}]
      IN  c \in Access /\ c.granted = y.granted /\ c.inherited = y.inherited /\ c.denied = y.denied
  BY <1>4 DEF Access
<1>6. /\ z \in Access /\ z.granted = y.granted /\ z.inherited = y.inherited /\ z.denied = y.denied
  BY <1>3, <1>4, <1>5 DEF Unfiltered
<1>7. QED
  BY <1>4, <1>6 DEF z, gone, blocking

\* The right to add submissions apart, an assignment does to a row what the grant does.
LEMMA AssigningFacts ==
    ASSUME NEW x \in Access, NEW u, NEW type, NEW p \in Assignable(type), NEW isDeployed,
           NEW keys \in SUBSET SubmissionPerms
    PROVE  LET g == Granting(x, u, p, type, isDeployed)
               y == Assigning(x, u, p, keys, type, isDeployed)
           IN  /\ y \in Access /\ y.inherited = g.inherited
               /\ g.granted \subseteq y.granted /\ y.granted \subseteq g.granted \cup {"add_submissions"}
               /\ y.denied \subseteq g.denied
<1> DEFINE g == Granting(x, u, p, type, isDeployed)
           y == Assigning(x, u, p, keys, type, isDeployed)
           all == keys \cup ((UNION {Implied(k) : k \in keys}) \cap SubmissionPerms)
           z == [g EXCEPT !.filters = all]
           c == [g EXCEPT !.filters = {}]
           more == Granting(z, u, "add_submissions", "survey", isDeployed)
<1>1. g \in Access
  BY GrantingStaysInAccess
<1>2. y = IF p # Partial THEN IF p \in Contradictory(Partial) THEN c ELSE g
          ELSE IF "add_submissions" \in all THEN more ELSE z
  BY DEF Assigning, Filtering, Unfiltered
<1>3. all \subseteq SubmissionPerms
  OBVIOUS
<1> HIDE DEF g, y, all
<1>4. /\ z \in Access /\ z.granted = g.granted /\ z.inherited = g.inherited /\ z.denied = g.denied
      /\ c \in Access /\ c.granted = g.granted /\ c.inherited = g.inherited /\ c.denied = g.denied
  BY <1>1, <1>3 DEF Access
<1> HIDE DEF z, c
<1>5. /\ more \in Access /\ more.inherited = g.inherited
      /\ g.granted \subseteq more.granted /\ more.granted \subseteq g.granted \cup {"add_submissions"}
      /\ more.denied \subseteq g.denied
  <2> DEFINE new == IF "add_submissions" \in z.granted THEN {} ELSE With("add_submissions", "survey") \ z.granted
             contradicted == UNION {Contradictory(q) : q \in new}
  <2>1. "add_submissions" \in Assignable("survey") /\ With("add_submissions", "survey") = {"add_submissions"}
    BY DEF Assignable, Perms, SubmissionPerms, With, Implied, Partial
  <2>2. Contradictory("add_submissions") = {}
    BY DEF Contradictory, Partial
  <2>3. new \subseteq {"add_submissions"} /\ contradicted = {}
    BY <2>1, <2>2
  <2>4. /\ more.granted = (z.granted \ contradicted) \cup new
        /\ more.denied = z.denied \ (new \cup contradicted)
        /\ more.inherited = z.inherited \ contradicted
    BY <1>4, GrantingFacts
  <2>5. more \in Access
    BY <1>4, <2>1, GrantingStaysInAccess
  <2> HIDE DEF new, contradicted, more
  <2>6. QED
    BY <1>4, <2>3, <2>4, <2>5
<1> HIDE DEF more
<1>6. QED
  BY <1>1, <1>2, <1>4, <1>5 DEF g, y

\* A list with all that it implies.
LEMMA CompletedFacts ==
    ASSUME NEW type, NEW list \in SUBSET Assignable(type)
    PROVE  LET listed == Completed(list, type)
           IN  /\ listed \subseteq Assignable(type) /\ list \subseteq listed
               /\ \A p \in listed : With(p, type) \subseteq listed
               /\ \A p \in Assignable(type) \ listed : WithImplying(p, type) \cap listed = {}
               /\ Partial \in listed => Partial \in list
               /\ list \subseteq AllowedAnonymous => listed \subseteq AllowedAnonymous
<1> DEFINE listed == Completed(list, type)
<1>1. listed = list \cup ((UNION {Implied(p) : p \in list}) \cap Assignable(type))
  BY DEF Completed
<1> HIDE DEF listed
<1>2. \A p \in listed : Implied(p) \cap Assignable(type) \subseteq listed
  BY <1>1, ImpliedFacts
<1>3. ASSUME NEW p \in Assignable(type) \ listed PROVE WithImplying(p, type) \cap listed = {}
  BY <1>2, ImplyingFacts DEF WithImplying
<1>4. Partial \in listed => Partial \in list
  BY <1>1, ImpliedFacts
<1>5. \A p \in AllowedAnonymous : Implied(p) \subseteq AllowedAnonymous
  BY DEF AllowedAnonymous, Implied, Partial
<1>6. QED
  BY <1>1, <1>2, <1>3, <1>4, <1>5 DEF listed, With

\* The removals leave what is listed, that which changes apart, and nothing else, and
\* deny nothing that is listed.
LEMMA RemovalsLeave ==
    ASSUME NEW type, NEW x \in Access, x.inherited \subseteq Heritable, Existing(x) \subseteq Assignable(type),
           NEW list \in SUBSET Assignable(type), NEW keys, NEW isDeployed
    PROVE  LET listed == Completed(list, type)
               y == Revoked(x, Removals(x, list, keys, type), type, isDeployed)
           IN  /\ y \in Access /\ y.inherited \subseteq x.inherited
               /\ Existing(y) \subseteq listed \ Changed(x, list, keys)
               /\ (Existing(x) \cap listed) \ Changed(x, list, keys) \subseteq Existing(y)
               /\ y.denied \cap listed \subseteq x.denied
<1> DEFINE listed == Completed(list, type)
           changed == Changed(x, list, keys)
           R == Removals(x, list, keys, type)
           Kept == (Existing(x) \cap listed) \ changed
           W == [s \in SUBSET R |->
                   {y \in Access : /\ y.granted \subseteq x.granted /\ y.inherited \subseteq x.inherited
                                   /\ Existing(y) \cap s = {} /\ Kept \subseteq Existing(y)
                                   /\ y.denied \cap listed \subseteq x.denied}]
<1>1. /\ listed \subseteq Assignable(type)
      /\ \A p \in Assignable(type) \ listed : WithImplying(p, type) \cap listed = {}
  BY CompletedFacts
<1>2. R = (Existing(x) \ listed) \cup (Existing(x) \cap changed) /\ changed \subseteq {Partial}
  BY DEF Removals, Changed
<1> HIDE DEF listed, changed, R
<1>3. R \in SUBSET Perms /\ IsFiniteSet(R) /\ R \subseteq Assignable(type)
  BY <1>2, AssignableFacts, PermsAreFinite
<1>4. \A p \in R, y \in Access : Revoking(y, p, type, isDeployed) \in Access
  BY <1>3, RevokingFacts
<1>5. x \in W[{}]
  BY DEF Existing
<1>6. ASSUME NEW s \in SUBSET R, NEW p \in s, NEW y \in W[s \ {p}]
      PROVE  Revoking(y, p, type, isDeployed) \in W[s]
  <2> DEFINE gone == WithImplying(p, type)
             z == Revoking(y, p, type, isDeployed)
  <2>1. /\ y \in Access /\ y.granted \subseteq x.granted /\ y.inherited \subseteq x.inherited
        /\ Existing(y) \cap (s \ {p}) = {} /\ Kept \subseteq Existing(y)
        /\ y.denied \cap listed \subseteq x.denied
    BY <1>6
  <2>2. p \in Assignable(type) /\ p \in gone
    BY <1>3 DEF WithImplying
  <2>3. /\ z \in Access /\ z.granted = y.granted \ gone /\ z.inherited = y.inherited \ gone
        /\ z.denied = y.denied \cup Blocking(y, p, type)
    BY <2>1, <2>2, RevokingFacts
  <2>4. gone \cap Kept = {}
    <3>1. CASE p \notin listed
      BY <1>1, <2>2, <3>1
    <3>2. CASE p \in changed
      <4>1. gone = {Partial}
        BY <1>2, <3>2, ImplyingFacts, ImpliedFacts DEF WithImplying
      <4>2. QED
        BY <1>2, <3>2, <4>1
    <3>3. QED
      BY <1>2, <1>6, <3>1, <3>2
  <2>5. Blocking(y, p, type) \cap listed = {}
    <3>1. ASSUME NEW q \in Blocked(y, p, type) PROVE WithImplying(q, type) \cap listed = {}
      <4>1. q \in gone /\ q \in Heritable /\ q \in Assignable(type)
        BY <2>1, <2>2, <3>1 DEF Blocked, WithImplying
      <4>2. p # Partial
        BY <4>1, ImplyingFacts, ImpliedFacts DEF WithImplying, Heritable, Partial
      <4>3. p \notin listed
        BY <1>2, <1>6, <4>2
      <4>4. q \notin listed
        BY <1>1, <2>2, <4>1, <4>3
      <4>5. QED
        BY <1>1, <4>1, <4>4
    <3>2. QED
      BY <3>1 DEF Blocking
  <2> HIDE DEF z, gone, Kept
  <2>6. Existing(z) \cap s = {} /\ Kept \subseteq Existing(z)
    BY <2>1, <2>2, <2>3, <2>4 DEF Existing
  <2>7. QED
    BY <2>1, <2>3, <2>5, <2>6 DEF z
<1>7. \A s \in SUBSET R : W[s] \subseteq Access
  OBVIOUS
<1>8. \A s \in SUBSET R : \A p \in s : \A y \in W[s \ {p}] : Revoking(y, p, type, isDeployed) \in W[s]
  BY <1>6
<1> DEFINE y == Revoked(x, R, type, isDeployed)
<1>9. y \in W[R]
  <2> HIDE DEF W
  <2>1. QED
    BY <1>3, <1>4, <1>5, <1>7, <1>8, RevokingEach
<1> HIDE DEF y
<1>10. /\ y \in Access /\ y.granted \subseteq x.granted /\ y.inherited \subseteq x.inherited
       /\ Existing(y) \cap R = {} /\ Kept \subseteq Existing(y)
       /\ y.denied \cap listed \subseteq x.denied
  BY <1>9
<1>11. Existing(y) \subseteq Existing(x)
  BY <1>10 DEF Existing
<1>12. QED
  BY <1>2, <1>10, <1>11 DEF y, R, listed, changed

\* The additions give what is listed and what there was of it; only the right to add
\* submissions may come with the filters.
LEMMA AdditionsGive ==
    ASSUME NEW type, NEW x \in Access, NEW u, NEW isDeployed, NEW keys \in SUBSET SubmissionPerms,
           NEW listed \in SUBSET Assignable(type),
           \A p \in listed : With(p, type) \subseteq listed,
           \A p \in listed : Contradictory(p) \cap listed = {},
           Existing(x) \subseteq listed, NEW A \in SUBSET listed
    PROVE  LET y == Assigned(x, A, u, keys, type, isDeployed)
           IN  /\ y \in Access /\ y.inherited \subseteq x.inherited /\ y.denied \subseteq x.denied
               /\ Existing(y) \subseteq listed \cup {"add_submissions"}
               /\ A \cup Existing(x) \subseteq Existing(y)
<1> DEFINE W == [s \in SUBSET A |->
                   {y \in Access : /\ y.inherited \subseteq x.inherited /\ y.denied \subseteq x.denied
                                   /\ Existing(y) \subseteq listed \cup {"add_submissions"}
                                   /\ s \cup Existing(x) \subseteq Existing(y)}]
<1>1. A \in SUBSET Perms /\ IsFiniteSet(A) /\ A \subseteq Assignable(type)
  BY AssignableFacts, PermsAreFinite
<1>2. \A p \in A, y \in Access : Assigning(y, u, p, keys, type, isDeployed) \in Access
  BY <1>1, AssigningFacts
<1>3. x \in W[{}]
  OBVIOUS
<1>4. ASSUME NEW s \in SUBSET A, NEW p \in s, NEW y \in W[s \ {p}]
      PROVE  Assigning(y, u, p, keys, type, isDeployed) \in W[s]
  <2> DEFINE z == Assigning(y, u, p, keys, type, isDeployed)
             g == Granting(y, u, p, type, isDeployed)
             new == IF p \in y.granted THEN {} ELSE With(p, type) \ y.granted
             contradicted == UNION {Contradictory(q) : q \in new}
  <2>1. /\ y \in Access /\ y.inherited \subseteq x.inherited /\ y.denied \subseteq x.denied
        /\ Existing(y) \subseteq listed \cup {"add_submissions"}
        /\ (s \ {p}) \cup Existing(x) \subseteq Existing(y)
    BY <1>4
  <2>2. p \in Assignable(type) /\ p \in listed /\ s \subseteq listed
    BY <1>1
  <2>3. /\ g.granted = (y.granted \ contradicted) \cup new
        /\ g.denied = y.denied \ (new \cup contradicted)
        /\ g.inherited = y.inherited \ contradicted
    BY <2>1, GrantingFacts
  <2>4. /\ z \in Access /\ z.inherited = g.inherited
        /\ g.granted \subseteq z.granted /\ z.granted \subseteq g.granted \cup {"add_submissions"}
        /\ z.denied \subseteq g.denied
    BY <2>1, <2>2, AssigningFacts
  <2>5. new \subseteq listed /\ (p \in y.granted \/ p \in new)
    BY <2>2 DEF With
  <2>6. contradicted \cap listed = {}
    BY <2>5
  <2> HIDE DEF z, g, new, contradicted
  <2>7. z.inherited \subseteq x.inherited /\ z.denied \subseteq x.denied
    BY <2>1, <2>3, <2>4
  <2>8. Existing(z) \subseteq listed \cup {"add_submissions"}
    BY <2>1, <2>3, <2>4, <2>5 DEF Existing
  <2>9. \A q \in listed : q \in Existing(y) \/ q = p => q \in Existing(z)
    BY <2>3, <2>4, <2>5, <2>6, <2>2 DEF Existing
  <2>10. s \cup Existing(x) \subseteq Existing(z)
    BY <2>1, <2>2, <2>9
  <2>11. QED
    BY <2>4, <2>7, <2>8, <2>10 DEF z
<1>5. \A s \in SUBSET A : W[s] \subseteq Access
  OBVIOUS
<1>6. \A s \in SUBSET A : \A p \in s : \A y \in W[s \ {p}] : Assigning(y, u, p, keys, type, isDeployed) \in W[s]
  BY <1>4
<1> DEFINE y == Assigned(x, A, u, keys, type, isDeployed)
<1>7. y \in W[A]
  <2> HIDE DEF W
  <2>1. QED
    BY <1>1, <1>2, <1>3, <1>5, <1>6, AssigningEach
<1> HIDE DEF y
<1>8. /\ y \in Access /\ y.inherited \subseteq x.inherited /\ y.denied \subseteq x.denied
      /\ Existing(y) \subseteq listed \cup {"add_submissions"}
      /\ A \cup Existing(x) \subseteq Existing(y)
  BY <1>7
<1>9. QED
  BY <1>8 DEF y

LEMMA ReplacingGives ==
    ASSUME NEW type, NEW x, NEW u, NEW isDeployed, RowIsRight(x, u, type, isDeployed),
           NEW list, NEW keys \in SUBSET SubmissionPerms, Acceptable(u, list, keys, type),
           Completed(list, type) \cap x.inherited \cap x.denied = {},
           \A p \in Completed(list, type) : Contradictory(p) \cap Completed(list, type) = {}
    PROVE  Effective(Replacing(x, u, list, keys, type, isDeployed), u) \ {"add_submissions"} =
             Completed(list, type) \ {"add_submissions"}
<1> DEFINE listed == Completed(list, type)
           changed == Changed(x, list, keys)
           R == Removals(x, list, keys, type)
           A == Additions(x, list, keys, type)
           y == Revoked(x, R, type, isDeployed)
           z == Assigned(y, A, u, keys, type, isDeployed)
<1>1. x \in Access /\ x.inherited \subseteq Heritable /\ Existing(x) \subseteq Assignable(type)
  BY AssignableFacts DEF RowIsRight, Sound, Closed, Existing, Heritable
<1>2. list \in SUBSET Assignable(type) /\ (u = Anonymous => list \subseteq AllowedAnonymous)
  BY DEF Acceptable
<1>3. /\ listed \subseteq Assignable(type) /\ list \subseteq listed
      /\ \A p \in listed : With(p, type) \subseteq listed
      /\ u = Anonymous => listed \subseteq AllowedAnonymous
  BY <1>2, CompletedFacts
<1>4. changed \subseteq listed /\ A = (listed \ Existing(x)) \cup changed
  BY <1>3 DEF Changed, Additions
<1>5. /\ y \in Access /\ y.inherited \subseteq x.inherited
      /\ Existing(y) \subseteq listed \ changed
      /\ (Existing(x) \cap listed) \ changed \subseteq Existing(y)
      /\ y.denied \cap listed \subseteq x.denied
  BY <1>1, <1>2, RemovalsLeave
<1>6. Replacing(x, u, list, keys, type, isDeployed) = z
  BY DEF Replacing, Revoked, Assigned
<1>7. RowIsRight(Replacing(x, u, list, keys, type, isDeployed), u, type, isDeployed)
  BY ReplacingIsRight
<1>8. \A p \in listed : Contradictory(p) \cap listed = {}
  OBVIOUS
<1> HIDE DEF listed, changed, A, y
<1>9. /\ z \in Access /\ z.inherited \subseteq y.inherited /\ z.denied \subseteq y.denied
      /\ Existing(z) \subseteq listed \cup {"add_submissions"}
      /\ A \cup Existing(y) \subseteq Existing(z)
  <2>1. A \in SUBSET listed /\ listed \in SUBSET Assignable(type) /\ Existing(y) \subseteq listed
    BY <1>3, <1>4, <1>5
  <2>2. QED
    BY <1>3, <1>5, <1>8, <2>1, AdditionsGive
<1> HIDE DEF z
<1>10. listed \subseteq Existing(z)
  BY <1>4, <1>5, <1>9
<1>11. ASSUME NEW p \in listed PROVE p \notin z.denied
  <2>1. z.granted \cap z.denied = {}
    BY <1>6, <1>7 DEF RowIsRight, Sound, Closed
  <2>2. CASE p \in z.granted
    BY <2>1, <2>2
  <2>3. CASE p \in z.inherited
    BY <1>5, <1>9, <2>3 DEF listed
  <2>4. QED
    BY <1>10, <2>2, <2>3 DEF Existing
<1>12. Effective(z, u) \ {"add_submissions"} = listed \ {"add_submissions"}
  BY <1>3, <1>9, <1>10, <1>11 DEF Effective, Existing
<1>13. QED
  BY <1>6, <1>12 DEF listed

\* A bulk request gives a user what it lists and what that implies, and nothing else
\* (BulkGivesWhatItLists), whatever rows it finds: _get_effective_perms() after the
\* removals and the additions of AssetBulkInsertPermissionSerializer.create().
THEOREM BulkRequestsGive == Spec => []BulkGivesWhatItLists
<1>1. PermissionsInv => BulkGivesWhatItLists
  <2> DEFINE Listed(a, list) == list \cup ((UNION {Implied(p) : p \in list}) \cap Assignable(Type[a]))
             New(a, u, list, keys) == Replacing(access[a][u], u, list, keys, Type[a], a \in deployed)
             Applies(a, u, list, keys) ==
               /\ Acceptable(u, list, keys, Type[a])
               /\ Listed(a, list) \cap access[a][u].inherited \cap access[a][u].denied = {}
               /\ \A p \in Listed(a, list) : Contradictory(p) \cap Listed(a, list) = {}
             Gives(a, u, list, keys) ==
               Effective(New(a, u, list, keys), u) \ {"add_submissions"} = Listed(a, list) \ {"add_submissions"}
  <2>1. ASSUME PermissionsInv, NEW a \in Assets, NEW u \in About[a] \ {Owner[a]},
               NEW list \in Lists[a][u], NEW keys \in Filtered \cup {{}}, Applies(a, u, list, keys)
        PROVE  Gives(a, u, list, keys)
    <3>1. u \in Everyone /\ keys \in SUBSET SubmissionPerms
      BY <2>1, PermissionsAssumption
    <3>2. RowIsRight(access[a][u], u, Type[a], a \in deployed)
      BY <2>1, <3>1, InvFacts
    <3>3. Listed(a, list) = Completed(list, Type[a])
      BY DEF Completed
    <3> HIDE DEF Listed
    <3>4. QED
      BY <2>1, <3>1, <3>2, <3>3, ReplacingGives
  <2>2. BulkGivesWhatItLists <=>
          \A a \in Assets : \A u \in About[a] \ {Owner[a]} :
            \A list \in Lists[a][u], keys \in Filtered \cup {{}} :
              Applies(a, u, list, keys) => Gives(a, u, list, keys)
    BY Zenon DEF BulkGivesWhatItLists
  <2> HIDE DEF Applies, Gives
  <2>3. QED
    BY <2>1, <2>2
<1>2. QED
  BY <1>1, InitPermissions, NextPermissions, PTL DEF Spec

----------------------------------------------------------------------------
(* What users inherit they have on the collection *)

Passed(acc, par, d, u) ==
    IF par[d] = None THEN {} ELSE Effective(acc[par[d]][u], u) \cap Heritable

\* Row as the row of asset d, among the rows acc.
Within(row, d, acc, par) ==
    \A u \in Everyone \ {Owner[d]} : row[u].inherited \subseteq Passed(acc, par, d, u)

LEMMA FollowsIs == \A d : Follows(d) <=> Within(access[d], d, access, parent)
  BY DEF Follows, Within, Passed

\* Inheriting takes no more than what the collection passes.
LEMMA InheritedIsWithin ==
    ASSUME NEW d \in Assets, NEW row \in AllAccess, NEW effective, NEW acc, NEW par,
           \A u \in Everyone : effective[u] \cap Heritable \subseteq Passed(acc, par, d, u)
    PROVE  Within(Inheriting(d, row, effective), d, acc, par)
<1> SUFFICES ASSUME NEW u \in Everyone \ {Owner[d]}
             PROVE  Inheriting(d, row, effective)[u].inherited \subseteq Passed(acc, par, d, u)
  BY DEF Within
<1>1. Inheriting(d, row, effective)[u] = [row[u] EXCEPT !.inherited = effective[u] \cap Heritable]
  BY InheritingFacts
<1>2. row[u] \in Access
  BY DEF AllAccess
<1>3. QED
  BY <1>1, <1>2 DEF Access

\* The rows of asset a become `row`, that is passed on as `effective`, and then `top`.
LEMMA FollowsAfter ==
    ASSUME NEW par \in Parents, Acyclic(par), NEW acc \in [Assets -> AllAccess],
           NEW a \in Assets, NEW row \in AllAccess, NEW top \in AllAccess, NEW effective, NEW exempt,
           \A d \in Assets \ ({a} \cup exempt) : a \notin Above(par)[d] => Within(acc[d], d, acc, par),
           a \notin exempt => Within(top, a, acc, par),
           effective = AllEffective(top) \/ \A d \in Assets : par[d] = a => d \in exempt
    PROVE  LET passed == Descended([acc EXCEPT ![a] = row], par, a, effective)
               new == [passed EXCEPT ![a] = top]
           IN  /\ passed[a] = row
               /\ \A d \in Assets \ exempt : Within(new[d], d, new, par)
<1> DEFINE rows == [acc EXCEPT ![a] = row]
           passed == Descended(rows, par, a, effective)
           new == [passed EXCEPT ![a] = top]
<1>1. rows \in [Assets -> AllAccess] /\ rows[a] = row /\ \A d \in Assets \ {a} : rows[d] = acc[d]
  OBVIOUS
<1> HIDE DEF rows
<1>2. /\ passed \in [Assets -> AllAccess]
      /\ \A d \in Assets :
           passed[d] = IF a \notin Above(par)[d] THEN rows[d]
                       ELSE Inheriting(d, rows[d],
                              IF par[d] = a THEN effective ELSE AllEffective(passed[par[d]]))
  BY <1>1, DescendedIs
<1>3. a \notin Above(par)[a]
  BY NotAboveItself
<1> HIDE DEF passed
<1>4. passed[a] = row
  BY <1>1, <1>2, <1>3
<1>5. new[a] = top /\ \A d \in Assets \ {a} : new[d] = passed[d]
  BY <1>2
<1> HIDE DEF new
\* What lies outside a passes what it did.
<1>6. ASSUME NEW d \in Assets, a \notin Above(par)[d], NEW u
      PROVE  Passed(new, par, d, u) = Passed(acc, par, d, u)
  <2>1. CASE par[d] = None
    BY <2>1 DEF Passed
  <2>2. CASE par[d] # None
    <3>1. par[d] \in Assets /\ par[d] # a /\ a \notin Above(par)[par[d]]
      BY <1>6, <2>2, ParentsFacts, AboveFacts
    <3>2. new[par[d]] = acc[par[d]]
      BY <3>1, <1>1, <1>2, <1>5
    <3>3. QED
      BY <3>2 DEF Passed
  <2>3. QED
    BY <2>1, <2>2
<1>7. ASSUME NEW d \in Assets \ exempt PROVE Within(new[d], d, new, par)
  <2>1. CASE d = a
    BY <1>3, <1>5, <1>6, <2>1 DEF Within
  <2>2. CASE d # a /\ a \notin Above(par)[d]
    <3>1. new[d] = acc[d] /\ Within(acc[d], d, acc, par)
      BY <2>2, <1>1, <1>2, <1>5
    <3>2. QED
      BY <1>6, <2>2, <3>1 DEF Within
  <2>3. CASE d # a /\ a \in Above(par)[d]
    <3>1. PICK e : e = IF par[d] = a THEN effective ELSE AllEffective(passed[par[d]])
      OBVIOUS
    <3>2. new[d] = Inheriting(d, rows[d], e) /\ rows[d] \in AllAccess
      BY <1>1, <1>2, <1>5, <2>3, <3>1
    <3>3. par[d] # None /\ par[d] \in Assets
      BY <2>3, AboveFacts, ParentsFacts
    <3>4. e = AllEffective(new[par[d]])
      BY <1>5, <3>1, <3>3
    <3>5. \A u \in Everyone : e[u] \cap Heritable = Passed(new, par, d, u)
      BY <3>3, <3>4 DEF AllEffective, Passed
    <3>6. QED
      BY <3>2, <3>5, InheritedIsWithin
  <2>4. QED
    BY <2>1, <2>2, <2>3
<1>8. QED
  BY <1>4, <1>7 DEF new, passed, rows

\* The rows of asset a become `top`, and nothing is passed on.
LEMMA FollowsBeside ==
    ASSUME NEW par \in Parents, Acyclic(par), NEW acc \in [Assets -> AllAccess],
           NEW a \in Assets, NEW top \in AllAccess, NEW exempt,
           \A d \in Assets \ ({a} \cup exempt) : Within(acc[d], d, acc, par),
           a \notin exempt => Within(top, a, acc, par),
           \/ \A d \in Assets : par[d] = a => d \in exempt
           \/ \A u \in Everyone : Effective(acc[a][u], u) \subseteq Effective(top[u], u)
    PROVE  LET new == [acc EXCEPT ![a] = top]
           IN  \A d \in Assets \ exempt : Within(new[d], d, new, par)
<1> DEFINE new == [acc EXCEPT ![a] = top]
<1>1. new[a] = top /\ \A d \in Assets \ {a} : new[d] = acc[d]
  OBVIOUS
<1> HIDE DEF new
<1>2. ASSUME NEW d \in Assets \ exempt, NEW u \in Everyone
      PROVE  Passed(acc, par, d, u) \subseteq Passed(new, par, d, u)
  <2>1. par[d] = None \/ par[d] \in Assets
    BY ParentsFacts
  <2>2. CASE par[d] # a
    BY <1>1, <2>1, <2>2 DEF Passed
  <2>3. CASE par[d] = a
    BY <1>1, <2>3 DEF Passed
  <2>4. QED
    BY <2>2, <2>3
<1>3. ASSUME NEW d \in Assets \ exempt PROVE Within(new[d], d, new, par)
  <2>1. Within(new[d], d, acc, par)
    BY <1>1
  <2>2. QED
    BY <1>2, <2>1 DEF Within
<1>4. QED
  BY <1>3 DEF new

FollowsInv == \A d \in Assets \ lagging : Within(access[d], d, access, parent)

BelowAt(par, a) == {d \in Assets : a \in Above(par)[d]}

LEMMA BelowIs ==
    ASSUME PermissionsInv, NEW a \in Assets
    PROVE  Below(a) = BelowAt(parent, a) /\ a \notin Below(a)
<1>1. parent \in Parents /\ Acyclic(parent)
  BY DEF PermissionsInv
<1>2. a \notin Collections => BelowAt(parent, a) = {}
  BY <1>1, AboveFacts DEF BelowAt
<1>3. QED
  BY <1>1, <1>2, NotAboveItself DEF Below, BelowAt

\* One user's rows of asset a lose inherited permissions and are passed on, or are
\* not and the children are exempt.
LEMMA ShrunkFollows ==
    ASSUME PermissionsInv, FollowsInv, NEW a \in Assets, NEW row \in AllAccess,
           \A u \in Everyone \ {Owner[a]} : row[u].inherited \subseteq access[a][u].inherited,
           NEW effective, effective = AllEffective(row) \/ Children(a) \subseteq lagging',
           lagging \ Below(a) \subseteq lagging', parent' = parent,
           access' = Descended([access EXCEPT ![a] = row], parent, a, effective)
    PROVE  FollowsInv'
<1> DEFINE passed == Descended([access EXCEPT ![a] = row], parent, a, effective)
           new == [passed EXCEPT ![a] = row]
<1>1. parent \in Parents /\ Acyclic(parent) /\ access \in [Assets -> AllAccess]
  BY DEF PermissionsInv
<1>2. [access EXCEPT ![a] = row] \in [Assets -> AllAccess]
  BY <1>1
<1>3. passed \in [Assets -> AllAccess]
  BY <1>1, <1>2, DescendedIs
<1>4. ASSUME NEW d \in Assets \ ({a} \cup lagging'), a \notin Above(parent)[d]
      PROVE  Within(access[d], d, access, parent)
  BY <1>4, BelowIs DEF BelowAt, FollowsInv
<1>5. ASSUME a \notin lagging' PROVE Within(row, a, access, parent)
  <2>1. Within(access[a], a, access, parent)
    BY <1>5, BelowIs DEF FollowsInv
  <2>2. QED
    BY <2>1 DEF Within
<1>6. effective = AllEffective(row) \/ \A d \in Assets : parent[d] = a => d \in lagging'
  BY DEF Children
<1>7. passed[a] = row /\ \A d \in Assets \ lagging' : Within(new[d], d, new, parent)
  BY <1>1, <1>4, <1>5, <1>6, FollowsAfter
<1>8. access' = new
  BY <1>3, <1>7
<1> HIDE DEF new, passed
<1>9. QED
  BY <1>7, <1>8 DEF FollowsInv

\* A permission that is granted already takes nothing away from what the user has,
\* and only a survey has a partial one, which nothing is in.
LEMMA GrantedAlready ==
    ASSUME PermissionsInv, NEW a \in Assets, NEW u \in Everyone, u # Owner[a],
           NEW p \in Assignable(Type[a]), p \in access[a][u].granted, NEW keys, a \in Collections
    PROVE  LET y == Assigning(access[a][u], u, p, keys, Type[a], a \in deployed)
           IN  Effective(y, u) = Effective(access[a][u], u)
<1> DEFINE x == access[a][u]
           g == Granting(x, u, p, Type[a], a \in deployed)
           y == Assigning(x, u, p, keys, Type[a], a \in deployed)
<1>1. x \in Access
  BY InvFacts
<1>2. Partial \notin Assignable(Type[a])
  BY DEF Assignable, Collections, Partial, AssetPerms, SubmissionPerms
<1>3. p # Partial
  BY <1>2
<1>4. y = Unfiltered(g, p)
  BY <1>3 DEF Assigning
<1>5. g \in Access /\ g.granted = x.granted /\ g.denied = x.denied /\ g.inherited = x.inherited
  <2>1. /\ g.granted = (x.granted \ {}) \cup {} /\ g.denied = x.denied \ {} /\ g.inherited = x.inherited \ {}
    BY <1>1 DEF Granting, Access
  <2>2. g \in Access
    BY <1>1, GrantingStaysInAccess
  <2>3. QED
    BY <2>1, <2>2
<1> HIDE DEF g
<1>6. y.granted = x.granted /\ y.denied = x.denied /\ y.inherited = x.inherited
  BY <1>4, <1>5 DEF Unfiltered, Access
<1> HIDE DEF y
<1>7. QED
  BY <1>6 DEF Effective, y

LEMMA AssignToFollows ==
    ASSUME PermissionsInv, FollowsInv, NEW a \in Assets, NEW u \in Everyone, u # Owner[a],
           NEW p \in Assignable(Type[a]), NEW keys \in SUBSET SubmissionPerms, p = Partial => keys # {},
           AssignTo(a, u, p, keys)
    PROVE  FollowsInv'
<1> DEFINE x == Assigning(access[a][u], u, p, keys, Type[a], a \in deployed)
           row == [access[a] EXCEPT ![u] = x]
<1>1. RowIsRight(x, u, Type[a], a \in deployed) /\ x.inherited \subseteq access[a][u].inherited
  BY InvFacts, AssigningIsRight
<1>2. p \in access[a][u].granted /\ a \in Collections => Effective(x, u) = Effective(access[a][u], u)
  BY GrantedAlready
<1>3. /\ access' = IF p \in access[a][u].granted THEN [access EXCEPT ![a][u] = x]
                   ELSE Descended([access EXCEPT ![a][u] = x], parent, a,
                                  AllEffective([access EXCEPT ![a][u] = x][a]))
      /\ lagging' = IF p \in access[a][u].granted THEN lagging ELSE lagging \ Below(a)
      /\ parent' = parent
  BY DEF AssignTo
<1> HIDE DEF x
<1>4. [access EXCEPT ![a][u] = x] = [access EXCEPT ![a] = row] /\ [access EXCEPT ![a] = row][a] = row
      /\ RowsAreRight(a, row, a \in deployed)
  BY <1>1, OneUser
<1>5. access[a] \in AllAccess /\ access \in [Assets -> AllAccess] /\ parent \in Parents /\ Acyclic(parent)
  BY DEF PermissionsInv
<1>6. \A v \in Everyone : row[v] = IF v = u THEN x ELSE access[a][v]
  BY <1>5 DEF AllAccess
<1> HIDE DEF row
<1>7. row \in AllAccess /\ \A v \in Everyone \ {Owner[a]} : row[v].inherited \subseteq access[a][v].inherited
  BY <1>1, <1>4, <1>6 DEF RowsAreRight
<1>8. CASE p \notin access[a][u].granted
  BY <1>3, <1>4, <1>7, <1>8, ShrunkFollows
<1>9. CASE p \in access[a][u].granted
  <2>1. access' = [access EXCEPT ![a] = row] /\ lagging' = lagging
    BY <1>3, <1>4, <1>9
  <2>2. a \notin lagging => Within(row, a, access, parent)
    BY <1>7 DEF Within, FollowsInv
  <2>3. \/ \A d \in Assets : parent[d] = a => d \in lagging
        \/ \A v \in Everyone : Effective(access[a][v], v) \subseteq Effective(row[v], v)
    <3>1. CASE a \in Collections
      BY <1>2, <1>6, <1>9, <3>1
    <3>2. CASE a \notin Collections
      BY <1>5, <3>2, PermissionsAssumption DEF Parents
    <3>3. QED
      BY <3>1, <3>2
  <2>4. \A d \in Assets \ ({a} \cup lagging) : Within(access[d], d, access, parent)
    BY DEF FollowsInv
  <2>5. \A d \in Assets \ lagging : Within([access EXCEPT ![a] = row][d], d, [access EXCEPT ![a] = row], parent)
    BY <1>5, <1>7, <2>2, <2>3, <2>4, FollowsBeside
  <2>6. QED
    BY <1>3, <2>1, <2>5 DEF FollowsInv
<1>10. QED
  BY <1>8, <1>9

LEMMA PassOnFollows ==
    ASSUME PermissionsInv, FollowsInv, NEW a \in Assets, NEW u \in Everyone, u # Owner[a],
           NEW x, RowIsRight(x, u, Type[a], a \in deployed), x.inherited \subseteq access[a][u].inherited,
           NEW fresh \in BOOLEAN, PassOn(a, u, x, fresh)
    PROVE  FollowsInv'
<1> DEFINE row == [access[a] EXCEPT ![u] = x]
<1>1. [access EXCEPT ![a][u] = x] = [access EXCEPT ![a] = row] /\ [access EXCEPT ![a] = row][a] = row
      /\ RowsAreRight(a, row, a \in deployed)
  BY OneUser
<1>2. access[a] \in AllAccess
  BY DEF PermissionsInv
<1>3. \A v \in Everyone : row[v] = IF v = u THEN x ELSE access[a][v]
  BY <1>2 DEF AllAccess
<1> HIDE DEF row
<1> DEFINE effective == AllEffective(IF fresh THEN row ELSE access[a])
<1>4. /\ access' = Descended([access EXCEPT ![a] = row], parent, a, effective)
      /\ lagging' = (lagging \ Below(a)) \cup (IF fresh THEN {} ELSE Children(a))
      /\ parent' = parent
  BY <1>1 DEF PassOn
<1>5. effective = AllEffective(row) \/ Children(a) \subseteq lagging'
  BY <1>4
<1>6. row \in AllAccess /\ \A v \in Everyone \ {Owner[a]} : row[v].inherited \subseteq access[a][v].inherited
  BY <1>1, <1>3 DEF RowsAreRight
<1> HIDE DEF effective
<1>7. QED
  BY <1>4, <1>5, <1>6, ShrunkFollows

LEMMA RemovePermFollows ==
    ASSUME PermissionsInv, FollowsInv, NEW a \in Assets, NEW u \in Everyone, NEW p \in Perms,
           NEW cached \in BOOLEAN, RemovePerm(a, u, p, cached)
    PROVE  FollowsInv'
<1> DEFINE x == access[a][u]
           fresh == ~cached \/ Blocking(x, p, Type[a]) # {}
           y == Revoking(x, p, Type[a], a \in deployed)
<1>1. u # Owner[a] /\ p \in x.granted \cup x.inherited /\ PassOn(a, u, y, fresh)
  BY DEF RemovePerm
<1>2. RowIsRight(x, u, Type[a], a \in deployed)
  BY <1>1, InvFacts
<1>3. RowIsRight(y, u, Type[a], a \in deployed) /\ y.inherited \subseteq x.inherited
  BY <1>1, <1>2, NamedIsRevoked
<1>4. fresh \in BOOLEAN
  OBVIOUS
<1> HIDE DEF fresh, y
<1>5. QED
  BY <1>1, <1>3, <1>4, PassOnFollows

LEMMA BulkAssignFollows ==
    ASSUME PermissionsInv, FollowsInv, NEW a \in Assets, NEW u \in Everyone, NEW list,
           NEW keys \in SUBSET SubmissionPerms, NEW cached \in BOOLEAN, BulkAssign(a, u, list, keys, cached)
    PROVE  FollowsInv'
<1> DEFINE y == Replacing(access[a][u], u, list, keys, Type[a], a \in deployed)
<1>1. PICK fresh \in BOOLEAN : u # Owner[a] /\ Acceptable(u, list, keys, Type[a]) /\ PassOn(a, u, y, fresh)
  BY DEF BulkAssign
<1>2. RowIsRight(y, u, Type[a], a \in deployed) /\ y.inherited \subseteq access[a][u].inherited
  BY <1>1, InvFacts, ReplacingIsRight
<1> HIDE DEF y
<1>3. QED
  BY <1>1, <1>2, PassOnFollows

\* The copy takes from the collection what it passes, and leaves the children out.
LEMMA CopyPermissionsFollows ==
    ASSUME PermissionsInv, FollowsInv, NEW a \in Assets, NEW source \in Assets,
           NEW grantsFirst \in BOOLEAN, CopyPermissions(a, source, grantsFirst)
    PROVE  FollowsInv'
<1> DEFINE copied == CopiedRows(a, source, grantsFirst)
           passed == Descended([access EXCEPT ![a] = copied], parent, a, AllEffective(copied))
           top == Inheriting(a, copied, FromParent(a))
<1>1. copied \in AllAccess
  BY CopiedRowsAreRight DEF RowsAreRight
<1>2. /\ parent' = parent
      /\ \/ access' = [passed EXCEPT ![a] = top] /\ lagging' = (lagging \ ({a} \cup Below(a))) \cup Children(a)
         \/ access' = [[access EXCEPT ![a] = copied] EXCEPT ![a] = top] /\ lagging' = (lagging \ {a}) \cup Children(a)
  <2>1. CopyEnds(a, copied)
    BY CopyIs
  <2>2. QED
    BY <2>1 DEF CopyEnds
<1> HIDE DEF copied
<1>3. parent \in Parents /\ Acyclic(parent) /\ access \in [Assets -> AllAccess]
  BY DEF PermissionsInv
<1>4. top \in AllAccess
  BY <1>1, InheritingFacts
<1>5. Within(top, a, access, parent)
  <2>1. \A u \in Everyone : FromParent(a)[u] \cap Heritable \subseteq Passed(access, parent, a, u)
    BY DEF FromParent, Passed, Nobody, AllEffective
  <2>2. QED
    BY <1>1, <2>1, InheritedIsWithin
<1> HIDE DEF top
<1>6. \A d \in Assets : parent[d] = a => d \in lagging'
  BY <1>2 DEF Children
<1>7. CASE access' = [passed EXCEPT ![a] = top] /\ lagging' = (lagging \ ({a} \cup Below(a))) \cup Children(a)
  <2>1. \A d \in Assets \ ({a} \cup lagging') : a \notin Above(parent)[d] => Within(access[d], d, access, parent)
    BY <1>7, BelowIs DEF BelowAt, FollowsInv
  <2>2. \A d \in Assets \ lagging' :
          Within([passed EXCEPT ![a] = top][d], d, [passed EXCEPT ![a] = top], parent)
    BY <1>1, <1>3, <1>4, <1>5, <1>6, <2>1, FollowsAfter
  <2> HIDE DEF passed
  <2>3. QED
    BY <1>2, <1>7, <2>2 DEF FollowsInv
<1>8. CASE /\ access' = [[access EXCEPT ![a] = copied] EXCEPT ![a] = top]
           /\ lagging' = (lagging \ {a}) \cup Children(a)
  <2>1. \A d \in Assets \ ({a} \cup lagging') : Within(access[d], d, access, parent)
    BY <1>8 DEF FollowsInv
  <2>2. \A d \in Assets \ lagging' :
          Within([access EXCEPT ![a] = top][d], d, [access EXCEPT ![a] = top], parent)
    BY <1>3, <1>4, <1>5, <1>6, <2>1, FollowsBeside
  <2>3. access' = [access EXCEPT ![a] = top]
    BY <1>3, <1>8
  <2>4. QED
    BY <1>2, <2>2, <2>3 DEF FollowsInv
<1>9. QED
  BY <1>2, <1>7, <1>8

\* A move takes an asset with all that it holds.
LEMMA MovedTogether ==
    ASSUME PermissionsInv, NEW a \in Assets, NEW to \in Collections \cup {None},
           to # a, to \notin Below(a), NEW d \in Below(a)
    PROVE  d \in BelowAt([parent EXCEPT ![a] = to], a)
<1> DEFINE par == [parent EXCEPT ![a] = to]
           Good == {e \in Assets : a \in Above(parent)[e] => a \in Above(par)[e]}
<1>1. parent \in Parents /\ Acyclic(parent)
  BY DEF PermissionsInv
<1>2. par \in Parents
  BY MovedIsAcyclic
<1>3. \A e \in Assets \ {a} : par[e] = parent[e]
  BY <1>1 DEF Parents
<1> HIDE DEF par
<1>4. ASSUME NEW e \in Assets, e \in Outermost(parent) \/ parent[e] \in Good PROVE e \in Good
  <2> SUFFICES ASSUME a \in Above(parent)[e] PROVE a \in Above(par)[e]
    OBVIOUS
  <2>1. e # a
    BY <1>1, NotAboveItself
  <2>2. parent[e] # None /\ Above(parent)[e] = {parent[e]} \cup Above(parent)[parent[e]]
    BY <1>1, AboveFacts
  <2>3. par[e] = parent[e] /\ Above(par)[e] = {par[e]} \cup Above(par)[par[e]]
    BY <1>2, <1>3, <2>1, <2>2, AboveFacts
  <2>4. parent[e] \in Good
    BY <1>4, <2>2 DEF Outermost
  <2>5. QED
    BY <2>2, <2>3, <2>4
<1>5. Assets \subseteq Good
  <2> HIDE DEF Good
  <2>1. QED
    BY <1>1, <1>4, ParentsArrive, InductionAlong
<1>6. QED
  BY <1>5, BelowIs DEF BelowAt, par

LEMMA SavedFollows ==
    ASSUME PermissionsInv, FollowsInv, NEW a \in Assets, NEW to \in Collections \cup {None},
           NEW rows \in [Assets -> AllAccess], \A d \in Assets \ {a} : rows[d] = access[d],
           Saved(rows, a, to)
    PROVE  FollowsInv'
<1> DEFINE par == [parent EXCEPT ![a] = to]
           above == IF to = None THEN Nobody ELSE AllEffective(rows[to])
           row == Inheriting(a, rows[a], above)
           passed == Descended([rows EXCEPT ![a] = row], par, a, AllEffective(row))
           new == [passed EXCEPT ![a] = row]
<1>1. /\ to # a /\ to \notin Below(a) /\ parent' = par /\ lagging' = lagging \ ({a} \cup Below(a))
      /\ access' = passed
  BY DEF Saved
<1>2. par \in Parents /\ Acyclic(par)
  BY <1>1, MovedIsAcyclic
<1>3. parent \in Parents
  BY DEF PermissionsInv
<1>4. par[a] = to /\ \A d \in Assets \ {a} : par[d] = parent[d]
  BY <1>3 DEF Parents
<1>5. \A d \in Below(a) : a \in Above(par)[d]
  BY <1>1, MovedTogether DEF BelowAt
<1> HIDE DEF par
<1>6. row \in AllAccess
  BY InheritingFacts
<1>7. Within(row, a, rows, par)
  <2>1. \A u \in Everyone : above[u] \cap Heritable \subseteq Passed(rows, par, a, u)
    BY <1>4 DEF Passed, Nobody, AllEffective
  <2>2. rows[a] \in AllAccess
    OBVIOUS
  <2> HIDE DEF above
  <2>3. QED
    BY <2>1, <2>2, InheritedIsWithin
<1> HIDE DEF row
<1>8. [rows EXCEPT ![a] = row] \in [Assets -> AllAccess]
  BY <1>6
<1>9. ASSUME NEW d \in Assets \ ({a} \cup lagging'), a \notin Above(par)[d] PROVE Within(rows[d], d, rows, par)
  <2>1. d \notin lagging
    BY <1>1, <1>5, <1>9
  <2>2. Within(access[d], d, access, parent)
    BY <2>1 DEF FollowsInv
  <2>3. par[d] = parent[d] /\ rows[d] = access[d]
    BY <1>4
  <2>4. CASE par[d] = None
    BY <2>2, <2>3, <2>4 DEF Within, Passed
  <2>5. CASE par[d] # None
    <3>1. par[d] \in Assets /\ par[d] # a
      BY <1>2, <1>9, <2>5, ParentsFacts, AboveFacts
    <3>2. rows[par[d]] = access[par[d]]
      BY <3>1
    <3>3. QED
      BY <2>2, <2>3, <2>5, <3>2 DEF Within, Passed
  <2>6. QED
    BY <2>4, <2>5
<1>10. passed \in [Assets -> AllAccess]
  BY <1>2, <1>8, DescendedIs
<1>11. passed[a] = row /\ \A d \in Assets \ lagging' : Within(new[d], d, new, par)
  BY <1>2, <1>6, <1>7, <1>9, FollowsAfter
<1>12. access' = new
  BY <1>1, <1>10, <1>11
<1> HIDE DEF new, passed
<1>13. QED
  BY <1>1, <1>11, <1>12 DEF FollowsInv

LEMMA SaveAssetFollows ==
    ASSUME PermissionsInv, FollowsInv, NEW a \in Assets, NEW to, SaveAsset(a, to)
    PROVE  FollowsInv'
<1>1. to \in Collections \cup {None}
  BY PermissionsAssumption DEF SaveAsset
<1>2. Saved(access, a, to)
  BY DEF SaveAsset
<1>3. QED
  BY <1>1, <1>2, SavedFollows DEF PermissionsInv

LEMMA DeployFollows ==
    ASSUME PermissionsInv, FollowsInv, NEW a \in Assets, Deploy(a)
    PROVE  FollowsInv'
<1> DEFINE rows == [access EXCEPT ![a] = Mapped(a)]
<1>1. Saved(rows, a, parent[a])
  BY DEF Deploy, Mapped
<1>2. Mapped(a) \in AllAccess
  BY MappedIsRight DEF RowsAreRight
<1>3. access \in [Assets -> AllAccess] /\ parent[a] \in Collections \cup {None}
  BY DEF PermissionsInv, Parents
<1>4. rows \in [Assets -> AllAccess] /\ \A d \in Assets \ {a} : rows[d] = access[d]
  BY <1>2, <1>3
<1> HIDE DEF rows
<1>5. QED
  BY <1>1, <1>3, <1>4, SavedFollows

LEMMA InitFollows == Init => FollowsInv
<1> SUFFICES ASSUME Init, NEW d \in Assets PROVE Within(access[d], d, access, parent)
  BY DEF FollowsInv
<1> DEFINE none == [u \in Everyone |-> NoAccess]
<1>1. none \in AllAccess
  BY DEF AllAccess, NoAccess, Access
<1>2. access[d] = Inheriting(d, none, Nobody)
  BY DEF Init
<1>3. \A u \in Everyone : Nobody[u] \cap Heritable \subseteq Passed(access, parent, d, u)
  BY DEF Nobody
<1> HIDE DEF none
<1>4. QED
  BY <1>1, <1>2, <1>3, InheritedIsWithin

LEMMA NextFollows == PermissionsInv /\ FollowsInv /\ [Next]_vars => FollowsInv'
<1> SUFFICES ASSUME PermissionsInv, FollowsInv, [Next]_vars PROVE FollowsInv'
  OBVIOUS
<1>1. ASSUME NEW a \in Assets, NEW u \in About[a], NEW p \in Perms, AssignPerm(a, u, p) PROVE FollowsInv'
  <2>1. u \in Everyone /\ u # Owner[a] /\ p \in Assignable(Type[a]) /\ p # Partial /\ AssignTo(a, u, p, {})
    BY <1>1, PermissionsAssumption DEF AssignPerm
  <2>2. QED
    BY <2>1, AssignToFollows
<1>2. ASSUME NEW a \in Assets, NEW u \in About[a], NEW keys \in Filtered, AssignPartial(a, u, keys)
      PROVE  FollowsInv'
  <2>1. /\ u \in Everyone /\ u # Owner[a] /\ Partial \in Assignable(Type[a]) /\ AssignTo(a, u, Partial, keys)
        /\ keys \in SUBSET SubmissionPerms /\ keys # {}
    BY <1>2, PermissionsAssumption DEF AssignPartial
  <2>2. QED
    BY <2>1, AssignToFollows
<1>3. ASSUME NEW a \in Assets, NEW u \in About[a], NEW p \in Perms, NEW cached \in BOOLEAN,
             RemovePerm(a, u, p, cached)
      PROVE  FollowsInv'
  BY <1>3, RemovePermFollows, PermissionsAssumption
<1>4. ASSUME NEW a \in Assets, NEW u \in About[a], NEW list \in Lists[a][u], NEW keys \in Filtered \cup {{}},
             NEW cached \in BOOLEAN, BulkAssign(a, u, list, keys, cached)
      PROVE  FollowsInv'
  BY <1>4, BulkAssignFollows, PermissionsAssumption
<1>5. ASSUME NEW a \in Assets, NEW source \in Assets, NEW grantsFirst \in BOOLEAN,
             CopyPermissions(a, source, grantsFirst)
      PROVE  FollowsInv'
  BY <1>5, CopyPermissionsFollows
<1>6. ASSUME NEW a \in Assets, NEW to \in Assets \cup {None}, SaveAsset(a, to) PROVE FollowsInv'
  BY <1>6, SaveAssetFollows
<1>7. ASSUME NEW a \in Assets, Deploy(a) PROVE FollowsInv'
  BY <1>7, DeployFollows
<1>8. CASE UNCHANGED vars
  BY <1>8 DEF FollowsInv, vars, Within, Passed
<1>9. QED
  BY <1>1, <1>2, <1>3, <1>4, <1>5, <1>6, <1>7, <1>8 DEF Next

\* What a user inherits on an asset they still have on the collection that it is in
\* (InheritanceFollows), at every depth, unless the asset is a child of a collection
\* that changed without passing it on: recalculate_descendants_perms() at the end of
\* each request, and the moves that take an asset with all that it holds.
THEOREM InheritanceIsFollowed == Spec => []InheritanceFollows
<1>1. FollowsInv => InheritanceFollows
  BY FollowsIs DEF FollowsInv, InheritanceFollows
<1>2. QED
  BY <1>1, InitPermissions, NextPermissions, InitFollows, NextFollows, PTL DEF Spec
=============================================================================
