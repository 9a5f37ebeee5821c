--------------------------- MODULE TrashBinProofs ---------------------------
(***************************************************************************)
(* For every set of accounts, projects and workers: a row that is PENDING  *)
(* will be emptied, no two workers empty the same project, and what is     *)
(* deleted for good was in the trash.                                      *)
(*                                                                         *)
(* The argument is about primary keys.  They are never given twice, so a   *)
(* task that is under way has at most the row that it was started for, and *)
(* after the row is gone no other will take its place.  The retry handler  *)
(* looks the key of a project up in the table of the accounts; that the    *)
(* projects are none the worse for it is because their rows then stay IN   *)
(* PROGRESS, which is also what keeps a second worker away.                *)
(*                                                                         *)
(* What a worker deletes has a row past PENDING while it deletes it, if no *)
(* account is emptied by hand: the task of an account is then in one place *)
(* at a time (with celery beat, in a message, or with a worker), a second  *)
(* task of a project finds the project gone, and a handler that writes     *)
(* over a row under way leaves it at RETRY, which nothing replaces.        *)
(***************************************************************************)
EXTENDS TrashBin, FiniteSetTheorems, TLAPS

\* A request is about objects of one kind.
RequestsAreOfOneKind == \A r \in request : r.objs \subseteq OfKind(r.kind)

\* The keys given so far, and the bound on them.
KeysAreCounted ==
    /\ \A k \in Kinds : next[k] \in FirstPk[k] .. FirstPk[k] + MaxRows[k]
    /\ \A o \in Objects : InTrash(o) => trash[o].pk \in FirstPk[Kind(o)] .. next[Kind(o)] - 1
    /\ \A j \in job : j.task[1] = Kind(j.obj) /\ j.task[2] < next[Kind(j.obj)]

KeysAreUnique ==
    \A o, q \in Objects : InTrash(o) /\ InTrash(q) /\ TaskOf(o) = TaskOf(q) => o = q

\* A task that is under way has its own row, and when it has deleted it none.
TasksOwnTheirRows ==
    \A j \in job :
        /\ \A o \in RowsOf(j.task) : o = j.obj
        /\ j.pc = "schedule" => RowsOf(j.task) = {}

\* The task of a project, until its end, keeps the row IN PROGRESS ...
Emptying(j) == j.obj \in Projects /\ j.pc \in {"delete", "retry", "fail"}
ProjectsAreMarked ==
    \A j \in job : Emptying(j) => \A o \in RowsOf(j.task) : Status(o) = "in_progress"

\* ... and so other workers away.
ProjectsAreLocked ==
    \A j, k \in job : Emptying(j) /\ Emptying(k) /\ j.task = k.task => j = k

TrashInv ==
    /\ TypeOK
    /\ RequestsAreOfOneKind
    /\ KeysAreCounted
    /\ KeysAreUnique
    /\ TasksOwnTheirRows
    /\ ProjectsAreMarked
    /\ ProjectsAreLocked
    /\ PendingIsScheduled


----------------------------------------------------------------------------
(* Objects, keys and tasks *)

LEMMA ObjectFacts ==
    /\ \A o \in Objects : Kind(o) \in Kinds
    /\ \A o \in Projects : o \in Objects /\ Kind(o) = "project"
    /\ \A o \in Accounts : o \in Objects /\ Kind(o) = "account"
    /\ \A k \in Kinds : \A o \in OfKind(k) : o \in Objects /\ Kind(o) = k
    /\ \A o \in Objects : Kind(o) = "project" => o \in Projects
  BY TrashAssumption DEF Objects, Kind, Kinds, OfKind

LEMMA TaskFacts ==
    /\ \A k \in Kinds : \A n \in FirstPk[k] .. FirstPk[k] + MaxRows[k] - 1 : <<k, n>> \in Tasks
    /\ \A t \in Tasks : t[1] \in Kinds /\ t[2] \in Nat
<1>1. ASSUME NEW k \in Kinds, NEW n \in FirstPk[k] .. FirstPk[k] + MaxRows[k] - 1
      PROVE  <<k, n>> \in Tasks
  BY DEF Tasks
<1>2. ASSUME NEW t \in Tasks PROVE t[1] \in Kinds /\ t[2] \in Nat
  <2>1. PICK k \in Kinds : t \in {k} \X (FirstPk[k] .. FirstPk[k] + MaxRows[k] - 1)
    BY DEF Tasks
  <2>2. FirstPk[k] \in Nat /\ MaxRows[k] \in Nat
    BY TrashAssumption
  <2>3. QED
    BY <2>1, <2>2
<1>3. QED
  BY <1>1, <1>2

LEMMA KeyFacts ==
    ASSUME TypeOK, KeysAreCounted
    PROVE  /\ \A k \in Kinds : next[k] \in Nat /\ FirstPk[k] \in Nat \ {0} /\ MaxRows[k] \in Nat
           /\ \A o \in Objects : InTrash(o) => /\ TaskOf(o) \in Tasks
                                              /\ trash[o] \in Row
                                              /\ trash[o].pk \in Nat /\ trash[o].pk < next[Kind(o)]
<1>1. \A k \in Kinds : next[k] \in Nat /\ FirstPk[k] \in Nat \ {0} /\ MaxRows[k] \in Nat
  BY TrashAssumption DEF TypeOK
<1>2. ASSUME NEW o \in Objects, InTrash(o)
      PROVE  /\ TaskOf(o) \in Tasks /\ trash[o] \in Row
             /\ trash[o].pk \in Nat /\ trash[o].pk < next[Kind(o)]
  <2>1. Kind(o) \in Kinds
    BY ObjectFacts
  <2>2. trash[o] \in Row /\ trash[o].pk \in Nat
    BY <1>2 DEF TypeOK, InTrash, Row
  <2>3. trash[o].pk \in FirstPk[Kind(o)] .. next[Kind(o)] - 1
        /\ next[Kind(o)] \in FirstPk[Kind(o)] .. FirstPk[Kind(o)] + MaxRows[Kind(o)]
    BY <1>2, <2>1 DEF KeysAreCounted
  <2>4. trash[o].pk \in FirstPk[Kind(o)] .. FirstPk[Kind(o)] + MaxRows[Kind(o)] - 1
        /\ trash[o].pk < next[Kind(o)]
    BY <1>1, <2>1, <2>2, <2>3
  <2>5. QED
    BY <2>1, <2>2, <2>4, TaskFacts DEF TaskOf
<1>3. QED
  BY <1>1, <1>2

\* The rows that a step leaves keep their keys.
RowsKept ==
    \A o \in Objects : InTrash(o)' =>
        InTrash(o) /\ trash'[o].pk = trash[o].pk /\ trash'[o].retain = trash[o].retain

LEMMA KeysKept ==
    ASSUME TypeOK, KeysAreCounted, KeysAreUnique, RowsKept, next' = next
    PROVE  /\ \A k \in Kinds : next'[k] \in FirstPk[k] .. FirstPk[k] + MaxRows[k]
           /\ \A o \in Objects : InTrash(o)' => trash'[o].pk \in FirstPk[Kind(o)] .. next'[Kind(o)] - 1
           /\ KeysAreUnique'
           /\ \A t : RowsOf(t)' \subseteq RowsOf(t)
<1>1. \A o \in Objects : InTrash(o)' => TaskOf(o)' = TaskOf(o)
  BY DEF RowsKept, TaskOf
<1>2. KeysAreUnique'
  BY <1>1 DEF KeysAreUnique, RowsKept
<1>3. \A t : RowsOf(t)' \subseteq RowsOf(t)
  BY <1>1 DEF RowsOf, RowsKept
<1>4. QED
  BY <1>2, <1>3 DEF KeysAreCounted, RowsKept

----------------------------------------------------------------------------
(* The tasks that are under way *)

TasksInv ==
    KeysAreCounted /\ KeysAreUnique /\ TasksOwnTheirRows /\ ProjectsAreMarked /\ ProjectsAreLocked

\* The status of what is being emptied is not changed.
MarksKept(tasks) ==
    \A i \in tasks : Emptying(i) => \A o \in RowsOf(i.task) :
        InTrash(o)' => trash'[o].status = trash[o].status

LEMMA TasksStay ==
    ASSUME TrashInv, RowsKept, next' = next, job' \subseteq job, MarksKept(job')
    PROVE  TasksInv'
<1>1. TypeOK /\ KeysAreCounted /\ KeysAreUnique
  BY DEF TrashInv
<1>2. KeysAreUnique' /\ \A t : RowsOf(t)' \subseteq RowsOf(t)
  BY <1>1, KeysKept
<1>3. KeysAreCounted'
  BY <1>1, KeysKept DEF KeysAreCounted
<1>4. TasksOwnTheirRows'
  BY <1>2 DEF TrashInv, TasksOwnTheirRows
<1>5. ProjectsAreMarked'
  BY <1>2 DEF TrashInv, ProjectsAreMarked, MarksKept, Emptying, RowsOf, Status
<1>6. ProjectsAreLocked'
  BY DEF TrashInv, ProjectsAreLocked, Emptying
<1>7. QED
  BY <1>2, <1>3, <1>4, <1>5, <1>6 DEF TasksInv

\* A task goes on, or ends.
LEMMA TaskGoesOn ==
    ASSUME TrashInv, RowsKept, next' = next, MarksKept(job'),
           NEW j \in job, NEW k, k.obj = j.obj, k.task = j.task,
           job' \subseteq (job \ {j}) \cup {k},
           Emptying(k) => Emptying(j),
           k.pc = "schedule" => RowsOf(j.task)' = {}
    PROVE  TasksInv'
<1>1. TypeOK /\ KeysAreCounted /\ KeysAreUnique
  BY DEF TrashInv
<1>2. KeysAreUnique' /\ \A t : RowsOf(t)' \subseteq RowsOf(t)
  BY <1>1, KeysKept
<1>3. KeysAreCounted'
  BY <1>1, KeysKept DEF KeysAreCounted
<1>4. TasksOwnTheirRows'
  BY <1>2 DEF TrashInv, TasksOwnTheirRows
<1>5. ProjectsAreMarked'
  BY <1>2 DEF TrashInv, ProjectsAreMarked, MarksKept, Emptying, RowsOf, Status
<1>6. ProjectsAreLocked'
  BY DEF TrashInv, ProjectsAreLocked, Emptying
<1>7. QED
  BY <1>2, <1>3, <1>4, <1>5, <1>6 DEF TasksInv

\* A task is begun: the row is there, and, of a project, nobody is emptying it.
LEMMA TaskBegins ==
    ASSUME TrashInv, RowsKept, next' = next, MarksKept(job),
           NEW k, NEW o \in Objects, InTrash(o), k.obj = o, k.task = TaskOf(o), k.pc # "schedule",
           job' \subseteq job \cup {k},
           Emptying(k) => trash'[o].status = "in_progress" /\ Status(o) # "in_progress"
    PROVE  TasksInv'
<1>1. TypeOK /\ KeysAreCounted /\ KeysAreUnique
  BY DEF TrashInv
<1>2. KeysAreUnique' /\ \A t : RowsOf(t)' \subseteq RowsOf(t)
  BY <1>1, KeysKept
<1>3. RowsOf(k.task) = {o}
  BY <1>1 DEF KeysAreUnique, RowsOf
<1>4. KeysAreCounted'
  <2>1. k.task = <<Kind(o), trash[o].pk>> /\ k.obj = o
    BY DEF TaskOf
  <2>2. trash[o].pk < next[Kind(o)]
    BY <1>1, KeyFacts
  <2>3. k.task[1] = Kind(k.obj) /\ k.task[2] < next[Kind(k.obj)]
    BY <2>1, <2>2
  <2>4. QED
    BY <1>1, <2>3, KeysKept DEF KeysAreCounted
<1>5. TasksOwnTheirRows'
  BY <1>2, <1>3 DEF TrashInv, TasksOwnTheirRows
<1>6. ProjectsAreMarked'
  BY <1>2, <1>3 DEF TrashInv, ProjectsAreMarked, MarksKept, Emptying, RowsOf, Status
<1>7. ASSUME NEW i \in job, Emptying(i), Emptying(k), i.task = k.task PROVE FALSE
  BY <1>3, <1>7 DEF TrashInv, ProjectsAreMarked
<1>8. ProjectsAreLocked'
  BY <1>7 DEF TrashInv, ProjectsAreLocked, Emptying
<1>9. QED
  BY <1>2, <1>4, <1>5, <1>6, <1>8 DEF TasksInv

----------------------------------------------------------------------------
(* The rows that are PENDING *)

LEMMA PendingInTrash == \A o : Status(o) = "pending" => InTrash(o)
  BY DEF Status, InTrash, NoRow

LEMMA PendingKept ==
    ASSUME PendingIsScheduled, RowsKept,
           \A o \in Objects : trash'[o].status = "pending" => Status(o) = "pending",
           \A o \in Objects : trash'[o].status = "pending" /\ (\E x \in periodic : x.task = TaskOf(o))
             => \E x \in periodic' : x.task = TaskOf(o),
           \A o \in Objects : trash'[o].status = "pending" /\ Around(TaskOf(o)) =>
             \/ TaskOf(o) \in enabled'
             \/ \E m \in queue' : m.task = TaskOf(o)
             \/ \E j \in job' : j.task = TaskOf(o)
    PROVE  PendingIsScheduled'
<1>1. ASSUME NEW o \in Objects, trash'[o].status = "pending"
      PROVE  /\ \E x \in periodic' : x.task = TaskOf(o)'
             /\ \/ Manually(Kind(o), trash'[o].retain)
                \/ TaskOf(o)' \in enabled'
                \/ \E m \in queue' : m.task = TaskOf(o)'
                \/ \E j \in job' : j.task = TaskOf(o)'
  <2>1. TaskOf(o)' = TaskOf(o) /\ trash'[o].retain = trash[o].retain
    BY <1>1 DEF RowsKept, TaskOf, InTrash, NoRow
  <2>2. /\ \E x \in periodic : x.task = TaskOf(o)
        /\ Manually(Kind(o), trash[o].retain) \/ Around(TaskOf(o))
    BY <1>1 DEF PendingIsScheduled, Around
  <2>3. QED
    BY <1>1, <2>1, <2>2
<1>2. QED
  BY <1>1 DEF PendingIsScheduled, Status, Manually, Around


----------------------------------------------------------------------------
(* Requests *)

LEMMA Assemble ==
    ASSUME TypeOK', RequestsAreOfOneKind', TasksInv', PendingIsScheduled' PROVE TrashInv'
  BY DEF TrashInv, TasksInv

LEMMA RequestsStay ==
    ASSUME TrashInv, request' \subseteq request PROVE RequestsAreOfOneKind'
  BY DEF TrashInv, RequestsAreOfOneKind

\* A step that leaves the rows and the tasks alone.
LEMMA RestStays ==
    ASSUME TrashInv, UNCHANGED <<trash, next, beatVars, queue, job>>
    PROVE  TasksInv' /\ PendingIsScheduled'
<1>1. RowsKept /\ MarksKept(job')
  BY DEF RowsKept, MarksKept, InTrash
<1>2. TasksInv'
  BY <1>1, TasksStay
<1>3. PendingIsScheduled'
  BY <1>1, PendingKept DEF TrashInv, Status, Around, beatVars
<1>4. QED
  BY <1>2, <1>3

LEMMA NewRequestKeeps ==
    ASSUME TrashInv, NEW c \in Clients, NEW k \in Kinds, NEW act \in {"delete", "undelete"},
           NEW retain \in BOOLEAN, NEW objs \in (SUBSET OfKind(k)) \ {{}}, Ask(c, k, objs, act, retain)
    PROVE  TrashInv'
<1> DEFINE r == [by |-> c, objs |-> objs, kind |-> k, act |-> act, retain |-> retain,
                 pc |-> IF k = "account" /\ act = "delete" THEN "trash" ELSE "toggle"]
<1>1. r \in Request /\ r.objs \subseteq OfKind(r.kind)
  BY ObjectFacts DEF Request
<1>2. request' = request \cup {r} /\ UNCHANGED <<trash, next, hidden, gone, beatVars, queue, job, doubled>>
  BY DEF Ask
<1> HIDE DEF r
<1>3. TypeOK'
  BY <1>1, <1>2 DEF TrashInv, TypeOK, beatVars
<1>4. RequestsAreOfOneKind'
  BY <1>1, <1>2 DEF TrashInv, RequestsAreOfOneKind
<1>5. QED
  BY <1>2, <1>3, <1>4, RestStays, Assemble

LEMMA RequestMoves ==
    ASSUME TrashInv, NEW r \in request, NEW pc \in {"toggle", "trash"}, At(r, pc) \/ Finish(r)
    PROVE  request' \subseteq Request /\ RequestsAreOfOneKind'
<1>1. r \in Request /\ r.objs \subseteq OfKind(r.kind)
  BY DEF TrashInv, TypeOK, RequestsAreOfOneKind
<1>2. [r EXCEPT !.pc = pc] \in Request /\ [r EXCEPT !.pc = pc].objs = r.objs
      /\ [r EXCEPT !.pc = pc].kind = r.kind
  BY <1>1 DEF Request
<1>3. request' \subseteq request \cup {[r EXCEPT !.pc = pc]}
  BY DEF At, Finish
<1>4. QED
  BY <1>1, <1>2, <1>3 DEF TrashInv, TypeOK, RequestsAreOfOneKind

LEMMA ToggleStatusesKeeps ==
    ASSUME TrashInv, NEW r \in request, ToggleStatuses(r) PROVE TrashInv'
<1>1. request' \subseteq Request /\ RequestsAreOfOneKind'
  BY RequestMoves DEF ToggleStatuses
<1>2. UNCHANGED <<trash, next, gone, beatVars, queue, job, doubled>>
      /\ hidden' \subseteq hidden \cup r.objs
  BY DEF ToggleStatuses
<1>3. r.objs \subseteq Objects
  BY DEF TrashInv, TypeOK, Request
<1>4. TypeOK'
  BY <1>1, <1>2, <1>3 DEF TrashInv, TypeOK, beatVars
<1>5. QED
  BY <1>1, <1>2, <1>4, RestStays, Assemble

\* The targets of a request are finitely many objects of its kind.
LEMMA TargetsFacts ==
    ASSUME TrashInv, NEW r \in request
    PROVE  /\ Targets(r) \subseteq Objects /\ \A o \in Targets(r) : Kind(o) = r.kind
           /\ r.kind \in Kinds /\ r.retain \in BOOLEAN
           /\ Cardinality(Targets(r)) \in Nat
<1>1. r \in Request /\ r.objs \subseteq OfKind(r.kind)
  BY DEF TrashInv, TypeOK, RequestsAreOfOneKind
<1>2. Targets(r) \subseteq r.objs /\ r.kind \in Kinds /\ r.retain \in BOOLEAN
  BY <1>1 DEF Targets, Request
<1>3. IsFiniteSet(Objects)
  BY TrashAssumption, FS_Union DEF Objects
<1>4. Targets(r) \subseteq Objects /\ \A o \in Targets(r) : Kind(o) = r.kind
  BY <1>1, <1>2, ObjectFacts
<1>5. Cardinality(Targets(r)) \in Nat
  BY <1>3, <1>4, FS_Subset, FS_CardinalityType
<1>6. QED
  BY <1>2, <1>4, <1>5

\* New rows have new keys: they are unique, and no task that is under way has them.
LEMMA RowsAreCreated ==
    ASSUME TrashInv, NEW r, NEW objs \in SUBSET Objects, r.kind \in Kinds, r.retain \in BOOLEAN,
           \A o \in objs : Kind(o) = r.kind,
           Cardinality(objs) \in Nat,
           next[r.kind] + Cardinality(objs) <= FirstPk[r.kind] + MaxRows[r.kind],
           NEW pk \in [objs -> next[r.kind] .. next[r.kind] + Cardinality(objs) - 1],
           \A o, q \in objs : pk[o] = pk[q] => o = q,
           CreateRows(r, pk), UNCHANGED <<queue, job, doubled>>,
           request' \subseteq Request, hidden' \subseteq Objects, gone' \subseteq Objects
    PROVE  TypeOK' /\ TasksInv' /\ PendingIsScheduled'
<1> DEFINE new == {[task |-> <<r.kind, pk[o]>>, name |-> <<o, r.retain>>] : o \in DOMAIN pk}
<1>1. TypeOK /\ KeysAreCounted /\ KeysAreUnique
  BY DEF TrashInv
<1>2. /\ \A k \in Kinds : next[k] \in Nat /\ FirstPk[k] \in Nat \ {0} /\ MaxRows[k] \in Nat
      /\ next[r.kind] \in FirstPk[r.kind] .. FirstPk[r.kind] + MaxRows[r.kind]
  BY <1>1, KeyFacts DEF KeysAreCounted
<1>3. \A o \in objs : /\ pk[o] \in Nat \ {0} /\ pk[o] >= next[r.kind]
                     /\ pk[o] \in FirstPk[r.kind] .. next[r.kind] + Cardinality(objs) - 1
                     /\ pk[o] \in FirstPk[r.kind] .. FirstPk[r.kind] + MaxRows[r.kind] - 1
  BY <1>2
<1>4. /\ trash' = [o \in Objects |-> IF o \in objs
                                    THEN [pk |-> pk[o], status |-> "pending", retain |-> r.retain]
                                    ELSE trash[o]]
      /\ next' = [next EXCEPT ![r.kind] = @ + Cardinality(objs)]
      /\ periodic' = periodic \cup new
      /\ enabled' = IF Manually(r.kind, r.retain) THEN enabled ELSE enabled \cup {x.task : x \in new}
  BY DEF CreateRows
<1>5. \A o \in objs : /\ <<r.kind, pk[o]>> \in Tasks
                     /\ [task |-> <<r.kind, pk[o]>>, name |-> <<o, r.retain>>] \in Periodic
                     /\ [pk |-> pk[o], status |-> "pending", retain |-> r.retain] \in Row
  BY <1>3, TaskFacts DEF Periodic, Row, TrashStatuses
<1>6. /\ new \subseteq Periodic
      /\ \A o \in objs : \E x \in new : x.task = <<r.kind, pk[o]>>
  <2>1. new = {[task |-> <<r.kind, pk[o]>>, name |-> <<o, r.retain>>] : o \in objs}
    OBVIOUS
  <2>2. ASSUME NEW o \in objs PROVE \E x \in new : x.task = <<r.kind, pk[o]>>
    <3>1. [task |-> <<r.kind, pk[o]>>, name |-> <<o, r.retain>>] \in new
      BY <2>1
    <3>2. QED
      BY <3>1
  <2>3. new \subseteq Periodic
    BY <1>5, <2>1
  <2>4. QED
    BY <2>2, <2>3
<1> HIDE DEF new
<1>7. TypeOK'
  <2>1. trash' \in [Objects -> Row \cup {NoRow}]
    <3>1. trash \in [Objects -> Row \cup {NoRow}]
      BY <1>1 DEF TypeOK
    <3>2. QED
      BY <1>4, <1>5, <3>1
  <2>2. next' \in [Kinds -> Nat]
    BY <1>1, <1>2, <1>4 DEF TypeOK
  <2>3. periodic' \subseteq Periodic /\ enabled' \subseteq {x.task : x \in periodic'}
    BY <1>1, <1>4, <1>6 DEF TypeOK
  <2>4. QED
    BY <1>1, <2>1, <2>2, <2>3 DEF TypeOK
<1>8. /\ \A k \in Kinds : next'[k] \in FirstPk[k] .. FirstPk[k] + MaxRows[k] /\ next[k] <= next'[k]
      /\ next'[r.kind] = next[r.kind] + Cardinality(objs)
  BY <1>1, <1>2, <1>4 DEF KeysAreCounted, TypeOK
<1>9. \A o \in objs : trash'[o].pk = pk[o] /\ trash'[o].status = "pending" /\ trash'[o].retain = r.retain
                    /\ TaskOf(o)' = <<r.kind, pk[o]>>
  BY <1>4 DEF TaskOf
<1>10. \A o \in Objects \ objs : trash'[o] = trash[o] /\ InTrash(o)' = InTrash(o) /\ TaskOf(o)' = TaskOf(o)
  BY <1>4 DEF TaskOf, InTrash
<1>11. KeysAreCounted'
  <2>1. ASSUME NEW o \in Objects, InTrash(o)'
        PROVE  trash'[o].pk \in FirstPk[Kind(o)] .. next'[Kind(o)] - 1
    <3>1. CASE o \in objs
      <4>1. Kind(o) = r.kind /\ trash'[o].pk = pk[o] /\ next'[Kind(o)] = next[r.kind] + Cardinality(objs)
        BY <1>8, <1>9, <3>1
      <4>2. pk[o] \in FirstPk[r.kind] .. next[r.kind] + Cardinality(objs) - 1
        BY <1>3, <3>1
      <4>3. QED
        BY <1>2, <4>1, <4>2
    <3>2. CASE o \notin objs
      <4>1. Kind(o) \in Kinds
        BY ObjectFacts
      <4>2. trash[o].pk \in FirstPk[Kind(o)] .. next[Kind(o)] - 1 /\ next[Kind(o)] <= next'[Kind(o)]
        BY <1>1, <1>8, <1>10, <2>1, <3>2, <4>1 DEF KeysAreCounted
      <4>3. next'[Kind(o)] \in Nat
        BY <1>7, <4>1 DEF TypeOK
      <4>4. QED
        BY <1>2, <1>10, <3>2, <4>1, <4>2, <4>3
    <3>3. QED
      BY <3>1, <3>2
  <2>2. ASSUME NEW j \in job' PROVE j.task[1] = Kind(j.obj) /\ j.task[2] < next'[Kind(j.obj)]
    <3>1. j \in job /\ j.obj \in Objects /\ j.task[2] \in Nat
      BY <1>1, TaskFacts DEF TypeOK, Job
    <3>2. Kind(j.obj) \in Kinds
      BY <3>1, ObjectFacts
    <3>3. j.task[1] = Kind(j.obj) /\ j.task[2] < next[Kind(j.obj)] /\ next[Kind(j.obj)] <= next'[Kind(j.obj)]
      BY <1>1, <1>8, <3>1, <3>2 DEF KeysAreCounted
    <3>4. next'[Kind(j.obj)] \in Nat /\ next[Kind(j.obj)] \in Nat
      BY <1>1, <1>7, <3>2 DEF TypeOK
    <3>5. QED
      BY <3>1, <3>3, <3>4
  <2>3. QED
    BY <1>8, <2>1, <2>2 DEF KeysAreCounted
\* An old key is not a new one.
<1>12. ASSUME NEW o \in objs, NEW q \in Objects \ objs, InTrash(q) PROVE TaskOf(q) # <<r.kind, pk[o]>>
  <2>1. trash[q].pk \in Nat /\ trash[q].pk < next[Kind(q)]
    BY <1>1, <1>12, KeyFacts
  <2>2. pk[o] \in Nat /\ pk[o] >= next[r.kind] /\ next[r.kind] \in Nat
    BY <1>2, <1>3
  <2>3. Kind(q) = r.kind => trash[q].pk # pk[o]
    BY <2>1, <2>2
  <2>4. QED
    BY <2>3 DEF TaskOf
<1>13. KeysAreUnique'
  <2>1. ASSUME NEW o \in Objects, NEW q \in Objects, InTrash(o)', InTrash(q)', TaskOf(o)' = TaskOf(q)'
        PROVE  o = q
    <3>1. CASE o \in objs /\ q \in objs
      BY <1>9, <2>1, <3>1
    <3>2. CASE o \in objs /\ q \notin objs
      BY <1>9, <1>10, <1>12, <2>1, <3>2
    <3>3. CASE o \notin objs /\ q \in objs
      BY <1>9, <1>10, <1>12, <2>1, <3>3
    <3>4. CASE o \notin objs /\ q \notin objs
      BY <1>1, <1>10, <2>1, <3>4 DEF KeysAreUnique
    <3>5. QED
      BY <3>1, <3>2, <3>3, <3>4
  <2>2. QED
    BY <2>1 DEF KeysAreUnique
<1>14. ASSUME NEW j \in job PROVE RowsOf(j.task)' \subseteq RowsOf(j.task)
  <2>1. j.obj \in Objects /\ j.task[2] \in Nat /\ Kind(j.obj) \in Kinds
    BY <1>1, TaskFacts, ObjectFacts DEF TypeOK, Job
  <2>2. j.task[1] = Kind(j.obj) /\ j.task[2] < next[Kind(j.obj)]
    BY <1>1 DEF KeysAreCounted
  <2>3. ASSUME NEW o \in objs PROVE j.task # <<r.kind, pk[o]>>
    BY <1>2, <1>3, <2>1, <2>2
  <2>4. QED
    BY <1>9, <1>10, <2>3 DEF RowsOf
<1>15. TasksOwnTheirRows' /\ ProjectsAreLocked'
  BY <1>14 DEF TrashInv, TasksOwnTheirRows, ProjectsAreLocked, Emptying
<1>16. ProjectsAreMarked'
  <2>1. ASSUME NEW j \in job, NEW o \in RowsOf(j.task)' PROVE o \in RowsOf(j.task) /\ trash'[o] = trash[o]
    <3>1. j.obj \in Objects /\ j.task[2] \in Nat /\ Kind(j.obj) \in Kinds
      BY <1>1, TaskFacts, ObjectFacts DEF TypeOK, Job
    <3>2. j.task[1] = Kind(j.obj) /\ j.task[2] < next[Kind(j.obj)]
      BY <1>1 DEF KeysAreCounted
    <3>3. o \notin objs
      BY <1>2, <1>3, <1>9, <3>1, <3>2 DEF RowsOf
    <3>4. QED
      BY <1>10, <1>14, <3>3 DEF RowsOf
  <2>2. QED
    BY <2>1 DEF TrashInv, ProjectsAreMarked, Emptying, Status
<1>17. PendingIsScheduled'
  <2>1. ASSUME NEW o \in Objects, trash'[o].status = "pending"
        PROVE  /\ \E x \in periodic' : x.task = TaskOf(o)'
               /\ \/ Manually(Kind(o), trash'[o].retain)
                  \/ TaskOf(o)' \in enabled'
                  \/ \E m \in queue' : m.task = TaskOf(o)'
                  \/ \E j \in job' : j.task = TaskOf(o)'
    <3>1. CASE o \in objs
      <4>1. PICK x \in new : x.task = TaskOf(o)'
        BY <1>6, <1>9, <3>1
      <4>2. QED
        BY <1>4, <1>9, <3>1, <4>1
    <3>2. CASE o \notin objs
      <4>1. Status(o) = "pending" /\ trash'[o] = trash[o] /\ TaskOf(o)' = TaskOf(o)
        BY <1>10, <2>1, <3>2 DEF Status
      <4>2. /\ \E x \in periodic : x.task = TaskOf(o)
            /\ \/ Manually(Kind(o), trash[o].retain)
               \/ TaskOf(o) \in enabled
               \/ \E m \in queue : m.task = TaskOf(o)
               \/ \E j \in job : j.task = TaskOf(o)
        BY <4>1 DEF TrashInv, PendingIsScheduled, Around
      <4>3. QED
        BY <1>4, <4>1, <4>2
    <3>3. QED
      BY <3>1, <3>2
  <2>2. QED
    BY <2>1 DEF PendingIsScheduled, Status, Manually, Around
<1>18. QED
  BY <1>7, <1>11, <1>13, <1>15, <1>16, <1>17 DEF TasksInv

LEMMA MoveToTrashKeeps ==
    ASSUME TrashInv, NEW r \in request, MoveToTrash(r) PROVE TrashInv'
<1> DEFINE objs == Targets(r)
<1>1. request' \subseteq Request /\ RequestsAreOfOneKind'
  BY RequestMoves DEF MoveToTrash
<1>2. UNCHANGED <<hidden, gone, queue, job, doubled>> /\ hidden \subseteq Objects /\ gone \subseteq Objects
  BY DEF MoveToTrash, TrashInv, TypeOK
<1>3. CASE \A o \in objs : Creatable(o, r)
  <2>1. next[r.kind] + Cardinality(objs) <= FirstPk[r.kind] + MaxRows[r.kind]
    BY <1>3 DEF MoveToTrash
  <2>2. PICK pk \in [objs -> next[r.kind] .. next[r.kind] + Cardinality(objs) - 1] :
          /\ \A o, q \in objs : pk[o] = pk[q] => o = q
          /\ CreateRows(r, pk)
    BY <1>3 DEF MoveToTrash
  <2>3. /\ objs \in SUBSET Objects /\ \A o \in objs : Kind(o) = r.kind
        /\ r.kind \in Kinds /\ r.retain \in BOOLEAN /\ Cardinality(objs) \in Nat
    BY TargetsFacts
  <2> HIDE DEF objs
  <2>4. TypeOK' /\ TasksInv' /\ PendingIsScheduled'
    BY <1>1, <1>2, <2>1, <2>2, <2>3, RowsAreCreated
  <2>5. QED
    BY <1>1, <2>4, Assemble
<1>4. CASE ~\A o \in objs : Creatable(o, r)
  <2>1. UNCHANGED <<trash, next, beatVars>>
    BY <1>4 DEF MoveToTrash
  <2>2. TypeOK'
    BY <1>1, <1>2, <2>1 DEF TrashInv, TypeOK, beatVars
  <2>3. QED
    BY <1>1, <1>2, <2>1, <2>2, RestStays, Assemble
<1>5. QED
  BY <1>3, <1>4

LEMMA RemoveOwnAccountKeeps ==
    ASSUME TrashInv, NEW u \in Accounts, RemoveOwnAccount(u) PROVE TrashInv'
<1> DEFINE r == [kind |-> "account", objs |-> {u}, retain |-> TRUE]
           pk == [o \in {u} |-> next["account"]]
<1>1. /\ next["account"] < FirstPk["account"] + MaxRows["account"]
      /\ CreateRows(r, pk) /\ hidden' = hidden \cup {u}
      /\ UNCHANGED <<gone, queue, job, request, doubled>>
  BY DEF RemoveOwnAccount
<1>2. u \in Objects /\ Kind(u) = "account" /\ "account" \in Kinds
  BY ObjectFacts DEF Kinds
<1>3. Cardinality({u}) = 1
  BY FS_Singleton
<1>4. next["account"] \in Nat /\ FirstPk["account"] \in Nat /\ MaxRows["account"] \in Nat
  BY <1>2, KeyFacts DEF TrashInv
<1>5. /\ next["account"] + 1 <= FirstPk["account"] + MaxRows["account"]
      /\ pk \in [{u} -> next["account"] .. next["account"] + 1 - 1]
  BY <1>1, <1>4
<1>6. /\ request' \subseteq Request /\ hidden' \subseteq Objects /\ gone' \subseteq Objects
      /\ RequestsAreOfOneKind'
  BY <1>1, <1>2 DEF TrashInv, TypeOK, RequestsAreOfOneKind
<1>7. r.kind = "account" /\ r.retain = TRUE /\ \A o, q \in {u} : pk[o] = pk[q] => o = q
  OBVIOUS
<1> HIDE DEF r, pk
<1>8. /\ {u} \in SUBSET Objects /\ r.kind \in Kinds /\ r.retain \in BOOLEAN
      /\ \A o \in {u} : Kind(o) = r.kind
      /\ Cardinality({u}) \in Nat
      /\ next[r.kind] + Cardinality({u}) <= FirstPk[r.kind] + MaxRows[r.kind]
      /\ pk \in [{u} -> next[r.kind] .. next[r.kind] + Cardinality({u}) - 1]
  <2>1. /\ {u} \in SUBSET Objects /\ r.kind \in Kinds /\ r.retain \in BOOLEAN
        /\ \A o \in {u} : Kind(o) = r.kind
    BY <1>2, <1>7
  <2>2. Cardinality({u}) \in Nat
    BY <1>3
  <2>3. next[r.kind] + Cardinality({u}) <= FirstPk[r.kind] + MaxRows[r.kind]
    BY <1>3, <1>5, <1>7
  <2>4. pk \in [{u} -> next[r.kind] .. next[r.kind] + Cardinality({u}) - 1]
    BY <1>3, <1>4, <1>5, <1>7
  <2>5. QED
    BY <2>1, <2>2, <2>3, <2>4
<1>9. TypeOK' /\ TasksInv' /\ PendingIsScheduled'
  BY <1>1, <1>6, <1>7, <1>8, RowsAreCreated
<1>10. QED
  BY <1>6, <1>9, Assemble

\* Rows that are deleted.
LEMMA WithoutRows ==
    ASSUME TrashInv, NEW objs \in SUBSET Objects, trash' = Without(objs)
    PROVE  /\ trash' \in [Objects -> Row \cup {NoRow}] /\ RowsKept /\ (\A tasks : MarksKept(tasks))
           /\ \A o \in objs : ~InTrash(o)'
           /\ \A o \in Objects : trash'[o].status = "pending" => Status(o) = "pending"
<1>1. trash' = [o \in Objects |-> IF o \in objs THEN NoRow ELSE trash[o]]
  BY DEF Without
<1>2. \A o \in Objects : trash'[o].status = "pending" => Status(o) = "pending"
  BY <1>1 DEF Status, NoRow
<1>3. trash' \in [Objects -> Row \cup {NoRow}]
  BY <1>1 DEF TrashInv, TypeOK
<1>4. RowsKept
  BY <1>1 DEF RowsKept, InTrash
<1>5. \A tasks : MarksKept(tasks)
  BY <1>1 DEF MarksKept, InTrash, RowsOf
<1>6. \A o \in objs : ~InTrash(o)'
  BY <1>1 DEF InTrash
<1>7. QED
  BY <1>2, <1>3, <1>4, <1>5, <1>6

LEMMA PutBackKeeps ==
    ASSUME TrashInv, NEW r \in request, PutBack(r) PROVE TrashInv'
<1> DEFINE objs == Targets(r)
           tasks == {TaskOf(o) : o \in objs}
<1>1. request' \subseteq Request /\ RequestsAreOfOneKind'
  BY RequestMoves DEF PutBack
<1>2. UNCHANGED <<next, hidden, gone, queue, job, doubled>>
  BY DEF PutBack
<1>3. CASE \A o \in objs : Status(o) = "pending"
  <2>1. /\ trash' = [o \in Objects |-> IF o \in objs THEN NoRow ELSE trash[o]]
        /\ periodic' = {x \in periodic : x.task \notin tasks} /\ enabled' = enabled \ tasks
    BY <1>3 DEF PutBack, Without
  <2>2. RowsKept /\ MarksKept(job')
    BY <1>3, TargetsFacts, WithoutRows DEF PutBack
  <2>3. TasksInv'
    BY <1>2, <2>2, TasksStay
  <2>4. TypeOK'
    <3>1. trash' \in [Objects -> Row \cup {NoRow}]
      BY <2>1 DEF TrashInv, TypeOK
    <3>2. periodic' \subseteq Periodic /\ enabled' \subseteq {x.task : x \in periodic'}
      BY <2>1 DEF TrashInv, TypeOK
    <3>3. QED
      BY <1>1, <1>2, <3>1, <3>2 DEF TrashInv, TypeOK
  <2>5. ASSUME NEW o \in Objects, trash'[o].status = "pending"
        PROVE  Status(o) = "pending" /\ TaskOf(o) \notin tasks
    <3>1. o \notin objs /\ trash'[o] = trash[o]
      BY <2>1, <2>5 DEF NoRow
    <3>2. Status(o) = "pending" /\ InTrash(o)
      BY <2>5, <3>1, PendingInTrash DEF Status
    <3>3. ASSUME NEW q \in objs PROVE TaskOf(q) # TaskOf(o)
      <4>1. q \in Objects /\ InTrash(q)
        BY <1>3, TargetsFacts, PendingInTrash
      <4>2. QED
        BY <3>1, <3>2, <4>1 DEF TrashInv, KeysAreUnique
    <3>4. QED
      BY <3>2, <3>3
  <2>6. PendingIsScheduled'
    BY <1>2, <2>1, <2>2, <2>5, PendingKept DEF TrashInv, Around
  <2>7. QED
    BY <1>1, <2>3, <2>4, <2>6, Assemble
<1>4. CASE ~\A o \in objs : Status(o) = "pending"
  <2>1. UNCHANGED <<trash, beatVars>>
    BY <1>4 DEF PutBack
  <2>2. TypeOK'
    BY <1>1, <1>2, <2>1 DEF TrashInv, TypeOK, beatVars
  <2>3. QED
    BY <1>1, <1>2, <2>1, <2>2, RestStays, Assemble
<1>5. QED
  BY <1>3, <1>4

----------------------------------------------------------------------------
(* Messages *)

LEMMA MessageFacts ==
    /\ \A m \in Messages : m.task \in Tasks /\ m.tries \in 0 .. MaxRetries
    /\ \A t \in Tasks : [task |-> t, tries |-> 0] \in Messages
    /\ \A m \in Messages : AfterError(m).again \subseteq Messages /\ AfterError(m).pc \in {"retry", "fail"}
<1>1. MaxRetries \in Nat
  BY TrashAssumption
<1>2. \A m \in Messages : m.task \in Tasks /\ m.tries \in 0 .. MaxRetries
  BY DEF Messages
<1>3. \A t \in Tasks : [task |-> t, tries |-> 0] \in Messages
  BY <1>1 DEF Messages
<1>4. ASSUME NEW m \in Messages
      PROVE  AfterError(m).again \subseteq Messages /\ AfterError(m).pc \in {"retry", "fail"}
  <2>1. m.tries < MaxRetries => [m EXCEPT !.tries = @ + 1] \in Messages
    BY <1>1 DEF Messages
  <2>2. QED
    BY <2>1 DEF AfterError
<1>5. QED
  BY <1>2, <1>3, <1>4

\* A message that is sent, by celery beat or by an admin.
LEMMA SentKeeps ==
    ASSUME TrashInv, NEW t \in Tasks, queue' = queue \cup {[task |-> t, tries |-> 0]},
           UNCHANGED <<trash, next, hidden, gone, periodic, job, request>>,
           doubled' \subseteq {i \in Tasks : i[1] = "account"},
           enabled' = enabled \/ enabled' = enabled \ {t}
    PROVE  TrashInv'
<1>1. TypeOK'
  BY MessageFacts DEF TrashInv, TypeOK
<1>2. RowsKept /\ MarksKept(job')
  BY DEF RowsKept, MarksKept, InTrash
<1>3. TasksInv'
  BY <1>2, TasksStay
<1>4. \E m \in queue' : m.task = t
  <2>1. [task |-> t, tries |-> 0] \in queue'
    OBVIOUS
  <2>2. QED
    BY <2>1
<1>5. PendingIsScheduled'
  BY <1>2, <1>4, PendingKept DEF TrashInv, Around, Status
<1>6. QED
  BY <1>1, <1>3, <1>5, RequestsStay, Assemble

LEMMA EmptyTrashKeeps == ASSUME TrashInv, NEW o \in Objects, EmptyTrash(o) PROVE TrashInv'
<1>1. TaskOf(o) \in Tasks
  BY KeyFacts DEF EmptyTrash, TrashInv
<1>2. doubled' \subseteq {t \in Tasks : t[1] = "account"}
  BY <1>1, ObjectFacts DEF EmptyTrash, TaskOf, TrashInv, TypeOK
<1>3. QED
  BY <1>1, <1>2, SentKeeps DEF EmptyTrash, beatVars

LEMMA FireTaskKeeps == ASSUME TrashInv, NEW t \in Tasks, FireTask(t) PROVE TrashInv'
  BY SentKeeps DEF FireTask, TrashInv, TypeOK

LEMMA CollectGarbageKeeps == ASSUME TrashInv, CollectGarbage PROVE TrashInv'
<1>1. UNCHANGED <<trash, next, hidden, gone, queue, job, request, doubled>>
  BY DEF CollectGarbage
<1>2. periodic' = periodic \ Orphans /\ enabled' = enabled \ {x.task : x \in Orphans}
  BY DEF CollectGarbage
<1>3. \A x \in periodic : x \in Orphans <=> RowsOf(x.task) = {}
  BY DEF Orphans
<1>4. TypeOK'
  BY <1>1, <1>2, <1>3 DEF TrashInv, TypeOK, Orphans
<1>5. RowsKept /\ MarksKept(job')
  BY <1>1 DEF RowsKept, MarksKept, InTrash
<1>6. TasksInv'
  BY <1>1, <1>5, TasksStay
<1>7. ASSUME NEW o \in Objects, Status(o) = "pending", NEW x \in Orphans PROVE x.task # TaskOf(o)
  <2>1. InTrash(o)
    BY <1>7, PendingInTrash
  <2>2. QED
    BY <2>1 DEF Orphans, RowsOf
<1>8. PendingIsScheduled'
  BY <1>1, <1>2, <1>5, <1>7, PendingKept DEF TrashInv, Around, Status
<1>9. QED
  BY <1>1, <1>4, <1>6, <1>8, RequestsStay, Assemble

----------------------------------------------------------------------------
(* Workers *)

\* A new status other than PENDING makes no row and changes no key.
LEMMA MarkedRows ==
    ASSUME TrashInv, NEW objs \in SUBSET Objects, \A o \in objs : InTrash(o),
           NEW s \in TrashStatuses \ {"pending"}, trash' = WithStatus(objs, s)
    PROVE  /\ trash' \in [Objects -> Row \cup {NoRow}] /\ RowsKept
           /\ \A o \in objs : trash'[o].status = s
           /\ \A o \in Objects \ objs : trash'[o] = trash[o]
           /\ \A o \in Objects : trash'[o].status = "pending" => o \notin objs /\ Status(o) = "pending"
<1>1. trash' = [o \in Objects |-> IF o \in objs THEN [trash[o] EXCEPT !.status = s] ELSE trash[o]]
  BY DEF WithStatus
<1>2. \A o \in Objects : trash[o] \in Row \cup {NoRow}
  BY DEF TrashInv, TypeOK
<1>3. \A o \in objs : trash[o] \in Row
  BY <1>2 DEF InTrash
<1>4. \A o \in objs : /\ [trash[o] EXCEPT !.status = s] \in Row
                     /\ [trash[o] EXCEPT !.status = s].status = s
                     /\ [trash[o] EXCEPT !.status = s].pk = trash[o].pk
                     /\ [trash[o] EXCEPT !.status = s].retain = trash[o].retain
  BY <1>3 DEF Row
<1>5. trash' \in [Objects -> Row \cup {NoRow}]
  BY <1>1, <1>2, <1>4
<1>6. RowsKept
  BY <1>1, <1>4 DEF RowsKept, InTrash
<1>7. QED
  BY <1>1, <1>4, <1>5, <1>6 DEF Status


LEMMA JobFacts ==
    ASSUME TypeOK, NEW j \in job, NEW pc \in {"delete", "schedule", "retry", "fail"}
    PROVE  /\ j \in Job /\ j.obj \in Objects /\ j.task \in Tasks /\ j.tries \in 0 .. MaxRetries
           /\ [j EXCEPT !.pc = pc] \in Job /\ [j EXCEPT !.pc = pc].obj = j.obj
           /\ [j EXCEPT !.pc = pc].task = j.task /\ [j EXCEPT !.pc = pc].pc = pc
  BY DEF TypeOK, Job

\* What is PENDING stays served while every task that was under way still is.
LEMMA StillPending ==
    ASSUME TrashInv, RowsKept, UNCHANGED beatVars,
           \A o \in Objects : trash'[o].status = "pending" => Status(o) = "pending",
           queue \subseteq queue', \A j \in job : \E k \in job' : k.task = j.task
    PROVE  PendingIsScheduled'
<1>1. PendingIsScheduled
  BY DEF TrashInv
<1>2. \A o \in Objects : Around(TaskOf(o)) =>
        \/ TaskOf(o) \in enabled'
        \/ \E m \in queue' : m.task = TaskOf(o)
        \/ \E j \in job' : j.task = TaskOf(o)
  BY DEF Around, beatVars
<1>3. QED
  BY <1>1, <1>2, PendingKept DEF beatVars

LEMMA DropMessageKeeps ==
    ASSUME TrashInv, NEW w \in Workers, NEW m \in Messages, DropMessage(w, m) PROVE TrashInv'
<1>1. queue' = queue \ {m} /\ UNCHANGED <<trash, next, hidden, gone, beatVars, job, request, doubled>>
  BY DEF DropMessage
<1>2. TypeOK'
  BY <1>1 DEF TrashInv, TypeOK, beatVars
<1>3. RowsKept /\ MarksKept(job')
  BY <1>1 DEF RowsKept, MarksKept, InTrash
<1>4. TasksInv'
  BY <1>1, <1>3, TasksStay
<1>5. ASSUME NEW o \in Objects, Status(o) = "pending" PROVE TaskOf(o) # m.task
  BY <1>5, PendingInTrash DEF DropMessage, RowsOf
<1>6. PendingIsScheduled'
  BY <1>1, <1>3, <1>5, PendingKept DEF TrashInv, Around, Status, beatVars
<1>7. QED
  BY <1>1, <1>2, <1>4, <1>6, RequestsStay, Assemble

LEMMA StartEmptyingKeeps ==
    ASSUME TrashInv, NEW w \in Workers, NEW m \in Messages, NEW o \in Objects, StartEmptying(w, m, o)
    PROVE  TrashInv'
<1> DEFINE k == [by |-> w, obj |-> o, task |-> m.task, tries |-> m.tries, pc |-> "delete"]
<1>1. /\ InTrash(o) /\ TaskOf(o) = m.task /\ Status(o) # "in_progress"
      /\ trash' = WithStatus({o}, "in_progress") /\ queue' = queue \ {m} /\ job' = job \cup {k}
      /\ UNCHANGED <<next, hidden, gone, beatVars, request, doubled>>
  BY DEF StartEmptying, RowsOf, Begin
<1>2. k \in Job /\ k.obj = o /\ k.task = TaskOf(o) /\ k.pc = "delete"
  BY <1>1, MessageFacts DEF Job
<1> HIDE DEF k
<1>3. /\ trash' \in [Objects -> Row \cup {NoRow}] /\ RowsKept
      /\ trash'[o].status = "in_progress"
      /\ \A q \in Objects \ {o} : trash'[q] = trash[q]
      /\ \A q \in Objects : trash'[q].status = "pending" => q # o /\ Status(q) = "pending"
  <2> DEFINE objs == {o}
  <2>1. "in_progress" \in TrashStatuses \ {"pending"} /\ objs \in SUBSET Objects
    BY DEF TrashStatuses
  <2>2. \A q \in objs : InTrash(q)
    BY <1>1
  <2>3. trash' = WithStatus(objs, "in_progress")
    BY <1>1
  <2>4. \A q : q \in objs <=> q = o
    OBVIOUS
  <2> HIDE DEF objs
  <2>5. /\ trash' \in [Objects -> Row \cup {NoRow}] /\ RowsKept
        /\ \A q \in objs : trash'[q].status = "in_progress"
        /\ \A q \in Objects \ objs : trash'[q] = trash[q]
        /\ \A q \in Objects : trash'[q].status = "pending" => q \notin objs /\ Status(q) = "pending"
    BY <2>1, <2>2, <2>3, MarkedRows
  <2>6. QED
    BY <2>4, <2>5
<1>4. TypeOK'
  BY <1>1, <1>2, <1>3 DEF TrashInv, TypeOK, beatVars
<1>5. MarksKept(job)
  <2>1. \A i \in job : Emptying(i) => o \notin RowsOf(i.task)
    BY <1>1 DEF TrashInv, ProjectsAreMarked
  <2>2. QED
    BY <1>3, <2>1 DEF MarksKept, RowsOf
<1>6. TasksInv'
  BY <1>1, <1>2, <1>3, <1>5, TaskBegins
<1>7. ASSUME NEW q \in Objects, Status(q) = "pending", q # o PROVE TaskOf(q) # m.task
  BY <1>1, <1>7, PendingInTrash DEF TrashInv, KeysAreUnique
<1>8. PendingIsScheduled'
  BY <1>1, <1>3, <1>7, PendingKept DEF TrashInv, Around, Status, beatVars
<1>9. QED
  BY <1>1, <1>4, <1>6, <1>8, RequestsStay, Assemble

LEMMA PostponeAccountKeeps ==
    ASSUME TrashInv, NEW w \in Workers, NEW m \in Messages, NEW o \in Objects, PostponeAccount(w, m, o)
    PROVE  TrashInv'
<1> DEFINE k == [by |-> w, obj |-> o, task |-> m.task, tries |-> m.tries, pc |-> AfterError(m).pc]
<1>1. /\ InTrash(o) /\ TaskOf(o) = m.task /\ Waits(o)
      /\ queue' = (queue \ {m}) \cup AfterError(m).again /\ job' = job \cup {k}
      /\ UNCHANGED <<trash, next, hidden, gone, beatVars, request, doubled>>
  BY DEF PostponeAccount, RowsOf, Begin
<1>2. k \in Job /\ k.obj = o /\ k.task = TaskOf(o) /\ k.pc # "schedule"
  BY <1>1, MessageFacts DEF Job
<1> HIDE DEF k
<1>3. o \in Accounts /\ o \notin Projects
  BY <1>1, TrashAssumption DEF Waits
<1>4. TypeOK'
  BY <1>1, <1>2, MessageFacts DEF TrashInv, TypeOK, beatVars
<1>5. RowsKept /\ MarksKept(job)
  BY <1>1 DEF RowsKept, MarksKept, InTrash
<1>6. ~Emptying(k)
  BY <1>2, <1>3 DEF Emptying
<1>7. TasksInv'
  BY <1>1, <1>2, <1>5, <1>6, TaskBegins
<1>8. ASSUME NEW q \in Objects, Around(TaskOf(q))
      PROVE  \/ TaskOf(q) \in enabled'
             \/ \E n \in queue' : n.task = TaskOf(q)
             \/ \E j \in job' : j.task = TaskOf(q)
  BY <1>1, <1>2, <1>8 DEF Around, beatVars
<1>9. PendingIsScheduled'
  BY <1>1, <1>5, <1>8, PendingKept DEF TrashInv, Status, beatVars
<1>10. QED
  BY <1>1, <1>4, <1>7, <1>9, RequestsStay, Assemble

LEMMA DeletionKeeps ==
    ASSUME TrashInv, NEW j \in job, NEW o \in Objects, j.pc = "delete",
           trash' = Without({o}), gone' = gone \cup {o},
           \/ o = j.obj /\ GoTo(j, "schedule")
           \/ o # j.obj /\ UNCHANGED job,
           UNCHANGED <<next, hidden, beatVars, queue, request, doubled>>
    PROVE  TrashInv'
<1> DEFINE k == [j EXCEPT !.pc = "schedule"]
<1>1. TypeOK /\ TasksOwnTheirRows
  BY DEF TrashInv
<1>2. k \in Job /\ k.obj = j.obj /\ k.task = j.task /\ k.pc = "schedule"
  BY <1>1, JobFacts
<1>3. GoTo(j, "schedule") => job' = (job \ {j}) \cup {k}
  BY DEF GoTo
<1> HIDE DEF k
<1>4. /\ trash' \in [Objects -> Row \cup {NoRow}] /\ RowsKept /\ (\A tasks : MarksKept(tasks))
      /\ ~InTrash(o)'
      /\ \A q \in Objects : trash'[q].status = "pending" => Status(q) = "pending"
  BY WithoutRows
<1>5. TypeOK'
  BY <1>1, <1>2, <1>3, <1>4 DEF TypeOK, beatVars
<1>6. TasksInv'
  <2>1. CASE o = j.obj /\ GoTo(j, "schedule")
    <3>1. RowsOf(j.task)' = {}
      <4>1. RowsOf(j.task)' \subseteq RowsOf(j.task) /\ \A q \in RowsOf(j.task) : q = o
        BY <1>1, <1>4, <2>1, KeysKept DEF TrashInv, TasksOwnTheirRows
      <4>2. \A q \in RowsOf(j.task)' : InTrash(q)'
        BY DEF RowsOf
      <4>3. QED
        BY <1>4, <4>1, <4>2
    <3>2. ~Emptying(k)
      BY <1>2 DEF Emptying
    <3>3. QED
      BY <1>2, <1>3, <1>4, <2>1, <3>1, <3>2, TaskGoesOn
  <2>2. CASE UNCHANGED job
    BY <1>4, <2>2, TasksStay
  <2>3. QED
    BY <2>1, <2>2
<1>7. PendingIsScheduled'
  <2>1. \A i \in job : \E n \in job' : n.task = i.task
    BY <1>2, <1>3
  <2>2. QED
    BY <1>4, <2>1, StillPending
<1>8. QED
  BY <1>5, <1>6, <1>7, RequestsStay, Assemble

LEMMA DeleteAssetKeeps ==
    ASSUME TrashInv, NEW j \in job, NEW p \in Projects, DeleteAsset(j, p) PROVE TrashInv'
  BY ObjectFacts, DeletionKeeps DEF DeleteAsset

LEMMA DeleteAccountKeeps ==
    ASSUME TrashInv, NEW j \in job, DeleteAccount(j) PROVE TrashInv'
  BY ObjectFacts, DeletionKeeps DEF DeleteAccount

\* The task meets an error: a handler is next, and perhaps a retry.
LEMMA ErrorKeeps ==
    ASSUME TrashInv, NEW j \in job, j.pc = "delete", NEW pc \in {"retry", "fail"}, GoTo(j, pc),
           queue \subseteq queue', queue' \subseteq Messages,
           UNCHANGED <<trash, next, hidden, gone, beatVars, request, doubled>>
    PROVE  TrashInv'
<1> DEFINE k == [j EXCEPT !.pc = pc]
<1>1. k \in Job /\ k.obj = j.obj /\ k.task = j.task /\ k.pc = pc
  BY JobFacts DEF TrashInv
<1>2. job' = (job \ {j}) \cup {k}
  BY DEF GoTo
<1> HIDE DEF k
<1>3. TypeOK'
  BY <1>1, <1>2 DEF TrashInv, TypeOK, beatVars
<1>4. RowsKept /\ MarksKept(job')
  BY DEF RowsKept, MarksKept, InTrash
<1>5. TasksInv'
  BY <1>1, <1>2, <1>4, TaskGoesOn DEF Emptying
<1>6. PendingIsScheduled'
  <2>1. \A i \in job : \E n \in job' : n.task = i.task
    BY <1>1, <1>2
  <2>2. QED
    BY <1>4, <2>1, StillPending DEF Status
<1>7. QED
  BY <1>3, <1>5, <1>6, RequestsStay, Assemble

LEMMA CallFailsKeeps == ASSUME TrashInv, NEW j \in job, CallFails(j) PROVE TrashInv'
<1> DEFINE m == [task |-> j.task, tries |-> j.tries]
<1>1. m \in Messages
  <2>1. j.task \in Tasks /\ j.tries \in 0 .. MaxRetries
    BY JobFacts DEF TrashInv
  <2>2. QED
    BY <2>1 DEF Messages
<1>2. queue \subseteq Messages
  BY DEF TrashInv, TypeOK
<1>3. CASE queue' = queue \cup AfterError(m).again /\ GoTo(j, AfterError(m).pc)
  BY <1>1, <1>2, <1>3, MessageFacts, ErrorKeeps DEF CallFails
<1>4. CASE UNCHANGED queue /\ GoTo(j, "fail")
  BY <1>2, <1>4, ErrorKeeps DEF CallFails
<1>5. QED
  BY <1>3, <1>4 DEF CallFails

LEMMA AssetVanishedKeeps == ASSUME TrashInv, NEW j \in job, AssetVanished(j) PROVE TrashInv'
<1>1. queue \subseteq Messages
  BY DEF TrashInv, TypeOK
<1>2. QED
  BY <1>1, ErrorKeeps DEF AssetVanished

\* A task that ends, after a change of rows other than those of the tasks that go on.
LEMMA EndKeeps ==
    ASSUME TrashInv, NEW j \in job, Leave(j), RowsKept, MarksKept(job'),
           trash' \in [Objects -> Row \cup {NoRow}],
           periodic' \in {periodic, {x \in periodic : x.task # j.task}},
           periodic' = periodic => enabled' = enabled,
           enabled' \in {enabled, enabled \ {j.task}},
           periodic' # periodic => enabled' = enabled \ {j.task},
           \A o \in Objects : trash'[o].status = "pending" => Status(o) = "pending" /\ TaskOf(o) # j.task,
           UNCHANGED <<next, hidden, gone, queue, request, doubled>>
    PROVE  TrashInv'
<1>1. job' = job \ {j}
  BY DEF Leave
<1>2. TypeOK'
  BY <1>1 DEF TrashInv, TypeOK
<1>3. TasksInv'
  BY <1>1, TasksStay
<1>4. PendingIsScheduled'
  BY <1>1, PendingKept DEF TrashInv, Around
<1>5. QED
  BY <1>2, <1>3, <1>4, RequestsStay, Assemble

LEMMA RemoveScheduleKeeps == ASSUME TrashInv, NEW j \in job, RemoveSchedule(j) PROVE TrashInv'
<1>1. /\ periodic' = {x \in periodic : x.task # j.task} /\ enabled' = enabled \ {j.task} /\ Leave(j)
      /\ UNCHANGED <<trash, next, hidden, gone, queue, request, doubled>>
  BY DEF RemoveSchedule
<1>2. RowsKept /\ MarksKept(job') /\ trash' \in [Objects -> Row \cup {NoRow}]
  BY <1>1 DEF RowsKept, MarksKept, InTrash, TrashInv, TypeOK
<1>3. RowsOf(j.task) = {}
  BY DEF RemoveSchedule, TrashInv, TasksOwnTheirRows
<1>4. \A o \in Objects : trash'[o].status = "pending" => Status(o) = "pending" /\ TaskOf(o) # j.task
  BY <1>1, <1>3, PendingInTrash DEF RowsOf, Status
<1>5. periodic' = periodic => enabled' = enabled
  BY <1>1 DEF TrashInv, TypeOK
<1>6. QED
  BY <1>1, <1>2, <1>4, <1>5, EndKeeps

LEMMA HandleRetryKeeps == ASSUME TrashInv, NEW j \in job, HandleRetry(j) PROVE TrashInv'
<1> DEFINE rows == RowsOf(<<"account", j.task[2]>>)
<1>1. /\ j.pc = "retry" /\ trash' = WithStatus(rows, "retry") /\ Leave(j)
      /\ UNCHANGED <<next, hidden, gone, beatVars, queue, request, doubled>>
  BY DEF HandleRetry
<1>2. rows \in SUBSET Objects /\ \A o \in rows : InTrash(o) /\ Kind(o) = "account"
  BY DEF RowsOf, TaskOf
<1>3. "retry" \in TrashStatuses \ {"pending"}
  BY DEF TrashStatuses
<1>4. /\ trash' \in [Objects -> Row \cup {NoRow}] /\ RowsKept
      /\ \A o \in Objects \ rows : trash'[o] = trash[o]
      /\ \A o \in Objects : trash'[o].status = "pending" => o \notin rows /\ Status(o) = "pending"
  BY <1>1, <1>2, <1>3, MarkedRows
<1>5. ASSUME NEW i \in job, Emptying(i), NEW o \in RowsOf(i.task) PROVE o \in Objects /\ o \notin rows
  <2>1. i.task[1] = Kind(i.obj) /\ Kind(i.obj) = "project"
    BY <1>5, ObjectFacts DEF TrashInv, KeysAreCounted, Emptying
  <2>2. o \in Objects /\ Kind(o) = "project"
    BY <2>1 DEF RowsOf, TaskOf
  <2>3. QED
    BY <1>2, <2>2
<1>6. MarksKept(job')
  BY <1>1, <1>4, <1>5 DEF MarksKept, Leave
<1>7. ASSUME NEW o \in Objects, Status(o) = "pending", o \notin rows PROVE TaskOf(o) # j.task
  <2> SUFFICES ASSUME TaskOf(o) = j.task PROVE FALSE
    OBVIOUS
  <2>1. o \in RowsOf(j.task) /\ InTrash(o)
    BY <1>7, PendingInTrash DEF RowsOf
  <2>2. Kind(o) = Kind(j.obj) /\ trash[o].pk = j.task[2] /\ j.obj \in Objects
    <3>1. j.task = <<Kind(o), trash[o].pk>>
      BY DEF TaskOf
    <3>2. j.task[1] = Kind(o) /\ j.task[2] = trash[o].pk
      BY <3>1
    <3>3. j.task[1] = Kind(j.obj)
      BY DEF TrashInv, KeysAreCounted
    <3>4. j.obj \in Objects
      BY DEF TrashInv, TypeOK, Job
    <3>5. QED
      BY <3>2, <3>3, <3>4
  <2>3. CASE j.obj \in Accounts
    <3>1. TaskOf(o) = <<"account", j.task[2]>>
      BY <2>2, <2>3, ObjectFacts DEF TaskOf
    <3>2. QED
      BY <1>7, <2>1, <3>1 DEF RowsOf
  <2>4. CASE j.obj \in Projects
    BY <1>1, <1>7, <2>1, <2>4 DEF TrashInv, ProjectsAreMarked, Emptying
  <2>5. QED
    BY <2>2, <2>3, <2>4 DEF Objects
<1> HIDE DEF rows
<1>8. QED
  BY <1>1, <1>4, <1>6, <1>7, EndKeeps DEF beatVars

LEMMA HandleFailureKeeps == ASSUME TrashInv, NEW j \in job, HandleFailure(j) PROVE TrashInv'
<1> DEFINE rows == RowsOf(j.task)
<1>1. /\ j.pc = "fail" /\ trash' = WithStatus(rows, "failed") /\ Leave(j)
      /\ UNCHANGED <<next, hidden, gone, beatVars, queue, request, doubled>>
  BY DEF HandleFailure
<1>2. rows \in SUBSET Objects /\ \A o \in rows : InTrash(o)
  BY DEF RowsOf
<1>3. "failed" \in TrashStatuses \ {"pending"}
  BY DEF TrashStatuses
<1>4. /\ trash' \in [Objects -> Row \cup {NoRow}] /\ RowsKept
      /\ \A o \in Objects \ rows : trash'[o] = trash[o]
      /\ \A o \in Objects : trash'[o].status = "pending" => o \notin rows /\ Status(o) = "pending"
  BY <1>1, <1>2, <1>3, MarkedRows
<1>5. ASSUME NEW i \in job \ {j}, Emptying(i), NEW o \in RowsOf(i.task) PROVE o \in Objects /\ o \notin rows
  <2>1. i.task[1] = Kind(i.obj) /\ Kind(i.obj) = "project"
    BY <1>5, ObjectFacts DEF TrashInv, KeysAreCounted, Emptying
  <2>2. ASSUME o \in rows PROVE FALSE
    <3>1. i.task = j.task
      BY <2>2 DEF RowsOf
    <3>2. j.obj \in Objects /\ Kind(j.obj) = "project"
      BY <2>1, <3>1, JobFacts DEF TrashInv, KeysAreCounted
    <3>3. Emptying(j)
      BY <1>1, <3>2, ObjectFacts DEF Emptying
    <3>4. QED
      BY <1>5, <3>1, <3>3 DEF TrashInv, ProjectsAreLocked
  <2>3. QED
    BY <2>2 DEF RowsOf
<1>6. MarksKept(job')
  BY <1>1, <1>4, <1>5 DEF MarksKept, Leave
<1>7. ASSUME NEW o \in Objects, Status(o) = "pending", o \notin rows PROVE TaskOf(o) # j.task
  BY <1>7, PendingInTrash DEF RowsOf
<1> HIDE DEF rows
<1>8. QED
  BY <1>1, <1>4, <1>6, <1>7, EndKeeps DEF beatVars

----------------------------------------------------------------------------
(* The theorems *)

LEMMA InitTrash == Init => TrashInv
<1> SUFFICES ASSUME Init PROVE TrashInv
  OBVIOUS
<1>1. \A o \in Objects : ~InTrash(o) /\ Status(o) # "pending"
  BY DEF Init, InTrash, Status, NoRow
<1>2. \A k \in Kinds : FirstPk[k] \in Nat /\ MaxRows[k] \in Nat
  BY TrashAssumption
<1>3. TypeOK
  BY TrashAssumption DEF Init, TypeOK
<1>4. KeysAreCounted
  BY <1>1, <1>2 DEF Init, KeysAreCounted
<1>5. QED
  BY <1>1, <1>3, <1>4
     DEF Init, TrashInv, RequestsAreOfOneKind, KeysAreUnique, TasksOwnTheirRows, ProjectsAreMarked,
         ProjectsAreLocked, PendingIsScheduled

LEMMA NextTrash == TrashInv /\ [Next]_vars => TrashInv'
<1> SUFFICES ASSUME TrashInv, [Next]_vars PROVE TrashInv'
  OBVIOUS
<1>1. ASSUME NEW c \in Clients, NewRequest(c) PROVE TrashInv'
  BY <1>1, NewRequestKeeps DEF NewRequest
<1>2. ASSUME NEW r \in request, RequestStep(r) PROVE TrashInv'
  BY <1>2, ToggleStatusesKeeps, MoveToTrashKeeps, PutBackKeeps DEF RequestStep
<1>3. ASSUME NEW u \in Accounts, RemoveOwnAccount(u) PROVE TrashInv'
  BY <1>3, RemoveOwnAccountKeeps
<1>4. ASSUME NEW o \in Objects, EmptyTrash(o) PROVE TrashInv'
  BY <1>4, EmptyTrashKeeps
<1>5. ASSUME NEW w \in Workers, NEW m \in Messages, TakeStep(w, m) PROVE TrashInv'
  BY <1>5, DropMessageKeeps, StartEmptyingKeeps, PostponeAccountKeeps DEF TakeStep
<1>6. ASSUME NEW j \in job, TaskStep(j) \/ CallFails(j) PROVE TrashInv'
  BY <1>6, DeleteAssetKeeps, DeleteAccountKeeps, AssetVanishedKeeps, RemoveScheduleKeeps,
     HandleRetryKeeps, HandleFailureKeeps, CallFailsKeeps DEF TaskStep
<1>7. ASSUME NEW t \in Tasks, FireTask(t) PROVE TrashInv'
  BY <1>7, FireTaskKeeps
<1>8. CASE CollectGarbage
  BY <1>8, CollectGarbageKeeps
<1>9. CASE UNCHANGED vars
  <2>1. UNCHANGED <<trash, next, hidden, gone, beatVars, queue, job, request, doubled>>
    BY <1>9 DEF vars
  <2>2. TypeOK'
    BY <2>1 DEF TrashInv, TypeOK, beatVars
  <2>3. QED
    BY <2>1, <2>2, RestStays, RequestsStay, Assemble
<1>10. QED
  BY <1>1, <1>2, <1>3, <1>4, <1>5, <1>6, <1>7, <1>8, <1>9 DEF Next

\* The variables of TrashBin keep their types.
THEOREM TrashTypeCorrect == Spec => []TypeOK
<1>1. TrashInv => TypeOK
  BY DEF TrashInv
<1>2. QED
  BY <1>1, InitTrash, NextTrash, PTL DEF Spec

\* Whatever requests, workers, failing calls and the garbage collector do, a row that
\* is PENDING has its periodic task, and something that will run it.
THEOREM PendingStaysScheduled == Spec => []PendingIsScheduled
<1>1. TrashInv => PendingIsScheduled
  BY DEF TrashInv
<1>2. QED
  BY <1>1, InitTrash, NextTrash, PTL DEF Spec

\* However often the task of a project is sent or retried, one worker at a time
\* empties it.
THEOREM ProjectsHaveOneWorker == Spec => []OneWorkerPerProject
<1>1. TrashInv => OneWorkerPerProject
  <2> SUFFICES ASSUME TrashInv, NEW j \in job, NEW k \in job,
                      j.task = k.task, j.obj \in Projects, j.pc = "delete", k.pc = "delete"
               PROVE  j = k
    BY DEF OneWorkerPerProject
  <2>1. k.obj \in Objects /\ Kind(k.obj) = "project"
    <3>1. k.obj \in Objects /\ j.obj \in Objects
      BY DEF TrashInv, TypeOK, Job
    <3>2. Kind(k.obj) = k.task[1] /\ Kind(j.obj) = j.task[1]
      BY DEF TrashInv, KeysAreCounted
    <3>3. Kind(j.obj) = "project"
      BY ObjectFacts
    <3>4. QED
      BY <3>1, <3>2, <3>3
  <2>2. Emptying(j) /\ Emptying(k)
    BY <2>1, ObjectFacts DEF Emptying
  <2>3. QED
    BY <2>2 DEF TrashInv, ProjectsAreLocked
<1>2. QED
  BY <1>1, InitTrash, NextTrash, PTL DEF Spec

----------------------------------------------------------------------------
(* What is deleted was in the trash *)

Alone(t) == t[1] = "account" /\ t \notin doubled

\* The task of an account that no admin has sent again is in one place at a time:
\* with celery beat, in a message, or with a worker; a message that is sent again
\* waits for the handler of the worker that sent it.
InOnePlace ==
    /\ \A j, k \in job : Alone(j.task) /\ j.task = k.task => j = k
    /\ \A m, n \in queue : Alone(m.task) /\ m.task = n.task => m = n
    /\ \A j \in job, m \in queue : Alone(j.task) /\ m.task = j.task => j.pc = "retry"
    /\ \A t \in enabled : Alone(t) =>
         (\A j \in job : j.task # t) /\ (\A m \in queue : m.task # t)

\* Messages and enabled tasks are of rows that there have been.
SentKeysAreCounted ==
    /\ \A m \in queue : m.task[2] < next[m.task[1]]
    /\ \A t \in enabled : t[2] < next[t[1]]

\* Whose task was doubled, or who has nothing left to delete.
Excused(j) == j.task \in doubled \/ {j.obj} \cup Owned(j.obj) \subseteq gone

\* What is being deleted otherwise has its row, past PENDING.
Holds(j) ==
    \/ Excused(j)
    \/ /\ InTrash(j.obj) /\ TaskOf(j.obj) = j.task
       /\ Status(j.obj) \in {"in_progress", "retry"}
RowsAreHeld == \A j \in job : j.pc = "delete" => Holds(j)

DeletionInv == TrashInv /\ InOnePlace /\ SentKeysAreCounted /\ RowsAreHeld

LEMMA PlacesShrink ==
    ASSUME InOnePlace, SentKeysAreCounted, next' = next,
           enabled' \subseteq enabled, queue' \subseteq queue, job' \subseteq job, doubled' = doubled
    PROVE  InOnePlace' /\ SentKeysAreCounted'
  BY DEF InOnePlace, SentKeysAreCounted, Alone

\* A row that is held is not PENDING and not FAILED, so nothing replaces it.
LEMMA HoldsStays ==
    ASSUME NEW j, Holds(j), gone \subseteq gone', doubled \subseteq doubled',
           Excused(j) \/ trash'[j.obj] = trash[j.obj]
    PROVE  Holds(j)'
  BY DEF Holds, Excused, Owned, InTrash, TaskOf, Status

LEMMA HeldStay ==
    ASSUME DeletionInv, gone \subseteq gone', doubled \subseteq doubled', job' \subseteq job,
           \A o \in Objects : Status(o) \in {"in_progress", "retry"} => trash'[o] = trash[o]
    PROVE  RowsAreHeld'
<1>1. ASSUME NEW j \in job', j.pc = "delete" PROVE Holds(j)'
  <2>1. j \in job /\ Holds(j) /\ j.obj \in Objects
    BY <1>1 DEF DeletionInv, RowsAreHeld, TrashInv, TypeOK, Job
  <2>2. Excused(j) \/ trash'[j.obj] = trash[j.obj]
    BY <2>1 DEF Holds
  <2>3. QED
    BY <2>1, <2>2, HoldsStays
<1>2. QED
  BY <1>1 DEF RowsAreHeld

\* A step that takes nothing on and leaves the rows that are held.
LEMMA NothingIsTaken ==
    ASSUME DeletionInv, TrashInv', gone \subseteq gone', next' = next, doubled' = doubled,
           enabled' \subseteq enabled, queue' \subseteq queue, job' \subseteq job,
           \A o \in Objects : Status(o) \in {"in_progress", "retry"} => trash'[o] = trash[o]
    PROVE  DeletionInv'
  BY PlacesShrink, HeldStay DEF DeletionInv

\* New rows have new tasks, and are of what has no row or one that may be superseded.
LEMMA CreationHolds ==
    ASSUME DeletionInv, TrashInv', NEW r, NEW objs \in SUBSET Objects, r.kind \in Kinds,
           Cardinality(objs) \in Nat,
           NEW pk \in [objs -> next[r.kind] .. next[r.kind] + Cardinality(objs) - 1],
           CreateRows(r, pk), UNCHANGED <<gone, queue, job, doubled>>,
           \A o \in objs : Creatable(o, r)
    PROVE  DeletionInv'
<1>1. /\ trash' = [o \in Objects |->
                     IF o \in objs THEN [pk |-> pk[o], status |-> "pending", retain |-> r.retain]
                     ELSE trash[o]]
      /\ next' = [next EXCEPT ![r.kind] = @ + Cardinality(objs)]
      /\ enabled' \subseteq enabled \cup {<<r.kind, pk[o]>> : o \in objs}
  BY DEF CreateRows
<1>2. TypeOK /\ KeysAreCounted /\ \A k \in Kinds : next[k] \in Nat
  BY KeyFacts DEF DeletionInv, TrashInv
<1>3. \A k \in Kinds : next'[k] \in Nat /\ next[k] <= next'[k]
  BY <1>1, <1>2 DEF TypeOK
<1>4. \A o \in objs : pk[o] \in Nat /\ next[r.kind] <= pk[o] /\ pk[o] < next'[r.kind]
  BY <1>1, <1>2 DEF TypeOK
<1>5. \A m \in queue : m.task \in Tasks
  BY <1>2, MessageFacts DEF TypeOK
<1>6. \A t \in enabled : t \in Tasks
  BY <1>2 DEF TypeOK, Periodic
<1>7. SentKeysAreCounted'
  <2>1. ASSUME NEW t \in Tasks, t[2] < next[t[1]] PROVE t[2] < next'[t[1]]
    BY <1>2, <1>3, <2>1, TaskFacts
  <2>2. ASSUME NEW t \in enabled' PROVE t[2] < next'[t[1]]
    <3>1. CASE t \in enabled
      BY <1>6, <2>1, <3>1 DEF DeletionInv, SentKeysAreCounted
    <3>2. CASE t \notin enabled
      BY <1>1, <1>4, <3>2
    <3>3. QED
      BY <3>1, <3>2
  <2>3. QED
    BY <1>5, <2>1, <2>2 DEF DeletionInv, SentKeysAreCounted
<1>8. ASSUME NEW o \in objs
      PROVE  /\ \A j \in job : j.task # <<r.kind, pk[o]>>
             /\ \A m \in queue : m.task # <<r.kind, pk[o]>>
  <2>1. pk[o] \in Nat /\ next[r.kind] \in Nat /\ ~(pk[o] < next[r.kind])
    BY <1>2, <1>4
  <2>2. ASSUME NEW j \in job PROVE j.task # <<r.kind, pk[o]>>
    <3>1. j.task[2] < next[j.task[1]]
      BY <1>2 DEF KeysAreCounted
    <3>2. QED
      BY <2>1, <3>1
  <2>3. ASSUME NEW m \in queue PROVE m.task # <<r.kind, pk[o]>>
    <3>1. m.task[2] < next[m.task[1]]
      BY DEF DeletionInv, SentKeysAreCounted
    <3>2. QED
      BY <2>1, <3>1
  <2>4. QED
    BY <2>2, <2>3
<1>9. InOnePlace'
  BY <1>1, <1>8 DEF DeletionInv, InOnePlace, Alone
<1>10. \A o \in Objects : Status(o) \in {"in_progress", "retry"} => trash'[o] = trash[o]
  <2>1. ASSUME NEW o \in objs PROVE Status(o) \notin {"in_progress", "retry"}
    BY DEF Creatable, Superseded, InTrash, Status, NoRow
  <2>2. QED
    BY <1>1, <2>1
<1>11. RowsAreHeld'
  BY <1>10, HeldStay
<1>12. QED
  BY <1>7, <1>9, <1>11 DEF DeletionInv

LEMMA MoveToTrashHolds ==
    ASSUME DeletionInv, NEW r \in request, MoveToTrash(r) PROVE DeletionInv'
<1> DEFINE objs == Targets(r)
<1>1. TrashInv /\ TrashInv' /\ UNCHANGED <<gone, queue, job, doubled>>
  BY MoveToTrashKeeps DEF DeletionInv, MoveToTrash
<1>2. CASE \A o \in objs : Creatable(o, r)
  <2>1. PICK pk \in [objs -> next[r.kind] .. next[r.kind] + Cardinality(objs) - 1] : CreateRows(r, pk)
    BY <1>2 DEF MoveToTrash
  <2>2. objs \in SUBSET Objects /\ r.kind \in Kinds /\ Cardinality(objs) \in Nat
    BY <1>1, TargetsFacts
  <2> HIDE DEF objs
  <2>3. QED
    BY <1>1, <1>2, <2>1, <2>2, CreationHolds
<1>3. CASE ~\A o \in objs : Creatable(o, r)
  <2>1. UNCHANGED <<trash, next, beatVars>>
    BY <1>3 DEF MoveToTrash
  <2>2. QED
    BY <1>1, <2>1, NothingIsTaken DEF beatVars
<1>4. QED
  BY <1>2, <1>3

LEMMA RemoveOwnAccountHolds ==
    ASSUME DeletionInv, NEW u \in Accounts, RemoveOwnAccount(u) PROVE DeletionInv'
<1> DEFINE r == [kind |-> "account", objs |-> {u}, retain |-> TRUE]
           pk == [o \in {u} |-> next["account"]]
           objs == {u}
<1>1. TrashInv /\ TrashInv' /\ CreateRows(r, pk) /\ Creatable(u, r) /\ UNCHANGED <<gone, queue, job, doubled>>
  BY RemoveOwnAccountKeeps DEF DeletionInv, RemoveOwnAccount
<1>2. u \in Objects /\ "account" \in Kinds /\ next["account"] \in Nat /\ Cardinality(objs) = 1
  BY <1>1, ObjectFacts, KeyFacts, FS_Singleton DEF Kinds, TrashInv
<1>3. pk \in [objs -> next["account"] .. next["account"] + 1 - 1] /\ r.kind = "account"
  BY <1>2
<1> HIDE DEF r, pk
<1>4. objs \in SUBSET Objects /\ Cardinality(objs) \in Nat /\ r.kind \in Kinds /\ \A o \in objs : Creatable(o, r)
  BY <1>1, <1>2, <1>3
<1> HIDE DEF objs
<1>5. pk \in [objs -> next[r.kind] .. next[r.kind] + Cardinality(objs) - 1]
  BY <1>2, <1>3
<1>6. QED
  BY <1>1, <1>4, <1>5, CreationHolds

LEMMA RequestHolds ==
    ASSUME DeletionInv, TrashInv', \/ \E c \in Clients : NewRequest(c)
                                   \/ \E r \in request : ToggleStatuses(r) \/ PutBack(r)
    PROVE  DeletionInv'
<1>1. UNCHANGED <<gone, next, queue, job, doubled>> /\ enabled' \subseteq enabled
  BY DEF NewRequest, Ask, ToggleStatuses, PutBack, beatVars
<1>2. \A o \in Objects : Status(o) \in {"in_progress", "retry"} => trash'[o] = trash[o]
  <2>1. CASE UNCHANGED trash
    BY <2>1
  <2>2. ASSUME NEW r \in request, PutBack(r), trash' # trash
        PROVE  \A o \in Objects : Status(o) \in {"in_progress", "retry"} => trash'[o] = trash[o]
    BY <2>2 DEF PutBack, Without
  <2>3. QED
    BY <2>1, <2>2 DEF NewRequest, Ask, ToggleStatuses
<1>3. QED
  BY <1>1, <1>2, NothingIsTaken

\* Messages that are sent: one by hand is the only one, or its task is doubled.
LEMMA EmptyTrashHolds ==
    ASSUME DeletionInv, NEW o \in Objects, EmptyTrash(o) PROVE DeletionInv'
<1> DEFINE m == [task |-> TaskOf(o), tries |-> 0]
<1>1. /\ TrashInv /\ TrashInv' /\ InTrash(o) /\ queue' = queue \cup {m}
      /\ doubled' = IF o \in Accounts /\ Around(TaskOf(o)) THEN doubled \cup {TaskOf(o)} ELSE doubled
      /\ UNCHANGED <<trash, next, hidden, gone, beatVars, job, request>>
  BY EmptyTrashKeeps DEF DeletionInv, EmptyTrash
<1>2. m.task = TaskOf(o) /\ m.task[1] = Kind(o) /\ m.task[2] = trash[o].pk /\ trash[o].pk < next[Kind(o)]
  BY <1>1, KeyFacts DEF TrashInv, TaskOf
<1> HIDE DEF m
<1>3. ASSUME NEW t, t = m.task, Alone(t)' PROVE ~Around(t)
  <2>1. t = TaskOf(o) /\ t[1] = "account" /\ t \notin doubled'
    BY <1>2, <1>3 DEF Alone
  <2>2. o \in Accounts
    BY <1>2, <1>3, <2>1 DEF Kind
  <2>3. ~Around(TaskOf(o))
    BY <1>1, <2>1, <2>2
  <2>4. QED
    BY <2>1, <2>3
<1>4. \A t : Alone(t)' => Alone(t)
  BY <1>1 DEF Alone
<1>5. InOnePlace'
  <2>1. \A j \in job : Alone(j.task)' => j.task # m.task
    BY <1>3 DEF Around
  <2>2. \A t \in enabled : Alone(t)' => t # m.task
    BY <1>3 DEF Around
  <2>3. \A n \in queue : Alone(n.task)' => n.task # m.task
    BY <1>3 DEF Around
  <2>4. QED
    BY <1>1, <1>4, <2>1, <2>2, <2>3 DEF DeletionInv, InOnePlace, beatVars
<1>6. SentKeysAreCounted'
  BY <1>1, <1>2 DEF DeletionInv, SentKeysAreCounted, beatVars
<1>7. RowsAreHeld'
  BY <1>1, HeldStay
<1>8. QED
  BY <1>1, <1>5, <1>6, <1>7 DEF DeletionInv

LEMMA FireTaskHolds == ASSUME DeletionInv, NEW t \in Tasks, FireTask(t) PROVE DeletionInv'
<1> DEFINE m == [task |-> t, tries |-> 0]
<1>1. TrashInv' /\ t \in enabled /\ queue' = queue \cup {m} /\ enabled' = enabled \ {t}
      /\ UNCHANGED <<trash, next, hidden, gone, periodic, job, request, doubled>>
  BY FireTaskKeeps DEF DeletionInv, FireTask
<1>2. m.task = t
  OBVIOUS
<1> HIDE DEF m
<1>3. InOnePlace'
  BY <1>1, <1>2 DEF DeletionInv, InOnePlace, Alone
<1>4. SentKeysAreCounted'
  BY <1>1, <1>2 DEF DeletionInv, SentKeysAreCounted
<1>5. RowsAreHeld'
  BY <1>1, HeldStay
<1>6. QED
  BY <1>1, <1>3, <1>4, <1>5 DEF DeletionInv

LEMMA CollectGarbageHolds == ASSUME DeletionInv, CollectGarbage PROVE DeletionInv'
  BY CollectGarbageKeeps, NothingIsTaken DEF DeletionInv, CollectGarbage

\* Messages that are taken.
LEMMA DropMessageHolds ==
    ASSUME DeletionInv, NEW w \in Workers, NEW m \in Messages, DropMessage(w, m) PROVE DeletionInv'
  BY DropMessageKeeps, NothingIsTaken DEF DeletionInv, DropMessage, beatVars

\* Whoever takes the message of an account's task is the only one.
LEMMA TakenOnce ==
    ASSUME InOnePlace, NEW w, NEW m, Take(w, m), Alone(m.task)
    PROVE  /\ \A j \in job : j.task # m.task
           /\ \A n \in queue \ {m} : n.task # m.task
           /\ m.task \notin enabled
  BY DEF InOnePlace, Take

LEMMA StartEmptyingHolds ==
    ASSUME DeletionInv, NEW w \in Workers, NEW m \in Messages, NEW o \in Objects, StartEmptying(w, m, o)
    PROVE  DeletionInv'
<1> DEFINE k == [by |-> w, obj |-> o, task |-> m.task, tries |-> m.tries, pc |-> "delete"]
<1>1. /\ TrashInv /\ TrashInv' /\ Take(w, m) /\ InTrash(o) /\ TaskOf(o) = m.task
      /\ trash' = WithStatus({o}, "in_progress") /\ queue' = queue \ {m} /\ job' = job \cup {k}
      /\ UNCHANGED <<next, hidden, gone, beatVars, request, doubled>>
  BY StartEmptyingKeeps DEF StartEmptying, RowsOf, Begin, DeletionInv
<1>2. k.obj = o /\ k.task = m.task /\ k.pc = "delete"
  OBVIOUS
<1> HIDE DEF k
<1>3. InOnePlace'
  <2>1. Alone(m.task) => /\ \A j \in job : j.task # m.task
                         /\ \A n \in queue \ {m} : n.task # m.task
                         /\ m.task \notin enabled
    BY <1>1, TakenOnce DEF DeletionInv
  <2>2. QED
    BY <1>1, <1>2, <2>1 DEF DeletionInv, InOnePlace, beatVars, Alone
<1>4. SentKeysAreCounted'
  BY <1>1 DEF DeletionInv, SentKeysAreCounted, beatVars
<1>5. /\ \A q \in Objects : q # o => trash'[q] = trash[q]
      /\ trash'[o].pk = trash[o].pk /\ trash'[o].status = "in_progress"
  <2>1. trash[o] \in Row
    BY <1>1 DEF TrashInv, TypeOK, InTrash
  <2>2. QED
    BY <1>1, <2>1 DEF WithStatus, Row
<1>6. InTrash(o)' /\ TaskOf(o)' = TaskOf(o) /\ Status(o)' = "in_progress"
  BY <1>5 DEF InTrash, TaskOf, Status, NoRow
<1>7. ASSUME NEW j \in job', j.pc = "delete" PROVE Holds(j)'
  <2>1. CASE j = k
    BY <1>1, <1>2, <1>6, <2>1 DEF Holds
  <2>2. CASE j # k
    <3>1. j \in job /\ Holds(j) /\ j.obj \in Objects
      BY <1>1, <1>7, <2>2 DEF DeletionInv, RowsAreHeld, TrashInv, TypeOK, Job
    <3>2. CASE j.obj # o
      BY <1>1, <1>5, <3>1, <3>2, HoldsStays
    <3>3. CASE j.obj = o
      BY <1>1, <1>6, <3>1, <3>3 DEF Holds, Excused, Owned
    <3>4. QED
      BY <3>2, <3>3
  <2>3. QED
    BY <2>1, <2>2
<1>8. QED
  BY <1>1, <1>3, <1>4, <1>7 DEF DeletionInv, RowsAreHeld

LEMMA PostponeAccountHolds ==
    ASSUME DeletionInv, NEW w \in Workers, NEW m \in Messages, NEW o \in Objects, PostponeAccount(w, m, o)
    PROVE  DeletionInv'
<1> DEFINE e == AfterError(m)
           k == [by |-> w, obj |-> o, task |-> m.task, tries |-> m.tries, pc |-> e.pc]
<1>1. /\ TrashInv' /\ Take(w, m) /\ queue' = (queue \ {m}) \cup e.again /\ job' = job \cup {k}
      /\ UNCHANGED <<trash, next, hidden, gone, beatVars, request, doubled>>
  BY PostponeAccountKeeps DEF PostponeAccount, Begin, DeletionInv
<1>2. /\ k.task = m.task /\ k.pc = e.pc /\ e.pc \in {"retry", "fail"}
      /\ \A n \in e.again : n.task = m.task /\ e.pc = "retry"
      /\ \A n, i \in e.again : n = i
  BY DEF AfterError, Messages
<1> HIDE DEF k, e
<1>3. InOnePlace'
  <2>1. Alone(m.task) => /\ \A j \in job : j.task # m.task
                         /\ \A n \in queue \ {m} : n.task # m.task
                         /\ m.task \notin enabled
    BY <1>1, TakenOnce DEF DeletionInv
  <2>2. QED
    BY <1>1, <1>2, <2>1 DEF DeletionInv, InOnePlace, beatVars, Alone
<1>4. SentKeysAreCounted'
  <2>1. m.task[2] < next[m.task[1]]
    BY <1>1 DEF DeletionInv, SentKeysAreCounted, Take
  <2>2. QED
    BY <1>1, <1>2, <2>1 DEF DeletionInv, SentKeysAreCounted, beatVars
<1>5. RowsAreHeld'
  <2>1. \A j \in job' : j.pc = "delete" => j \in job /\ Holds(j)
    BY <1>1, <1>2 DEF DeletionInv, RowsAreHeld
  <2>2. QED
    BY <1>1, <2>1, HoldsStays DEF RowsAreHeld
<1>6. QED
  BY <1>1, <1>3, <1>4, <1>5 DEF DeletionInv

----------------------------------------------------------------------------
(* Workers *)

\* A task that goes on: only an error sends its message again.
LEMMA OneGoesOn ==
    ASSUME DeletionInv, NEW j \in job, j.pc = "delete", NEW k, k.task = j.task, NEW again,
           \A n \in again : n.task = j.task /\ k.pc = "retry",
           \A n, i \in again : n = i,
           job' = (job \ {j}) \cup {k}, queue' = queue \cup again, UNCHANGED <<enabled, next, doubled>>
    PROVE  InOnePlace' /\ SentKeysAreCounted'
<1>1. Alone(j.task) => /\ \A i \in job : i.task = j.task => i = j
                       /\ \A n \in queue : n.task # j.task
                       /\ j.task \notin enabled
  BY DEF DeletionInv, InOnePlace
<1>2. InOnePlace'
  BY <1>1 DEF DeletionInv, InOnePlace, Alone
<1>3. j.task[2] < next[j.task[1]]
  BY DEF DeletionInv, TrashInv, KeysAreCounted
<1>4. QED
  BY <1>2, <1>3 DEF DeletionInv, SentKeysAreCounted

LEMMA DeleteAssetHolds ==
    ASSUME DeletionInv, NEW j \in job, NEW p \in Projects, DeleteAsset(j, p) PROVE DeletionInv'
<1> DEFINE k == [j EXCEPT !.pc = "schedule"]
<1>1. /\ TrashInv /\ TrashInv' /\ j.pc = "delete" /\ gone' = gone \cup {p} /\ trash' = Without({p})
      /\ job' = job \/ job' = (job \ {j}) \cup {k}
      /\ UNCHANGED <<next, hidden, beatVars, queue, request, doubled>>
  BY DeleteAssetKeeps DEF DeletionInv, DeleteAsset, GoTo
<1>2. k.task = j.task /\ k.pc = "schedule"
  BY <1>1, JobFacts DEF TrashInv
<1> HIDE DEF k
<1>3. InOnePlace' /\ SentKeysAreCounted'
  <2>1. CASE job' = job
    BY <1>1, <2>1, PlacesShrink DEF DeletionInv, beatVars
  <2>2. CASE job' = (job \ {j}) \cup {k}
    <3> DEFINE again == {}
    <3>1. queue' = queue \cup again /\ \A n, i \in again : n = i
      BY <1>1
    <3>2. \A n \in again : n.task = j.task /\ k.pc = "retry"
      OBVIOUS
    <3> HIDE DEF again
    <3>3. QED
      BY <1>1, <1>2, <2>2, <3>1, <3>2, OneGoesOn DEF beatVars
  <2>3. QED
    BY <1>1, <2>1, <2>2
<1>4. ASSUME NEW i \in job', i.pc = "delete" PROVE Holds(i)'
  <2>1. i \in job /\ Holds(i) /\ i.obj \in Objects
    BY <1>1, <1>2, <1>4 DEF DeletionInv, RowsAreHeld, TrashInv, TypeOK, Job
  <2>2. CASE i.obj = p
    <3>1. Owned(p) = {}
      BY TrashAssumption DEF Owned
    <3>2. QED
      BY <1>1, <2>2, <3>1 DEF Holds, Excused, Owned
  <2>3. CASE i.obj # p
    BY <1>1, <2>1, <2>3, HoldsStays DEF Without
  <2>4. QED
    BY <2>2, <2>3
<1>5. QED
  BY <1>1, <1>3, <1>4 DEF DeletionInv, RowsAreHeld

LEMMA DeleteAccountHolds == ASSUME DeletionInv, NEW j \in job, DeleteAccount(j) PROVE DeletionInv'
<1> DEFINE k == [j EXCEPT !.pc = "schedule"]
           again == {}
<1>1. /\ TrashInv /\ TrashInv' /\ j.pc = "delete" /\ j.obj \in Accounts /\ Owned(j.obj) \subseteq gone
      /\ gone' = gone \cup {j.obj} /\ trash' = Without({j.obj})
      /\ job' = (job \ {j}) \cup {k}
      /\ UNCHANGED <<next, hidden, beatVars, queue, request, doubled>>
  BY DeleteAccountKeeps DEF DeletionInv, DeleteAccount, GoTo
<1>2. k.task = j.task /\ k.pc = "schedule"
  BY <1>1, JobFacts DEF TrashInv
<1>3. /\ queue' = queue \cup again /\ \A n, i \in again : n = i
      /\ \A n \in again : n.task = j.task /\ k.pc = "retry"
  BY <1>1
<1> HIDE DEF k, again
<1>4. InOnePlace' /\ SentKeysAreCounted'
  BY <1>1, <1>2, <1>3, OneGoesOn DEF beatVars
<1>5. ASSUME NEW i \in job', i.pc = "delete" PROVE Holds(i)'
  <2>1. i \in job /\ i # j /\ Holds(i) /\ i.obj \in Objects
    BY <1>1, <1>2, <1>5 DEF DeletionInv, RowsAreHeld, TrashInv, TypeOK, Job
  <2>2. CASE i.obj = j.obj
    BY <1>1, <2>2 DEF Holds, Excused, Owned
  <2>3. CASE i.obj # j.obj
    BY <1>1, <2>1, <2>3, HoldsStays DEF Without
  <2>4. QED
    BY <2>2, <2>3
<1>6. QED
  BY <1>1, <1>4, <1>5 DEF DeletionInv, RowsAreHeld

LEMMA ErrorHolds ==
    ASSUME DeletionInv, TrashInv', NEW j \in job, j.pc = "delete", NEW pc \in {"retry", "fail"},
           GoTo(j, pc), NEW again, queue' = queue \cup again,
           \A n \in again : n.task = j.task /\ pc = "retry",
           \A n, i \in again : n = i,
           UNCHANGED <<trash, next, hidden, gone, beatVars, request, doubled>>
    PROVE  DeletionInv'
<1> DEFINE k == [j EXCEPT !.pc = pc]
<1>1. job' = (job \ {j}) \cup {k} /\ k.task = j.task /\ k.pc = pc
  BY JobFacts DEF DeletionInv, TrashInv, GoTo
<1> HIDE DEF k
<1>2. InOnePlace' /\ SentKeysAreCounted'
  BY <1>1, OneGoesOn DEF beatVars
<1>3. RowsAreHeld'
  <2>1. \A i \in job' : i.pc = "delete" => i \in job /\ Holds(i)
    BY <1>1 DEF DeletionInv, RowsAreHeld
  <2>2. QED
    BY <2>1, HoldsStays DEF RowsAreHeld
<1>4. QED
  BY <1>2, <1>3 DEF DeletionInv

LEMMA CallFailsHolds == ASSUME DeletionInv, NEW j \in job, CallFails(j) PROVE DeletionInv'
<1> DEFINE m == [task |-> j.task, tries |-> j.tries]
           e == AfterError(m)
<1>1. TrashInv' /\ j.pc = "delete" /\ UNCHANGED <<trash, next, hidden, gone, beatVars, request, doubled>>
      /\ \/ queue' = queue \cup e.again /\ GoTo(j, e.pc)
         \/ UNCHANGED queue /\ GoTo(j, "fail")
  BY CallFailsKeeps DEF DeletionInv, CallFails
<1>2. /\ e.pc \in {"retry", "fail"} /\ \A n \in e.again : n.task = j.task /\ e.pc = "retry"
      /\ \A n, i \in e.again : n = i
  BY DEF AfterError
<1> HIDE DEF e
<1>3. CASE queue' = queue \cup e.again /\ GoTo(j, e.pc)
  BY <1>1, <1>2, <1>3, ErrorHolds
<1>4. CASE UNCHANGED queue /\ GoTo(j, "fail")
  <2> DEFINE none == {}
  <2>1. queue' = queue \cup none /\ \A n, i \in none : n = i
    BY <1>4
  <2>2. \A n \in none : n.task = j.task /\ "fail" = "retry"
    OBVIOUS
  <2> HIDE DEF none
  <2>3. QED
    BY <1>1, <1>4, <2>1, <2>2, ErrorHolds
<1>5. QED
  BY <1>1, <1>3, <1>4

LEMMA AssetVanishedHolds == ASSUME DeletionInv, NEW j \in job, AssetVanished(j) PROVE DeletionInv'
<1> DEFINE none == {}
<1>1. queue' = queue \cup none /\ (\A n, i \in none : n = i) /\ j.pc = "delete" /\ GoTo(j, "fail")
      /\ UNCHANGED <<trash, next, hidden, gone, beatVars, request, doubled>> /\ TrashInv'
  BY AssetVanishedKeeps DEF AssetVanished, DeletionInv
<1>2. \A n \in none : n.task = j.task /\ "fail" = "retry"
  OBVIOUS
<1> HIDE DEF none
<1>3. QED
  BY <1>1, <1>2, ErrorHolds

LEMMA RemoveScheduleHolds == ASSUME DeletionInv, NEW j \in job, RemoveSchedule(j) PROVE DeletionInv'
<1>1. TrashInv' /\ enabled' \subseteq enabled /\ job' \subseteq job
      /\ UNCHANGED <<trash, next, hidden, gone, queue, request, doubled>>
  BY RemoveScheduleKeeps DEF DeletionInv, RemoveSchedule, Leave
<1>2. QED
  BY <1>1, NothingIsTaken

\* The handlers change rows of tasks that delete nothing, or from IN PROGRESS to RETRY.
LEMMA HandlerHolds ==
    ASSUME DeletionInv, TrashInv', NEW j \in job, NEW rows \in SUBSET Objects, NEW s,
           \A o \in rows : InTrash(o), trash' = WithStatus(rows, s), Leave(j),
           \A i \in job' : i.pc = "delete" /\ i.obj \in rows =>
             s = "retry" \/ Excused(i),
           UNCHANGED <<next, hidden, gone, beatVars, queue, request, doubled>>
    PROVE  DeletionInv'
<1>1. job' \subseteq job /\ TypeOK
  BY DEF Leave, DeletionInv, TrashInv
<1>2. InOnePlace' /\ SentKeysAreCounted'
  BY <1>1, PlacesShrink DEF DeletionInv, beatVars
<1>3. \A o \in Objects \ rows : trash'[o] = trash[o]
  BY DEF WithStatus
<1>4. ASSUME NEW o \in rows, s = "retry" PROVE InTrash(o)' /\ TaskOf(o)' = TaskOf(o) /\ Status(o)' = "retry"
  <2>1. trash[o] \in Row
    BY <1>1 DEF TypeOK, InTrash
  <2>2. trash'[o].pk = trash[o].pk /\ trash'[o].status = "retry"
    BY <1>4, <2>1 DEF WithStatus, Row
  <2>3. QED
    BY <2>2 DEF InTrash, TaskOf, Status, NoRow
<1>5. ASSUME NEW i \in job', i.pc = "delete" PROVE Holds(i)'
  <2>1. i \in job /\ Holds(i) /\ i.obj \in Objects
    BY <1>1, <1>5 DEF DeletionInv, RowsAreHeld, TypeOK, Job
  <2>2. CASE i.obj \in rows
    BY <1>4, <1>5, <2>1, <2>2 DEF Holds, Excused, Owned
  <2>3. CASE i.obj \notin rows
    BY <1>3, <2>1, <2>3, HoldsStays
  <2>4. QED
    BY <2>2, <2>3
<1>6. QED
  BY <1>2, <1>5 DEF DeletionInv, RowsAreHeld

LEMMA HandleRetryHolds == ASSUME DeletionInv, NEW j \in job, HandleRetry(j) PROVE DeletionInv'
<1> DEFINE rows == RowsOf(<<"account", j.task[2]>>)
<1>1. TrashInv' /\ trash' = WithStatus(rows, "retry") /\ Leave(j)
      /\ UNCHANGED <<next, hidden, gone, beatVars, queue, request, doubled>>
  BY HandleRetryKeeps DEF DeletionInv, HandleRetry
<1>2. rows \in SUBSET Objects /\ \A o \in rows : InTrash(o)
  BY DEF RowsOf
<1> HIDE DEF rows
<1> DEFINE s == "retry"
<1>3. trash' = WithStatus(rows, s)
      /\ \A i \in job' : i.pc = "delete" /\ i.obj \in rows =>
           s = "retry" \/ Excused(i)
  BY <1>1
<1> HIDE DEF s
<1>4. QED
  BY <1>1, <1>2, <1>3, HandlerHolds

LEMMA HandleFailureHolds == ASSUME DeletionInv, NEW j \in job, HandleFailure(j) PROVE DeletionInv'
<1> DEFINE rows == RowsOf(j.task)
<1>1. TrashInv /\ TrashInv' /\ trash' = WithStatus(rows, "failed") /\ Leave(j) /\ j.pc = "fail"
      /\ UNCHANGED <<next, hidden, gone, beatVars, queue, request, doubled>>
  BY HandleFailureKeeps DEF DeletionInv, HandleFailure
<1>2. rows \in SUBSET Objects /\ \A o \in rows : InTrash(o) /\ TaskOf(o) = j.task
  BY DEF RowsOf
<1>3. ASSUME NEW i \in job', i.pc = "delete", i.obj \in rows
      PROVE  Excused(i)
  <2>1. i \in job /\ i # j /\ Holds(i) /\ i.obj \in Objects /\ TaskOf(i.obj) = j.task
    BY <1>1, <1>2, <1>3 DEF Leave, DeletionInv, RowsAreHeld
  <2>2. CASE i.obj \in Accounts
    <3>1. CASE i.task = j.task
      <4>1. j.task[1] = "account"
        BY <2>1, <2>2, ObjectFacts DEF TaskOf
      <4>2. QED
        BY <2>1, <3>1, <4>1 DEF DeletionInv, InOnePlace, Alone, Excused
    <3>2. CASE i.task # j.task
      BY <2>1, <3>2 DEF Holds
    <3>3. QED
      BY <3>1, <3>2
  <2>3. CASE i.obj \in Projects
    <3>1. j.obj = i.obj
      BY <1>1, <1>3 DEF TrashInv, TasksOwnTheirRows
    <3>2. Emptying(j)
      BY <1>1, <2>3, <3>1 DEF Emptying
    <3>3. CASE i.task = j.task
      <4>1. Emptying(i)
        BY <1>3, <2>3 DEF Emptying
      <4>2. QED
        BY <1>1, <2>1, <3>2, <3>3, <4>1 DEF TrashInv, ProjectsAreLocked
    <3>4. CASE i.task # j.task
      BY <2>1, <2>3, <3>4 DEF Holds
    <3>5. QED
      BY <3>3, <3>4
  <2>4. QED
    BY <2>1, <2>2, <2>3 DEF Objects
<1>4. \A i \in job' : i.pc = "delete" /\ i.obj \in rows => Excused(i)
  BY <1>3
<1>5. rows \in SUBSET Objects /\ \A o \in rows : InTrash(o)
  BY <1>2
<1> HIDE DEF rows
<1>6. QED
  BY <1>1, <1>4, <1>5, HandlerHolds

LEMMA InitDeletion == Init => DeletionInv
  BY InitTrash DEF Init, DeletionInv, InOnePlace, SentKeysAreCounted, RowsAreHeld

LEMMA NextDeletion ==
    ASSUME DeletionInv, [Next]_vars PROVE DeletionInv'
<1>1. TrashInv /\ TrashInv'
  BY NextTrash DEF DeletionInv
<1>2. ASSUME \/ \E c \in Clients : NewRequest(c)
             \/ \E r \in request : RequestStep(r)
             \/ \E u \in Accounts : RemoveOwnAccount(u)
      PROVE  DeletionInv'
  BY <1>1, <1>2, RequestHolds, MoveToTrashHolds, RemoveOwnAccountHolds DEF RequestStep
<1>3. ASSUME NEW o \in Objects, EmptyTrash(o) PROVE DeletionInv'
  BY <1>3, EmptyTrashHolds
<1>4. ASSUME NEW w \in Workers, NEW m \in Messages, TakeStep(w, m) PROVE DeletionInv'
  BY <1>4, DropMessageHolds, StartEmptyingHolds, PostponeAccountHolds DEF TakeStep
<1>5. ASSUME NEW j \in job, TaskStep(j) \/ CallFails(j) PROVE DeletionInv'
  BY <1>5, DeleteAssetHolds, DeleteAccountHolds, AssetVanishedHolds, RemoveScheduleHolds,
     HandleRetryHolds, HandleFailureHolds, CallFailsHolds DEF TaskStep
<1>6. ASSUME NEW t \in Tasks, FireTask(t) PROVE DeletionInv'
  BY <1>6, FireTaskHolds
<1>7. CASE CollectGarbage
  BY <1>7, CollectGarbageHolds
<1>8. CASE UNCHANGED vars
  BY <1>1, <1>8, NothingIsTaken DEF vars, beatVars
<1>9. QED
  BY <1>2, <1>3, <1>4, <1>5, <1>6, <1>7, <1>8 DEF Next

LEMMA DeletionsAreOfTrash ==
    ASSUME DeletionInv, Next, NEW o \in gone' \ gone
    PROVE  \/ \E q \in {o} \cup {u \in Accounts : o \in Owned(u)} :
                Status(q) \in {"in_progress", "retry", "failed"}
           \/ \E j \in job : j.pc = "delete" /\ j.task \in doubled /\ o \in {j.obj} \cup Owned(j.obj)
<1>1. PICK j \in job : (\E p \in Projects : DeleteAsset(j, p)) \/ DeleteAccount(j)
  BY DEF Next, NewRequest, Ask, RequestStep, ToggleStatuses, MoveToTrash, PutBack, RemoveOwnAccount,
         EmptyTrash, TakeStep, DropMessage, StartEmptying, PostponeAccount, TaskStep, AssetVanished,
         RemoveSchedule, HandleRetry, HandleFailure, CallFails, FireTask, CollectGarbage
<1>2. j.pc = "delete" /\ Holds(j) /\ j.obj \in Objects
  BY <1>1 DEF DeleteAsset, DeleteAccount, DeletionInv, RowsAreHeld, TrashInv, TypeOK, Job
<1>3. o = j.obj \/ (o \in Projects /\ o \in Owned(j.obj))
  <2>1. ASSUME NEW p \in Projects, DeleteAsset(j, p) PROVE o = p /\ (p = j.obj \/ p \in Owned(j.obj))
    BY <2>1 DEF DeleteAsset
  <2>2. ASSUME DeleteAccount(j) PROVE o = j.obj
    BY <2>2 DEF DeleteAccount
  <2>3. QED
    BY <1>1, <2>1, <2>2
<1>4. CASE j.task \in doubled
  BY <1>2, <1>3, <1>4
<1>5. CASE {j.obj} \cup Owned(j.obj) \subseteq gone
  BY <1>3, <1>5
<1>6. CASE Status(j.obj) \in {"in_progress", "retry"}
  <2>1. o # j.obj => j.obj \in Accounts
    BY <1>2, <1>3, TrashAssumption DEF Owned, Objects
  <2>2. j.obj \in {o} \cup {u \in Accounts : o \in Owned(u)}
    BY <1>3, <2>1
  <2>3. QED
    BY <1>6, <2>2
<1>7. QED
  BY <1>2, <1>4, <1>5, <1>6 DEF Holds, Excused

\* Whatever is deleted for good has a row past PENDING at that moment, its own or its
\* owner's: `put_back` and a total deletion, which take only PENDING and FAILED rows,
\* never race with a deletion.  The exception is by name the task of an account that
\* an admin has sent although it was with celery beat, in a message or at work.
THEOREM DeletedWhileInTrash == Spec => DeletedFromTrashOnly
<1>1. ASSUME DeletionInv, [Next]_vars
      PROVE  [\A o \in gone' \ gone :
                \/ \E q \in {o} \cup {u \in Accounts : o \in Owned(u)} :
                     Status(q) \in {"in_progress", "retry", "failed"}
                \/ \E j \in job : j.pc = "delete" /\ j.task \in doubled /\ o \in {j.obj} \cup Owned(j.obj)]_vars
  BY <1>1, DeletionsAreOfTrash
<1>2. DeletionInv /\ [Next]_vars => DeletionInv'
  BY NextDeletion
<1>3. QED
  BY <1>1, <1>2, InitDeletion, PTL DEF Spec, DeletedFromTrashOnly
=============================================================================
