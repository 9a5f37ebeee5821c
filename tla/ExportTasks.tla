---------------------------- MODULE ExportTasks ----------------------------
(***************************************************************************)
(* The asynchronous exports of one form by one user.  Each export is a row *)
(* and a celery task; besides its own work a task marks the exports that   *)
(* are stuck and removes those in excess, which it loads first and writes  *)
(* or deletes later, with no lock ("FIXME: use `select_for_update`").      *)
(***************************************************************************)
EXTENDS Naturals, FiniteSets, Functions

CONSTANTS
    MaxExports,    \* MAXIMUM_EXPORTS_PER_USER_PER_FORM
    MaxMade,       \* bound: the exports that are requested
    MaxRemovals    \* bound: the requests to delete one, or the project

ASSUME ExportsAssumption ==
    MaxExports \in Nat \ {0} /\ MaxMade \in Nat /\ MaxRemovals \in Nat

VARIABLES
    made,        \* how many exports have been requested: 1, 2, ... in that order
    aged,        \* 1 .. aged have exceeded the age an export may have
    rows,        \* the rows of the exports that have one
    files,       \* the exports whose file is in the storage
    run,         \* run[e]: where the task of e is, and the rows it has loaded
    remover,     \* the same for the request that deletes
    removals,    \* how many of these there have been
    stuck,       \* history: the exports housekeeping has found stuck
    doomed,      \* history: those that have been listed for removal
    killed       \* history: those whose task was killed, or never queued

exportVars == <<made, aged, rows, files, run, remover, removals, stuck, doomed, killed>>

Exports == 1 .. MaxMade
ExportStatuses == {"created", "processing", "complete", "error"}
ExportRow == [status: ExportStatuses, result: BOOLEAN]
Copies == [e: Exports, row: ExportRow]
RunPlaces == {"none", "waiting", "fetched", "list_stuck", "mark_stuck", "write", "store",
              "list_excess", "erase", "drop", "complete", "fail", "done"}

ExportsTypeOK ==
    /\ made \in 0 .. MaxMade
    /\ aged \in 0 .. made
    /\ DOMAIN rows \subseteq 1 .. made
    /\ rows \in [DOMAIN rows -> ExportRow]
    /\ files \subseteq 1 .. made
    /\ run \in [Exports -> [pc: RunPlaces, held: SUBSET Copies]]
    /\ remover \in [pc: {"none", "erase", "drop"}, held: SUBSET Copies]
    /\ removals \in Nat
    /\ stuck \subseteq 1 .. made /\ doomed \subseteq 1 .. made /\ killed \subseteq 1 .. made

ExportsInit ==
    /\ made = 0 /\ aged = 0 /\ removals = 0
    /\ rows = << >>
    /\ files = {}
    /\ run = [e \in Exports |-> [pc |-> "none", held |-> {}]]
    /\ remover = [pc |-> "none", held |-> {}]
    /\ stuck = {} /\ doomed = {} /\ killed = {}

----------------------------------------------------------------------------
Exists(e) == e \in DOMAIN rows
Loaded(es) == {[e |-> e, row |-> rows[e]] : e \in es}
Named(held) == {x.e : x \in held}
\* `export.delete()` removes the file the loaded copy knows of.
Known(held) == {x.e : x \in {x \in held : x.row.result}}
Go(e, pc) == run' = [run EXCEPT ![e] = [pc |-> pc, held |-> {}]]
Hold(e, pc, held) == run' = [run EXCEPT ![e] = [pc |-> pc, held |-> held]]
SetStatus(e, status) ==
    rows' = IF Exists(e) THEN [rows EXCEPT ![e].status = status] ELSE rows
Without(es) == Restrict(rows, DOMAIN rows \ es)

\* Mutant: the age of an unfinished export is not looked at.
AreStuckAtAnyAge(es) == {e \in es : rows[e].status \notin {"complete", "error"}}

\* `log_and_mark_stuck_as_errored` selects.
AreStuck(es) == {e \in es : e <= aged /\ rows[e].status \notin {"complete", "error"}}

\* Mutant: only finished exports count against the limit.
AreExcessFinished(es) ==
    {e \in es : Cardinality({f \in es : f > e /\ rows[f].status = "complete"}) >= MaxExports}

\* `remove_excess` selects: all but the newest, whatever their status.
AreExcess(es) == {e \in es : Cardinality({f \in es : f > e}) >= MaxExports}

\* The row and then the message: the broker may be away.
RequestExport ==
    LET e == made + 1
    IN  /\ made < MaxMade
        /\ made' = e
        /\ rows' = [x \in DOMAIN rows \cup {e} |->
                      IF x = e THEN [status |-> "created", result |-> FALSE] ELSE rows[x]]
        /\ \E queued \in BOOLEAN :
             /\ Go(e, IF queued THEN "waiting" ELSE "done")
             /\ killed' = IF queued THEN killed ELSE killed \cup {e}
        /\ UNCHANGED <<aged, files, remover, removals, stuck, doomed>>

----------------------------------------------------------------------------
(* The task: `run` *)

\* The row is fetched again: only a CREATED export is executed ...
Refetch(e) ==
    /\ run[e].pc = "waiting"
    /\ Go(e, IF Exists(e) /\ rows[e].status = "created" THEN "fetched" ELSE "done")
    /\ UNCHANGED <<made, aged, rows, files, remover, removals, stuck, doomed, killed>>

\* ... and flagged PROCESSING, without a lock since.
Begin(e) ==
    /\ run[e].pc = "fetched"
    /\ SetStatus(e, "processing")
    /\ Go(e, IF Exists(e) THEN "list_stuck" ELSE "done")
    /\ UNCHANGED <<made, aged, files, remover, removals, stuck, doomed, killed>>

ListStuck(e) ==
    LET found == AreStuck(DOMAIN rows)
    IN  /\ run[e].pc = "list_stuck"
        /\ Hold(e, "mark_stuck", Loaded(found))
        /\ stuck' = stuck \cup found
        /\ UNCHANGED <<made, aged, rows, files, remover, removals, doomed, killed>>

\* Each is saved as a whole: a row that has gone since is inserted again.
MarkStuck(e) ==
    LET held == run[e].held
        saved(x) == (CHOOSE c \in held : c.e = x).row
    IN  /\ run[e].pc = "mark_stuck"
        /\ rows' = [x \in DOMAIN rows \cup Named(held) |->
                      IF x \in Named(held) THEN [saved(x) EXCEPT !.status = "error"]
                      ELSE rows[x]]
        /\ Go(e, "write")
        /\ UNCHANGED <<made, aged, files, remover, removals, stuck, doomed, killed>>

\* The file is generated under a new name.
Write(e) ==
    /\ run[e].pc = "write"
    /\ \/ Go(e, "store") /\ files' = files \cup {e}
       \/ Go(e, "fail") /\ UNCHANGED files
    /\ UNCHANGED <<made, aged, rows, remover, removals, stuck, doomed, killed>>

\* Mutant: the result is only assigned, and the last save writes the status.
StoreNothing(e) ==
    /\ run[e].pc = "store"
    /\ Go(e, IF Exists(e) THEN "list_excess" ELSE "fail")
    /\ UNCHANGED <<made, aged, rows, files, remover, removals, stuck, doomed, killed>>

\* `save(update_fields=['result', ...])`, which fails without a row.
Store(e) ==
    /\ run[e].pc = "store"
    /\ rows' = IF Exists(e) THEN [rows EXCEPT ![e].result = TRUE] ELSE rows
    /\ Go(e, IF Exists(e) THEN "list_excess" ELSE "fail")
    /\ UNCHANGED <<made, aged, files, remover, removals, stuck, doomed, killed>>

ListExcess(e) ==
    LET found == AreExcess(DOMAIN rows)
    IN  /\ run[e].pc = "list_excess"
        /\ Hold(e, "erase", Loaded(found))
        /\ doomed' = doomed \cup found
        /\ UNCHANGED <<made, aged, rows, files, remover, removals, stuck, killed>>

\* The files go at once, the rows when the transaction commits; the storage may
\* fail in between.
EraseExcess(e) ==
    /\ run[e].pc = "erase"
    /\ \/ /\ files' = files \ Known(run[e].held)
          /\ Hold(e, "drop", run[e].held)
       \/ \E gone \in SUBSET Known(run[e].held) :
            /\ files' = files \ gone
            /\ Go(e, "fail")
    /\ UNCHANGED <<made, aged, rows, remover, removals, stuck, doomed, killed>>

DropExcess(e) ==
    /\ run[e].pc = "drop"
    /\ rows' = Without(Named(run[e].held))
    /\ Go(e, "complete")
    /\ UNCHANGED <<made, aged, files, remover, removals, stuck, doomed, killed>>

\* Mutant: the exception of a failed export is not recorded.
EndCompleteOnly(e) ==
    /\ run[e].pc \in {"complete", "fail"}
    /\ IF run[e].pc = "complete" THEN SetStatus(e, "complete") ELSE UNCHANGED rows
    /\ Go(e, "done")
    /\ UNCHANGED <<made, aged, files, remover, removals, stuck, doomed, killed>>

\* `run` saves how it ended.
End(e) ==
    /\ run[e].pc \in {"complete", "fail"}
    /\ SetStatus(e, IF run[e].pc = "complete" THEN "complete" ELSE "error")
    /\ Go(e, "done")
    /\ UNCHANGED <<made, aged, files, remover, removals, stuck, doomed, killed>>

\* The hard time limit, or a crash: the message has been acknowledged.
KillRun(e) ==
    /\ run[e].pc \notin {"none", "done"}
    /\ Go(e, "done")
    /\ killed' = killed \cup {e}
    /\ UNCHANGED <<made, aged, rows, files, remover, removals, stuck, doomed>>

----------------------------------------------------------------------------
(* Deletion by the user, or with the project; a request that is killed stays *)
(* where it is for ever: no fairness makes it go on.                         *)

AskRemoval(es) ==
    /\ remover.pc = "none"
    /\ removals < MaxRemovals
    /\ removals' = removals + 1
    /\ remover' = [pc |-> "erase", held |-> Loaded(es)]
    /\ doomed' = doomed \cup es
    /\ UNCHANGED <<made, aged, rows, files, run, stuck, killed>>

EraseFiles ==
    /\ remover.pc = "erase"
    /\ files' = files \ Known(remover.held)
    /\ remover' = [remover EXCEPT !.pc = "drop"]
    /\ UNCHANGED <<made, aged, rows, run, removals, stuck, doomed, killed>>

DropRows ==
    /\ remover.pc = "drop"
    /\ rows' = Without(Named(remover.held))
    /\ remover' = [pc |-> "none", held |-> {}]
    /\ UNCHANGED <<made, aged, files, run, removals, stuck, doomed, killed>>

AgeExport ==
    /\ aged < made
    /\ aged' = aged + 1
    /\ UNCHANGED <<made, rows, files, run, remover, removals, stuck, doomed, killed>>

RunStep(e) ==
    \/ Refetch(e) \/ Begin(e) \/ ListStuck(e) \/ MarkStuck(e) \/ Write(e) \/ Store(e)
    \/ ListExcess(e) \/ EraseExcess(e) \/ DropExcess(e) \/ End(e)

ExportsNext ==
    \/ RequestExport
    \/ \E e \in Exports : RunStep(e) \/ KillRun(e)
    \/ \E es \in {DOMAIN rows} \cup {{e} : e \in DOMAIN rows} : es # {} /\ AskRemoval(es)
    \/ EraseFiles \/ DropRows
    \/ AgeExport

ExportsSpec == ExportsInit /\ [][ExportsNext]_exportVars

----------------------------------------------------------------------------
(* Properties *)

\* An export that says it is COMPLETE has its result, and the file the result
\* names, unless someone has set out to remove it or has found it stuck and
\* writes the old row back.
CompleteHasFile ==
    \A e \in DOMAIN rows \ (stuck \cup doomed) :
        rows[e].status = "complete" => rows[e].result /\ e \in files

\* However many tasks run at once, each listing the exports before the others
\* have finished, no more than the limit are COMPLETE.
LimitIsKept ==
    Cardinality({e \in DOMAIN rows \ stuck : rows[e].status = "complete"}) <= MaxExports

\* The housekeeping of one export never touches another of which the time is not
\* up, although it writes rows it read some time ago.
CompleteIsFinal ==
    [][\A e \in DOMAIN rows \cap DOMAIN rows' :
         e > aged /\ rows[e].status = "complete" => rows'[e] = rows[e]]_exportVars

----------------------------------------------------------------------------
(* Inductive invariants *)

\* What a task has loaded is known: what it marks was found stuck, what it or a
\* request removes was listed for that, and an export is COMPLETE when its task
\* has ended.
LoadedIsKnown ==
    /\ \A e \in Exports :
         /\ run[e].pc # "none" => e <= made
         /\ Named(run[e].held) \subseteq 1 .. made
         /\ run[e].pc = "mark_stuck" => Named(run[e].held) \subseteq stuck \cap (1 .. aged)
         /\ run[e].pc \in {"erase", "drop"} => Named(run[e].held) \subseteq doomed
         /\ Exists(e) /\ rows[e].status = "complete" => run[e].pc = "done"
    /\ Named(remover.held) \subseteq doomed

\* The file is there from the time it is written, and the result from the save
\* after that, unless the export is stuck or listed for removal.
FileFollows ==
    \A e \in Exports \ (stuck \cup doomed) :
        /\ run[e].pc = "store" => e \in files
        /\ Exists(e) /\ (\/ rows[e].status = "complete"
                        \/ run[e].pc \in {"list_excess", "erase", "drop", "complete"})
             => rows[e].result /\ e \in files

\* Exports that are, or will be, COMPLETE if their task does not fail ...
Hopeful ==
    {e \in DOMAIN rows \ stuck :
       rows[e].status = "complete" \/ run[e].pc \in {"erase", "drop", "complete"}}

\* ... while these still have rows to remove ...
Removing == {e \in Exports : run[e].pc \in {"erase", "drop"}}

\* ... and what is left of the former if some of these fail and the others do not.
Kept(failing) ==
    (Hopeful \ failing) \ UNION {Named(run[e].held) : e \in Removing \ failing}

\* Whichever tasks fail, what is left is within the limit.
KeptIsWithinLimit ==
    \A failing \in SUBSET Removing : Cardinality(Kept(failing)) <= MaxExports

----------------------------------------------------------------------------
ExportsFairness == \A e \in Exports : WF_exportVars(RunStep(e))

\* A queued export ends, one way or the other, unless its process is killed: none
\* stays CREATED or PROCESSING for ever.
ExportsEnd ==
    \A e \in Exports :
        []<>(Exists(e) /\ rows[e].status \in {"created", "processing"} => e \in killed)
=============================================================================
