------------------------- MODULE SupplementalDetails -------------------------
(***************************************************************************)
(* The supplemental details of one submission (SubmissionExtras): for each *)
(* field a transcript, with its revisions, and one slot for the automatic  *)
(* translation of it.  Users' edits lock the row; the task that waits for  *)
(* the translation of a long text reads the row and saves it without.      *)
(***************************************************************************)
EXTENDS Naturals, SequencesExt

CONSTANTS
    FieldOrder,    \* the fields, in the order the database keeps them
    Texts,         \* what users type
    LongTexts,     \* those too long to be translated while the user waits
    Edits,         \* the requests users may send
    Posters,       \* requests that may be in progress at a time
    MaxPosts,      \* bound: the requests in all
    MaxOperations  \* bound: the translations that are waited for

Absent == "absent"      \* no record
Emptied == "emptied"    \* a record that has been deleted: {}
NoPoster == "nobody"

ASSUME DetailsAssumption ==
    /\ FieldOrder \in Seq(ToSet(FieldOrder))
    /\ LongTexts \subseteq Texts /\ Texts \cap {Absent, Emptied} = {}
    /\ NoPoster \notin Posters
    /\ MaxPosts \in Nat /\ MaxOperations \in Nat

VARIABLES
    details,      \* `content`: the fields that have an entry
    row_lock,     \* the request that holds the row, or NoPoster
    post,         \* what each request does
    posted,        \* how many there have been
    operations,   \* the tasks that wait for a translation, by number
    typed,        \* history: the transcripts users have sent
    told,         \* history: those that were saved, since a deletion
    overwritten,  \* history: a task has saved over what changed since it read
    claimed,      \* history: the slots users have sent
    crossed,      \* history: fields given the translation of another one's text
    dropped       \* history: fields whose task broke off

detailVars ==
    <<details, row_lock, post, posted, operations, typed, told, overwritten, claimed,
      crossed, dropped>>

Fields == ToSet(FieldOrder)
Deletion == "deletion mark"
NoText == "no text"
Transcripts == Texts \cup {Deletion}
Record == [value: Transcripts \cup {Absent, Emptied},
           revisions: Seq(Transcripts \cup {Emptied})]
Slot == [status: {"none", "requested", "in_progress", "complete"},
         text: Transcripts \cup {NoText}]
Entry == [transcript: Record, googletx: Slot]
Unset == [transcript |-> [value |-> Absent, revisions |-> << >>],
          googletx |-> [status |-> "none", text |-> NoText]]
Operation == [at: {"polling", "save", "over"}, field: Fields, text: Transcripts]

\* A request edits the transcripts of some fields and sends the slots of some, in the
\* order of its JSON.  To ask for a translation is to send a slot that is requested,
\* but the schema accepts every status, with any text and without: "none".
IsEdit(edit) ==
    /\ edit.order \in Seq(Fields)
    /\ DOMAIN edit.transcripts \cup DOMAIN edit.slots \subseteq ToSet(edit.order)
    /\ \A f \in DOMAIN edit.transcripts : edit.transcripts[f] \in Transcripts
    /\ \A f \in DOMAIN edit.slots : edit.slots[f] \in Slot

ASSUME EditsAssumption == \A edit \in Edits : IsEdit(edit)

IsContent(c) == DOMAIN c \subseteq Fields /\ \A f \in DOMAIN c : c[f] \in Entry

DetailsTypeOK ==
    /\ IsContent(details)
    /\ row_lock \in Posters \cup {NoPoster}
    /\ \A p \in Posters :
         /\ post[p].at \in {"idle", "wait", "save", "commit"}
         /\ post[p].at # "idle" => post[p].edit \in Edits
         /\ post[p].at \in {"save", "commit"} => row_lock = p /\ IsContent(post[p].copy)
    /\ posted \in 0 .. MaxPosts
    /\ \A o \in DOMAIN operations :
         [at |-> operations[o].at, field |-> operations[o].field,
          text |-> operations[o].text] \in Operation
    /\ Len(operations) <= MaxOperations
    /\ typed \in [Fields -> SUBSET Transcripts]
    /\ told \in [Fields -> SUBSET Transcripts]
    /\ overwritten \in BOOLEAN
    /\ claimed \in [Fields -> SUBSET Slot]
    /\ crossed \subseteq Fields /\ dropped \subseteq Fields

NoPost == [at |-> "idle"]
DetailsInit ==
    /\ details = << >>
    /\ row_lock = NoPoster
    /\ post = [p \in Posters |-> NoPost]
    /\ posted = 0
    /\ operations = << >>
    /\ typed = [f \in Fields |-> {}]
    /\ told = [f \in Fields |-> {}]
    /\ overwritten = FALSE
    /\ claimed = [f \in Fields |-> {}]
    /\ crossed = {} /\ dropped = {}

----------------------------------------------------------------------------
(* compile_revised_record *)

EntryOf(c, f) == IF f \in DOMAIN c THEN c[f] ELSE Unset
WithEntry(c, f, e) == [g \in DOMAIN c \cup {f} |-> IF g = f THEN e ELSE c[g]]

\* `init_field` keeps the mark itself when there is nothing to delete;
\* `revise_field` drops the revisions with the record.
Revised(record, value) ==
    IF record.value = Absent THEN [value |-> value, revisions |-> << >>]
    ELSE IF record.value = value THEN record
    ELSE IF value = Deletion THEN [value |-> Emptied, revisions |-> << >>]
    ELSE [value |-> value, revisions |-> <<record.value>> \o record.revisions]

\* A slot is stored as it was sent.
Compiled(c, edit) ==
    [f \in DOMAIN c \cup DOMAIN edit.transcripts \cup DOMAIN edit.slots |->
        LET e == EntryOf(c, f)
        IN  [transcript |-> IF f \in DOMAIN edit.transcripts
                            THEN Revised(e.transcript, edit.transcripts[f]) ELSE e.transcript,
             googletx |-> IF f \in DOMAIN edit.slots THEN edit.slots[f] ELSE e.googletx]]

----------------------------------------------------------------------------
(* SubmissionExtras.save: the translations that have been requested *)

\* One round of the loop.  `carry` is the variable `content` of the code, which a
\* slot in progress does not set: the round before may have left it a text, and
\* the first round leaves it unbound.
Round(state, f) ==
    LET e == state.copy[f]
        text == e.transcript.value
        carry == IF e.googletx.status = "in_progress" THEN state.carry
                 ELSE IF e.googletx.status = "requested" /\ text \in Transcripts THEN text
                 ELSE NoText
        later == carry \in LongTexts
        slot == [status |-> IF later THEN "in_progress" ELSE "complete",
                 text |-> IF later THEN NoText ELSE carry]
    IN  IF state.raised \/ carry = "unbound" THEN [state EXCEPT !.raised = TRUE]
        ELSE IF carry = NoText THEN [state EXCEPT !.carry = NoText]
        ELSE [copy |-> [state.copy EXCEPT ![f].googletx = slot],
              queued |-> IF later
                         THEN Append(state.queued, [at |-> "polling", field |-> f, text |-> carry])
                         ELSE state.queued,
              carry |-> carry,
              raised |-> FALSE,
              crossed |-> IF e.googletx.status = "in_progress" THEN state.crossed \cup {f}
                          ELSE state.crossed]

\* The loop over some fields, in some order.
Rounds(state, order, fields) ==
    LET after[i \in 0 .. Len(order)] ==
            IF i = 0 THEN state
            ELSE IF order[i] \in fields THEN Round(after[i - 1], order[i])
            ELSE after[i - 1]
    IN  after[Len(order)]

\* What is stored comes in the order of the database, what the copy has in addition
\* in that of the request.
Translated(c, stored, added) ==
    LET start == [copy |-> c, queued |-> << >>, carry |-> "unbound", raised |-> FALSE,
                  crossed |-> {}]
    IN  Rounds(Rounds(start, FieldOrder, DOMAIN c \cap stored), added, DOMAIN c \ stored)

Queue(tasks) ==
    /\ Len(operations) + Len(tasks) <= MaxOperations
    /\ operations' = operations \o tasks

----------------------------------------------------------------------------
(* Asset.update_submission_extra *)

\* What a request says of a field, if anything.
Of(changes, f) == IF f \in DOMAIN changes THEN {changes[f]} ELSE {}

Submit(p, edit) ==
    /\ post[p] = NoPost
    /\ posted < MaxPosts
    /\ posted' = posted + 1
    /\ post' = [post EXCEPT ![p] = [at |-> "wait", edit |-> edit]]
    /\ typed' = [f \in Fields |-> typed[f] \cup Of(edit.transcripts, f)]
    /\ claimed' = [f \in Fields |-> claimed[f] \cup Of(edit.slots, f)]
    /\ UNCHANGED <<details, row_lock, operations, told, overwritten, crossed, dropped>>

\* Mutant: the row is read without locking it.
CompileUnlocked(p) ==
    /\ post[p].at = "wait"
    /\ row_lock' = p
    /\ post' = [post EXCEPT ![p] = [at |-> "save", edit |-> post[p].edit,
                                    copy |-> Compiled(details, post[p].edit)]]
    /\ UNCHANGED <<details, posted, operations, typed, told, overwritten, claimed, crossed, dropped>>

\* `select_for_update`, and the edit is compiled into what is stored now.
LockAndCompile(p) ==
    /\ post[p].at = "wait"
    /\ row_lock = NoPoster
    /\ row_lock' = p
    /\ post' = [post EXCEPT ![p] = [at |-> "save", edit |-> post[p].edit,
                                    copy |-> Compiled(details, post[p].edit)]]
    /\ UNCHANGED <<details, posted, operations, typed, told, overwritten, claimed, crossed, dropped>>

Abandon(p) ==
    /\ row_lock' = NoPoster
    /\ post' = [post EXCEPT ![p] = NoPost]

\* Mutant: nobody waits for the long translations.
TranslateUnqueued(p) ==
    LET saved == Translated(post[p].copy, DOMAIN details, post[p].edit.order)
    IN  /\ post[p].at = "save"
        /\ IF saved.raised THEN Abandon(p)
           ELSE /\ post' = [post EXCEPT ![p].at = "commit", ![p].copy = saved.copy]
                /\ UNCHANGED row_lock
        /\ crossed' = crossed \cup saved.crossed
        /\ UNCHANGED <<details, operations, posted, typed, told, overwritten, claimed, dropped>>

\* Google is asked and the tasks are queued before the row is written.
Translate(p) ==
    LET saved == Translated(post[p].copy, DOMAIN details, post[p].edit.order)
    IN  /\ post[p].at = "save"
        /\ IF saved.raised THEN Abandon(p)
           ELSE /\ post' = [post EXCEPT ![p].at = "commit", ![p].copy = saved.copy]
                /\ UNCHANGED row_lock
        /\ Queue(saved.queued)
        /\ crossed' = crossed \cup saved.crossed
        /\ UNCHANGED <<details, posted, typed, told, overwritten, claimed, dropped>>

CommitPost(p) ==
    LET value(f) == post[p].copy[f].transcript.value
    IN  /\ post[p].at = "commit"
        /\ details' = post[p].copy
        /\ told' = [f \in Fields |->
              IF f \notin DOMAIN post[p].edit.transcripts THEN told[f]
              ELSE IF value(f) = Emptied THEN {} ELSE told[f] \cup {value(f)}]
        /\ Abandon(p)
        /\ UNCHANGED <<posted, operations, typed, overwritten, claimed, crossed, dropped>>

\* The process is killed, or Google or the saving of the asset fails.
RollBackPost(p) ==
    /\ post[p].at \in {"save", "commit"}
    /\ Abandon(p)
    /\ UNCHANGED <<details, posted, operations, typed, told, overwritten, claimed, crossed, dropped>>

----------------------------------------------------------------------------
(* handle_google_translation_operation *)

\* The translation is done and its files are deleted; the row is read, and must
\* have the field.
ReadForTranslation(o) ==
    LET op == operations[o]
        entry == EntryOf(details, op.field)
    IN  /\ op.at = "polling"
        /\ IF op.field \notin DOMAIN details
           THEN /\ operations' = [operations EXCEPT ![o].at = "over"]
                /\ dropped' = dropped \cup {op.field}
           ELSE /\ operations' =
                     [operations EXCEPT ![o] =
                        [at |-> "save", field |-> op.field, text |-> op.text, read |-> details,
                         copy |-> WithEntry(details, op.field, [entry EXCEPT !.googletx =
                                        [status |-> "complete", text |-> op.text]])]]
                /\ UNCHANGED dropped
        /\ UNCHANGED <<details, row_lock, post, posted, typed, told, overwritten, claimed, crossed>>

\* The whole content is saved, as soon as no one holds the row.
SaveTranslation(o) ==
    LET op == operations[o]
        saved == Translated(op.copy, DOMAIN op.read, << >>)
        over == [operations EXCEPT ![o] = [at |-> "over", field |-> op.field, text |-> op.text]]
    IN  /\ op.at = "save"
        /\ row_lock = NoPoster
        /\ IF saved.raised
           THEN /\ operations' = over
                /\ dropped' = dropped \cup {op.field}
                /\ UNCHANGED <<details, overwritten, crossed>>
           ELSE /\ Len(operations) + Len(saved.queued) <= MaxOperations
                /\ operations' = over \o saved.queued
                /\ details' = saved.copy
                /\ overwritten' = (overwritten \/ details # op.read)
                /\ crossed' = crossed \cup saved.crossed
                /\ UNCHANGED dropped
        /\ UNCHANGED <<row_lock, post, posted, typed, told, claimed>>

\* The worker is killed, or an answer of Google is not what the task expects.
KillTranslation(o) ==
    /\ operations[o].at # "over"
    /\ operations' = [operations EXCEPT ![o] =
         [at |-> "over", field |-> operations[o].field, text |-> operations[o].text]]
    /\ dropped' = dropped \cup {operations[o].field}
    /\ UNCHANGED <<details, row_lock, post, posted, typed, told, overwritten, claimed, crossed>>

DetailsNext ==
    \/ \E p \in Posters :
         \/ \E edit \in Edits : Submit(p, edit)
         \/ LockAndCompile(p) \/ Translate(p) \/ CommitPost(p) \/ RollBackPost(p)
    \/ \E o \in DOMAIN operations :
         ReadForTranslation(o) \/ SaveTranslation(o) \/ KillTranslation(o)

DetailsSpec == DetailsInit /\ [][DetailsNext]_detailVars

----------------------------------------------------------------------------
(* Properties *)

\* What a user has saved as a transcript stays, as the transcript or among its
\* revisions, until someone deletes it, however requests overlap: only a task that
\* has read the row before and saves it after can lose it.
TranscriptsAreKept ==
    ~overwritten =>
        \A f \in Fields :
            LET record == EntryOf(details, f).transcript
            IN  told[f] \subseteq {record.value} \cup ToSet(record.revisions)

\* A slot in progress has a task that will fill it, and a translation shown for a
\* field is one of a transcript of that field.  The exceptions are the slots a user
\* has sent just as they are, which are stored whatever they say, the tasks that broke
\* off, those that saved over something newer, and the text the loop carries over from
\* another field.
SlotsAreTrue ==
    ~overwritten =>
        \A f \in DOMAIN details :
            LET slot == details[f].googletx
            IN  slot \notin claimed[f] =>
                    /\ slot.status = "in_progress" /\ f \notin dropped =>
                         \E o \in DOMAIN operations :
                            operations[o].field = f /\ operations[o].at # "over"
                    /\ slot.status = "complete" /\ f \notin crossed => slot.text \in typed[f]
=============================================================================
