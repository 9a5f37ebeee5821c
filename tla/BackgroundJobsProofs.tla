------------------------- MODULE BackgroundJobsProofs -------------------------
(***************************************************************************)
(* Two of the background jobs: the deliveries of the REST services, for    *)
(* every set of hooks, submissions and senders, and the exports of a form, *)
(* for any number of exports, of which any number may be kept.             *)
(*                                                                         *)
(* Deliveries.  A log that says SUCCESS tells the truth.  Logs are written *)
(* back as a whole from copies that may be old, so the argument is about   *)
(* all the copies: each says SUCCESS only of what its endpoint has         *)
(* accepted, and what an endpoint has accepted stays accepted.  And each   *)
(* counts no more tries than have been made, those apart that a sender has *)
(* made and not logged yet: a step that adds a try to a row takes it out   *)
(* of a sender's hands, so that a late copy never counts an attempt twice. *)
(* Last, a delivery that nobody has disturbed is in one place only: it     *)
(* waits with celery, or one sender works on it, or one bulk retry lists   *)
(* it.  There celery's count of the retries and the log's count of the     *)
(* tries are the same number, and so they end together.                    *)
(*                                                                         *)
(* Exports.  Each task lists what is in excess, removes it later, and      *)
(* completes after that, or fails at any time.  The argument about the     *)
(* limit is therefore about every choice of the tasks that will fail:      *)
(* those who have listed what is in excess and do not fail leave no more   *)
(* than the limit, although none of them has removed anything yet.  When   *)
(* a task fails, that was one of the choices.                              *)
(***************************************************************************)
EXTENDS HookDelivery, ExportTasks, FiniteRecursion, SequenceTheorems, FiniteSetTheorems, WellFoundedInduction, TLAPS

(* 1. Deliveries: what is true of a copy *)

TrueOf(d, row) == row.status = "success" => d \in accepted

\* What a sender has in hand is true, and so is what it is about to write.
SenderIsTrue(j) ==
    /\ TrueOf(j.d, j.row)
    /\ \A x \in j.left : TrueOf(x.d, x.row)
    /\ j.pc \in {"log", "save"} /\ j.ok => j.d \in accepted

HooksInv ==
    /\ HooksTypeOK
    /\ SuccessMeansAccepted
    /\ \A j \in sender : SenderIsTrue(j)

----------------------------------------------------------------------------
(* Logs and senders *)

\* A row of a log is written in its place.
LEMMA LogWritten ==
    ASSUME NEW log \in Seq(Row), NEW row \in Row, NEW k
    PROVE  /\ [log EXCEPT ![k] = row] \in Seq(Row)
           /\ DOMAIN [log EXCEPT ![k] = row] = DOMAIN log
           /\ \A i \in DOMAIN log : [log EXCEPT ![k] = row][i] = IF i = k THEN row ELSE log[i]
<1> DEFINE new == [log EXCEPT ![k] = row]
<1>1. Len(log) \in Nat /\ DOMAIN log = 1 .. Len(log) /\ log \in [1 .. Len(log) -> Row]
  OBVIOUS
<1>2. new = [i \in 1 .. Len(log) |-> IF i = k THEN row ELSE log[i]]
  BY <1>1
<1>3. new \in [1 .. Len(log) -> Row]
  BY <1>1, <1>2
<1>4. new \in Seq(Row)
  BY <1>1, <1>3
<1>5. QED
  BY <1>1, <1>2, <1>4

\* One more task waits for its n-th retry.
LEMMA OneMore ==
    ASSUME NEW waiting \in [0 .. MaxRetries -> Nat], NEW n
    PROVE  [waiting EXCEPT ![n] = @ + 1] \in [0 .. MaxRetries -> Nat]
<1> DEFINE places == 0 .. MaxRetries
           new == [i \in places |-> IF i = n THEN waiting[n] + 1 ELSE waiting[i]]
<1>1. waiting \in [places -> Nat]
  OBVIOUS
<1> HIDE DEF places
<1>2. ASSUME NEW i \in places PROVE (IF i = n THEN waiting[n] + 1 ELSE waiting[i]) \in Nat
  <2>1. waiting[i] \in Nat
    BY <1>1
  <2>2. waiting[i] + 1 \in Nat
    BY <2>1
  <2>3. CASE i = n
    BY <2>2, <2>3
  <2>4. CASE i # n
    BY <2>1, <2>4
  <2>5. QED
    BY <2>3, <2>4
<1>3. new \in [places -> Nat]
  BY <1>2
<1>4. [waiting EXCEPT ![n] = @ + 1] = new
  BY <1>1
<1>5. QED
  BY <1>3, <1>4 DEF places

LEMMA SenderFacts ==
    ASSUME HooksTypeOK, NEW j \in sender
    PROVE  /\ j \in Sender /\ j.d \in Deliveries /\ j.row \in Row /\ j.n \in Nat /\ j.k \in Nat
           /\ j.left \subseteq LogCopy
           /\ \A x \in j.left : x.d \in Deliveries /\ x.k \in Nat \ {0} /\ x.row \in Row
<1>1. j \in Sender
  BY DEF HooksTypeOK
<1>2. j.d \in Deliveries /\ j.row \in Row /\ j.n \in Nat /\ j.k \in Nat /\ j.left \subseteq LogCopy
  BY <1>1 DEF Sender
<1>3. \A x \in LogCopy : x.d \in Deliveries /\ x.k \in Nat \ {0} /\ x.row \in Row
  BY DEF LogCopy
<1>4. QED
  BY <1>1, <1>2, <1>3

\* The rows that senders write.
LEMMA RowsWritten ==
    ASSUME HooksTypeOK, NEW j \in sender
    PROVE  /\ New \in Row /\ New.status = "pending"
           /\ Written(j) \in Row
           /\ Written(j).status = "success" => j.ok \/ j.row.status = "success"
           /\ \A s \in LogStatuses : Restated(j, s) \in Row /\ Restated(j, s).status = s
<1>1. j.row \in Row
  BY SenderFacts
<1>2. New \in Row /\ New.status = "pending"
  BY DEF New, Row, LogStatuses
<1>3. j.row.status \in LogStatuses /\ j.row.tries \in Nat /\ j.row.old \in BOOLEAN
  BY <1>1 DEF Row
<1>4. Written(j) \in Row /\ (Written(j).status = "success" => j.ok \/ j.row.status = "success")
  BY <1>3 DEF Written, Row, LogStatuses
<1>5. ASSUME NEW s \in LogStatuses PROVE Restated(j, s) \in Row /\ Restated(j, s).status = s
  BY <1>1 DEF Restated, Row
<1>6. QED
  BY <1>2, <1>4, <1>5

\* What has been accepted stays so.
LEMMA StaysTrue ==
    ASSUME accepted \subseteq accepted', NEW j, SenderIsTrue(j)
    PROVE  SenderIsTrue(j)'
  BY DEF SenderIsTrue, TrueOf

\* The logs of a step, and the senders: those there were, or a new one.
LEMMA StepKeeps ==
    ASSUME HooksInv, accepted \subseteq accepted', HooksTypeOK', SuccessMeansAccepted', NEW i,
           sender' \subseteq sender \cup {i}, SenderIsTrue(i)'
    PROVE  HooksInv'
<1>1. ASSUME NEW j \in sender' PROVE SenderIsTrue(j)'
  BY StaysTrue DEF HooksInv
<1>2. QED
  BY <1>1 DEF HooksInv

LEMMA LogsStay ==
    ASSUME HooksInv, logs' = logs, accepted \subseteq accepted'
    PROVE  SuccessMeansAccepted'
  BY DEF HooksInv, SuccessMeansAccepted

\* One row is written.
LEMMA RowKeeps ==
    ASSUME HooksInv, NEW d \in Deliveries, NEW k, NEW row \in Row,
           logs' = [logs EXCEPT ![d][k] = row], TrueOf(d, row), accepted' = accepted
    PROVE  logs' \in [Deliveries -> Seq(Row)] /\ SuccessMeansAccepted'
<1>1. logs \in [Deliveries -> Seq(Row)] /\ logs[d] \in Seq(Row)
  BY DEF HooksInv, HooksTypeOK
<1>2. logs' = [logs EXCEPT ![d] = [logs[d] EXCEPT ![k] = row]]
  OBVIOUS
<1> DEFINE new == [logs[d] EXCEPT ![k] = row]
<1>3. /\ new \in Seq(Row) /\ DOMAIN new = DOMAIN logs[d]
      /\ \A i \in DOMAIN logs[d] : new[i] = IF i = k THEN row ELSE logs[d][i]
  BY <1>1, LogWritten
<1>4. logs' = [logs EXCEPT ![d] = new]
  BY <1>2
<1> HIDE DEF new
<1>5. logs' \in [Deliveries -> Seq(Row)]
  BY <1>1, <1>3, <1>4
<1>6. ASSUME NEW e \in Deliveries, NEW i \in DOMAIN logs'[e], logs'[e][i].status = "success"
      PROVE  e \in accepted'
  <2>1. CASE e = d
    BY <1>1, <1>3, <1>4, <1>6, <2>1 DEF HooksInv, SuccessMeansAccepted, TrueOf
  <2>2. CASE e # d
    BY <1>1, <1>4, <1>6, <2>2 DEF HooksInv, SuccessMeansAccepted
  <2>3. QED
    BY <2>1, <2>2
<1>7. QED
  BY <1>5, <1>6 DEF SuccessMeansAccepted

\* A sender goes on, or leaves: the rest of its step is typed and true.
LEMMA SenderMoves ==
    ASSUME HooksInv, NEW j \in sender, NEW i \in Sender, Becomes(j, i) \/ Leave(j), SenderIsTrue(i)',
           logs' \in [Deliveries -> Seq(Row)], SuccessMeansAccepted',
           sends' \in [Deliveries -> [0 .. MaxRetries -> Nat]],
           posts' \in [Deliveries -> Nat], accepted \subseteq accepted', accepted' \subseteq Deliveries,
           UNCHANGED <<hook, retries, signals, requests, disturbed>>
    PROVE  HooksInv'
<1>1. sender' \subseteq sender \cup {i}
  BY DEF Becomes, Leave
<1>2. HooksTypeOK'
  BY <1>1 DEF HooksInv, HooksTypeOK
<1>3. QED
  BY <1>1, <1>2, StepKeeps

LEMMA ProceedKeeps ==
    ASSUME HooksInv, NEW j \in sender, Proceed(j),
           logs' \in [Deliveries -> Seq(Row)], SuccessMeansAccepted',
           UNCHANGED <<hook, sends, retries, signals, requests, posts, accepted, disturbed>>
    PROVE  HooksInv'
<1>1. HooksTypeOK /\ SenderIsTrue(j)
  BY DEF HooksInv
<1>2. j \in Sender /\ SenderIsTrue(j)'
  BY <1>1, SenderFacts, StaysTrue
<1>3. /\ sends' \in [Deliveries -> [0 .. MaxRetries -> Nat]] /\ posts' \in [Deliveries -> Nat]
      /\ accepted \subseteq accepted' /\ accepted' \subseteq Deliveries
  BY <1>1 DEF HooksTypeOK
<1>4. CASE Leave(j)
  BY <1>2, <1>3, <1>4, SenderMoves
<1>5. CASE \E x \in j.left :
             Becomes(j, [j EXCEPT !.d = x.d, !.k = x.k, !.row = x.row, !.pc = "post",
                                  !.left = @ \ {x}])
  <2>1. PICK x \in j.left :
          Becomes(j, [j EXCEPT !.d = x.d, !.k = x.k, !.row = x.row, !.pc = "post",
                               !.left = @ \ {x}])
    BY <1>5
  <2> DEFINE i == [j EXCEPT !.d = x.d, !.k = x.k, !.row = x.row, !.pc = "post", !.left = @ \ {x}]
  <2>2. x.d \in Deliveries /\ x.k \in Nat /\ x.row \in Row /\ j.left \subseteq LogCopy
    BY <1>1, SenderFacts
  <2>3. i \in Sender /\ i.d = x.d /\ i.row = x.row /\ i.left = j.left \ {x} /\ i.pc = "post"
    BY <1>2, <2>2 DEF Sender
  <2>4. Becomes(j, i)
    BY <2>1
  <2> HIDE DEF i
  <2>5. PICK q : q = i
    OBVIOUS
  <2>6. SenderIsTrue(q)'
    BY <1>2, <2>3, <2>5 DEF SenderIsTrue, TrueOf
  <2>7. QED
    BY <1>3, <2>3, <2>4, <2>5, <2>6, SenderMoves
<1>6. QED
  BY <1>4, <1>5 DEF Proceed

----------------------------------------------------------------------------
(* Sending *)

LEMMA StartSendKeeps ==
    ASSUME HooksInv, NEW w \in Senders, NEW d \in Deliveries, NEW n \in 0 .. MaxRetries,
           StartSend(w, d, n)
    PROVE  HooksInv'
<1> DEFINE i == [by |-> w, kind |-> "auto", d |-> d, n |-> n, ok |-> FALSE,
                 k |-> 0, row |-> New, left |-> {}, pc |-> "post"]
<1>1. /\ sends[d][n] > 0 /\ sends' = [sends EXCEPT ![d][n] = @ - 1]
      /\ sender' \subseteq sender \cup {i}
      /\ UNCHANGED <<hook, logs, retries, signals, requests, posts, accepted, disturbed>>
  BY DEF StartSend
<1>2. New \in Row /\ New.status = "pending" /\ n \in Nat
  BY HooksAssumption DEF New, Row, LogStatuses
<1>3. i \in Sender /\ SenderIsTrue(i)'
  BY <1>2 DEF Sender, SenderIsTrue, TrueOf
<1>4. sends' \in [Deliveries -> [0 .. MaxRetries -> Nat]]
  <2>1. sends \in [Deliveries -> [0 .. MaxRetries -> Nat]] /\ sends[d] \in [0 .. MaxRetries -> Nat]
    BY DEF HooksInv, HooksTypeOK
  <2>2. sends[d][n] - 1 \in Nat
    BY <1>1, <2>1
  <2>3. [sends[d] EXCEPT ![n] = @ - 1] \in [0 .. MaxRetries -> Nat]
    BY <2>1, <2>2
  <2>4. QED
    BY <1>1, <2>1, <2>3
<1> HIDE DEF i
<1>5. HooksTypeOK'
  BY <1>1, <1>3, <1>4 DEF HooksInv, HooksTypeOK
<1>6. QED
  BY <1>1, <1>3, <1>5, LogsStay, StepKeeps

LEMMA PostKeeps == ASSUME HooksInv, NEW j \in sender, Post(j) PROVE HooksInv'
<1>1. PICK ok \in BOOLEAN :
        /\ accepted' = IF ok THEN accepted \cup {j.d} ELSE accepted
        /\ Becomes(j, [j EXCEPT !.pc = "log", !.ok = ok])
  BY DEF Post
<1> DEFINE i == [j EXCEPT !.pc = "log", !.ok = ok]
<1>2. posts' = [posts EXCEPT ![j.d] = @ + 1]
      /\ UNCHANGED <<hook, logs, sends, retries, signals, requests, disturbed>>
  BY DEF Post
<1>3. HooksTypeOK /\ SenderIsTrue(j)
  BY DEF HooksInv
<1>4. j \in Sender /\ j.d \in Deliveries
  BY <1>3, SenderFacts
<1>5. accepted \subseteq accepted' /\ accepted' \subseteq Deliveries /\ posts' \in [Deliveries -> Nat]
  BY <1>1, <1>2, <1>3, <1>4 DEF HooksTypeOK
<1>6. i \in Sender /\ i.d = j.d /\ i.row = j.row /\ i.left = j.left /\ i.ok = ok
  BY <1>4 DEF Sender
<1>7. Becomes(j, i)
  BY <1>1
<1> HIDE DEF i
<1>8. PICK q : q = i
  OBVIOUS
<1>9. SenderIsTrue(q)'
  BY <1>1, <1>3, <1>5, <1>6, <1>8 DEF SenderIsTrue, TrueOf
<1>10. logs' \in [Deliveries -> Seq(Row)] /\ sends' \in [Deliveries -> [0 .. MaxRetries -> Nat]]
  BY <1>2, <1>3 DEF HooksTypeOK
<1>11. SuccessMeansAccepted'
  BY <1>2, <1>5, LogsStay
<1>12. QED
  BY <1>2, <1>5, <1>6, <1>7, <1>8, <1>9, <1>10, <1>11, SenderMoves

LEMMA ReadLogKeeps == ASSUME HooksInv, NEW j \in sender, ReadLog(j) PROVE HooksInv'
<1>1. HooksTypeOK /\ SenderIsTrue(j)
  BY DEF HooksInv
<1>2. j \in Sender /\ j.d \in Deliveries /\ logs[j.d] \in Seq(Row)
  BY <1>1, SenderFacts DEF HooksTypeOK
<1>3. j.pc = "log" /\ UNCHANGED <<hook, logs, sends, retries, signals, requests, posts, accepted, disturbed>>
  BY DEF ReadLog
<1>4. /\ sends' \in [Deliveries -> [0 .. MaxRetries -> Nat]] /\ posts' \in [Deliveries -> Nat]
      /\ accepted \subseteq accepted' /\ accepted' \subseteq Deliveries
      /\ logs' \in [Deliveries -> Seq(Row)] /\ SuccessMeansAccepted'
  BY <1>1, <1>3, LogsStay DEF HooksTypeOK
<1>5. CASE Becomes(j, [j EXCEPT !.pc = "raised"])
  <2> DEFINE i == [j EXCEPT !.pc = "raised"]
  <2>1. i \in Sender /\ i.d = j.d /\ i.row = j.row /\ i.left = j.left /\ i.pc = "raised"
    BY <1>2 DEF Sender
  <2>2. Becomes(j, i)
    BY <1>5
  <2> HIDE DEF i
  <2>3. PICK q : q = i
    OBVIOUS
  <2>4. SenderIsTrue(q)'
    BY <1>1, <1>3, <2>1, <2>3 DEF SenderIsTrue, TrueOf
  <2>5. QED
    BY <1>3, <1>4, <2>1, <2>2, <2>3, <2>4, SenderMoves
<1>6. ASSUME NEW k \in Nat, NEW row \in Row, TrueOf(j.d, row),
             Becomes(j, [j EXCEPT !.pc = "save", !.k = k, !.row = row])
      PROVE  HooksInv'
  <2> DEFINE i == [j EXCEPT !.pc = "save", !.k = k, !.row = row]
  <2>1. i \in Sender /\ i.d = j.d /\ i.row = row /\ i.left = j.left /\ i.ok = j.ok
    BY <1>2 DEF Sender
  <2>2. Becomes(j, i)
    BY <1>6
  <2> HIDE DEF i
  <2>3. PICK q : q = i
    OBVIOUS
  <2>4. SenderIsTrue(q)'
    BY <1>1, <1>3, <1>6, <2>1, <2>3 DEF SenderIsTrue, TrueOf
  <2>5. QED
    BY <1>3, <1>4, <2>1, <2>2, <2>3, <2>4, SenderMoves
<1>7. CASE Len(logs[j.d]) = 0
  <2>1. New \in Row /\ TrueOf(j.d, New)
    BY <1>1, RowsWritten DEF TrueOf
  <2>2. Becomes(j, [j EXCEPT !.pc = "save", !.k = 0, !.row = New])
    BY <1>7 DEF ReadLog
  <2>3. QED
    BY <1>6, <2>1, <2>2
<1>8. CASE Len(logs[j.d]) = 1
  <2>1. 1 \in DOMAIN logs[j.d] /\ logs[j.d][1] \in Row
    <3>1. PICK log \in Seq(Row) : log = logs[j.d]
      BY <1>2
    <3>2. Len(log) = 1
      BY <1>8, <3>1
    <3>3. 1 \in DOMAIN log /\ log[1] \in Row
      BY <3>2
    <3>4. QED
      BY <3>1, <3>3
  <2>2. TrueOf(j.d, logs[j.d][1])
    BY <1>2, <2>1 DEF HooksInv, SuccessMeansAccepted, TrueOf
  <2>3. Becomes(j, [j EXCEPT !.pc = "save", !.k = 1, !.row = logs[j.d][1]])
    BY <1>8 DEF ReadLog
  <2>4. QED
    BY <1>6, <2>1, <2>2, <2>3
<1>9. QED
  BY <1>5, <1>7, <1>8 DEF ReadLog

LEMMA SaveLogKeeps == ASSUME HooksInv, NEW j \in sender, SaveLog(j) PROVE HooksInv'
<1>1. HooksTypeOK /\ SenderIsTrue(j)
  BY DEF HooksInv
<1>2. j \in Sender /\ j.d \in Deliveries /\ j.n \in Nat /\ logs[j.d] \in Seq(Row)
  BY <1>1, SenderFacts DEF HooksTypeOK
<1>3. /\ j.pc = "save" /\ FollowUp(j)
      /\ logs' = IF hook[j.d[1]] = "deleted" THEN logs
                 ELSE IF j.k = 0 THEN [logs EXCEPT ![j.d] = Append(@, Written(j))]
                 ELSE [logs EXCEPT ![j.d][j.k] = Written(j)]
      /\ UNCHANGED <<hook, retries, signals, requests, posts, accepted, disturbed>>
  BY DEF SaveLog
<1>4. Written(j) \in Row /\ TrueOf(j.d, Written(j))
  BY <1>1, <1>3, RowsWritten DEF SenderIsTrue, TrueOf
<1>5. logs' \in [Deliveries -> Seq(Row)] /\ SuccessMeansAccepted'
  <2>1. CASE logs' = logs
    BY <1>1, <1>3, <2>1, LogsStay DEF HooksTypeOK
  <2>2. CASE logs' = [logs EXCEPT ![j.d][j.k] = Written(j)]
    BY <1>2, <1>3, <1>4, <2>2, RowKeeps
  <2>3. CASE logs' = [logs EXCEPT ![j.d] = Append(@, Written(j))]
    <3> DEFINE log == Append(logs[j.d], Written(j))
    <3>1. /\ log \in Seq(Row)
          /\ \A k \in DOMAIN log :
               (k \in DOMAIN logs[j.d] /\ log[k] = logs[j.d][k]) \/ log[k] = Written(j)
      BY <1>2, <1>4
    <3>2. logs' = [logs EXCEPT ![j.d] = log]
      BY <2>3
    <3> HIDE DEF log
    <3>3. logs' \in [Deliveries -> Seq(Row)]
      BY <1>1, <3>1, <3>2 DEF HooksTypeOK
    <3>4. ASSUME NEW e \in Deliveries, NEW k \in DOMAIN logs'[e], logs'[e][k].status = "success"
          PROVE  e \in accepted'
      <4>1. CASE e = j.d
        <5>1. logs'[e] = log
          BY <1>1, <3>2, <4>1 DEF HooksTypeOK
        <5>2. QED
          BY <1>3, <1>4, <3>1, <3>4, <4>1, <5>1 DEF HooksInv, SuccessMeansAccepted, TrueOf
      <4>2. CASE e # j.d
        <5>1. logs'[e] = logs[e]
          BY <1>1, <3>2, <4>2 DEF HooksTypeOK
        <5>2. QED
          BY <1>3, <3>4, <5>1 DEF HooksInv, SuccessMeansAccepted
      <4>3. QED
        BY <4>1, <4>2
    <3>5. QED
      BY <3>3, <3>4 DEF SuccessMeansAccepted
  <2>4. QED
    BY <1>3, <2>1, <2>2, <2>3
<1>6. CASE j.kind = "retry" /\ Proceed(j) /\ UNCHANGED sends
  BY <1>3, <1>5, <1>6, ProceedKeeps
<1>7. CASE Leave(j) /\ sends' \in [Deliveries -> [0 .. MaxRetries -> Nat]]
  <2>1. SenderIsTrue(j)' /\ posts' \in [Deliveries -> Nat]
        /\ accepted \subseteq accepted' /\ accepted' \subseteq Deliveries
    BY <1>1, <1>3, StaysTrue DEF HooksTypeOK
  <2>2. QED
    BY <1>2, <1>3, <1>5, <1>7, <2>1, SenderMoves
<1>8. sends' = sends => sends' \in [Deliveries -> [0 .. MaxRetries -> Nat]]
  BY <1>1 DEF HooksTypeOK
<1>9. sends' = [sends EXCEPT ![j.d][j.n + 1] = @ + 1] => sends' \in [Deliveries -> [0 .. MaxRetries -> Nat]]
  <2>1. sends \in [Deliveries -> [0 .. MaxRetries -> Nat]] /\ sends[j.d] \in [0 .. MaxRetries -> Nat]
    BY <1>1, <1>2 DEF HooksTypeOK
  <2>2. [sends[j.d] EXCEPT ![j.n + 1] = @ + 1] \in [0 .. MaxRetries -> Nat]
    <3>1. PICK waiting \in [0 .. MaxRetries -> Nat] : waiting = sends[j.d]
      BY <2>1
    <3>2. [waiting EXCEPT ![j.n + 1] = @ + 1] \in [0 .. MaxRetries -> Nat]
      BY OneMore
    <3>3. QED
      BY <3>1, <3>2
  <2>3. QED
    BY <2>1, <2>2
<1>10. QED
  BY <1>3, <1>6, <1>7, <1>8, <1>9 DEF FollowUp

LEMMA LogRaisedKeeps == ASSUME HooksInv, NEW j \in sender, LogRaised(j) PROVE HooksInv'
<1>1. HooksTypeOK /\ SenderIsTrue(j) /\ j \in Sender /\ j.d \in Deliveries
  BY SenderFacts DEF HooksInv
<1>2. UNCHANGED <<hook, sends, retries, signals, requests, posts, accepted, disturbed>>
  BY DEF LogRaised
<1>3. CASE logs' = logs /\ Leave(j)
  <2>1. /\ sends' \in [Deliveries -> [0 .. MaxRetries -> Nat]] /\ posts' \in [Deliveries -> Nat]
        /\ accepted \subseteq accepted' /\ accepted' \subseteq Deliveries
        /\ logs' \in [Deliveries -> Seq(Row)] /\ SuccessMeansAccepted' /\ SenderIsTrue(j)'
    BY <1>1, <1>2, <1>3, LogsStay, StaysTrue DEF HooksTypeOK
  <2>2. QED
    BY <1>1, <1>2, <1>3, <2>1, SenderMoves
<1>4. CASE logs' = [logs EXCEPT ![j.d][j.k] = Restated(j, "failed")] /\ Proceed(j)
  <2>1. Restated(j, "failed") \in Row /\ TrueOf(j.d, Restated(j, "failed"))
    BY <1>1, RowsWritten DEF TrueOf, LogStatuses
  <2>2. logs' \in [Deliveries -> Seq(Row)] /\ SuccessMeansAccepted'
    BY <1>1, <1>2, <1>4, <2>1, RowKeeps
  <2>3. QED
    BY <1>2, <1>4, <2>2, ProceedKeeps
<1>5. QED
  BY <1>3, <1>4 DEF LogRaised

----------------------------------------------------------------------------
(* The requests of users *)

LEMMA ChangeStatusKeeps == ASSUME HooksInv, NEW j \in sender, ChangeStatus(j) PROVE HooksInv'
<1> DEFINE row == Restated(j, "pending")
           i == [j EXCEPT !.row = row, !.pc = "post"]
<1>1. HooksTypeOK /\ SenderIsTrue(j) /\ j \in Sender /\ j.d \in Deliveries
  BY SenderFacts DEF HooksInv
<1>2. UNCHANGED <<hook, sends, retries, signals, requests, posts, accepted, disturbed>>
  BY DEF ChangeStatus
<1>3. /\ sends' \in [Deliveries -> [0 .. MaxRetries -> Nat]] /\ posts' \in [Deliveries -> Nat]
      /\ accepted \subseteq accepted' /\ accepted' \subseteq Deliveries
  BY <1>1, <1>2 DEF HooksTypeOK
<1>4. CASE logs' = logs /\ Leave(j)
  <2>1. logs' \in [Deliveries -> Seq(Row)] /\ SuccessMeansAccepted' /\ SenderIsTrue(j)'
    BY <1>1, <1>3, <1>4, LogsStay, StaysTrue DEF HooksTypeOK
  <2>2. QED
    BY <1>1, <1>2, <1>3, <1>4, <2>1, SenderMoves
<1>5. CASE logs' = [logs EXCEPT ![j.d][j.k] = row] /\ Becomes(j, i)
  <2>1. row \in Row /\ row.status = "pending"
    BY <1>1, RowsWritten DEF LogStatuses
  <2> HIDE DEF row
  <2>2. logs' \in [Deliveries -> Seq(Row)] /\ SuccessMeansAccepted'
    BY <1>1, <1>2, <1>5, <2>1, RowKeeps DEF TrueOf
  <2>3. i \in Sender /\ i.d = j.d /\ i.row = row /\ i.left = j.left /\ i.pc = "post"
    BY <1>1, <2>1 DEF Sender
  <2> HIDE DEF i
  <2>4. PICK q : q = i
    OBVIOUS
  <2>5. SenderIsTrue(q)'
    BY <1>1, <1>2, <2>1, <2>3, <2>4 DEF SenderIsTrue, TrueOf
  <2>6. QED
    BY <1>2, <1>3, <1>5, <2>2, <2>3, <2>4, <2>5, SenderMoves
<1>6. QED
  BY <1>4, <1>5 DEF ChangeStatus

\* A request begins with a log that it has loaded, or with new ones.
LEMMA RequestBegins ==
    ASSUME HooksInv, NEW i \in Sender, SenderIsTrue(i)', sender' \subseteq sender \cup {i},
           requests' \in Nat, disturbed' \subseteq Deliveries,
           retries' \subseteq [n: Nat, rows: SUBSET (Deliveries \X (Nat \ {0}))],
           UNCHANGED <<hook, logs, sends, signals, posts, accepted>>
    PROVE  HooksInv'
<1>1. HooksTypeOK'
  BY DEF HooksInv, HooksTypeOK
<1>2. QED
  BY <1>1, LogsStay, StepKeeps

LEMMA RetryLogKeeps ==
    ASSUME HooksInv, NEW w \in Senders, NEW d \in Deliveries, NEW k \in DOMAIN logs[d], RetryLog(w, d, k)
    PROVE  HooksInv'
<1> DEFINE i == [by |-> w, kind |-> "retry", d |-> d, n |-> 0, ok |-> FALSE, k |-> k,
                 row |-> logs[d][k], left |-> {}, pc |-> "check"]
<1>1. /\ requests' = requests + 1 /\ sender' = sender \cup {i}
      /\ disturbed' = IF Busy(d) THEN disturbed \cup {d} ELSE disturbed
      /\ UNCHANGED <<hook, logs, sends, retries, signals, posts, accepted>>
  BY DEF RetryLog
<1>2. logs[d] \in Seq(Row)
  BY DEF HooksInv, HooksTypeOK
<1>3. logs[d][k] \in Row /\ k \in Nat
  BY <1>2
<1>4. TrueOf(d, logs[d][k])
  BY DEF HooksInv, SuccessMeansAccepted, TrueOf
<1>5. i \in Sender
  BY <1>3 DEF Sender
<1>6. i.d = d /\ i.row = logs[d][k] /\ i.left = {} /\ i.pc = "check"
  OBVIOUS
<1> HIDE DEF i
<1>7. PICK q : q = i
  OBVIOUS
<1>8. SenderIsTrue(q)'
  BY <1>1, <1>4, <1>6, <1>7 DEF SenderIsTrue, TrueOf
<1>9. requests' \in Nat /\ disturbed' \subseteq Deliveries
      /\ retries' \subseteq [n: Nat, rows: SUBSET (Deliveries \X (Nat \ {0}))]
  BY <1>1 DEF HooksInv, HooksTypeOK
<1>10. QED
  BY <1>1, <1>5, <1>7, <1>8, <1>9, RequestBegins

\* The logs of a hook are logs of its deliveries.
LEMMA RowsFacts ==
    ASSUME HooksTypeOK, NEW h \in Hooks, NEW x \in Rows(h)
    PROVE  x[1] \in Deliveries /\ x[2] \in Nat \ {0} /\ x[2] \in DOMAIN logs[x[1]]
<1>1. PICK d \in {h} \X Submissions : x \in {d} \X DOMAIN logs[d]
  BY DEF Rows
<1>2. d \in Deliveries
  BY DEF Deliveries
<1>3. logs[d] \in Seq(Row)
  BY <1>2 DEF HooksTypeOK
<1>4. \A k \in DOMAIN logs[d] : k \in Nat \ {0}
  BY <1>3
<1>5. QED
  BY <1>1, <1>2, <1>4

LEMMA RetryAllKeeps ==
    ASSUME HooksInv, NEW w \in Senders, NEW h \in Hooks, RetryAll(w, h)
    PROVE  HooksInv'
<1> DEFINE found == {x \in Rows(h) : CanRetry(logs[x[1]][x[2]])}
           first == CHOOSE x \in found : TRUE
           left == {[d |-> x[1], k |-> x[2], row |-> New] : x \in found}
           i == [by |-> w, kind |-> "retry", d |-> first[1], n |-> requests, ok |-> FALSE,
                 k |-> first[2], row |-> New, pc |-> "mark", left |-> left]
<1>1. /\ found # {} /\ requests' = requests + 1 /\ sender' = sender \cup {i}
      /\ disturbed' = disturbed \cup {d \in Deliveries : Busy(d) /\ \E x \in found : x[1] = d}
      /\ UNCHANGED <<hook, logs, sends, retries, signals, posts, accepted>>
  BY DEF RetryAll
<1>2. HooksTypeOK /\ requests \in Nat
  BY DEF HooksInv, HooksTypeOK
<1>3. \A x \in found : x[1] \in Deliveries /\ x[2] \in Nat \ {0}
  BY <1>2, RowsFacts
<1>4. first \in found
  BY <1>1
<1>5. New \in Row /\ New.status = "pending"
  BY DEF New, Row, LogStatuses
<1>6. left \subseteq LogCopy /\ \A y \in left : y.row = New
  BY <1>3, <1>5 DEF LogCopy
<1> HIDE DEF found
<1>7. first[1] \in Deliveries /\ first[2] \in Nat
  BY <1>3, <1>4
<1> HIDE DEF first, left
<1>8. i \in Sender
  BY <1>2, <1>5, <1>6, <1>7 DEF Sender
<1>9. i.row = New /\ i.left = left /\ i.pc = "mark"
  OBVIOUS
<1> HIDE DEF i
<1>10. PICK q : q = i
  OBVIOUS
<1>11. SenderIsTrue(q)'
  BY <1>5, <1>6, <1>9, <1>10 DEF SenderIsTrue, TrueOf
<1>12. requests' \in Nat /\ disturbed' \subseteq Deliveries
       /\ retries' \subseteq [n: Nat, rows: SUBSET (Deliveries \X (Nat \ {0}))]
  BY <1>1 DEF HooksInv, HooksTypeOK
<1>13. QED
  BY <1>1, <1>8, <1>10, <1>11, <1>12, RequestBegins

LEMMA MarkPendingKeeps == ASSUME HooksInv, NEW j \in sender, MarkPending(j) PROVE HooksInv'
<1> DEFINE listed == {<<x.d, x.k>> : x \in j.left}
           Marked(d, k) == IF <<d, k>> \in listed THEN [logs[d][k] EXCEPT !.status = "pending"] ELSE logs[d][k]
<1>1. /\ logs' = [d \in Deliveries |-> [k \in DOMAIN logs[d] |-> Marked(d, k)]]
      /\ retries' = retries \cup {[n |-> j.n, rows |-> listed]}
      /\ sender' \subseteq sender
      /\ UNCHANGED <<hook, sends, signals, requests, posts, accepted, disturbed>>
  BY DEF MarkPending, Leave
<1>2. HooksTypeOK /\ SenderIsTrue(j) /\ j.n \in Nat
  BY SenderFacts DEF HooksInv
<1>3. listed \subseteq Deliveries \X (Nat \ {0})
  BY <1>2, SenderFacts
<1>4. ASSUME NEW d \in Deliveries, NEW k \in DOMAIN logs[d]
      PROVE  Marked(d, k) \in Row /\ (Marked(d, k).status = "success" => d \in accepted)
  <2>1. PICK log \in Seq(Row) : log = logs[d]
    BY <1>2 DEF HooksTypeOK
  <2>2. PICK row \in Row : row = logs[d][k]
    BY <2>1
  <2>3. row.status = "success" => d \in accepted
    BY <2>2 DEF HooksInv, SuccessMeansAccepted
  <2>4. [row EXCEPT !.status = "pending"] \in Row
        /\ [row EXCEPT !.status = "pending"].status = "pending"
    BY DEF Row, LogStatuses
  <2>5. QED
    BY <2>2, <2>3, <2>4
<1> HIDE DEF Marked, listed
<1>5. ASSUME NEW d \in Deliveries PROVE [k \in DOMAIN logs[d] |-> Marked(d, k)] \in Seq(Row)
  <2>1. PICK log \in Seq(Row) : log = logs[d]
    BY <1>2 DEF HooksTypeOK
  <2>2. DOMAIN log = 1 .. Len(log) /\ Len(log) \in Nat
    BY <2>1
  <2>3. [k \in 1 .. Len(log) |-> Marked(d, k)] \in [1 .. Len(log) -> Row]
    BY <1>4, <2>1, <2>2
  <2>4. QED
    BY <2>1, <2>2, <2>3
<1>6. logs' \in [Deliveries -> Seq(Row)]
  BY <1>1, <1>5
<1>7. SuccessMeansAccepted'
  BY <1>1, <1>4 DEF SuccessMeansAccepted
<1>8. retries' \subseteq [n: Nat, rows: SUBSET (Deliveries \X (Nat \ {0}))]
  BY <1>1, <1>2, <1>3 DEF HooksTypeOK
<1>9. HooksTypeOK'
  BY <1>1, <1>2, <1>6, <1>8 DEF HooksTypeOK
<1>10. SenderIsTrue(j)'
  BY <1>1, <1>2, StaysTrue
<1>11. QED
  BY <1>1, <1>7, <1>9, <1>10, StepKeeps

LEMMA StartRetryAllKeeps ==
    ASSUME HooksInv, NEW w \in Senders, NEW m \in retries, StartRetryAll(w, m)
    PROVE  HooksInv'
<1> DEFINE Copy(x) == [d |-> x[1], k |-> x[2], row |-> logs[x[1]][x[2]]]
           found == {x \in m.rows : x[2] \in DOMAIN logs[x[1]]}
           loaded == {Copy(x) : x \in found}
<1>1. /\ retries' = retries \ {m}
      /\ UNCHANGED <<hook, logs, sends, signals, requests, posts, accepted, disturbed>>
      /\ \/ sender' = sender
         \/ \E x \in loaded : sender' = sender \cup
              {[by |-> w, kind |-> "retry", d |-> x.d, n |-> 0, ok |-> FALSE,
                k |-> x.k, row |-> x.row, left |-> loaded \ {x}, pc |-> "post"]}
  BY DEF StartRetryAll
<1>2. HooksTypeOK /\ m.rows \subseteq Deliveries \X (Nat \ {0})
  BY DEF HooksInv, HooksTypeOK
<1>3. ASSUME NEW x \in found
      PROVE  /\ Copy(x) \in LogCopy /\ TrueOf(Copy(x).d, Copy(x).row)
  <2>1. x[1] \in Deliveries /\ x[2] \in Nat \ {0} /\ x[2] \in DOMAIN logs[x[1]]
    BY <1>2
  <2>2. PICK log \in Seq(Row) : log = logs[x[1]]
    BY <1>2, <2>1 DEF HooksTypeOK
  <2>3. logs[x[1]][x[2]] \in Row
    BY <2>1, <2>2
  <2>4. logs[x[1]][x[2]].status = "success" => x[1] \in accepted
    BY <2>1 DEF HooksInv, SuccessMeansAccepted
  <2>5. QED
    BY <2>1, <2>3, <2>4 DEF LogCopy, TrueOf
<1>4. \A y \in loaded : y \in LogCopy /\ TrueOf(y.d, y.row)
  BY <1>3
<1> HIDE DEF loaded
<1>5. retries' \subseteq [n: Nat, rows: SUBSET (Deliveries \X (Nat \ {0}))]
      /\ requests' \in Nat /\ disturbed' \subseteq Deliveries
  BY <1>1, <1>2 DEF HooksTypeOK
<1>6. CASE sender' = sender
  <2>1. HooksTypeOK' /\ SuccessMeansAccepted'
    BY <1>1, <1>2, <1>5, <1>6, LogsStay DEF HooksTypeOK
  <2>2. \A j : SenderIsTrue(j) => SenderIsTrue(j)'
    BY <1>1, StaysTrue
  <2>3. QED
    BY <1>6, <2>1, <2>2 DEF HooksInv
<1>7. ASSUME NEW x \in loaded, sender' = sender \cup
              {[by |-> w, kind |-> "retry", d |-> x.d, n |-> 0, ok |-> FALSE,
                k |-> x.k, row |-> x.row, left |-> loaded \ {x}, pc |-> "post"]}
      PROVE  HooksInv'
  <2> DEFINE i == [by |-> w, kind |-> "retry", d |-> x.d, n |-> 0, ok |-> FALSE,
                   k |-> x.k, row |-> x.row, left |-> loaded \ {x}, pc |-> "post"]
  <2>1. x.d \in Deliveries /\ x.k \in Nat /\ x.row \in Row /\ loaded \ {x} \subseteq LogCopy
    BY <1>4 DEF LogCopy
  <2>2. i \in Sender
    BY <2>1 DEF Sender
  <2>3. i.d = x.d /\ i.row = x.row /\ i.left = loaded \ {x} /\ i.pc = "post"
    OBVIOUS
  <2>4. sender' \subseteq sender \cup {i}
    BY <1>7
  <2> HIDE DEF i
  <2>5. PICK q : q = i
    OBVIOUS
  <2>6. SenderIsTrue(q)'
    BY <1>1, <1>4, <2>3, <2>5 DEF SenderIsTrue, TrueOf
  <2>7. QED
    BY <1>1, <1>5, <2>2, <2>4, <2>5, <2>6, RequestBegins
<1>8. QED
  BY <1>1, <1>6, <1>7

----------------------------------------------------------------------------
(* Signals, hooks, time and faults *)

\* Senders may leave; none comes and none changes.
LEMMA OthersKeep ==
    ASSUME HooksInv, HooksTypeOK', SuccessMeansAccepted', sender' \subseteq sender, accepted' = accepted
    PROVE  HooksInv'
<1>1. \A j : SenderIsTrue(j) => SenderIsTrue(j)'
  BY StaysTrue
<1>2. QED
  BY <1>1 DEF HooksInv

LEMMA SignalKeeps == ASSUME HooksInv, NEW s \in Submissions, Signal(s) PROVE HooksInv'
<1> DEFINE called == {d \in Deliveries : d[2] = s /\ hook[d[1]] = "active" /\ logs[d] = << >>}
<1>1. /\ signals' = signals + 1
      /\ sends' = [d \in Deliveries |->
                     IF d \in called THEN [sends[d] EXCEPT ![0] = @ + 1] ELSE sends[d]]
      /\ disturbed' = disturbed \cup {d \in called : Busy(d)}
      /\ UNCHANGED <<hook, logs, retries, sender, requests, posts, accepted>>
  BY DEF Signal
<1>2. called \subseteq Deliveries
  OBVIOUS
<1> HIDE DEF called
<1>3. ASSUME NEW d \in Deliveries PROVE [sends[d] EXCEPT ![0] = @ + 1] \in [0 .. MaxRetries -> Nat]
  <2>1. PICK waiting \in [0 .. MaxRetries -> Nat] : waiting = sends[d]
    BY DEF HooksInv, HooksTypeOK
  <2>2. [waiting EXCEPT ![0] = @ + 1] \in [0 .. MaxRetries -> Nat]
    BY OneMore
  <2>3. QED
    BY <2>1, <2>2
<1>4. sends' \in [Deliveries -> [0 .. MaxRetries -> Nat]]
  BY <1>1, <1>3 DEF HooksInv, HooksTypeOK
<1>5. HooksTypeOK'
  BY <1>1, <1>2, <1>4 DEF HooksInv, HooksTypeOK
<1>6. QED
  BY <1>1, <1>5, LogsStay, OthersKeep

LEMMA HookRequestKeeps ==
    ASSUME HooksInv, NEW h \in Hooks, ToggleHook(h) \/ DeleteHook(h)
    PROVE  HooksInv'
<1>1. requests' = requests + 1
      /\ UNCHANGED <<sends, retries, sender, signals, posts, accepted, disturbed>>
  BY DEF ToggleHook, DeleteHook
<1>2. hook' \in [Hooks -> {"active", "disabled", "deleted"}]
  BY DEF ToggleHook, DeleteHook, HooksInv, HooksTypeOK
<1>3. logs' \in [Deliveries -> Seq(Row)] /\ \A d \in Deliveries : logs'[d] \in {logs[d], << >>}
  <2>1. << >> \in Seq(Row)
    OBVIOUS
  <2>2. QED
    BY <2>1 DEF ToggleHook, DeleteHook, HooksInv, HooksTypeOK
<1>4. HooksTypeOK'
  BY <1>1, <1>2, <1>3 DEF HooksInv, HooksTypeOK
<1>5. SuccessMeansAccepted'
  <2>1. DOMAIN << >> = {}
    OBVIOUS
  <2>2. QED
    BY <1>1, <1>3, <2>1 DEF HooksInv, SuccessMeansAccepted
<1>6. QED
  BY <1>1, <1>4, <1>5, OthersKeep

LEMMA AgeLogKeeps ==
    ASSUME HooksInv, NEW d \in Deliveries, NEW k \in DOMAIN logs[d], AgeLog(d, k)
    PROVE  HooksInv'
<1> DEFINE row == [logs[d][k] EXCEPT !.old = TRUE]
<1>1. logs' = [logs EXCEPT ![d][k] = row]
      /\ UNCHANGED <<hook, sends, retries, sender, signals, requests, posts, accepted, disturbed>>
  BY DEF AgeLog
<1>2. PICK log \in Seq(Row) : log = logs[d]
  BY DEF HooksInv, HooksTypeOK
<1>3. logs[d][k] \in Row
  BY <1>2
<1>4. row \in Row /\ row.status = logs[d][k].status
  BY <1>3 DEF Row
<1> HIDE DEF row
<1>5. TrueOf(d, row)
  BY <1>4 DEF HooksInv, SuccessMeansAccepted, TrueOf
<1>6. logs' \in [Deliveries -> Seq(Row)] /\ SuccessMeansAccepted'
  BY <1>1, <1>4, <1>5, RowKeeps
<1>7. HooksTypeOK'
  BY <1>1, <1>6 DEF HooksInv, HooksTypeOK
<1>8. QED
  BY <1>1, <1>6, <1>7, OthersKeep

LEMMA KillSenderKeeps == ASSUME HooksInv, NEW j \in sender, KillSender(j) PROVE HooksInv'
<1>1. /\ sender' \subseteq sender /\ disturbed' = disturbed \cup Concerned(j)
      /\ UNCHANGED <<hook, logs, sends, retries, signals, requests, posts, accepted>>
  BY DEF KillSender, Leave
<1>2. Concerned(j) \subseteq Deliveries
  BY SenderFacts DEF HooksInv, Concerned
<1>3. HooksTypeOK'
  BY <1>1, <1>2 DEF HooksInv, HooksTypeOK
<1>4. QED
  BY <1>1, <1>3, LogsStay, OthersKeep

----------------------------------------------------------------------------
LEMMA InitHooks == HooksInit => HooksInv
<1> SUFFICES ASSUME HooksInit PROVE HooksInv
  OBVIOUS
<1>1. << >> \in Seq(Row) /\ DOMAIN << >> = {}
  OBVIOUS
<1>2. HooksTypeOK
  BY <1>1 DEF HooksInit, HooksTypeOK
<1>3. SuccessMeansAccepted /\ \A j \in sender : SenderIsTrue(j)
  BY <1>1 DEF HooksInit, SuccessMeansAccepted
<1>4. QED
  BY <1>2, <1>3 DEF HooksInv

LEMMA NextHooks == ASSUME HooksInv, [HooksNext]_hookVars PROVE HooksInv'
<1>1. CASE \E s \in Submissions : Signal(s)
  BY <1>1, SignalKeeps
<1>2. ASSUME NEW j \in sender, SenderStep(j) \/ KillSender(j) PROVE HooksInv'
  BY <1>2, PostKeeps, ReadLogKeeps, SaveLogKeeps, LogRaisedKeeps, ChangeStatusKeeps,
     MarkPendingKeeps, KillSenderKeeps DEF SenderStep
<1>3. ASSUME NEW w \in Senders, StartStep(w) PROVE HooksInv'
  BY <1>3, StartSendKeeps, StartRetryAllKeeps DEF StartStep
<1>4. ASSUME NEW w \in Senders, NEW d \in Deliveries, NEW k \in DOMAIN logs[d], RetryLog(w, d, k)
      PROVE  HooksInv'
  BY <1>4, RetryLogKeeps
<1>5. ASSUME NEW w \in Senders, NEW h \in Hooks, RetryAll(w, h) PROVE HooksInv'
  BY <1>5, RetryAllKeeps
<1>6. ASSUME NEW h \in Hooks, ToggleHook(h) \/ DeleteHook(h) PROVE HooksInv'
  BY <1>6, HookRequestKeeps
<1>7. CASE TimeStep
  BY <1>7, AgeLogKeeps DEF TimeStep
<1>8. CASE UNCHANGED hookVars
  <2>1. UNCHANGED <<hook, logs, sends, retries, sender, signals, requests, posts, accepted, disturbed>>
    BY <1>8 DEF hookVars
  <2>2. HooksTypeOK'
    BY <2>1 DEF HooksInv, HooksTypeOK
  <2>3. QED
    BY <2>1, <2>2, LogsStay, OthersKeep
<1>9. QED
  BY <1>1, <1>2, <1>3, <1>4, <1>5, <1>6, <1>7, <1>8 DEF HooksNext

\* The variables of HookDelivery keep their types.
THEOREM HooksTypeCorrect == HooksSpec => []HooksTypeOK
<1>1. HooksInv => HooksTypeOK
  BY DEF HooksInv
<1>2. QED
  BY <1>1, InitHooks, NextHooks, PTL DEF HooksSpec

\* Whoever sends, retries, dies or writes an old copy back, a log that says SUCCESS
\* is of a delivery that its endpoint has accepted.
THEOREM SuccessIsAccepted == HooksSpec => []SuccessMeansAccepted
<1>1. HooksInv => SuccessMeansAccepted
  BY DEF HooksInv
<1>2. QED
  BY <1>1, InitHooks, NextHooks, PTL DEF HooksSpec

----------------------------------------------------------------------------
(* 2. Deliveries: the tries are counted *)

CopyIsRight(d, row) == Counted(d, row) /\ Tired(d, row)
SenderIsRight(j) ==
    /\ CopyIsRight(j.d, j.row) /\ \A x \in j.left : CopyIsRight(x.d, x.row)
    /\ j.pc = "raised" => ~Single(j.d)

CountsInv == IsFiniteSet(sender) /\ TriesAreMade /\ FailedIsTired /\ DeletedHaveNoLogs

\* A step makes as many attempts as it takes in hand, and no delivery that has
\* two logs or has lost its hook is single again.
Steady ==
    \A d \in Deliveries :
        /\ Single(d)' => Single(d)
        /\ Cardinality(InHand(d)') + posts[d] <= Cardinality(InHand(d)) + posts'[d]

LEMMA InHandIsFinite ==
    ASSUME IsFiniteSet(sender), NEW d
    PROVE  IsFiniteSet(InHand(d)) /\ Cardinality(InHand(d)) \in Nat
<1>1. InHand(d) \subseteq sender
  BY DEF InHand
<1>2. QED
  BY <1>1, FS_Subset, FS_CardinalityType

LEMMA InHandIsFiniteThen ==
    ASSUME IsFiniteSet(sender'), NEW d
    PROVE  IsFiniteSet(InHand(d)') /\ Cardinality(InHand(d)') \in Nat
<1>1. InHand(d)' \subseteq sender'
  BY DEF InHand
<1>2. QED
  BY <1>1, FS_Subset, FS_CardinalityType

\* The copies that were right still are.
LEMMA CopyStaysRight ==
    ASSUME HooksTypeOK, HooksTypeOK', IsFiniteSet(sender), IsFiniteSet(sender'), Steady,
           NEW d \in Deliveries, NEW row \in Row, CopyIsRight(d, row)
    PROVE  CopyIsRight(d, row)'
<1> DEFINE before == Cardinality(InHand(d))
           after == Cardinality(InHand(d)')
<1>1. before \in Nat /\ after \in Nat
  BY InHandIsFinite, InHandIsFiniteThen
<1>2. row.tries \in Nat /\ posts[d] \in Nat /\ posts'[d] \in Nat
  BY DEF HooksTypeOK, Row
<1>3. after + posts[d] <= before + posts'[d] /\ row.tries + before <= posts[d]
  BY DEF Steady, CopyIsRight, Counted
<1> HIDE DEF before, after
<1>4. row.tries + after <= posts'[d]
  BY <1>1, <1>2, <1>3
<1>5. Tired(d, row)'
  BY DEF Steady, CopyIsRight, Tired
<1>6. QED
  BY <1>4, <1>5 DEF CopyIsRight, Counted, after

\* A row that counts no more tries, and is not FAILED without the other being so,
\* is as right.
LEMMA AsRight ==
    ASSUME NEW d \in Deliveries, NEW row \in Row, NEW other \in Row, CopyIsRight(d, other),
           row.tries = other.tries, row.status = "failed" => other.status = "failed"
    PROVE  CopyIsRight(d, row)
  BY DEF CopyIsRight, Counted, Tired

LEMMA RightFacts ==
    ASSUME HooksTypeOK, CountsInv
    PROVE  /\ \A d \in Deliveries : CopyIsRight(d, New) /\ \A k \in DOMAIN logs[d] : CopyIsRight(d, logs[d][k])
           /\ \A j \in sender : SenderIsRight(j)
<1>1. New.status = "pending"
  BY DEF New
<1>2. QED
  BY <1>1 DEF CountsInv, TriesAreMade, FailedIsTired, CopyIsRight, SenderIsRight, Tired

\* The rows of the logs after a step are right if each is a row there was, or is
\* as right, or is right; and so with the senders.
LEMMA CountsKept ==
    ASSUME HooksTypeOK, HooksTypeOK', CountsInv, Steady, IsFiniteSet(sender'), DeletedHaveNoLogs',
           \A d \in Deliveries : \A k \in DOMAIN logs'[d] :
             \/ /\ k \in DOMAIN logs[d] /\ logs'[d][k].tries = logs[d][k].tries
                /\ logs'[d][k].status = "failed" => logs[d][k].status = "failed"
             \/ CopyIsRight(d, logs[d][k])',
           \A i \in sender' : i \in sender \/ SenderIsRight(i)'
    PROVE  CountsInv'
<1>1. /\ \A d \in Deliveries : CopyIsRight(d, New) /\ \A k \in DOMAIN logs[d] : CopyIsRight(d, logs[d][k])
      /\ \A j \in sender : SenderIsRight(j)
  BY RightFacts
<1>2. IsFiniteSet(sender)
  BY DEF CountsInv
<1>3. ASSUME NEW d \in Deliveries, NEW row \in Row, CopyIsRight(d, row) PROVE CopyIsRight(d, row)'
  BY <1>2, <1>3, CopyStaysRight
<1>4. New \in Row /\ New.tries = 0
  BY DEF New, Row, LogStatuses
<1>5. ASSUME NEW d \in Deliveries PROVE CopyIsRight(d, New)'
  BY <1>1, <1>3, <1>4
<1>6. ASSUME NEW d \in Deliveries, NEW k \in DOMAIN logs'[d] PROVE CopyIsRight(d, logs[d][k])'
  <2>1. CASE /\ k \in DOMAIN logs[d] /\ logs'[d][k].tries = logs[d][k].tries
             /\ logs'[d][k].status = "failed" => logs[d][k].status = "failed"
    <3>1. logs[d] \in Seq(Row) /\ logs'[d] \in Seq(Row)
      BY DEF HooksTypeOK
    <3>2. logs[d][k] \in Row /\ logs'[d][k] \in Row
      BY <2>1, <3>1
    <3>3. PICK row \in Row : row = logs'[d][k]
      BY <3>2
    <3>4. CopyIsRight(d, row)
      BY <1>1, <2>1, <3>2, <3>3, AsRight
    <3>5. CopyIsRight(d, row)'
      BY <1>3, <3>4
    <3>6. QED
      BY <3>3, <3>5
  <2>2. QED
    BY <2>1
<1>7. ASSUME NEW i \in sender' PROVE SenderIsRight(i)'
  <2>1. CASE i \in sender
    <3>1. /\ i.d \in Deliveries /\ i.row \in Row
          /\ \A x \in i.left : x.d \in Deliveries /\ x.row \in Row
      BY <2>1, SenderFacts
    <3>2. SenderIsRight(i)
      BY <1>1, <2>1
    <3>3. CopyIsRight(i.d, i.row)'
      BY <1>3, <3>1, <3>2 DEF SenderIsRight
    <3>4. \A x \in i.left : CopyIsRight(x.d, x.row)'
      BY <1>3, <3>1, <3>2 DEF SenderIsRight
    <3>5. i.pc = "raised" => ~Single(i.d)'
      BY <3>1, <3>2 DEF SenderIsRight, Steady
    <3>6. QED
      BY <3>3, <3>4, <3>5 DEF SenderIsRight
  <2>2. QED
    BY <2>1
<1>8. TriesAreMade'
  BY <1>5, <1>6, <1>7 DEF TriesAreMade, CopyIsRight, SenderIsRight
<1>9. FailedIsTired'
  BY <1>6, <1>7 DEF FailedIsTired, CopyIsRight, SenderIsRight
<1>10. QED
  BY <1>8, <1>9 DEF CountsInv

\* A sender that is right stays so.
LEMMA SenderStaysRight ==
    ASSUME HooksTypeOK, HooksTypeOK', CountsInv, IsFiniteSet(sender'), Steady,
           NEW i \in Sender, SenderIsRight(i)
    PROVE  SenderIsRight(i)'
<1>1. i.d \in Deliveries /\ i.row \in Row /\ i.left \subseteq LogCopy
  BY DEF Sender
<1>2. \A x \in i.left : x.d \in Deliveries /\ x.row \in Row
  BY <1>1 DEF LogCopy
<1>3. IsFiniteSet(sender)
  BY DEF CountsInv
<1>4. CopyIsRight(i.d, i.row)'
  BY <1>1, <1>3, CopyStaysRight DEF SenderIsRight
<1>5. \A x \in i.left : CopyIsRight(x.d, x.row)'
  BY <1>2, <1>3, CopyStaysRight DEF SenderIsRight
<1>6. i.pc = "raised" => ~Single(i.d)'
  BY <1>1 DEF SenderIsRight, Steady
<1>7. QED
  BY <1>4, <1>5, <1>6 DEF SenderIsRight

\* No delivery becomes single while hooks stay deleted and logs do not shrink.
LEMMA NoneBecomesSingle ==
    ASSUME HooksTypeOK, HooksTypeOK',
           \A d \in Deliveries :
             hook[d[1]] = "deleted" => hook'[d[1]] = "deleted",
           \A d \in Deliveries :
             hook'[d[1]] = "deleted" \/ DOMAIN logs[d] \subseteq DOMAIN logs'[d],
           NEW d \in Deliveries, Single(d)'
    PROVE  Single(d)
<1>1. PICK before \in Seq(Row), after \in Seq(Row) : before = logs[d] /\ after = logs'[d]
  BY DEF HooksTypeOK
<1>2. hook'[d[1]] # "deleted" /\ Len(after) <= 1
  BY <1>1 DEF Single
<1>3. DOMAIN before \subseteq DOMAIN after
  BY <1>1, <1>2
<1>4. Len(before) \in Nat /\ Len(after) \in Nat
      /\ DOMAIN before = 1 .. Len(before) /\ DOMAIN after = 1 .. Len(after)
  OBVIOUS
<1>5. ~(Len(before) > 1)
  <2>1. SUFFICES ASSUME Len(before) > 1 PROVE FALSE
    OBVIOUS
  <2>2. 2 \in 1 .. Len(before) /\ 2 \notin 1 .. Len(after)
    BY <1>2, <1>4, <2>1
  <2>3. QED
    BY <1>3, <1>4, <2>2
<1>6. QED
  BY <1>1, <1>2, <1>4, <1>5 DEF Single

LEMMA NoRows ==
    ASSUME NEW log \in Seq(Row)
    PROVE  (log = << >>) <=> (DOMAIN log = {})
<1>1. DOMAIN log = 1 .. Len(log) /\ Len(log) \in Nat
  OBVIOUS
<1>2. ASSUME DOMAIN log = {} PROVE log = << >>
  <2>1. Len(log) = 0
    BY <1>1, <1>2
  <2>2. QED
    BY <2>1
<1>3. ASSUME log = << >> PROVE DOMAIN log = {}
  BY <1>3
<1>4. QED
  BY <1>2, <1>3

\* Nothing is taken in hand, and nothing attempted.
LEMMA FewerInHand ==
    ASSUME HooksTypeOK, IsFiniteSet(sender), posts' = posts,
           \A d \in Deliveries : Single(d)' => Single(d),
           \A d \in Deliveries : InHand(d)' \subseteq InHand(d)
    PROVE  Steady
<1> SUFFICES ASSUME NEW d \in Deliveries
             PROVE  Cardinality(InHand(d)') + posts[d] <= Cardinality(InHand(d)) + posts'[d]
  BY DEF Steady
<1>1. IsFiniteSet(InHand(d)) /\ Cardinality(InHand(d)) \in Nat
  BY InHandIsFinite
<1>2. IsFiniteSet(InHand(d)') /\ Cardinality(InHand(d)') <= Cardinality(InHand(d))
  BY <1>1, FS_Subset
<1>3. Cardinality(InHand(d)') \in Nat /\ posts[d] \in Nat
  BY <1>2, FS_CardinalityType DEF HooksTypeOK
<1>4. QED
  BY <1>1, <1>2, <1>3

\* The steps that leave the logs as they are, and make no attempt.
LEMMA LogsSame ==
    ASSUME HooksTypeOK, HooksTypeOK', CountsInv, logs' = logs, posts' = posts,
           \A h \in Hooks : hook'[h] = "deleted" <=> hook[h] = "deleted",
           \A d \in Deliveries : InHand(d)' \subseteq InHand(d), IsFiniteSet(sender'),
           \A i \in sender' : i \in sender \/ SenderIsRight(i)
    PROVE  CountsInv'
<1>1. \A d \in Deliveries : d[1] \in Hooks
  BY DEF Deliveries
<1>2. \A d \in Deliveries : Single(d)' => Single(d)
  BY <1>1, NoneBecomesSingle
<1>3. Steady
  BY <1>2, FewerInHand DEF CountsInv
<1>4. sender' \subseteq Sender
  BY DEF HooksTypeOK
<1>5. \A i \in sender' : i \in sender \/ SenderIsRight(i)'
  BY <1>3, <1>4, SenderStaysRight
<1>6. DeletedHaveNoLogs'
  BY <1>1 DEF CountsInv, DeletedHaveNoLogs
<1>7. QED
  BY <1>3, <1>5, <1>6, CountsKept

\* A sender that has nothing in hand begins.
LEMMA SenderBegins ==
    ASSUME IsFiniteSet(sender), NEW i, sender' \subseteq sender \cup {i},
           i.pc \notin {"log", "save", "raised"}
    PROVE  IsFiniteSet(sender') /\ \A d : InHand(d)' \subseteq InHand(d)
<1>1. IsFiniteSet(sender \cup {i})
  BY FS_AddElement
<1>2. IsFiniteSet(sender')
  BY <1>1, FS_Subset
<1>3. QED
  BY <1>2 DEF InHand

LEMMA BeginningCounts ==
    ASSUME HooksTypeOK, HooksTypeOK', CountsInv, UNCHANGED <<hook, logs, posts>>,
           NEW i, sender' \subseteq sender \cup {i}, i.pc \notin {"log", "save", "raised"},
           SenderIsRight(i)
    PROVE  CountsInv'
<1>1. IsFiniteSet(sender') /\ \A d : InHand(d)' \subseteq InHand(d)
  BY SenderBegins DEF CountsInv
<1>2. \A j \in sender' : j \in sender \/ SenderIsRight(j)
  OBVIOUS
<1>3. QED
  BY <1>1, <1>2, LogsSame

LEMMA StartSendCounts ==
    ASSUME HooksTypeOK, HooksTypeOK', CountsInv, NEW w \in Senders, NEW d \in Deliveries,
           NEW n \in 0 .. MaxRetries, StartSend(w, d, n)
    PROVE  CountsInv'
<1> DEFINE i == [by |-> w, kind |-> "auto", d |-> d, n |-> n, ok |-> FALSE,
                 k |-> 0, row |-> New, left |-> {}, pc |-> "post"]
<1>1. sender' \subseteq sender \cup {i} /\ UNCHANGED <<hook, logs, posts>>
  BY DEF StartSend
<1>2. SenderIsRight(i) /\ i.pc = "post"
  BY RightFacts DEF SenderIsRight
<1> HIDE DEF i
<1>3. QED
  BY <1>1, <1>2, BeginningCounts

LEMMA RetryLogCounts ==
    ASSUME HooksTypeOK, HooksTypeOK', CountsInv, NEW w \in Senders, NEW d \in Deliveries,
           NEW k \in DOMAIN logs[d], RetryLog(w, d, k)
    PROVE  CountsInv'
<1> DEFINE i == [by |-> w, kind |-> "retry", d |-> d, n |-> 0, ok |-> FALSE, k |-> k,
                 row |-> logs[d][k], left |-> {}, pc |-> "check"]
<1>1. sender' \subseteq sender \cup {i} /\ UNCHANGED <<hook, logs, posts>>
  BY DEF RetryLog
<1>2. SenderIsRight(i) /\ i.pc = "check"
  BY RightFacts DEF SenderIsRight
<1> HIDE DEF i
<1>3. QED
  BY <1>1, <1>2, BeginningCounts

LEMMA RetryAllCounts ==
    ASSUME HooksTypeOK, HooksTypeOK', CountsInv, NEW w \in Senders, NEW h \in Hooks, RetryAll(w, h)
    PROVE  CountsInv'
<1> DEFINE found == {x \in Rows(h) : CanRetry(logs[x[1]][x[2]])}
           first == CHOOSE x \in found : TRUE
           i == [by |-> w, kind |-> "retry", d |-> first[1], n |-> requests, ok |-> FALSE,
                 k |-> first[2], row |-> New, pc |-> "mark",
                 left |-> {[d |-> x[1], k |-> x[2], row |-> New] : x \in found}]
<1>1. sender' \subseteq sender \cup {i} /\ UNCHANGED <<hook, logs, posts>> /\ found # {}
  BY DEF RetryAll
<1>2. \A x \in Rows(h) : x[1] \in Deliveries
  BY DEF Rows, Deliveries
<1>3. first \in found /\ \A x \in found : x[1] \in Deliveries
  BY <1>1, <1>2
<1> HIDE DEF first, found
<1>4. SenderIsRight(i) /\ i.pc = "mark"
  BY <1>3, RightFacts DEF SenderIsRight
<1> HIDE DEF i
<1>5. QED
  BY <1>1, <1>4, BeginningCounts

LEMMA StartRetryAllCounts ==
    ASSUME HooksTypeOK, HooksTypeOK', CountsInv, NEW w \in Senders, NEW m \in retries,
           StartRetryAll(w, m)
    PROVE  CountsInv'
<1> DEFINE Copy(x) == [d |-> x[1], k |-> x[2], row |-> logs[x[1]][x[2]]]
           loaded == {Copy(x) : x \in {x \in m.rows : x[2] \in DOMAIN logs[x[1]]}}
<1>1. /\ UNCHANGED <<hook, logs, posts>>
      /\ \/ sender' = sender
         \/ \E x \in loaded : sender' = sender \cup
              {[by |-> w, kind |-> "retry", d |-> x.d, n |-> 0, ok |-> FALSE,
                k |-> x.k, row |-> x.row, left |-> loaded \ {x}, pc |-> "post"]}
  BY DEF StartRetryAll
<1>2. \A x \in m.rows : x[1] \in Deliveries
  BY DEF HooksTypeOK
<1>3. \A x \in loaded : CopyIsRight(x.d, x.row)
  BY <1>2, RightFacts
<1> HIDE DEF loaded
<1>4. CASE sender' = sender
  BY <1>1, <1>4, LogsSame DEF CountsInv, InHand
<1>5. ASSUME NEW x \in loaded,
             sender' = sender \cup
               {[by |-> w, kind |-> "retry", d |-> x.d, n |-> 0, ok |-> FALSE,
                 k |-> x.k, row |-> x.row, left |-> loaded \ {x}, pc |-> "post"]}
      PROVE  CountsInv'
  <2> DEFINE i == [by |-> w, kind |-> "retry", d |-> x.d, n |-> 0, ok |-> FALSE,
                   k |-> x.k, row |-> x.row, left |-> loaded \ {x}, pc |-> "post"]
  <2>1. sender' \subseteq sender \cup {i}
    BY <1>5
  <2>2. SenderIsRight(i) /\ i.pc = "post"
    BY <1>3 DEF SenderIsRight
  <2> HIDE DEF i
  <2>3. QED
    BY <1>1, <2>1, <2>2, BeginningCounts
<1>6. QED
  BY <1>1, <1>4, <1>5

LEMMA PostCounts ==
    ASSUME HooksTypeOK, HooksTypeOK', CountsInv, NEW j \in sender, Post(j)
    PROVE  CountsInv'
<1>1. PICK ok \in BOOLEAN : Becomes(j, [j EXCEPT !.pc = "log", !.ok = ok])
  BY DEF Post
<1> DEFINE i == [j EXCEPT !.pc = "log", !.ok = ok]
<1>2. posts' = [posts EXCEPT ![j.d] = @ + 1] /\ UNCHANGED <<hook, logs>>
  BY DEF Post
<1>3. j \in Sender /\ j.d \in Deliveries
  BY SenderFacts
<1>4. i \in Sender /\ i.d = j.d /\ i.row = j.row /\ i.left = j.left /\ i.pc = "log"
  BY <1>3 DEF Sender
<1>5. sender' = (sender \ {j}) \cup {i}
  BY <1>1 DEF Becomes
<1> HIDE DEF i
<1>6. IsFiniteSet(sender) /\ IsFiniteSet(sender')
  <2>1. IsFiniteSet(sender) /\ IsFiniteSet(sender \cup {i})
    BY FS_AddElement DEF CountsInv
  <2>2. sender' \subseteq sender \cup {i}
    BY <1>5
  <2>3. QED
    BY <2>1, <2>2, FS_Subset
<1>7. Steady
  <2>1. \A d \in Deliveries : Single(d)' => Single(d)
    BY <1>2, NoneBecomesSingle
  <2>2. ASSUME NEW d \in Deliveries
        PROVE  Cardinality(InHand(d)') + posts[d] <= Cardinality(InHand(d)) + posts'[d]
    <3>1. IsFiniteSet(InHand(d)) /\ Cardinality(InHand(d)) \in Nat /\ Cardinality(InHand(d)') \in Nat
          /\ posts[d] \in Nat
      BY <1>6, InHandIsFinite, InHandIsFiniteThen DEF HooksTypeOK
    <3>2. CASE d = j.d
      <4>1. InHand(d)' \subseteq InHand(d) \cup {i}
        BY <1>5 DEF InHand
      <4>2. IsFiniteSet(InHand(d) \cup {i})
            /\ Cardinality(InHand(d) \cup {i}) \in {Cardinality(InHand(d)), Cardinality(InHand(d)) + 1}
        BY <3>1, FS_AddElement
      <4>3. Cardinality(InHand(d)') <= Cardinality(InHand(d) \cup {i})
        BY <4>1, <4>2, FS_Subset
      <4>4. posts'[d] = posts[d] + 1
        BY <1>2, <3>2 DEF HooksTypeOK
      <4>5. QED
        BY <3>1, <4>2, <4>3, <4>4
    <3>3. CASE d # j.d
      <4>1. InHand(d)' \subseteq InHand(d)
        BY <1>4, <1>5, <3>3 DEF InHand
      <4>2. Cardinality(InHand(d)') <= Cardinality(InHand(d))
        BY <3>1, <4>1, FS_Subset
      <4>3. posts'[d] = posts[d]
        BY <1>2, <3>3 DEF HooksTypeOK
      <4>4. QED
        BY <3>1, <4>2, <4>3
    <3>4. QED
      BY <3>2, <3>3
  <2>3. QED
    BY <2>1, <2>2 DEF Steady
<1>8. SenderIsRight(i)
  BY <1>4, RightFacts DEF SenderIsRight
<1>9. \A q \in sender' : q \in sender \/ SenderIsRight(q)'
  BY <1>4, <1>5, <1>6, <1>7, <1>8, SenderStaysRight
<1>10. DeletedHaveNoLogs'
  BY <1>2 DEF CountsInv, DeletedHaveNoLogs
<1>11. QED
  BY <1>2, <1>6, <1>7, <1>9, <1>10, CountsKept

LEMMA ReadLogCounts ==
    ASSUME HooksTypeOK, HooksTypeOK', CountsInv, NEW j \in sender, ReadLog(j)
    PROVE  CountsInv'
<1>1. j \in Sender /\ j.d \in Deliveries /\ logs[j.d] \in Seq(Row)
  BY SenderFacts DEF HooksTypeOK
<1>2. j.pc = "log" /\ UNCHANGED <<hook, logs, posts>>
  BY DEF ReadLog
<1>3. \E i \in Sender :
        /\ Becomes(j, i) /\ i.d = j.d /\ i.left = j.left /\ SenderIsRight(i)
  <2>1. SenderIsRight(j)
    BY RightFacts
  <2>2. ASSUME NEW k \in Nat, NEW row \in Row, CopyIsRight(j.d, row),
               Becomes(j, [j EXCEPT !.pc = "save", !.k = k, !.row = row])
        PROVE  \E i \in Sender :
                 /\ Becomes(j, i) /\ i.d = j.d /\ i.left = j.left /\ SenderIsRight(i)
    <3> DEFINE i == [j EXCEPT !.pc = "save", !.k = k, !.row = row]
    <3>1. i \in Sender /\ i.d = j.d /\ i.row = row /\ i.left = j.left /\ i.pc = "save"
      BY <1>1 DEF Sender
    <3>2. SenderIsRight(i)
      BY <2>1, <2>2, <3>1 DEF SenderIsRight
    <3>3. QED
      BY <2>2, <3>1, <3>2
  <2>3. CASE Len(logs[j.d]) = 0
    <3>1. Becomes(j, [j EXCEPT !.pc = "save", !.k = 0, !.row = New])
      BY <2>3 DEF ReadLog
    <3>2. New \in Row /\ CopyIsRight(j.d, New)
      BY <1>1, RightFacts DEF New, Row, LogStatuses
    <3>3. QED
      BY <2>2, <3>1, <3>2
  <2>4. CASE Len(logs[j.d]) = 1
    <3>1. Becomes(j, [j EXCEPT !.pc = "save", !.k = 1, !.row = logs[j.d][1]])
      BY <2>4 DEF ReadLog
    <3>2. PICK log \in Seq(Row) : log = logs[j.d]
      BY <1>1
    <3>3. 1 \in DOMAIN log /\ log[1] \in Row
      BY <2>4, <3>2
    <3>4. CopyIsRight(j.d, logs[j.d][1]) /\ logs[j.d][1] \in Row
      BY <1>1, <3>2, <3>3, RightFacts
    <3>5. QED
      BY <2>2, <3>1, <3>4
  <2>5. CASE Len(logs[j.d]) # 0 /\ Len(logs[j.d]) # 1
    <3> DEFINE i == [j EXCEPT !.pc = "raised"]
    <3>1. Becomes(j, i)
      BY <2>5 DEF ReadLog
    <3>2. i \in Sender /\ i.d = j.d /\ i.row = j.row /\ i.left = j.left
      BY <1>1 DEF Sender
    <3>3. PICK log \in Seq(Row) : log = logs[j.d]
      BY <1>1
    <3>4. ~Single(j.d)
      <4>1. PICK length \in Nat : length = Len(log)
        OBVIOUS
      <4>2. length # 0 /\ length # 1
        BY <2>5, <3>3, <4>1
      <4>3. ~(length <= 1)
        BY <4>2
      <4>4. QED
        BY <3>3, <4>1, <4>3 DEF Single
    <3>5. SenderIsRight(i)
      BY <2>1, <3>2, <3>4 DEF SenderIsRight
    <3>6. QED
      BY <3>1, <3>2, <3>5
  <2>6. QED
    BY <2>3, <2>4, <2>5
<1>4. PICK i \in Sender :
        /\ Becomes(j, i) /\ i.d = j.d /\ i.left = j.left /\ SenderIsRight(i)
  BY <1>3
<1>5. sender' = (sender \ {j}) \cup {i}
  BY <1>4 DEF Becomes
<1>6. IsFiniteSet(sender) /\ IsFiniteSet(sender')
  <2>1. IsFiniteSet(sender) /\ IsFiniteSet(sender \cup {i})
    BY FS_AddElement DEF CountsInv
  <2>2. sender' \subseteq sender \cup {i}
    BY <1>5
  <2>3. QED
    BY <2>1, <2>2, FS_Subset
<1>7. Steady
  <2>1. \A d \in Deliveries : Single(d)' => Single(d)
    BY <1>2, NoneBecomesSingle
  <2>2. ASSUME NEW d \in Deliveries
        PROVE  Cardinality(InHand(d)') + posts[d] <= Cardinality(InHand(d)) + posts'[d]
    <3>1. IsFiniteSet(InHand(d)) /\ Cardinality(InHand(d)) \in Nat /\ Cardinality(InHand(d)') \in Nat
          /\ posts[d] \in Nat /\ posts'[d] = posts[d]
      BY <1>2, <1>6, InHandIsFinite, InHandIsFiniteThen DEF HooksTypeOK
    <3>2. CASE d = j.d
      <4>1. j \in InHand(d) /\ InHand(d)' \subseteq (InHand(d) \ {j}) \cup {i}
        BY <1>2, <1>5, <3>2 DEF InHand
      <4>2. IsFiniteSet(InHand(d) \ {j})
            /\ Cardinality(InHand(d) \ {j}) = Cardinality(InHand(d)) - 1
        BY <3>1, <4>1, FS_RemoveElement
      <4>3. IsFiniteSet((InHand(d) \ {j}) \cup {i})
            /\ Cardinality((InHand(d) \ {j}) \cup {i})
                 \in {Cardinality(InHand(d)) - 1, Cardinality(InHand(d))}
        BY <3>1, <4>2, FS_AddElement
      <4>4. Cardinality(InHand(d)') <= Cardinality((InHand(d) \ {j}) \cup {i})
        BY <4>1, <4>3, FS_Subset
      <4>5. QED
        BY <3>1, <4>3, <4>4
    <3>3. CASE d # j.d
      <4>1. InHand(d)' \subseteq InHand(d)
        BY <1>4, <1>5, <3>3 DEF InHand
      <4>2. Cardinality(InHand(d)') <= Cardinality(InHand(d))
        BY <3>1, <4>1, FS_Subset
      <4>3. QED
        BY <3>1, <4>2
    <3>4. QED
      BY <3>2, <3>3
  <2>3. QED
    BY <2>1, <2>2 DEF Steady
<1>8. \A q \in sender' : q \in sender \/ SenderIsRight(q)'
  BY <1>4, <1>5, <1>6, <1>7, SenderStaysRight
<1>9. DeletedHaveNoLogs'
  BY <1>2 DEF CountsInv, DeletedHaveNoLogs
<1>10. QED
  BY <1>2, <1>6, <1>7, <1>8, <1>9, CountsKept

\* A sender that has written leaves, or goes on to the next log it has loaded.
LEMMA SenderIsDone ==
    ASSUME HooksTypeOK, CountsInv, NEW j \in sender, Leave(j) \/ Proceed(j)
    PROVE  /\ IsFiniteSet(sender')
           /\ \A d : InHand(d)' \subseteq InHand(d) \ {j}
           /\ \A q \in sender' : q \in sender \/ (q \in Sender /\ SenderIsRight(q))
<1>1. IsFiniteSet(sender) /\ j \in Sender /\ SenderIsRight(j)
  BY SenderFacts, RightFacts DEF CountsInv
<1>2. CASE Leave(j)
  <2>1. sender' = sender \ {j}
    BY <1>2 DEF Leave
  <2>2. IsFiniteSet(sender')
    BY <1>1, <2>1, FS_Subset
  <2>3. QED
    BY <2>1, <2>2 DEF InHand
<1>3. ASSUME NEW x \in j.left,
             Becomes(j, [j EXCEPT !.d = x.d, !.k = x.k, !.row = x.row, !.pc = "post",
                                  !.left = @ \ {x}])
      PROVE  /\ IsFiniteSet(sender')
             /\ \A d : InHand(d)' \subseteq InHand(d) \ {j}
             /\ \A q \in sender' : q \in sender \/ (q \in Sender /\ SenderIsRight(q))
  <2> DEFINE i == [j EXCEPT !.d = x.d, !.k = x.k, !.row = x.row, !.pc = "post", !.left = @ \ {x}]
  <2>1. sender' = (sender \ {j}) \cup {i}
    BY <1>3 DEF Becomes
  <2>2. x.d \in Deliveries /\ x.k \in Nat /\ x.row \in Row /\ j.left \subseteq LogCopy
    BY SenderFacts
  <2>3. i \in Sender /\ i.d = x.d /\ i.row = x.row /\ i.left = j.left \ {x} /\ i.pc = "post"
    BY <1>1, <2>2 DEF Sender
  <2>4. SenderIsRight(i)
    BY <1>1, <2>3 DEF SenderIsRight
  <2> HIDE DEF i
  <2>5. IsFiniteSet(sender')
    <3>1. IsFiniteSet(sender \cup {i}) /\ sender' \subseteq sender \cup {i}
      BY <1>1, <2>1, FS_AddElement
    <3>2. QED
      BY <3>1, FS_Subset
  <2>6. \A d : InHand(d)' \subseteq InHand(d) \ {j}
    <3>1. ASSUME NEW d, NEW q \in InHand(d)' PROVE q \in InHand(d) \ {j}
      <4>1. q \in sender' /\ q.d = d /\ q.pc \in {"log", "save", "raised"}
        BY <3>1 DEF InHand
      <4>2. q # i
        BY <2>3, <4>1
      <4>3. QED
        BY <2>1, <4>1, <4>2 DEF InHand
    <3>2. QED
      BY <3>1
  <2>7. QED
    BY <2>1, <2>3, <2>4, <2>5, <2>6
<1>4. QED
  BY <1>2, <1>3 DEF Proceed

\* A row is written in its place, or added.
WritesRow(d, k, row) ==
    \/ logs' = [logs EXCEPT ![d][k] = row]
    \/ logs' = [logs EXCEPT ![d] = Append(@, row)]

\* What that leaves of the logs.
LEMMA LogWrites ==
    ASSUME HooksTypeOK, HooksTypeOK', CountsInv, NEW d \in Deliveries, NEW row \in Row,
           hook[d[1]] # "deleted", hook' = hook, NEW k, WritesRow(d, k, row)
    PROVE  /\ \A e \in Deliveries : Single(e)' => Single(e)
           /\ DeletedHaveNoLogs'
           /\ \A e \in Deliveries : \A l \in DOMAIN logs'[e] :
                (l \in DOMAIN logs[e] /\ logs'[e][l] = logs[e][l]) \/ (e = d /\ logs'[e][l] = row)
<1>1. PICK log \in Seq(Row) : log = logs[d]
  BY DEF HooksTypeOK
<1>2. logs \in [Deliveries -> Seq(Row)]
  BY DEF HooksTypeOK
<1>3. \A e \in Deliveries : e # d => logs'[e] = logs[e]
  BY <1>2 DEF WritesRow
<1>4. /\ DOMAIN log \subseteq DOMAIN logs'[d]
      /\ \A l \in DOMAIN logs'[d] : (l \in DOMAIN log /\ logs'[d][l] = log[l]) \/ logs'[d][l] = row
  <2>1. CASE logs' = [logs EXCEPT ![d][k] = row]
    <3>1. logs'[d] = [log EXCEPT ![k] = row]
      BY <1>1, <1>2, <2>1
    <3>2. QED
      BY <3>1, LogWritten
  <2>2. CASE logs' = [logs EXCEPT ![d] = Append(@, row)]
    <3>1. logs'[d] = Append(log, row)
      BY <1>1, <1>2, <2>2
    <3>2. /\ DOMAIN log \subseteq DOMAIN Append(log, row)
          /\ \A l \in DOMAIN Append(log, row) :
               (l \in DOMAIN log /\ Append(log, row)[l] = log[l]) \/ Append(log, row)[l] = row
      OBVIOUS
    <3>3. QED
      BY <3>1, <3>2
  <2>3. QED
    BY <2>1, <2>2 DEF WritesRow
<1>5. \A e \in Deliveries : DOMAIN logs[e] \subseteq DOMAIN logs'[e]
  BY <1>1, <1>3, <1>4
<1>6. \A e \in Deliveries : Single(e)' => Single(e)
  BY <1>5, NoneBecomesSingle
<1>7. DeletedHaveNoLogs'
  BY <1>3 DEF CountsInv, DeletedHaveNoLogs
<1>8. QED
  BY <1>1, <1>3, <1>4, <1>6, <1>7

LEMMA SaveLogCounts ==
    ASSUME HooksTypeOK, HooksTypeOK', CountsInv, NEW j \in sender, SaveLog(j)
    PROVE  CountsInv'
<1>1. j \in Sender /\ j.d \in Deliveries /\ j.row \in Row
  BY SenderFacts
<1>2. /\ j.pc = "save" /\ UNCHANGED <<hook, posts>> /\ FollowUp(j)
      /\ logs' = IF hook[j.d[1]] = "deleted" THEN logs
                 ELSE IF j.k = 0 THEN [logs EXCEPT ![j.d] = Append(@, Written(j))]
                 ELSE [logs EXCEPT ![j.d][j.k] = Written(j)]
  BY DEF SaveLog
<1>3. Leave(j) \/ Proceed(j)
  BY <1>2 DEF FollowUp
<1>4. /\ IsFiniteSet(sender') /\ IsFiniteSet(sender)
      /\ \A d : InHand(d)' \subseteq InHand(d) \ {j}
      /\ \A q \in sender' : q \in sender \/ (q \in Sender /\ SenderIsRight(q))
  BY <1>3, SenderIsDone DEF CountsInv
<1>5. CASE hook[j.d[1]] = "deleted"
  BY <1>2, <1>4, <1>5, LogsSame
<1>6. CASE hook[j.d[1]] # "deleted"
  <2> DEFINE row == Written(j)
  <2>1. row \in Row /\ row.tries = j.row.tries + 1
        /\ (row.status = "failed" => j.row.tries >= MaxRetries \/ j.row.status = "failed")
    <3>1. j.row.status \in LogStatuses /\ j.row.tries \in Nat
      BY <1>1 DEF Row
    <3>2. QED
      BY <3>1 DEF Written, Row, LogStatuses
  <2>2. WritesRow(j.d, j.k, row)
    BY <1>2, <1>6 DEF WritesRow
  <2> HIDE DEF row
  <2>3. /\ \A e \in Deliveries : Single(e)' => Single(e)
        /\ DeletedHaveNoLogs'
        /\ \A e \in Deliveries : \A l \in DOMAIN logs'[e] :
             (l \in DOMAIN logs[e] /\ logs'[e][l] = logs[e][l]) \/ (e = j.d /\ logs'[e][l] = row)
    BY <1>1, <1>2, <1>6, <2>1, <2>2, LogWrites
  <2>4. Steady
    BY <1>2, <1>4, <2>3, FewerInHand
  <2>5. CopyIsRight(j.d, row)'
    <3>1. CopyIsRight(j.d, j.row)
      BY RightFacts DEF SenderIsRight
    <3>2. IsFiniteSet(InHand(j.d)) /\ Cardinality(InHand(j.d)) \in Nat
      BY <1>4, InHandIsFinite
    <3>3. j \in InHand(j.d)
      BY <1>2 DEF InHand
    <3>4. IsFiniteSet(InHand(j.d) \ {j})
          /\ Cardinality(InHand(j.d) \ {j}) = Cardinality(InHand(j.d)) - 1
      BY <3>2, <3>3, FS_RemoveElement
    <3>5. Cardinality(InHand(j.d)') <= Cardinality(InHand(j.d)) - 1
          /\ Cardinality(InHand(j.d)') \in Nat
      BY <1>4, <3>4, FS_Subset, InHandIsFiniteThen
    <3>6. j.row.tries \in Nat /\ posts[j.d] \in Nat /\ MaxRetries \in Nat
      BY <1>1, HooksAssumption DEF HooksTypeOK, Row
    <3>7. j.row.tries + Cardinality(InHand(j.d)) <= posts[j.d]
      BY <3>1 DEF CopyIsRight, Counted
    <3>8. row.tries + Cardinality(InHand(j.d)') <= posts[j.d]
      BY <2>1, <3>2, <3>5, <3>6, <3>7
    <3>9. Single(j.d)' /\ row.status = "failed" => row.tries > MaxRetries
      <4>1. Single(j.d) /\ j.row.status = "failed" => j.row.tries > MaxRetries
        BY <3>1 DEF CopyIsRight, Tired
      <4>2. QED
        BY <1>1, <2>1, <2>3, <3>6, <4>1
    <3>10. QED
      BY <1>2, <3>8, <3>9 DEF CopyIsRight, Counted, Tired
  <2>6. \A q \in sender' : q \in sender \/ SenderIsRight(q)'
    BY <1>4, <2>4, SenderStaysRight
  <2>7. \A e \in Deliveries : \A l \in DOMAIN logs'[e] :
          (l \in DOMAIN logs[e] /\ logs'[e][l] = logs[e][l]) \/ CopyIsRight(e, logs[e][l])'
    BY <2>3, <2>5
  <2>8. QED
    BY <1>4, <2>3, <2>4, <2>6, <2>7, CountsKept
<1>7. QED
  BY <1>5, <1>6

LEMMA LogRaisedCounts ==
    ASSUME HooksTypeOK, HooksTypeOK', CountsInv, NEW j \in sender, LogRaised(j)
    PROVE  CountsInv'
<1> DEFINE row == Restated(j, "failed")
<1>1. j.d \in Deliveries /\ j.row \in Row /\ SenderIsRight(j)
  BY SenderFacts, RightFacts
<1>2. j.pc = "raised" /\ UNCHANGED <<hook, posts>>
  BY DEF LogRaised
<1>3. /\ Leave(j) \/ Proceed(j)
      /\ logs' = logs \/ (hook[j.d[1]] # "deleted" /\ WritesRow(j.d, j.k, row))
  BY DEF LogRaised, WritesRow
<1>4. /\ IsFiniteSet(sender') /\ IsFiniteSet(sender)
      /\ \A d : InHand(d)' \subseteq InHand(d) \ {j}
      /\ \A q \in sender' : q \in sender \/ (q \in Sender /\ SenderIsRight(q))
  BY <1>3, SenderIsDone DEF CountsInv
<1>5. CASE logs' = logs
  BY <1>2, <1>4, <1>5, LogsSame
<1>6. CASE hook[j.d[1]] # "deleted" /\ WritesRow(j.d, j.k, row)
  <2>1. row \in Row /\ row.tries = j.row.tries
    BY <1>1 DEF Restated, Row, LogStatuses
  <2> HIDE DEF row
  <2>2. /\ \A e \in Deliveries : Single(e)' => Single(e)
        /\ DeletedHaveNoLogs'
        /\ \A e \in Deliveries : \A l \in DOMAIN logs'[e] :
             (l \in DOMAIN logs[e] /\ logs'[e][l] = logs[e][l]) \/ (e = j.d /\ logs'[e][l] = row)
    BY <1>1, <1>2, <1>6, <2>1, LogWrites
  <2>3. Steady
    BY <1>2, <1>4, <2>2, FewerInHand
  <2>4. CopyIsRight(j.d, row)'
    <3>1. CopyIsRight(j.d, j.row)'
      BY <1>1, <1>4, <2>3, CopyStaysRight DEF SenderIsRight
    <3>2. ~Single(j.d)'
      BY <1>1, <1>2, <2>2 DEF SenderIsRight
    <3>3. QED
      BY <2>1, <3>1, <3>2 DEF CopyIsRight, Counted, Tired
  <2>5. \A q \in sender' : q \in sender \/ SenderIsRight(q)'
    BY <1>4, <2>3, SenderStaysRight
  <2>6. \A e \in Deliveries : \A l \in DOMAIN logs'[e] :
          (l \in DOMAIN logs[e] /\ logs'[e][l] = logs[e][l]) \/ CopyIsRight(e, logs[e][l])'
    BY <2>2, <2>4
  <2>7. QED
    BY <1>4, <2>2, <2>3, <2>5, <2>6, CountsKept
<1>7. QED
  BY <1>3, <1>5, <1>6

LEMMA ChangeStatusCounts ==
    ASSUME HooksTypeOK, HooksTypeOK', CountsInv, NEW j \in sender, ChangeStatus(j)
    PROVE  CountsInv'
<1> DEFINE row == Restated(j, "pending")
           i == [j EXCEPT !.row = row, !.pc = "post"]
<1>1. j \in Sender /\ j.d \in Deliveries /\ j.row \in Row /\ SenderIsRight(j)
  BY SenderFacts, RightFacts
<1>2. j.pc = "check" /\ UNCHANGED <<hook, posts>>
  BY DEF ChangeStatus
<1>3. CASE logs' = logs /\ Leave(j)
  <2>1. /\ IsFiniteSet(sender')
        /\ \A d : InHand(d)' \subseteq InHand(d) \ {j}
        /\ \A q \in sender' : q \in sender \/ (q \in Sender /\ SenderIsRight(q))
    BY <1>3, SenderIsDone
  <2>2. QED
    BY <1>2, <1>3, <2>1, LogsSame
<1>4. CASE hook[j.d[1]] # "deleted" /\ WritesRow(j.d, j.k, row) /\ Becomes(j, i)
  <2>1. row \in Row /\ row.tries = j.row.tries /\ row.status = "pending"
    BY <1>1 DEF Restated, Row, LogStatuses
  <2> HIDE DEF row
  <2>2. i \in Sender /\ i.d = j.d /\ i.row = row /\ i.left = j.left /\ i.pc = "post"
    BY <1>1, <2>1 DEF Sender
  <2>3. sender' \subseteq sender \cup {i}
    BY <1>4 DEF Becomes
  <2> HIDE DEF i
  <2>4. IsFiniteSet(sender) /\ IsFiniteSet(sender') /\ \A d : InHand(d)' \subseteq InHand(d)
    BY <2>2, <2>3, SenderBegins DEF CountsInv
  <2>5. /\ \A e \in Deliveries : Single(e)' => Single(e)
        /\ DeletedHaveNoLogs'
        /\ \A e \in Deliveries : \A l \in DOMAIN logs'[e] :
             (l \in DOMAIN logs[e] /\ logs'[e][l] = logs[e][l]) \/ (e = j.d /\ logs'[e][l] = row)
    BY <1>1, <1>2, <1>4, <2>1, LogWrites
  <2>6. Steady
    BY <1>2, <2>4, <2>5, FewerInHand
  <2>7. CopyIsRight(j.d, row)
    BY <1>1, <2>1, AsRight DEF SenderIsRight
  <2>8. CopyIsRight(j.d, row)'
    BY <1>1, <2>1, <2>4, <2>6, <2>7, CopyStaysRight
  <2>9. SenderIsRight(i)
    BY <1>1, <2>2, <2>7 DEF SenderIsRight
  <2>10. \A q \in sender' : q \in sender \/ SenderIsRight(q)'
    BY <2>2, <2>3, <2>4, <2>6, <2>9, SenderStaysRight
  <2>11. \A e \in Deliveries : \A l \in DOMAIN logs'[e] :
          (l \in DOMAIN logs[e] /\ logs'[e][l] = logs[e][l]) \/ CopyIsRight(e, logs[e][l])'
    BY <2>5, <2>8
  <2>12. QED
    BY <2>4, <2>5, <2>6, <2>10, <2>11, CountsKept
<1>5. QED
  BY <1>3, <1>4 DEF ChangeStatus, WritesRow

LEMMA MarkPendingCounts ==
    ASSUME HooksTypeOK, HooksTypeOK', CountsInv, NEW j \in sender, MarkPending(j)
    PROVE  CountsInv'
<1> DEFINE listed == {<<x.d, x.k>> : x \in j.left}
           Marked(d, k) == IF <<d, k>> \in listed THEN [logs[d][k] EXCEPT !.status = "pending"] ELSE logs[d][k]
<1>1. /\ logs' = [d \in Deliveries |-> [k \in DOMAIN logs[d] |-> Marked(d, k)]]
      /\ UNCHANGED <<hook, posts>> /\ Leave(j)
  BY DEF MarkPending
<1>2. /\ IsFiniteSet(sender') /\ IsFiniteSet(sender)
      /\ \A d : InHand(d)' \subseteq InHand(d) \ {j}
      /\ \A q \in sender' : q \in sender \/ (q \in Sender /\ SenderIsRight(q))
  BY <1>1, SenderIsDone DEF CountsInv
<1>3. ASSUME NEW d \in Deliveries, NEW k \in DOMAIN logs[d]
      PROVE  /\ Marked(d, k).tries = logs[d][k].tries
             /\ Marked(d, k).status = "failed" => logs[d][k].status = "failed"
  <2>1. PICK log \in Seq(Row) : log = logs[d]
    BY DEF HooksTypeOK
  <2>2. PICK row \in Row : row = logs[d][k]
    BY <2>1
  <2>3. [row EXCEPT !.status = "pending"].tries = row.tries
        /\ [row EXCEPT !.status = "pending"].status = "pending"
    BY DEF Row
  <2>4. QED
    BY <2>2, <2>3
<1> HIDE DEF Marked
<1>4. \A d \in Deliveries : DOMAIN logs'[d] = DOMAIN logs[d]
  BY <1>1
<1>5. Steady
  <2>1. \A e \in Deliveries : Single(e)' => Single(e)
    BY <1>1, <1>4, NoneBecomesSingle
  <2>2. QED
    BY <1>1, <1>2, <2>1, FewerInHand
<1>6. DeletedHaveNoLogs'
  <2>1. ASSUME NEW d \in Deliveries, hook[d[1]] = "deleted" PROVE logs'[d] = << >>
    <3>1. PICK before \in Seq(Row), after \in Seq(Row) : before = logs[d] /\ after = logs'[d]
      BY DEF HooksTypeOK
    <3>2. before = << >>
      BY <2>1, <3>1 DEF CountsInv, DeletedHaveNoLogs
    <3>3. DOMAIN after = {}
      BY <1>4, <3>1, <3>2, NoRows
    <3>4. QED
      BY <3>1, <3>3, NoRows
  <2>2. QED
    BY <1>1, <2>1 DEF DeletedHaveNoLogs
<1>7. \A q \in sender' : q \in sender \/ SenderIsRight(q)'
  BY <1>2, <1>5, SenderStaysRight
<1>8. \A d \in Deliveries : \A k \in DOMAIN logs'[d] :
        /\ k \in DOMAIN logs[d] /\ logs'[d][k].tries = logs[d][k].tries
        /\ logs'[d][k].status = "failed" => logs[d][k].status = "failed"
  BY <1>1, <1>3, <1>4
<1>9. QED
  BY <1>2, <1>5, <1>6, <1>7, <1>8, CountsKept

LEMMA AgeLogCounts ==
    ASSUME HooksTypeOK, HooksTypeOK', CountsInv, NEW d \in Deliveries, NEW k \in DOMAIN logs[d], AgeLog(d, k)
    PROVE  CountsInv'
<1>1. PICK row : /\ row = [logs[d][k] EXCEPT !.old = TRUE]
                 /\ logs' = [logs EXCEPT ![d][k] = row] /\ UNCHANGED <<hook, posts, sender>>
  BY DEF AgeLog
<1>2. PICK log \in Seq(Row) : log = logs[d]
  BY DEF HooksTypeOK
<1>3. logs[d][k] \in Row
  BY <1>2
<1>4. row \in Row /\ row.tries = logs[d][k].tries /\ row.status = logs[d][k].status
  BY <1>1, <1>3 DEF Row
<1>5. hook[d[1]] # "deleted"
  BY <1>2, NoRows DEF CountsInv, DeletedHaveNoLogs
<1>6. WritesRow(d, k, row)
  BY <1>1 DEF WritesRow
<1>7. /\ \A e \in Deliveries : Single(e)' => Single(e)
      /\ DeletedHaveNoLogs'
      /\ \A e \in Deliveries : \A l \in DOMAIN logs'[e] :
           (l \in DOMAIN logs[e] /\ logs'[e][l] = logs[e][l]) \/ (e = d /\ logs'[e][l] = row)
  BY <1>1, <1>4, <1>5, <1>6, LogWrites
<1>8. IsFiniteSet(sender) /\ IsFiniteSet(sender') /\ \A e : InHand(e)' \subseteq InHand(e)
  BY <1>1 DEF CountsInv, InHand
<1>9. Steady
  BY <1>1, <1>7, <1>8, FewerInHand
<1>10. CopyIsRight(d, row)'
  <2>1. CopyIsRight(d, row)
    BY <1>3, <1>4, RightFacts, AsRight
  <2>2. QED
    BY <1>1, <1>4, <1>8, <1>9, <2>1, CopyStaysRight
<1>11. ASSUME NEW e \in Deliveries, NEW l \in DOMAIN logs'[e]
       PROVE  (l \in DOMAIN logs[e] /\ logs'[e][l] = logs[e][l]) \/ CopyIsRight(e, logs[e][l])'
  <2>1. CASE l \in DOMAIN logs[e] /\ logs'[e][l] = logs[e][l]
    BY <2>1
  <2>2. CASE e = d /\ logs'[e][l] = row
    BY <2>2, <1>10 DEF CopyIsRight
  <2>3. QED
    BY <1>7, <2>1, <2>2
<1>12. QED
  BY <1>1, <1>7, <1>8, <1>9, <1>11, CountsKept

LEMMA DeleteHookCounts ==
    ASSUME HooksTypeOK, HooksTypeOK', CountsInv, NEW h \in Hooks, DeleteHook(h)
    PROVE  CountsInv'
<1>1. /\ hook' = [hook EXCEPT ![h] = "deleted"]
      /\ logs' = [d \in Deliveries |-> IF d[1] = h THEN << >> ELSE logs[d]]
      /\ UNCHANGED <<posts, sender>>
  BY DEF DeleteHook
<1>2. ASSUME NEW d \in Deliveries
      PROVE  /\ hook'[d[1]] = IF d[1] = h THEN "deleted" ELSE hook[d[1]]
             /\ logs'[d] = IF d[1] = h THEN << >> ELSE logs[d]
  BY <1>1 DEF HooksTypeOK, Deliveries
<1>3. \A d \in Deliveries : Single(d)' => Single(d)
  BY <1>2, NoneBecomesSingle
<1>4. IsFiniteSet(sender) /\ IsFiniteSet(sender') /\ \A d : InHand(d)' \subseteq InHand(d)
  BY <1>1 DEF CountsInv, InHand
<1>5. Steady
  BY <1>1, <1>3, <1>4, FewerInHand
<1>6. DeletedHaveNoLogs'
  BY <1>2 DEF CountsInv, DeletedHaveNoLogs
<1>7. ASSUME NEW d \in Deliveries, NEW k \in DOMAIN logs'[d]
      PROVE  k \in DOMAIN logs[d] /\ logs'[d][k] = logs[d][k]
  BY <1>2, <1>7
<1>8. QED
  BY <1>1, <1>4, <1>5, <1>6, <1>7, CountsKept

LEMMA OtherStepsCount ==
    ASSUME HooksTypeOK, HooksTypeOK', CountsInv,
           \/ \E s \in Submissions : Signal(s)
           \/ \E j \in sender : KillSender(j)
           \/ \E h \in Hooks : ToggleHook(h)
           \/ UNCHANGED hookVars
    PROVE  CountsInv'
<1>1. logs' = logs /\ posts' = posts /\ sender' \subseteq sender
  BY DEF Signal, KillSender, ToggleHook, hookVars, Leave
<1>2. \A h \in Hooks : hook'[h] = "deleted" <=> hook[h] = "deleted"
  <2>1. CASE \E h \in Hooks : ToggleHook(h)
    <3>1. PICK g \in Hooks : ToggleHook(g)
      BY <2>1
    <3>2. hook[g] # "deleted" /\ hook' = [hook EXCEPT ![g] = IF @ = "active" THEN "disabled" ELSE "active"]
      BY <3>1 DEF ToggleHook
    <3>3. QED
      BY <3>2 DEF HooksTypeOK
  <2>2. CASE UNCHANGED hook
    BY <2>2
  <2>3. QED
    BY <2>1, <2>2 DEF Signal, KillSender, hookVars
<1>3. IsFiniteSet(sender') /\ \A d : InHand(d)' \subseteq InHand(d)
  <2>1. IsFiniteSet(sender')
    BY <1>1, FS_Subset DEF CountsInv
  <2>2. QED
    BY <1>1, <2>1 DEF InHand
<1>4. \A i \in sender' : i \in sender \/ SenderIsRight(i)
  BY <1>1
<1>5. QED
  BY <1>1, <1>2, <1>3, <1>4, LogsSame

LEMMA InitCounts == HooksInit => CountsInv
<1> SUFFICES ASSUME HooksInit PROVE CountsInv
  OBVIOUS
<1>1. IsFiniteSet(sender) /\ \A d \in Deliveries : InHand(d) = {}
  BY FS_EmptySet DEF HooksInit, InHand
<1>2. Cardinality({}) = 0
  BY FS_EmptySet
<1>3. \A d \in Deliveries : posts[d] = 0 /\ logs[d] = << >> /\ hook[d[1]] = "active"
  BY DEF HooksInit, Deliveries
<1>4. DOMAIN << >> = {}
  OBVIOUS
<1>5. TriesAreMade
  <2>1. New.tries = 0 /\ sender = {}
    BY DEF New, HooksInit
  <2>2. ASSUME NEW d \in Deliveries PROVE Counted(d, New)
    <3>1. Cardinality(InHand(d)) = 0
      BY <1>1, <1>2
    <3>2. New.tries + Cardinality(InHand(d)) <= posts[d]
      BY <1>3, <2>1, <3>1
    <3>3. QED
      BY <3>2 DEF Counted
  <2>3. \A d \in Deliveries : DOMAIN logs[d] = {}
    BY <1>3, <1>4
  <2>4. QED
    BY <2>1, <2>2, <2>3 DEF TriesAreMade
<1>6. FailedIsTired /\ DeletedHaveNoLogs
  BY <1>3, <1>4 DEF FailedIsTired, DeletedHaveNoLogs, HooksInit
<1>7. QED
  BY <1>1, <1>5, <1>6 DEF CountsInv

LEMMA NextCounts ==
    HooksTypeOK /\ HooksTypeOK' /\ CountsInv /\ [HooksNext]_hookVars => CountsInv'
<1> SUFFICES ASSUME HooksTypeOK, HooksTypeOK', CountsInv, [HooksNext]_hookVars PROVE CountsInv'
  OBVIOUS
<1>1. ASSUME NEW j \in sender, SenderStep(j) PROVE CountsInv'
  BY <1>1, PostCounts, ReadLogCounts, SaveLogCounts, LogRaisedCounts, ChangeStatusCounts,
     MarkPendingCounts DEF SenderStep
<1>2. ASSUME NEW w \in Senders,
             \/ StartStep(w)
             \/ \E d \in Deliveries : \E k \in DOMAIN logs[d] : RetryLog(w, d, k)
             \/ \E h \in Hooks : RetryAll(w, h)
      PROVE  CountsInv'
  BY <1>2, StartSendCounts, StartRetryAllCounts, RetryLogCounts, RetryAllCounts DEF StartStep
<1>3. ASSUME TimeStep PROVE CountsInv'
  BY <1>3, AgeLogCounts DEF TimeStep
<1>4. ASSUME NEW h \in Hooks, DeleteHook(h) PROVE CountsInv'
  BY <1>4, DeleteHookCounts
<1>5. QED
  BY <1>1, <1>2, <1>3, <1>4, OtherStepsCount DEF HooksNext

\* The tries that a log and its copies count have been made, and a single log that
\* is FAILED has counted them all, for any number of senders that overlap.
THEOREM TriesAreCounted == HooksSpec => [](TriesAreMade /\ FailedIsTired)
<1>1. HooksInv => HooksTypeOK
  BY DEF HooksInv
<1>2. CountsInv => TriesAreMade /\ FailedIsTired
  BY DEF CountsInv
<1>3. HooksSpec => []HooksInv
  BY InitHooks, NextHooks, PTL DEF HooksSpec
<1>4. QED
  BY <1>1, <1>2, <1>3, InitCounts, NextCounts, PTL DEF HooksSpec

\* A delivery is not given up before all its automatic retries.
THEOREM DeliveriesAreRetried == HooksSpec => []GivesUpLate
<1>1. HooksInv => HooksTypeOK
  BY DEF HooksInv
<1>2. ASSUME HooksTypeOK, CountsInv PROVE GivesUpLate
  <2> SUFFICES ASSUME NEW d \in Deliveries, Len(logs[d]) = 1, logs[d][1].status = "failed"
               PROVE  posts[d] > MaxRetries
    BY DEF GivesUpLate
  <2>1. PICK log \in Seq(Row) : log = logs[d]
    BY <1>2 DEF HooksTypeOK
  <2>2. 1 \in DOMAIN log /\ log[1] \in Row /\ log # << >>
    BY <2>1
  <2>3. CopyIsRight(d, logs[d][1])
    BY <1>2, <2>1, <2>2, RightFacts
  <2>4. hook[d[1]] # "deleted"
    BY <1>2, <2>1, <2>2 DEF CountsInv, DeletedHaveNoLogs
  <2>5. logs[d][1].tries > MaxRetries
    BY <2>3, <2>4 DEF CopyIsRight, Tired, Single
  <2>6. logs[d][1].tries + Cardinality(InHand(d)) <= posts[d]
    BY <2>3 DEF CopyIsRight, Counted
  <2>7. Cardinality(InHand(d)) \in Nat /\ logs[d][1].tries \in Nat /\ posts[d] \in Nat
        /\ MaxRetries \in Nat
    BY <1>2, <2>1, <2>2, InHandIsFinite, HooksAssumption DEF CountsInv, HooksTypeOK, Row
  <2>8. QED
    BY <2>5, <2>6, <2>7
<1>3. HooksSpec => []HooksInv
  BY InitHooks, NextHooks, PTL DEF HooksSpec
<1>4. QED
  BY <1>1, <1>2, <1>3, InitCounts, NextCounts, PTL DEF HooksSpec
----------------------------------------------------------------------------
(* 3. Deliveries: one thing at a time *)

\* Before its n-th retry the log of a delivery has been written n times.
AtTry(d, n) == IF n = 0 THEN logs[d] = << >> ELSE Len(logs[d]) = 1 /\ logs[d][1].tries = n

\* A log that users retry has had all its automatic retries.
Spent(d) == Len(logs[d]) = 1 /\ logs[d][1].tries > MaxRetries

Mentions(m, d) == \E x \in m.rows : x[1] = d

\* What a sender that is concerned with d knows of its log.
IsInStep(j, d) ==
    /\ j.kind = "auto" =>
         /\ AtTry(d, j.n)
         /\ j.pc = "save" => j.k = (IF j.n = 0 THEN 0 ELSE 1) /\ j.row.tries = j.n
    /\ j.kind = "retry" =>
         /\ Spent(d)
         /\ j.d = d /\ j.pc \in {"check", "save"} => j.k = 1 /\ j.row.tries > MaxRetries
    /\ j.pc = "mark" => \A x \in j.left : x.d = d => x.k = 1
    /\ j.d = d => j.pc # "raised"

\* A delivery is with celery, with a sender or with a bulk retry, and with one of
\* them only; with none of them its log is not PENDING.
NotSent(d) == \A n \in 0 .. MaxRetries : sends[d][n] = 0
NotListed(d) == \A m \in retries : ~Mentions(m, d)
AtOnePlace(d) ==
    /\ \A n, k \in 0 .. MaxRetries : sends[d][n] > 0 /\ sends[d][k] > 0 => n = k /\ sends[d][n] = 1
    /\ \A i, j \in sender : d \in Concerned(i) /\ d \in Concerned(j) => i = j
    /\ \A m, l \in retries : Mentions(m, d) /\ Mentions(l, d) => m = l
    /\ \A j \in sender : d \in Concerned(j) => NotSent(d) /\ NotListed(d)
    /\ NotSent(d) \/ NotListed(d)

InOrder(d) ==
    /\ Len(logs[d]) <= 1
    /\ AtOnePlace(d)
    /\ \A n \in 0 .. MaxRetries : sends[d][n] > 0 => AtTry(d, n)
    /\ \A j \in sender : d \in Concerned(j) => IsInStep(j, d)
    /\ \A m \in retries : Mentions(m, d) => Spent(d) /\ \A x \in m.rows : x[1] = d => x[2] = 1
    /\ ~Busy(d) => \A k \in DOMAIN logs[d] : logs[d][k].status # "pending"

Undisturbed(d) == d \notin disturbed /\ hook[d[1]] # "deleted"
UndisturbedAreInOrder == \A d \in Deliveries : Undisturbed(d) => InOrder(d)

\* A bulk retry is of one hook, and the first log it found is on its list.
SenderFits(j) ==
    /\ j.kind = "auto" => j.left = {} /\ j.n \in 0 .. MaxRetries /\ j.pc \notin {"check", "mark"}
    /\ \A x \in j.left : x.d[1] = j.d[1]
    /\ j.pc = "mark" => \E x \in j.left : x.d = j.d
ListFits(m) == \A x, y \in m.rows : x[1][1] = y[1][1]
BulkIsOfOneHook == (\A j \in sender : SenderFits(j)) /\ (\A m \in retries : ListFits(m))

LEMMA NotBusy ==
    ASSUME HooksTypeOK, NEW d \in Deliveries
    PROVE  ~Busy(d) <=> NotSent(d) /\ NotListed(d) /\ \A j \in sender : d \notin Concerned(j)
<1>1. \A n \in 0 .. MaxRetries : sends[d][n] \in Nat
  BY DEF HooksTypeOK
<1>2. \A n \in 0 .. MaxRetries : ~(sends[d][n] > 0) <=> sends[d][n] = 0
  BY <1>1
<1>3. QED
  BY <1>2 DEF Busy, NotSent, NotListed, Mentions

LEMMA StaysInOrder ==
    ASSUME NEW d, InOrder(d), logs'[d] = logs[d], sends'[d] = sends[d],
           \A i : d \in Concerned(i) => (i \in sender' <=> i \in sender),
           \A m : Mentions(m, d) => (m \in retries' <=> m \in retries)
    PROVE  InOrder(d)'
<1>1. NotSent(d)' = NotSent(d) /\ NotListed(d)' = NotListed(d)
  BY DEF NotSent, NotListed
<1>2. AtOnePlace(d)'
  BY <1>1 DEF InOrder, AtOnePlace
<1>3. \A i : IsInStep(i, d) => IsInStep(i, d)'
  BY DEF IsInStep, AtTry, Spent
<1>4. Busy(d)' => Busy(d)
  BY DEF Busy, Mentions
<1>5. Busy(d) => Busy(d)'
  BY DEF Busy, Mentions
<1>6. QED
  BY <1>2, <1>3, <1>4, <1>5 DEF InOrder, AtTry, Spent

\* A sender at work on a delivery is the only one, and there is nothing else.
LEMMA OnlySender ==
    ASSUME NEW d, InOrder(d), NEW j \in sender, d \in Concerned(j)
    PROVE  /\ NotSent(d) /\ NotListed(d) /\ IsInStep(j, d) /\ Len(logs[d]) <= 1
           /\ \A i \in sender : d \in Concerned(i) => i = j
  BY DEF InOrder, AtOnePlace

LEMMA WithSender ==
    ASSUME NEW d \in Deliveries, HooksTypeOK', NotSent(d)', NotListed(d)', Len(logs'[d]) <= 1, NEW i \in sender',
           d \in Concerned(i), \A k \in sender' : d \in Concerned(k) => k = i, IsInStep(i, d)'
    PROVE  InOrder(d)'
<1>1. \A n \in 0 .. MaxRetries : ~(sends'[d][n] > 0)
  BY DEF NotSent
<1>2. AtOnePlace(d)'
  BY <1>1 DEF AtOnePlace, NotListed
<1>3. Busy(d)'
  BY DEF Busy
<1>4. QED
  BY <1>1, <1>2, <1>3 DEF InOrder, NotListed

LEMMA WithNobody ==
    ASSUME NEW d \in Deliveries, HooksTypeOK', NotSent(d)', NotListed(d)', Len(logs'[d]) <= 1,
           \A k \in sender' : d \notin Concerned(k),
           \A k \in DOMAIN logs'[d] : logs'[d][k].status # "pending"
    PROVE  InOrder(d)'
<1>1. \A n \in 0 .. MaxRetries : ~(sends'[d][n] > 0)
  BY DEF NotSent
<1>2. AtOnePlace(d)'
  BY <1>1 DEF AtOnePlace, NotListed
<1>3. QED
  BY <1>1, <1>2 DEF InOrder, NotListed

LEMMA WithCelery ==
    ASSUME NEW d \in Deliveries, HooksTypeOK', NEW n \in 0 .. MaxRetries, sends'[d][n] = 1,
           \A k \in 0 .. MaxRetries : k # n => sends'[d][k] = 0, NotListed(d)',
           \A k \in sender' : d \notin Concerned(k), Len(logs'[d]) <= 1, AtTry(d, n)'
    PROVE  InOrder(d)'
<1>1. \A k \in 0 .. MaxRetries : sends'[d][k] > 0 => k = n
  OBVIOUS
<1>2. AtOnePlace(d)'
  BY <1>1 DEF AtOnePlace, NotListed
<1>3. Busy(d)'
  BY DEF Busy
<1>4. QED
  BY <1>1, <1>2, <1>3 DEF InOrder, NotListed

LEMMA WithBulk ==
    ASSUME NEW d \in Deliveries, HooksTypeOK', NotSent(d)', NEW m \in retries', Mentions(m, d),
           \A l \in retries' : Mentions(l, d) => l = m, \A k \in sender' : d \notin Concerned(k),
           Spent(d)', \A x \in m.rows : x[1] = d => x[2] = 1
    PROVE  InOrder(d)'
<1>1. \A n \in 0 .. MaxRetries : ~(sends'[d][n] > 0)
  BY DEF NotSent
<1>2. AtOnePlace(d)'
  BY <1>1 DEF AtOnePlace, NotListed
<1>3. Busy(d)'
  BY DEF Busy, Mentions
<1>4. QED
  BY <1>1, <1>2, <1>3 DEF InOrder, Spent

----------------------------------------------------------------------------
\* Steps of a sender: what it is not concerned with stays as it is.
LEMMA FitsOn ==
    ASSUME BulkIsOfOneHook, NEW i, SenderFits(i), sender' \subseteq sender \cup {i}, retries' \subseteq retries
    PROVE  BulkIsOfOneHook'
  BY DEF BulkIsOfOneHook, SenderFits, ListFits

LEMMA OthersStayInOrder ==
    ASSUME UndisturbedAreInOrder, NEW j \in sender, NEW i, Becomes(j, i) \/ Leave(j),
           Concerned(i) \subseteq Concerned(j),
           UNCHANGED <<hook, retries, disturbed>>,
           \A d \in Deliveries \ Concerned(j) : logs'[d] = logs[d] /\ sends'[d] = sends[d],
           \A d \in Deliveries : d \in Concerned(j) /\ Undisturbed(d) => InOrder(d)'
    PROVE  UndisturbedAreInOrder'
<1> SUFFICES ASSUME NEW d \in Deliveries, Undisturbed(d)' PROVE InOrder(d)'
  BY DEF UndisturbedAreInOrder
<1>1. Undisturbed(d)
  BY DEF Undisturbed
<1>2. CASE d \in Concerned(j)
  BY <1>1, <1>2
<1>3. CASE d \notin Concerned(j)
  <2>1. \A k : d \in Concerned(k) => (k \in sender' <=> k \in sender)
    BY <1>3 DEF Becomes, Leave
  <2>2. InOrder(d)
    BY <1>1 DEF UndisturbedAreInOrder
  <2>3. QED
    BY <1>3, <2>1, <2>2, StaysInOrder
<1>4. QED
  BY <1>2, <1>3

LEMMA GoesOnWith ==
    ASSUME HooksTypeOK', NEW d \in Deliveries, InOrder(d), NEW j \in sender, d \in Concerned(j), NEW i,
           Becomes(j, i), d \in Concerned(i), sends'[d] = sends[d], retries' = retries,
           Len(logs'[d]) <= 1, IsInStep(i, d)'
    PROVE  InOrder(d)'
<1>1. NotSent(d)' /\ NotListed(d)' /\ \A k \in sender : d \in Concerned(k) => k = j
  BY OnlySender DEF NotSent, NotListed
<1>2. i \in sender' /\ \A k \in sender' : d \in Concerned(k) => k = i
  BY <1>1 DEF Becomes
<1>3. QED
  BY <1>1, <1>2, WithSender

\* A bulk retry goes on to its next log.
LEMMA ProceedsInOrder ==
    ASSUME HooksTypeOK, HooksTypeOK', BulkIsOfOneHook, NEW j \in sender, Proceed(j), j.kind = "retry",
           sends' = sends, retries' = retries
    PROVE  /\ BulkIsOfOneHook'
           /\ \E i : (Becomes(j, i) \/ Leave(j)) /\ Concerned(i) \subseteq Concerned(j)
           /\ \A k \in sender' : k \notin sender => Concerned(k) = {x.d : x \in j.left}
           /\ \A d \in Deliveries :
                InOrder(d) /\ d \in {x.d : x \in j.left} /\ Spent(d)' => InOrder(d)'
<1>0. j \in Sender /\ SenderFits(j)
  BY SenderFacts DEF BulkIsOfOneHook
<1>1. CASE j.left = {} /\ Leave(j)
  <2>1. sender' \subseteq sender
    BY <1>1 DEF Leave
  <2>2. BulkIsOfOneHook'
    BY <1>0, <2>1, FitsOn
  <2>3. QED
    BY <1>1, <2>1, <2>2
<1>2. ASSUME NEW x \in j.left,
             Becomes(j, [j EXCEPT !.d = x.d, !.k = x.k, !.row = x.row, !.pc = "post", !.left = @ \ {x}])
      PROVE  /\ BulkIsOfOneHook'
             /\ \E i : (Becomes(j, i) \/ Leave(j)) /\ Concerned(i) \subseteq Concerned(j)
             /\ \A k \in sender' : k \notin sender => Concerned(k) = {y.d : y \in j.left}
             /\ \A d \in Deliveries :
                  InOrder(d) /\ d \in {y.d : y \in j.left} /\ Spent(d)' => InOrder(d)'
  <2> DEFINE i == [j EXCEPT !.d = x.d, !.k = x.k, !.row = x.row, !.pc = "post", !.left = @ \ {x}]
  <2>1. i.d = x.d /\ i.left = j.left \ {x} /\ i.pc = "post" /\ i.kind = "retry" /\ Becomes(j, i)
    BY <1>0, <1>2 DEF Sender
  <2> HIDE DEF i
  <2>2. Concerned(i) = {y.d : y \in j.left}
    BY <2>1 DEF Concerned
  <2>3. Concerned(i) \subseteq Concerned(j)
    BY <2>2 DEF Concerned
  <2>4. SenderFits(i)
    BY <1>0, <2>1 DEF SenderFits
  <2>5. sender' \subseteq sender \cup {i}
    BY <2>1 DEF Becomes
  <2>6. BulkIsOfOneHook'
    BY <2>4, <2>5, FitsOn
  <2>7. ASSUME NEW d \in Deliveries, InOrder(d), d \in {y.d : y \in j.left}, Spent(d)'
        PROVE  InOrder(d)'
    <3>1. IsInStep(i, d)'
      BY <2>1, <2>7 DEF IsInStep
    <3>2. Len(logs'[d]) <= 1
      BY <2>7 DEF Spent
    <3>3. d \in Concerned(j) /\ d \in Concerned(i)
      BY <2>2, <2>3, <2>7
    <3>4. QED
      BY <2>1, <2>7, <3>1, <3>2, <3>3, GoesOnWith
  <2>8. QED
    BY <2>1, <2>2, <2>3, <2>5, <2>6, <2>7
<1>3. QED
  BY <1>1, <1>2 DEF Proceed

LEMMA PostInOrder ==
    ASSUME HooksTypeOK, HooksTypeOK', BulkIsOfOneHook, UndisturbedAreInOrder, NEW j \in sender, Post(j)
    PROVE  BulkIsOfOneHook' /\ UndisturbedAreInOrder'
<1>1. PICK ok \in BOOLEAN : Becomes(j, [j EXCEPT !.pc = "log", !.ok = ok])
  BY DEF Post
<1> DEFINE i == [j EXCEPT !.pc = "log", !.ok = ok]
<1>2. j \in Sender /\ SenderFits(j)
  BY SenderFacts DEF BulkIsOfOneHook
<1>3. /\ i.d = j.d /\ i.left = j.left /\ i.kind = j.kind /\ i.n = j.n /\ i.pc = "log" /\ Becomes(j, i)
      /\ j.pc = "post" /\ UNCHANGED <<hook, logs, sends, retries, signals, requests, disturbed>>
  BY <1>1, <1>2 DEF Sender, Post
<1> HIDE DEF i
<1>4. Concerned(i) = Concerned(j) /\ SenderFits(i) /\ sender' \subseteq sender \cup {i}
  BY <1>2, <1>3 DEF Concerned, SenderFits, Becomes
<1>5. ASSUME NEW d \in Deliveries, d \in Concerned(j), Undisturbed(d) PROVE InOrder(d)'
  <2>1. InOrder(d)
    BY <1>5 DEF UndisturbedAreInOrder
  <2>2. IsInStep(j, d) /\ Len(logs[d]) <= 1
    BY <1>5, <2>1, OnlySender
  <2>3. IsInStep(i, d)'
    BY <1>3, <2>2 DEF IsInStep, AtTry, Spent
  <2>4. QED
    BY <1>3, <1>4, <1>5, <2>1, <2>2, <2>3, GoesOnWith
<1>6. BulkIsOfOneHook'
  BY <1>3, <1>4, FitsOn
<1>7. QED
  BY <1>3, <1>4, <1>5, <1>6, OthersStayInOrder

LEMMA ReadLogInOrder ==
    ASSUME HooksTypeOK, HooksTypeOK', BulkIsOfOneHook, UndisturbedAreInOrder, NEW j \in sender, ReadLog(j)
    PROVE  BulkIsOfOneHook' /\ UndisturbedAreInOrder'
<1>1. PICK log \in Seq(Row) : log = logs[j.d]
  BY SenderFacts DEF HooksTypeOK
<1> DEFINE i == IF Len(log) = 0 THEN [j EXCEPT !.pc = "save", !.k = 0, !.row = New]
                ELSE IF Len(log) = 1 THEN [j EXCEPT !.pc = "save", !.k = 1, !.row = log[1]]
                ELSE [j EXCEPT !.pc = "raised"]
<1>2. j \in Sender /\ SenderFits(j) /\ New.tries = 0
  BY SenderFacts DEF BulkIsOfOneHook, New
<1>3. /\ i.d = j.d /\ i.left = j.left /\ i.kind = j.kind /\ i.n = j.n
      /\ i.pc \in {"save", "raised"}
      /\ Len(log) = 0 => i.pc = "save" /\ i.k = 0 /\ i.row = New
      /\ Len(log) = 1 => i.pc = "save" /\ i.k = 1 /\ i.row = log[1]
  <2>1. CASE Len(log) = 0
    BY <1>2, <2>1 DEF Sender
  <2>2. CASE Len(log) = 1
    BY <1>2, <2>2 DEF Sender
  <2>3. CASE Len(log) # 0 /\ Len(log) # 1
    BY <1>2, <2>3 DEF Sender
  <2>4. QED
    BY <2>1, <2>2, <2>3
<1>4. Becomes(j, i) /\ UNCHANGED <<hook, logs, sends, retries, signals, requests, disturbed>>
  BY <1>1 DEF ReadLog
<1> HIDE DEF i
<1>5. Concerned(i) = Concerned(j) /\ SenderFits(i) /\ sender' \subseteq sender \cup {i}
  BY <1>2, <1>3, <1>4 DEF Concerned, SenderFits, Becomes
<1>6. ASSUME NEW d \in Deliveries, d \in Concerned(j), Undisturbed(d) PROVE InOrder(d)'
  <2>1. InOrder(d)
    BY <1>6 DEF UndisturbedAreInOrder
  <2>2. IsInStep(j, d) /\ Len(logs[d]) <= 1
    BY <1>6, <2>1, OnlySender
  <2>3. ASSUME d = j.d PROVE IsInStep(i, d)'
    <3>0. PICK n \in Nat : n = Len(log)
      OBVIOUS
    <3>1. n <= 1
      BY <1>1, <2>2, <2>3, <3>0
    <3>01. n = 0 \/ n = 1
      BY <3>1
    <3>02. Len(log) = 0 \/ Len(log) = 1
      BY <3>0, <3>01
    <3>2. Len(log) = 0 <=> log = << >>
      OBVIOUS
    <3>3. j.kind = "auto" => (Len(log) = 0 <=> j.n = 0) /\ (Len(log) = 1 => log[1].tries = j.n)
      BY <1>1, <2>2, <2>3, <3>02, <3>2 DEF IsInStep, AtTry
    <3>4. i.kind = "auto" => AtTry(d, i.n)' /\ i.k = (IF i.n = 0 THEN 0 ELSE 1) /\ i.row.tries = i.n
      BY <1>1, <1>2, <1>3, <1>4, <2>2, <2>3, <3>02, <3>3 DEF IsInStep, AtTry
    <3>5. i.kind = "retry" => Spent(d)' /\ i.k = 1 /\ i.row.tries > MaxRetries
      BY <1>1, <1>3, <1>4, <2>2, <2>3 DEF IsInStep, Spent
    <3>6. i.pc = "save"
      BY <1>3, <3>02
    <3>7. QED
      BY <3>4, <3>5, <3>6 DEF IsInStep
  <2>4. ASSUME d # j.d PROVE IsInStep(i, d)'
    <3>1. j.kind # "auto"
      BY <1>2, <1>6, <2>4 DEF Concerned, SenderFits
    <3>2. QED
      BY <1>3, <1>4, <2>2, <2>4, <3>1 DEF IsInStep, Spent
  <2>5. IsInStep(i, d)'
    BY <2>3, <2>4
  <2>6. QED
    BY <1>4, <1>5, <1>6, <2>1, <2>2, <2>5, GoesOnWith
<1>7. BulkIsOfOneHook'
  BY <1>4, <1>5, FitsOn
<1>8. QED
  BY <1>4, <1>5, <1>6, <1>7, OthersStayInOrder

\* Without its hook a sender is concerned with nothing that is to be in order.
LEMMA HookIsGone ==
    ASSUME HooksTypeOK, BulkIsOfOneHook, NEW j \in sender, hook[j.d[1]] = "deleted", NEW d \in Concerned(j)
    PROVE  ~Undisturbed(d)
  BY DEF BulkIsOfOneHook, SenderFits, Concerned, Undisturbed

LEMMA LeavesInOrder ==
    ASSUME HooksTypeOK, HooksTypeOK', BulkIsOfOneHook, UndisturbedAreInOrder, NEW j \in sender, Leave(j),
           UNCHANGED <<hook, retries, disturbed>>,
           \A d \in Deliveries \ {j.d} : logs'[d] = logs[d] /\ sends'[d] = sends[d],
           \A d \in Deliveries : d \in Concerned(j) /\ Undisturbed(d) => InOrder(d)'
    PROVE  BulkIsOfOneHook' /\ UndisturbedAreInOrder'
<1>1. sender' \subseteq sender /\ SenderFits(j) /\ j.d \in Concerned(j)
  BY DEF Leave, BulkIsOfOneHook, Concerned
<1>2. BulkIsOfOneHook'
  BY <1>1, FitsOn
<1>3. QED
  BY <1>1, <1>2, OthersStayInOrder

\* The log of a delivery in order, after its sender has written it.
LEMMA SavedInOrder ==
    ASSUME HooksTypeOK, HooksTypeOK', BulkIsOfOneHook, NEW j \in sender, SaveLog(j), InOrder(j.d), hook[j.d[1]] # "deleted"
    PROVE  /\ Len(logs'[j.d]) = 1 /\ logs'[j.d][1] = Written(j) /\ DOMAIN logs'[j.d] = {1}
           /\ Written(j).tries = j.row.tries + 1 /\ j.row.tries \in Nat
           /\ j.kind = "retry" => j.row.tries > MaxRetries /\ Written(j).status # "pending"
           /\ j.kind = "auto" /\ (j.ok \/ j.n = MaxRetries) => Written(j).status # "pending"
           /\ j.kind = "auto" => j.row.tries = j.n
<1>1. PICK log \in Seq(Row) : log = logs[j.d]
  BY SenderFacts DEF HooksTypeOK
<1>2. j \in Sender /\ SenderFits(j) /\ j.d \in Deliveries /\ j.row \in Row /\ j.n \in Nat /\ j.d \in Concerned(j)
  BY SenderFacts DEF BulkIsOfOneHook, Concerned
<1>3. j.row.tries \in Nat
  BY <1>2 DEF Row
<1>4. IsInStep(j, j.d) /\ Len(log) <= 1
  BY <1>1, <1>2, OnlySender
<1>5. j.pc = "save" /\ j.kind \in {"auto", "retry"}
  BY <1>2 DEF SaveLog, Sender
<1>6. /\ j.kind = "auto" => AtTry(j.d, j.n) /\ j.k = (IF j.n = 0 THEN 0 ELSE 1) /\ j.row.tries = j.n
      /\ j.kind = "retry" => Len(log) = 1 /\ j.k = 1 /\ j.row.tries > MaxRetries
  BY <1>1, <1>4, <1>5 DEF IsInStep, Spent
<1>7. (j.k = 0 /\ log = << >>) \/ (j.k = 1 /\ Len(log) = 1)
  BY <1>1, <1>5, <1>6 DEF AtTry
<1>8. Written(j) \in Row
  BY RowsWritten
<1>9. logs \in [Deliveries -> Seq(Row)]
  BY DEF HooksTypeOK
<1>10. PICK row \in Row : row = Written(j)
  BY <1>8
<1>11. /\ logs' = IF j.k = 0 THEN [logs EXCEPT ![j.d] = Append(log, row)]
                  ELSE [logs EXCEPT ![j.d] = [log EXCEPT ![j.k] = row]]
  BY <1>1, <1>9, <1>10 DEF SaveLog
<1>12. CASE j.k = 0 /\ log = << >>
  <2>1. logs'[j.d] = Append(<< >>, row)
    BY <1>2, <1>9, <1>11, <1>12
  <2>2. Len(logs'[j.d]) = 1 /\ logs'[j.d][1] = row /\ DOMAIN logs'[j.d] = {1}
    BY <2>1
  <2>3. QED
    BY <1>3, <1>5, <1>6, <1>10, <2>2, HooksAssumption DEF Written
<1>13. CASE j.k = 1 /\ Len(log) = 1
  <2>1. logs'[j.d] = [log EXCEPT ![1] = row]
    BY <1>2, <1>9, <1>11, <1>13
  <2>2. Len(logs'[j.d]) = 1 /\ logs'[j.d][1] = row /\ DOMAIN logs'[j.d] = {1}
    BY <1>13, <2>1
  <2>3. QED
    BY <1>3, <1>5, <1>6, <1>10, <2>2, HooksAssumption DEF Written
<1>14. QED
  BY <1>7, <1>12, <1>13

LEMMA SaveLogInOrder ==
    ASSUME HooksTypeOK, HooksTypeOK', BulkIsOfOneHook, UndisturbedAreInOrder, NEW j \in sender, SaveLog(j)
    PROVE  BulkIsOfOneHook' /\ UndisturbedAreInOrder'
<1>1. /\ FollowUp(j) /\ UNCHANGED <<hook, retries, disturbed>>
      /\ logs' = IF hook[j.d[1]] = "deleted" THEN logs
                 ELSE IF j.k = 0 THEN [logs EXCEPT ![j.d] = Append(@, Written(j))]
                 ELSE [logs EXCEPT ![j.d][j.k] = Written(j)]
  BY DEF SaveLog
<1>2. j \in Sender /\ SenderFits(j) /\ j.d \in Deliveries /\ j.d \in Concerned(j) /\ j.kind \in {"auto", "retry"}
  BY SenderFacts DEF BulkIsOfOneHook, Concerned, Sender
<1>3. logs \in [Deliveries -> Seq(Row)] /\ sends \in [Deliveries -> [0 .. MaxRetries -> Nat]]
  BY DEF HooksTypeOK
<1>4. \A d \in Deliveries \ {j.d} : logs'[d] = logs[d] /\ sends'[d] = sends[d]
  <2>1. \A d \in Deliveries \ {j.d} : logs'[d] = logs[d]
    BY <1>1, <1>3
  <2>2. j.kind = "retry" \/ j.kind = "auto"
    BY <1>2
  <2>3. \A d \in Deliveries \ {j.d} : sends'[d] = sends[d]
    BY <1>1, <1>3, <2>2 DEF FollowUp
  <2>4. QED
    BY <2>1, <2>3
<1>5. CASE hook[j.d[1]] = "deleted"
  <2>1. Leave(j)
    BY <1>1, <1>2, <1>5 DEF FollowUp
  <2>2. QED
    BY <1>1, <1>4, <1>5, <2>1, HookIsGone, LeavesInOrder
<1>6. ASSUME hook[j.d[1]] # "deleted", Undisturbed(j.d)
      PROVE  /\ InOrder(j.d) /\ NotSent(j.d) /\ NotListed(j.d) /\ NotListed(j.d)'
             /\ \A i \in sender : j.d \in Concerned(i) => i = j
  <2>1. InOrder(j.d)
    BY <1>2, <1>6 DEF UndisturbedAreInOrder
  <2>2. QED
    BY <1>1, <1>2, <2>1, OnlySender DEF NotListed
<1>7. CASE hook[j.d[1]] # "deleted" /\ j.kind = "auto"
  <2>1. Leave(j) /\ Concerned(j) = {j.d} /\ j.n \in 0 .. MaxRetries
        /\ sends' = IF j.ok \/ j.n = MaxRetries THEN sends ELSE [sends EXCEPT ![j.d][j.n + 1] = @ + 1]
    BY <1>1, <1>2, <1>7 DEF FollowUp, SenderFits, Concerned
  <2>2. ASSUME NEW d \in Deliveries, d = j.d, Undisturbed(d) PROVE InOrder(d)'
    <3>1. /\ InOrder(d) /\ NotSent(d) /\ NotListed(d)'
          /\ \A i \in sender' : d \notin Concerned(i)
      BY <1>6, <1>7, <2>1, <2>2 DEF Leave
    <3>2. /\ Len(logs'[d]) = 1 /\ logs'[d][1] = Written(j) /\ DOMAIN logs'[d] = {1}
          /\ Written(j).tries = j.n + 1
          /\ j.ok \/ j.n = MaxRetries => Written(j).status # "pending"
      BY <1>7, <2>2, <3>1, SavedInOrder
    <3>3. CASE j.ok \/ j.n = MaxRetries
      <4>1. NotSent(d)' /\ Len(logs'[d]) <= 1 /\ \A k \in DOMAIN logs'[d] : logs'[d][k].status # "pending"
        BY <2>1, <3>1, <3>2, <3>3 DEF NotSent
      <4>2. QED
        BY <3>1, <4>1, WithNobody
    <3>4. CASE ~(j.ok \/ j.n = MaxRetries)
      <4>1. PICK n \in 0 .. MaxRetries : n = j.n + 1 /\ n # 0
        <5>1. j.n + 1 \in 0 .. MaxRetries /\ j.n + 1 # 0
          BY <2>1, <3>4, HooksAssumption
        <5>2. QED
          BY <5>1
      <4>2. PICK waiting \in [0 .. MaxRetries -> Nat] : waiting = sends[d]
        BY <1>3
      <4>3. \A k \in 0 .. MaxRetries : waiting[k] = 0
        BY <3>1, <4>2 DEF NotSent
      <4>4. sends'[d] = [waiting EXCEPT ![n] = waiting[n] + 1]
        BY <1>3, <2>1, <2>2, <3>4, <4>1, <4>2
      <4>5. sends'[d][n] = 1 /\ \A k \in 0 .. MaxRetries : k # n => sends'[d][k] = 0
        BY <4>3, <4>4
      <4>6. AtTry(d, n)' /\ Len(logs'[d]) <= 1
        BY <3>2, <4>1 DEF AtTry
      <4>7. QED
        BY <3>1, <4>5, <4>6, WithCelery
    <3>5. QED
      BY <3>3, <3>4
  <2>3. QED
    BY <1>1, <1>4, <2>1, <2>2, LeavesInOrder
<1>8. CASE hook[j.d[1]] # "deleted" /\ j.kind = "retry"
  <2>1. Proceed(j) /\ sends' = sends
    BY <1>1, <1>8 DEF FollowUp
  <2>2. /\ BulkIsOfOneHook'
        /\ \E i : (Becomes(j, i) \/ Leave(j)) /\ Concerned(i) \subseteq Concerned(j)
        /\ \A k \in sender' : k \notin sender => Concerned(k) = {x.d : x \in j.left}
        /\ \A d \in Deliveries :
             InOrder(d) /\ d \in {x.d : x \in j.left} /\ Spent(d)' => InOrder(d)'
    BY <1>1, <1>8, <2>1, ProceedsInOrder
  <2>3. ASSUME NEW d \in Deliveries, d \in Concerned(j), Undisturbed(d) PROVE InOrder(d)'
    <3>1. InOrder(d) /\ IsInStep(j, d)
      BY <2>3, OnlySender DEF UndisturbedAreInOrder
    <3>2. Spent(d)'
      <4>1. CASE d = j.d
        BY <1>8, <3>1, <4>1, SavedInOrder, HooksAssumption DEF Spent
      <4>2. CASE d # j.d
        BY <1>4, <1>8, <3>1, <4>2 DEF IsInStep, Spent
      <4>3. QED
        BY <4>1, <4>2
    <3>3. CASE d \in {x.d : x \in j.left}
      BY <2>2, <3>1, <3>2, <3>3
    <3>4. CASE d \notin {x.d : x \in j.left}
      <4>1. d = j.d
        BY <2>3, <3>4 DEF Concerned
      <4>2. \A i \in sender' : i \in sender => i # j
        <5>1. j \notin sender' \/ j \in sender'
          OBVIOUS
        <5>2. ASSUME NEW x \in j.left,
                     [j EXCEPT !.d = x.d, !.k = x.k, !.row = x.row, !.pc = "post", !.left = @ \ {x}] = j
              PROVE  FALSE
          <6>1. j.pc = "post"
            BY <1>2, <5>2 DEF Sender
          <6>2. QED
            BY <6>1 DEF SaveLog
        <5>3. QED
          BY <2>1, <5>2 DEF Proceed, Becomes, Leave
      <4>3. \A i \in sender' : d \notin Concerned(i)
        BY <1>6, <1>8, <2>2, <2>3, <3>4, <4>1, <4>2
      <4>4. NotSent(d)' /\ NotListed(d)'
        BY <1>6, <1>8, <2>1, <2>3, <4>1 DEF NotSent
      <4>5. \A k \in DOMAIN logs'[d] : logs'[d][k].status # "pending"
        BY <1>8, <3>1, <4>1, SavedInOrder
      <4>6. Len(logs'[d]) <= 1
        BY <3>2 DEF Spent
      <4>7. QED
        BY <4>3, <4>4, <4>5, <4>6, WithNobody
    <3>5. QED
      BY <3>3, <3>4
  <2>4. PICK i : (Becomes(j, i) \/ Leave(j)) /\ Concerned(i) \subseteq Concerned(j)
    BY <2>2
  <2>5. UndisturbedAreInOrder'
    BY <1>1, <1>2, <1>4, <2>3, <2>4, OthersStayInOrder
  <2>6. QED
    BY <2>2, <2>5
<1>9. QED
  BY <1>2, <1>5, <1>7, <1>8

LEMMA LogRaisedInOrder ==
    ASSUME HooksTypeOK, HooksTypeOK', BulkIsOfOneHook, UndisturbedAreInOrder, NEW j \in sender, LogRaised(j)
    PROVE  BulkIsOfOneHook' /\ UndisturbedAreInOrder'
<1>1. j.pc = "raised" /\ UNCHANGED <<hook, sends, retries, disturbed>>
  BY DEF LogRaised
<1>2. j \in Sender /\ SenderFits(j) /\ j.kind \in {"auto", "retry"}
  BY SenderFacts DEF BulkIsOfOneHook, Sender
<1>3. ASSUME NEW d \in Deliveries, d \in Concerned(j), Undisturbed(d)
      PROVE  InOrder(d) /\ IsInStep(j, d) /\ d # j.d
  <2>1. InOrder(d) /\ IsInStep(j, d)
    BY <1>3, OnlySender DEF UndisturbedAreInOrder
  <2>2. QED
    BY <1>1, <2>1 DEF IsInStep
<1>4. CASE (j.kind = "auto" \/ hook[j.d[1]] = "deleted") /\ logs' = logs /\ Leave(j)
  <2>1. ASSUME NEW d \in Deliveries, d \in Concerned(j), Undisturbed(d) PROVE FALSE
    <3>1. d # j.d
      BY <1>3, <2>1
    <3>2. CASE j.kind = "auto"
      BY <1>2, <2>1, <3>1, <3>2 DEF SenderFits, Concerned
    <3>3. CASE hook[j.d[1]] = "deleted"
      BY <2>1, <3>3, HookIsGone
    <3>4. QED
      BY <1>4, <3>2, <3>3
  <2>2. QED
    BY <1>1, <1>4, <2>1, LeavesInOrder
<1>5. CASE j.kind = "retry" /\ Proceed(j) /\ logs' = [logs EXCEPT ![j.d][j.k] = Restated(j, "failed")]
  <2>1. \A d \in Deliveries \ {j.d} : logs'[d] = logs[d] /\ sends'[d] = sends[d]
    BY <1>1, <1>5 DEF HooksTypeOK
  <2>2. /\ BulkIsOfOneHook'
        /\ \E i : (Becomes(j, i) \/ Leave(j)) /\ Concerned(i) \subseteq Concerned(j)
        /\ \A d \in Deliveries :
             InOrder(d) /\ d \in {x.d : x \in j.left} /\ Spent(d)' => InOrder(d)'
    BY <1>1, <1>5, ProceedsInOrder
  <2>3. ASSUME NEW d \in Deliveries, d \in Concerned(j), Undisturbed(d) PROVE InOrder(d)'
    <3>1. InOrder(d) /\ IsInStep(j, d) /\ d # j.d
      BY <1>3, <2>3
    <3>2. d \in {x.d : x \in j.left} /\ Spent(d)'
      BY <1>5, <2>1, <2>3, <3>1 DEF Concerned, IsInStep, Spent
    <3>3. QED
      BY <2>2, <3>1, <3>2
  <2>4. PICK i : (Becomes(j, i) \/ Leave(j)) /\ Concerned(i) \subseteq Concerned(j)
    BY <2>2
  <2>5. \A d \in Deliveries \ Concerned(j) : logs'[d] = logs[d] /\ sends'[d] = sends[d]
    BY <2>1 DEF Concerned
  <2>6. UndisturbedAreInOrder'
    BY <1>1, <2>3, <2>4, <2>5, OthersStayInOrder
  <2>7. QED
    BY <2>2, <2>6
<1>6. QED
  BY <1>2, <1>4, <1>5 DEF LogRaised

LEMMA ChangeStatusInOrder ==
    ASSUME HooksTypeOK, HooksTypeOK', BulkIsOfOneHook, UndisturbedAreInOrder, NEW j \in sender, ChangeStatus(j)
    PROVE  BulkIsOfOneHook' /\ UndisturbedAreInOrder'
<1>1. j.pc = "check" /\ UNCHANGED <<hook, sends, retries, disturbed>>
  BY DEF ChangeStatus
<1>2. /\ j \in Sender /\ SenderFits(j) /\ j.kind = "retry" /\ j.d \in Deliveries /\ j.d \in Concerned(j)
      /\ j.row \in Row /\ logs[j.d] \in Seq(Row)
  BY <1>1, SenderFacts DEF BulkIsOfOneHook, Sender, SenderFits, Concerned, HooksTypeOK
<1>3. CASE hook[j.d[1]] = "deleted"
  <2>1. UNCHANGED logs /\ Leave(j)
    BY <1>3 DEF ChangeStatus
  <2>2. QED
    BY <1>1, <1>3, <2>1, HookIsGone, LeavesInOrder
<1>4. CASE hook[j.d[1]] # "deleted"
  <2> DEFINE row == Restated(j, "pending")
             i == [j EXCEPT !.row = row, !.pc = "post"]
  <2>1. /\ i.d = j.d /\ i.left = j.left /\ i.kind = "retry" /\ i.pc = "post" /\ Becomes(j, i)
        /\ logs' = [logs EXCEPT ![j.d][j.k] = row]
    BY <1>2, <1>4 DEF Sender, ChangeStatus
  <2>2. row \in Row /\ row.tries = j.row.tries
    BY <1>2 DEF Restated, Row, LogStatuses
  <2> HIDE DEF row, i
  <2>3. Concerned(i) = Concerned(j) /\ SenderFits(i) /\ sender' \subseteq sender \cup {i}
    BY <1>2, <2>1 DEF Concerned, SenderFits, Becomes
  <2>4. \A d \in Deliveries \ {j.d} : logs'[d] = logs[d]
    BY <2>1 DEF HooksTypeOK
  <2>5. ASSUME NEW d \in Deliveries, d \in Concerned(j), Undisturbed(d) PROVE InOrder(d)'
    <3>1. InOrder(d) /\ IsInStep(j, d)
      BY <2>5, OnlySender DEF UndisturbedAreInOrder
    <3>2. Spent(d)'
      <4>1. CASE d # j.d
        BY <1>2, <2>4, <3>1, <4>1 DEF IsInStep, Spent
      <4>2. CASE d = j.d
        <5>1. j.k = 1 /\ j.row.tries > MaxRetries /\ Len(logs[d]) = 1
          BY <1>1, <1>2, <3>1, <4>2 DEF IsInStep, Spent
        <5>2. PICK log \in Seq(Row) : log = logs[d]
          BY DEF HooksTypeOK
        <5>3. logs'[d] = [log EXCEPT ![1] = row]
          BY <2>1, <4>2, <5>1, <5>2 DEF HooksTypeOK
        <5>4. Len(logs'[d]) = 1 /\ logs'[d][1] = row
          BY <2>2, <5>1, <5>2, <5>3
        <5>5. QED
          BY <2>2, <5>1, <5>4 DEF Spent
      <4>3. QED
        BY <4>1, <4>2
    <3>3. IsInStep(i, d)'
      BY <2>1, <3>2 DEF IsInStep
    <3>4. Len(logs'[d]) <= 1
      BY <3>2 DEF Spent
    <3>5. QED
      BY <1>1, <2>1, <2>3, <2>5, <3>1, <3>3, <3>4, GoesOnWith
  <2>6. BulkIsOfOneHook'
    BY <1>1, <2>3, FitsOn
  <2>7. \A d \in Deliveries \ Concerned(j) : logs'[d] = logs[d] /\ sends'[d] = sends[d]
    BY <1>1, <1>2, <2>4
  <2>8. QED
    BY <1>1, <2>1, <2>3, <2>5, <2>6, <2>7, OthersStayInOrder
<1>5. QED
  BY <1>3, <1>4

LEMMA MarkPendingInOrder ==
    ASSUME HooksTypeOK, HooksTypeOK', BulkIsOfOneHook, UndisturbedAreInOrder, NEW j \in sender, MarkPending(j)
    PROVE  BulkIsOfOneHook' /\ UndisturbedAreInOrder'
<1> DEFINE listed == {<<x.d, x.k>> : x \in j.left}
           m == [n |-> j.n, rows |-> listed]
           Marked(d, k) == IF <<d, k>> \in listed THEN [logs[d][k] EXCEPT !.status = "pending"] ELSE logs[d][k]
<1>1. /\ j.pc = "mark" /\ retries' = retries \cup {m} /\ Leave(j)
      /\ logs' = [d \in Deliveries |-> [k \in DOMAIN logs[d] |-> Marked(d, k)]]
      /\ UNCHANGED <<hook, sends, disturbed>>
  BY DEF MarkPending
<1>2. j \in Sender /\ SenderFits(j) /\ j.kind = "retry"
  BY <1>1, SenderFacts DEF BulkIsOfOneHook, Sender, SenderFits
<1>3. ASSUME NEW d PROVE Mentions(m, d) <=> d \in Concerned(j)
  <2>1. Mentions(m, d) <=> \E x \in j.left : x.d = d
    <3>1. m.rows = listed
      OBVIOUS
    <3> HIDE DEF m
    <3>2. ASSUME NEW x \in j.left, x.d = d PROVE \E y \in listed : y[1] = d
      <4>1. <<x.d, x.k>> \in listed /\ <<x.d, x.k>>[1] = d
        BY <3>2
      <4>2. QED
        BY <4>1
    <3>3. ASSUME NEW y \in listed, y[1] = d PROVE \E x \in j.left : x.d = d
      BY <3>3
    <3>4. QED
      BY <3>1, <3>2, <3>3 DEF Mentions
  <2>2. QED
    BY <1>1, <1>2, <2>1 DEF Concerned, SenderFits
<1>4. BulkIsOfOneHook'
  <2>1. ListFits(m)
    BY <1>2 DEF ListFits, SenderFits
  <2> HIDE DEF m
  <2>2. QED
    BY <1>1, <2>1 DEF BulkIsOfOneHook, Leave, SenderFits, ListFits
<1>5. ASSUME NEW d \in Deliveries, d \notin Concerned(j) PROVE logs'[d] = logs[d]
  <2>1. \A k : <<d, k>> \notin listed
    BY <1>5 DEF Concerned
  <2>2. PICK log \in Seq(Row) : log = logs[d]
    BY DEF HooksTypeOK
  <2>3. logs'[d] = [k \in DOMAIN log |-> log[k]]
    BY <1>1, <2>1, <2>2
  <2>4. QED
    BY <2>2, <2>3
<1>6. ASSUME NEW d \in Deliveries, Undisturbed(d)' PROVE InOrder(d)'
  <2>1. InOrder(d)
    BY <1>1, <1>6 DEF UndisturbedAreInOrder, Undisturbed
  <2>2. CASE d \notin Concerned(j)
    <3>1. ~Mentions(m, d)
      BY <1>3, <2>2
    <3> HIDE DEF m
    <3>2. logs'[d] = logs[d] /\ sends'[d] = sends[d]
      BY <1>1, <1>5, <2>2
    <3>3. \A i : d \in Concerned(i) => (i \in sender' <=> i \in sender)
      BY <1>1, <2>2 DEF Leave
    <3>4. \A l : Mentions(l, d) => (l \in retries' <=> l \in retries)
      BY <1>1, <3>1
    <3>5. QED
      BY <2>1, <3>2, <3>3, <3>4, StaysInOrder
  <2>3. CASE d \in Concerned(j)
    <3>1. NotSent(d) /\ NotListed(d) /\ IsInStep(j, d) /\ \A i \in sender : d \in Concerned(i) => i = j
      BY <2>1, <2>3, OnlySender
    <3>2. Spent(d)'
      <4>1. PICK log \in Seq(Row) : log = logs[d]
        BY DEF HooksTypeOK
      <4>2. Len(log) = 1 /\ log[1].tries > MaxRetries /\ log[1] \in Row /\ DOMAIN log = 1 .. 1
        BY <1>2, <3>1, <4>1 DEF IsInStep, Spent
      <4>3. logs'[d] = [k \in 1 .. 1 |-> Marked(d, k)]
        BY <1>1, <4>1, <4>2
      <4>4. Marked(d, 1).tries = log[1].tries
        BY <4>1, <4>2 DEF Row
      <4> HIDE DEF Marked
      <4>5. Len(logs'[d]) = 1 /\ logs'[d][1] = Marked(d, 1)
        BY <4>3
      <4>6. QED
        BY <4>2, <4>4, <4>5 DEF Spent
    <3>3. Mentions(m, d) /\ \A x \in m.rows : x[1] = d => x[2] = 1
      BY <1>1, <1>3, <2>3, <3>1 DEF IsInStep
    <3> HIDE DEF m
    <3>4. m \in retries' /\ (\A l \in retries' : Mentions(l, d) => l = m) /\ NotSent(d)'
          /\ \A i \in sender' : d \notin Concerned(i)
      BY <1>1, <3>1 DEF NotListed, NotSent, Leave
    <3>5. QED
      BY <3>2, <3>3, <3>4, WithBulk
  <2>4. QED
    BY <2>2, <2>3
<1>7. QED
  BY <1>4, <1>6 DEF UndisturbedAreInOrder

----------------------------------------------------------------------------
\* Steps that begin with a sender: of every other delivery nothing changes.
LEMMA BeginsInOrder ==
    ASSUME HooksTypeOK, HooksTypeOK', BulkIsOfOneHook, UndisturbedAreInOrder, NEW i, SenderFits(i),
           sender' = sender \cup {i}, retries' \subseteq retries,
           UNCHANGED <<hook, logs>>, disturbed \subseteq disturbed',
           \A d \in Deliveries : d \notin Concerned(i) =>
             sends'[d] = sends[d] /\ \A m \in retries : Mentions(m, d) => m \in retries',
           \A d \in Deliveries : d \in Concerned(i) /\ Undisturbed(d)' /\ InOrder(d) =>
             /\ NotSent(d)' /\ NotListed(d)' /\ IsInStep(i, d)
             /\ \A k \in sender : d \notin Concerned(k)
    PROVE  BulkIsOfOneHook' /\ UndisturbedAreInOrder'
<1>1. BulkIsOfOneHook'
  BY FitsOn
<1>2. ASSUME NEW d \in Deliveries, Undisturbed(d)' PROVE InOrder(d)'
  <2>1. InOrder(d)
    BY <1>2 DEF UndisturbedAreInOrder, Undisturbed
  <2>2. CASE d \notin Concerned(i)
    <3>1. \A k : d \in Concerned(k) => (k \in sender' <=> k \in sender)
      BY <2>2
    <3>2. \A m : Mentions(m, d) => (m \in retries' <=> m \in retries)
      BY <2>2
    <3>3. QED
      BY <2>1, <2>2, <3>1, <3>2, StaysInOrder
  <2>3. CASE d \in Concerned(i)
    <3>1. NotSent(d)' /\ NotListed(d)' /\ IsInStep(i, d) /\ \A k \in sender : d \notin Concerned(k)
      BY <1>2, <2>1, <2>3
    <3>2. IsInStep(i, d)' /\ Len(logs'[d]) <= 1
      BY <2>1, <3>1 DEF InOrder, IsInStep, AtTry, Spent
    <3>3. QED
      BY <2>3, <3>1, <3>2, WithSender
  <2>4. QED
    BY <2>2, <2>3
<1>3. QED
  BY <1>1, <1>2 DEF UndisturbedAreInOrder

LEMMA StartSendInOrder ==
    ASSUME HooksTypeOK, HooksTypeOK', BulkIsOfOneHook, UndisturbedAreInOrder,
           NEW w \in Senders, NEW d \in Deliveries, NEW n \in 0 .. MaxRetries, StartSend(w, d, n)
    PROVE  BulkIsOfOneHook' /\ UndisturbedAreInOrder'
<1> DEFINE i == [by |-> w, kind |-> "auto", d |-> d, n |-> n, ok |-> FALSE,
                 k |-> 0, row |-> New, left |-> {}, pc |-> "post"]
<1>1. /\ sends[d][n] > 0 /\ sends' = [sends EXCEPT ![d][n] = @ - 1]
      /\ sender' = IF hook[d[1]] = "deleted" THEN sender ELSE sender \cup {i}
      /\ UNCHANGED <<hook, logs, retries, signals, requests, posts, accepted, disturbed>>
  BY DEF StartSend
<1>2. SenderFits(i) /\ i.d = d /\ i.left = {} /\ i.kind = "auto" /\ i.n = n /\ i.pc = "post"
  BY DEF SenderFits
<1> HIDE DEF i
<1>3. Concerned(i) = {d}
  BY <1>2 DEF Concerned
<1>4. \A e \in Deliveries : e # d => sends'[e] = sends[e]
  BY <1>1 DEF HooksTypeOK
<1>5. CASE hook[d[1]] = "deleted"
  <2>1. sender' = sender
    BY <1>1, <1>5
  <2>2. BulkIsOfOneHook'
    BY <1>1, <2>1 DEF BulkIsOfOneHook, SenderFits, ListFits
  <2>3. ASSUME NEW e \in Deliveries, Undisturbed(e)' PROVE InOrder(e)'
    <3>1. InOrder(e) /\ e # d
      BY <1>1, <1>5, <2>3 DEF UndisturbedAreInOrder, Undisturbed
    <3>2. QED
      BY <1>1, <1>4, <2>1, <3>1, StaysInOrder
  <2>4. QED
    BY <2>2, <2>3 DEF UndisturbedAreInOrder
<1>6. CASE hook[d[1]] # "deleted"
  <2>1. ASSUME InOrder(d)
        PROVE  NotSent(d)' /\ NotListed(d)' /\ IsInStep(i, d) /\ \A k \in sender : d \notin Concerned(k)
    <3>1. PICK waiting \in [0 .. MaxRetries -> Nat] : waiting = sends[d]
      BY DEF HooksTypeOK
    <3>2. waiting[n] > 0 /\ \A k \in 0 .. MaxRetries : waiting[k] > 0 => k = n /\ waiting[k] = 1
      BY <1>1, <2>1, <3>1 DEF InOrder, AtOnePlace
    <3>3. \A k \in 0 .. MaxRetries : waiting[k] = IF k = n THEN 1 ELSE 0
      BY <3>2
    <3>4. sends'[d] = [waiting EXCEPT ![n] = waiting[n] - 1]
      BY <1>1, <3>1 DEF HooksTypeOK
    <3>5. NotSent(d)'
      BY <3>3, <3>4 DEF NotSent
    <3>6. ~NotSent(d)
      BY <3>1, <3>3 DEF NotSent
    <3>7. NotListed(d)' /\ \A k \in sender : d \notin Concerned(k)
      BY <1>1, <2>1, <3>6 DEF InOrder, AtOnePlace, NotListed
    <3>8. AtTry(d, n)
      BY <1>1, <2>1 DEF InOrder
    <3>9. QED
      BY <1>2, <3>5, <3>7, <3>8 DEF IsInStep
  <2>2. QED
    BY <1>1, <1>2, <1>3, <1>4, <1>6, <2>1, BeginsInOrder
<1>7. QED
  BY <1>5, <1>6

LEMMA StartRetryAllInOrder ==
    ASSUME HooksTypeOK, HooksTypeOK', BulkIsOfOneHook, UndisturbedAreInOrder,
           NEW w \in Senders, NEW m \in retries, StartRetryAll(w, m)
    PROVE  BulkIsOfOneHook' /\ UndisturbedAreInOrder'
<1> DEFINE Copy(x) == [d |-> x[1], k |-> x[2], row |-> logs[x[1]][x[2]]]
           found == {x \in m.rows : x[2] \in DOMAIN logs[x[1]]}
           loaded == {Copy(x) : x \in found}
<1>1. /\ retries' = retries \ {m}
      /\ UNCHANGED <<hook, logs, sends, signals, requests, posts, accepted, disturbed>>
      /\ \/ loaded = {} /\ sender' = sender
         \/ \E x \in loaded : sender' = sender \cup
              {[by |-> w, kind |-> "retry", d |-> x.d, n |-> 0, ok |-> FALSE,
                k |-> x.k, row |-> x.row, left |-> loaded \ {x}, pc |-> "post"]}
  BY DEF StartRetryAll
<1>2. \A d : d \in {y.d : y \in loaded} => Mentions(m, d)
  BY DEF Mentions
<1>3. \A y, z \in loaded : y.d[1] = z.d[1]
  BY DEF BulkIsOfOneHook, ListFits
<1>4. ASSUME NEW d \in Deliveries, InOrder(d), Mentions(m, d)
      PROVE  /\ Spent(d) /\ d \in {y.d : y \in loaded} /\ NotSent(d)
             /\ \A l \in retries : Mentions(l, d) => l = m
             /\ \A k \in sender : d \notin Concerned(k)
  <2>1. PICK x \in m.rows : x[1] = d /\ x[2] = 1
    BY <1>4 DEF Mentions, InOrder
  <2>2. Spent(d)
    BY <1>4 DEF InOrder
  <2>3. PICK log \in Seq(Row) : log = logs[d]
    BY DEF HooksTypeOK
  <2>4. 1 \in DOMAIN log
    BY <2>2, <2>3 DEF Spent
  <2>5. x \in found /\ Copy(x) \in loaded /\ Copy(x).d = d
    BY <2>1, <2>3, <2>4
  <2> HIDE DEF loaded, found, Copy
  <2>6. d \in {y.d : y \in loaded}
    BY <2>5
  <2>7. NotSent(d) /\ (\A l \in retries : Mentions(l, d) => l = m) /\ \A k \in sender : d \notin Concerned(k)
    BY <1>4 DEF InOrder, AtOnePlace, NotListed
  <2>8. QED
    BY <2>2, <2>6, <2>7
<1> HIDE DEF loaded
<1>5. CASE loaded = {} /\ sender' = sender
  <2>1. BulkIsOfOneHook'
    BY <1>1, <1>5 DEF BulkIsOfOneHook, SenderFits, ListFits
  <2>2. ASSUME NEW d \in Deliveries, Undisturbed(d)' PROVE InOrder(d)'
    <3>1. InOrder(d)
      BY <1>1, <2>2 DEF UndisturbedAreInOrder, Undisturbed
    <3>2. ~Mentions(m, d)
      BY <1>4, <1>5, <3>1
    <3>3. \A l : Mentions(l, d) => (l \in retries' <=> l \in retries)
      BY <1>1, <3>2
    <3>4. QED
      BY <1>1, <1>5, <3>1, <3>3, StaysInOrder
  <2>3. QED
    BY <2>1, <2>2 DEF UndisturbedAreInOrder
<1>6. ASSUME NEW x \in loaded, sender' = sender \cup
              {[by |-> w, kind |-> "retry", d |-> x.d, n |-> 0, ok |-> FALSE,
                k |-> x.k, row |-> x.row, left |-> loaded \ {x}, pc |-> "post"]}
      PROVE  BulkIsOfOneHook' /\ UndisturbedAreInOrder'
  <2>1. PICK i : /\ i.d = x.d /\ i.left = loaded \ {x} /\ i.kind = "retry" /\ i.pc = "post"
                 /\ sender' = sender \cup {i}
    <3> DEFINE new == [by |-> w, kind |-> "retry", d |-> x.d, n |-> 0, ok |-> FALSE,
                       k |-> x.k, row |-> x.row, left |-> loaded \ {x}, pc |-> "post"]
    <3>1. /\ new.d = x.d /\ new.left = loaded \ {x} /\ new.kind = "retry" /\ new.pc = "post"
          /\ sender' = sender \cup {new}
      BY <1>6
    <3> HIDE DEF new
    <3>2. QED
      BY <3>1
  <2>2. Concerned(i) = {y.d : y \in loaded}
    BY <2>1 DEF Concerned
  <2>3. SenderFits(i)
    BY <1>3, <2>1 DEF SenderFits
  <2>4. ASSUME NEW d \in Deliveries, d \in Concerned(i), Undisturbed(d)', InOrder(d)
        PROVE  /\ NotSent(d)' /\ NotListed(d)' /\ IsInStep(i, d)
               /\ \A k \in sender : d \notin Concerned(k)
    <3>1. Mentions(m, d)
      BY <1>2, <2>2, <2>4
    <3>2. /\ Spent(d) /\ NotSent(d) /\ \A l \in retries : Mentions(l, d) => l = m
          /\ \A k \in sender : d \notin Concerned(k)
      BY <1>4, <2>4, <3>1
    <3>3. NotSent(d)' /\ NotListed(d)'
      BY <1>1, <3>2 DEF NotSent, NotListed
    <3>4. IsInStep(i, d)
      BY <2>1, <3>2 DEF IsInStep
    <3>5. QED
      BY <3>2, <3>3, <3>4
  <2>5. ASSUME NEW d \in Deliveries, d \notin Concerned(i), Undisturbed(d) PROVE ~Mentions(m, d)
    BY <1>4, <2>2, <2>5 DEF UndisturbedAreInOrder
  <2>6. ASSUME NEW d \in Deliveries, Undisturbed(d)' PROVE InOrder(d)'
    <3>1. Undisturbed(d) /\ InOrder(d)
      BY <1>1, <2>6 DEF UndisturbedAreInOrder, Undisturbed
    <3>2. CASE d \in Concerned(i)
      <4>1. /\ NotSent(d)' /\ NotListed(d)' /\ IsInStep(i, d)
            /\ \A k \in sender : d \notin Concerned(k)
        BY <2>4, <2>6, <3>1, <3>2
      <4>2. IsInStep(i, d)'
        BY <1>1, <4>1 DEF IsInStep, AtTry, Spent
      <4>3. Len(logs'[d]) <= 1
        BY <1>1, <3>1 DEF InOrder
      <4>4. i \in sender' /\ \A k \in sender' : d \in Concerned(k) => k = i
        BY <2>1, <4>1
      <4>5. QED
        BY <3>2, <4>1, <4>2, <4>3, <4>4, WithSender
    <3>3. CASE d \notin Concerned(i)
      <4>1. ~Mentions(m, d)
        BY <2>5, <3>1, <3>3
      <4>2. \A l : Mentions(l, d) => (l \in retries' <=> l \in retries)
        BY <1>1, <4>1
      <4>3. \A k : d \in Concerned(k) => (k \in sender' <=> k \in sender)
        BY <2>1, <3>3
      <4>4. QED
        BY <1>1, <3>1, <4>2, <4>3, StaysInOrder
    <3>4. QED
      BY <3>2, <3>3
  <2>7. BulkIsOfOneHook'
    BY <1>1, <2>1, <2>3, FitsOn
  <2>8. QED
    BY <2>6, <2>7 DEF UndisturbedAreInOrder
<1>7. QED
  BY <1>1, <1>5, <1>6

\* What a user may retry, of a delivery that is at rest and in order, has been given up.
LEMMA RetriableIsSpent ==
    ASSUME HooksTypeOK, FailedIsTired, NEW d \in Deliveries, InOrder(d), hook[d[1]] # "deleted", ~Busy(d),
           NEW k \in DOMAIN logs[d], CanRetry(logs[d][k])
    PROVE  /\ k = 1 /\ Spent(d)
           /\ NotSent(d) /\ NotListed(d) /\ \A j \in sender : d \notin Concerned(j)
<1>1. PICK log \in Seq(Row) : log = logs[d]
  BY DEF HooksTypeOK
<1>2. Len(log) <= 1 /\ k \in 1 .. Len(log) /\ Len(log) \in Nat
  BY <1>1 DEF InOrder
<1>3. k = 1 /\ Len(log) = 1
  <2>1. PICK n \in Nat : n = Len(log)
    BY <1>2
  <2>2. n <= 1 /\ k \in 1 .. n
    BY <1>2, <2>1
  <2>3. k = 1 /\ n = 1
    BY <2>2
  <2>4. QED
    BY <2>1, <2>3
<1>4. log[k].status # "pending"
  BY <1>1 DEF InOrder
<1>5. log[k].status = "failed"
  BY <1>1, <1>4 DEF CanRetry
<1>6. Tired(d, log[1])
  BY <1>1, <1>3 DEF FailedIsTired
<1>7. Spent(d)
  BY <1>1, <1>3, <1>5, <1>6 DEF Tired, Single, Spent
<1>8. QED
  BY <1>3, <1>7, NotBusy

LEMMA RetryLogInOrder ==
    ASSUME HooksTypeOK, HooksTypeOK', FailedIsTired, BulkIsOfOneHook, UndisturbedAreInOrder,
           NEW w \in Senders, NEW d \in Deliveries, NEW k \in DOMAIN logs[d], RetryLog(w, d, k)
    PROVE  BulkIsOfOneHook' /\ UndisturbedAreInOrder'
<1> DEFINE i == [by |-> w, kind |-> "retry", d |-> d, n |-> 0, ok |-> FALSE, k |-> k,
                 row |-> logs[d][k], left |-> {}, pc |-> "check"]
<1>1. /\ hook[d[1]] = "active" /\ CanRetry(logs[d][k]) /\ sender' = sender \cup {i}
      /\ disturbed' = IF Busy(d) THEN disturbed \cup {d} ELSE disturbed
      /\ UNCHANGED <<hook, logs, sends, retries, signals, posts, accepted>>
  BY DEF RetryLog
<1>2. SenderFits(i) /\ i.d = d /\ i.left = {} /\ i.kind = "retry" /\ i.pc = "check" /\ i.k = k /\ i.row = logs[d][k]
  BY DEF SenderFits
<1> HIDE DEF i
<1>3. Concerned(i) = {d}
  BY <1>2 DEF Concerned
<1>4. ASSUME Undisturbed(d)', InOrder(d)
      PROVE  NotSent(d)' /\ NotListed(d)' /\ IsInStep(i, d) /\ \A j \in sender : d \notin Concerned(j)
  <2>1. ~Busy(d)
    BY <1>1, <1>4 DEF Undisturbed
  <2>2. k = 1 /\ Spent(d) /\ NotSent(d) /\ NotListed(d) /\ \A j \in sender : d \notin Concerned(j)
    BY <1>1, <1>4, <2>1, RetriableIsSpent
  <2>3. NotSent(d)' /\ NotListed(d)'
    BY <1>1, <2>2 DEF NotSent, NotListed
  <2>4. IsInStep(i, d)
    BY <1>2, <2>2 DEF IsInStep, Spent
  <2>5. QED
    BY <2>2, <2>3, <2>4
<1>5. QED
  BY <1>1, <1>2, <1>3, <1>4, BeginsInOrder

LEMMA RetryAllInOrder ==
    ASSUME HooksTypeOK, HooksTypeOK', FailedIsTired, BulkIsOfOneHook, UndisturbedAreInOrder,
           NEW w \in Senders, NEW h \in Hooks, RetryAll(w, h)
    PROVE  BulkIsOfOneHook' /\ UndisturbedAreInOrder'
<1> DEFINE found == {x \in Rows(h) : CanRetry(logs[x[1]][x[2]])}
           first == CHOOSE x \in found : TRUE
           left == {[d |-> x[1], k |-> x[2], row |-> New] : x \in found}
           i == [by |-> w, kind |-> "retry", d |-> first[1], n |-> requests, ok |-> FALSE,
                 k |-> first[2], row |-> New, pc |-> "mark", left |-> left]
<1>1. /\ found # {} /\ sender' = sender \cup {i} /\ hook[h] = "active"
      /\ disturbed' = disturbed \cup {d \in Deliveries : Busy(d) /\ \E x \in found : x[1] = d}
      /\ UNCHANGED <<hook, logs, sends, retries, signals, posts, accepted>>
  BY DEF RetryAll
<1>2. \A x \in found : x[1] \in Deliveries /\ x[2] \in DOMAIN logs[x[1]] /\ CanRetry(logs[x[1]][x[2]])
  BY RowsFacts
<1>3. \A x \in found : x[1][1] = h
  BY DEF Rows
<1> HIDE DEF found
<1>4. first \in found
  BY <1>1
<1> HIDE DEF first
<1>5. /\ \A y \in left : \E x \in found : y.d = x[1] /\ y.k = x[2]
      /\ \A x \in found : \E y \in left : y.d = x[1]
  <2>1. ASSUME NEW x \in found PROVE \E y \in left : y.d = x[1]
    <3>1. [d |-> x[1], k |-> x[2], row |-> New] \in left
      OBVIOUS
    <3>2. QED
      BY <3>1
  <2>2. QED
    BY <2>1
<1> HIDE DEF left
<1>6. i.d = first[1] /\ i.left = left /\ i.kind = "retry" /\ i.pc = "mark"
  OBVIOUS
<1> HIDE DEF i
<1>7. SenderFits(i)
  BY <1>3, <1>4, <1>5, <1>6 DEF SenderFits
<1>8. \A d : d \in Concerned(i) <=> \E x \in found : x[1] = d
  BY <1>4, <1>5, <1>6 DEF Concerned
<1>9. ASSUME NEW d \in Deliveries, d \in Concerned(i), Undisturbed(d)', InOrder(d)
      PROVE  NotSent(d)' /\ NotListed(d)' /\ IsInStep(i, d) /\ \A j \in sender : d \notin Concerned(j)
  <2>1. ~Busy(d) /\ hook[d[1]] # "deleted"
    BY <1>1, <1>8, <1>9 DEF Undisturbed
  <2>2. ASSUME NEW x \in found, x[1] = d
        PROVE  /\ x[2] = 1 /\ Spent(d)
               /\ NotSent(d) /\ NotListed(d) /\ \A j \in sender : d \notin Concerned(j)
    <3>1. PICK k \in DOMAIN logs[d] : k = x[2]
      BY <1>2, <2>2
    <3>2. CanRetry(logs[d][k])
      BY <1>2, <2>2, <3>1
    <3>3. QED
      BY <1>9, <2>1, <3>1, <3>2, RetriableIsSpent
  <2>3. PICK x \in found : x[1] = d
    BY <1>8, <1>9
  <2>4. Spent(d) /\ NotSent(d) /\ NotListed(d) /\ \A j \in sender : d \notin Concerned(j)
    BY <2>2, <2>3
  <2>5. \A y \in i.left : y.d = d => y.k = 1
    BY <1>5, <1>6, <2>2
  <2>6. IsInStep(i, d)
    BY <1>6, <2>4, <2>5 DEF IsInStep
  <2>7. NotSent(d)' /\ NotListed(d)'
    BY <1>1, <2>4 DEF NotSent, NotListed
  <2>8. QED
    BY <2>4, <2>6, <2>7
<1>10. disturbed \subseteq disturbed'
  BY <1>1
<1>11. QED
  BY <1>1, <1>7, <1>9, <1>10, BeginsInOrder

----------------------------------------------------------------------------
\* Signals, hooks, time and faults.
LEMMA FitsStill ==
    ASSUME BulkIsOfOneHook, sender' \subseteq sender, retries' = retries
    PROVE  BulkIsOfOneHook'
  BY DEF BulkIsOfOneHook, SenderFits, ListFits

LEMMA SignalInOrder ==
    ASSUME HooksTypeOK, HooksTypeOK', UndisturbedAreInOrder, NEW s \in Submissions, Signal(s)
    PROVE  UndisturbedAreInOrder'
<1> DEFINE called == {d \in Deliveries : d[2] = s /\ hook[d[1]] = "active" /\ logs[d] = << >>}
<1>1. /\ sends' = [d \in Deliveries |->
                     IF d \in called THEN [sends[d] EXCEPT ![0] = @ + 1] ELSE sends[d]]
      /\ disturbed' = disturbed \cup {d \in called : Busy(d)}
      /\ UNCHANGED <<hook, logs, retries, sender>>
  BY DEF Signal
<1>2. \A d \in called : logs[d] = << >>
  OBVIOUS
<1> HIDE DEF called
<1> SUFFICES ASSUME NEW d \in Deliveries, Undisturbed(d)' PROVE InOrder(d)'
  BY DEF UndisturbedAreInOrder
<1>3. InOrder(d)
  BY <1>1 DEF UndisturbedAreInOrder, Undisturbed
<1>4. CASE d \notin called
  BY <1>1, <1>3, <1>4, StaysInOrder
<1>5. CASE d \in called
  <2>1. ~Busy(d)
    BY <1>1, <1>5 DEF Undisturbed
  <2>2. NotSent(d) /\ NotListed(d) /\ \A j \in sender : d \notin Concerned(j)
    BY <2>1, NotBusy
  <2>3. PICK waiting \in [0 .. MaxRetries -> Nat] : waiting = sends[d]
    BY DEF HooksTypeOK
  <2>4. \A k \in 0 .. MaxRetries : waiting[k] = 0
    BY <2>2, <2>3 DEF NotSent
  <2>5. 0 \in 0 .. MaxRetries
    BY HooksAssumption
  <2>6. sends'[d] = [waiting EXCEPT ![0] = waiting[0] + 1]
    BY <1>1, <1>5, <2>3
  <2>7. sends'[d][0] = 1 /\ \A k \in 0 .. MaxRetries : k # 0 => sends'[d][k] = 0
    BY <2>4, <2>5, <2>6
  <2>8. logs'[d] = << >> /\ AtTry(d, 0)'
    BY <1>1, <1>2, <1>5 DEF AtTry
  <2>9. Len(logs'[d]) <= 1
    BY <2>8
  <2>10. NotListed(d)' /\ \A j \in sender' : d \notin Concerned(j)
    BY <1>1, <2>2 DEF NotListed
  <2>11. QED
    BY <2>5, <2>7, <2>8, <2>9, <2>10, WithCelery
<1>6. QED
  BY <1>4, <1>5

LEMMA HookRequestInOrder ==
    ASSUME HooksTypeOK, UndisturbedAreInOrder, NEW h \in Hooks, ToggleHook(h) \/ DeleteHook(h)
    PROVE  UndisturbedAreInOrder'
<1> SUFFICES ASSUME NEW d \in Deliveries, Undisturbed(d)' PROVE InOrder(d)'
  BY DEF UndisturbedAreInOrder
<1>1. d[1] \in Hooks
  BY DEF Deliveries
<1>2. UNCHANGED <<sends, retries, sender, disturbed>>
  BY DEF ToggleHook, DeleteHook
<1>3. Undisturbed(d) /\ logs'[d] = logs[d]
  <2>1. CASE ToggleHook(h)
    BY <1>1, <2>1 DEF ToggleHook, HooksTypeOK, Undisturbed
  <2>2. CASE DeleteHook(h)
    BY <1>1, <2>2 DEF DeleteHook, HooksTypeOK, Undisturbed
  <2>3. QED
    BY <2>1, <2>2
<1>4. QED
  BY <1>2, <1>3, StaysInOrder DEF UndisturbedAreInOrder

LEMMA AgeLogInOrder ==
    ASSUME HooksTypeOK, UndisturbedAreInOrder, NEW d \in Deliveries, NEW k \in DOMAIN logs[d], AgeLog(d, k)
    PROVE  UndisturbedAreInOrder'
<1>1. /\ logs' = [logs EXCEPT ![d][k].old = TRUE]
      /\ \A j \in sender : d \notin Concerned(j)
      /\ UNCHANGED <<hook, sends, retries, sender, disturbed>>
  BY DEF AgeLog
<1> SUFFICES ASSUME NEW e \in Deliveries, Undisturbed(e)' PROVE InOrder(e)'
  BY DEF UndisturbedAreInOrder
<1>2. InOrder(e)
  BY <1>1 DEF UndisturbedAreInOrder, Undisturbed
<1>3. CASE e # d
  <2>1. logs'[e] = logs[e]
    BY <1>1, <1>3 DEF HooksTypeOK
  <2>2. QED
    BY <1>1, <1>2, <2>1, StaysInOrder
<1>4. CASE e = d
  <2>1. PICK log \in Seq(Row) : log = logs[d]
    BY DEF HooksTypeOK
  <2>2. PICK row \in Row : row = log[k]
    BY <2>1
  <2> DEFINE later == [row EXCEPT !.old = TRUE]
  <2>3. later \in Row /\ later.tries = row.tries /\ later.status = row.status
    BY DEF Row
  <2>4. logs'[d] = [log EXCEPT ![k] = later]
    BY <1>1, <2>1, <2>2 DEF HooksTypeOK
  <2> HIDE DEF later
  <2>5. k \in DOMAIN log
    BY <2>1
  <2>6. DOMAIN logs'[d] = DOMAIN log /\ Len(logs'[d]) = Len(log)
    BY <2>3, <2>4, <2>5
  <2>7. \A i \in DOMAIN log : logs'[d][i].tries = log[i].tries /\ logs'[d][i].status = log[i].status
    BY <2>2, <2>3, <2>4
  <2>8. (Len(log) = 1 => 1 \in DOMAIN log) /\ (logs'[d] = << >> <=> log = << >>)
    BY <2>1, <2>4, <2>5
  <2>9. (Spent(d) => Spent(d)') /\ \A n : AtTry(d, n) => AtTry(d, n)'
    BY <2>1, <2>6, <2>7, <2>8 DEF Spent, AtTry
  <2>10. AtOnePlace(d)' = AtOnePlace(d) /\ Busy(d)' = Busy(d)
    BY <1>1 DEF AtOnePlace, Busy, NotSent, NotListed
  <2>11. \A i \in DOMAIN logs'[d] : logs'[d][i].status = logs[d][i].status
    BY <2>1, <2>6, <2>7
  <2>12. Len(logs'[d]) <= 1 /\ DOMAIN logs'[d] = DOMAIN logs[d]
    BY <1>2, <1>4, <2>1, <2>6 DEF InOrder
  <2>13. InOrder(d)
    BY <1>2, <1>4
  <2>14. \A n \in 0 .. MaxRetries : sends'[d][n] > 0 => AtTry(d, n)'
    BY <1>1, <2>9, <2>13 DEF InOrder
  <2>15. \A m \in retries' : Mentions(m, d) => Spent(d)' /\ \A x \in m.rows : x[1] = d => x[2] = 1
    BY <1>1, <2>9, <2>13 DEF InOrder
  <2>16. ~Busy(d)' => \A i \in DOMAIN logs'[d] : logs'[d][i].status # "pending"
    BY <2>10, <2>11, <2>12, <2>13 DEF InOrder
  <2>17. \A j \in sender' : d \notin Concerned(j)
    BY <1>1
  <2>18. AtOnePlace(d)'
    BY <2>10, <2>13 DEF InOrder
  <2>19. InOrder(d)'
    BY <2>12, <2>14, <2>15, <2>16, <2>17, <2>18 DEF InOrder
  <2>20. QED
    BY <1>4, <2>19
<1>5. QED
  BY <1>3, <1>4

LEMMA KillSenderInOrder ==
    ASSUME HooksTypeOK, UndisturbedAreInOrder, NEW j \in sender, KillSender(j)
    PROVE  UndisturbedAreInOrder'
<1>1. /\ sender' = sender \ {j} /\ disturbed' = disturbed \cup Concerned(j)
      /\ UNCHANGED <<hook, logs, sends, retries>>
  BY DEF KillSender, Leave
<1> SUFFICES ASSUME NEW d \in Deliveries, Undisturbed(d)' PROVE InOrder(d)'
  BY DEF UndisturbedAreInOrder
<1>2. InOrder(d) /\ d \notin Concerned(j)
  BY <1>1 DEF UndisturbedAreInOrder, Undisturbed
<1>3. \A i : d \in Concerned(i) => (i \in sender' <=> i \in sender)
  BY <1>1, <1>2
<1>4. QED
  BY <1>1, <1>2, <1>3, StaysInOrder

----------------------------------------------------------------------------
OrderInv == BulkIsOfOneHook /\ UndisturbedAreInOrder

LEMMA InitOrder == HooksInit => OrderInv
<1> SUFFICES ASSUME HooksInit PROVE OrderInv
  OBVIOUS
<1>1. sender = {} /\ retries = {}
  BY DEF HooksInit
<1>2. BulkIsOfOneHook
  BY <1>1 DEF BulkIsOfOneHook
<1>3. ASSUME NEW d \in Deliveries PROVE InOrder(d)
  <2>1. logs[d] = << >> /\ \A n \in 0 .. MaxRetries : sends[d][n] = 0
    BY DEF HooksInit
  <2>2. Len(logs[d]) <= 1 /\ \A k : k \notin DOMAIN logs[d]
    BY <2>1
  <2>3. \A n \in 0 .. MaxRetries : ~(sends[d][n] > 0)
    BY <2>1
  <2>4. AtOnePlace(d)
    BY <1>1, <2>3 DEF AtOnePlace, NotListed
  <2>5. QED
    BY <1>1, <2>2, <2>3, <2>4 DEF InOrder
<1>4. QED
  BY <1>2, <1>3 DEF OrderInv, UndisturbedAreInOrder

LEMMA NextOrder ==
    ASSUME HooksTypeOK, HooksTypeOK', FailedIsTired, OrderInv, [HooksNext]_hookVars
    PROVE  OrderInv'
<1> USE DEF OrderInv
<1>1. ASSUME NEW s \in Submissions, Signal(s) PROVE OrderInv'
  <2>1. sender' = sender /\ retries' = retries
    BY <1>1 DEF Signal
  <2>2. QED
    BY <1>1, <2>1, FitsStill, SignalInOrder
<1>2. ASSUME NEW j \in sender, SenderStep(j) PROVE OrderInv'
  BY <1>2, PostInOrder, ReadLogInOrder, SaveLogInOrder, LogRaisedInOrder, ChangeStatusInOrder,
     MarkPendingInOrder DEF SenderStep
<1>3. ASSUME NEW j \in sender, KillSender(j) PROVE OrderInv'
  <2>1. sender' \subseteq sender /\ retries' = retries
    BY <1>3 DEF KillSender, Leave
  <2>2. QED
    BY <1>3, <2>1, FitsStill, KillSenderInOrder
<1>4. ASSUME NEW w \in Senders, StartStep(w) PROVE OrderInv'
  BY <1>4, StartSendInOrder, StartRetryAllInOrder DEF StartStep
<1>5. ASSUME NEW w \in Senders, NEW d \in Deliveries, NEW k \in DOMAIN logs[d], RetryLog(w, d, k)
      PROVE  OrderInv'
  BY <1>5, RetryLogInOrder
<1>6. ASSUME NEW w \in Senders, NEW h \in Hooks, RetryAll(w, h) PROVE OrderInv'
  BY <1>6, RetryAllInOrder
<1>7. ASSUME NEW h \in Hooks, ToggleHook(h) \/ DeleteHook(h) PROVE OrderInv'
  <2>1. sender' = sender /\ retries' = retries
    BY <1>7 DEF ToggleHook, DeleteHook
  <2>2. QED
    BY <1>7, <2>1, FitsStill, HookRequestInOrder
<1>8. ASSUME NEW d \in Deliveries, NEW k \in DOMAIN logs[d], AgeLog(d, k) PROVE OrderInv'
  <2>1. sender' = sender /\ retries' = retries
    BY <1>8 DEF AgeLog
  <2>2. QED
    BY <1>8, <2>1, FitsStill, AgeLogInOrder
<1>9. CASE UNCHANGED hookVars
  <2>1. sender' = sender /\ retries' = retries /\ UNCHANGED <<hook, logs, sends, disturbed>>
    BY <1>9 DEF hookVars
  <2>2. UndisturbedAreInOrder'
    <3> SUFFICES ASSUME NEW d \in Deliveries, Undisturbed(d)' PROVE InOrder(d)'
      BY DEF UndisturbedAreInOrder
    <3>1. InOrder(d)
      BY <2>1 DEF UndisturbedAreInOrder, Undisturbed
    <3>2. QED
      BY <2>1, <3>1, StaysInOrder
  <2>3. QED
    BY <2>1, <2>2, FitsStill
<1>10. QED
  BY <1>1, <1>2, <1>3, <1>4, <1>5, <1>6, <1>7, <1>8, <1>9 DEF HooksNext, TimeStep

\* Of a delivery whose tasks were never killed and that nobody else sent at the
\* same time, the log is not left PENDING once nothing is waiting or at work:
\* celery's count of the retries and the log's count of the tries end together.
THEOREM QuietIsSettled == HooksSpec => []QuietMeansSettled
<1>1. HooksInv => HooksTypeOK
  BY DEF HooksInv
<1>2. CountsInv => FailedIsTired
  BY DEF CountsInv
<1>3. ASSUME CountsInv, OrderInv PROVE QuietMeansSettled
  <2> SUFFICES ASSUME NEW d \in Deliveries, d \notin disturbed, ~Busy(d)
               PROVE  \A k \in DOMAIN logs[d] : logs[d][k].status # "pending"
    BY DEF QuietMeansSettled
  <2>1. CASE hook[d[1]] = "deleted"
    <3>1. logs[d] = << >>
      BY <1>3, <2>1 DEF CountsInv, DeletedHaveNoLogs
    <3>2. QED
      BY <3>1
  <2>2. CASE hook[d[1]] # "deleted"
    BY <1>3, <2>2 DEF OrderInv, UndisturbedAreInOrder, Undisturbed, InOrder
  <2>3. QED
    BY <2>1, <2>2
<1>4. HooksSpec => []HooksInv
  BY InitHooks, NextHooks, PTL DEF HooksSpec
<1>5. HooksSpec => []CountsInv
  BY <1>1, <1>4, InitCounts, NextCounts, PTL DEF HooksSpec
<1>6. QED
  BY <1>1, <1>2, <1>3, <1>4, <1>5, InitOrder, NextOrder, PTL DEF HooksSpec

----------------------------------------------------------------------------
(* 4. Exports: what is kept whichever tasks fail *)

\* What holds of the exports in every state.
ExportsInv == ExportsTypeOK /\ LoadedIsKnown /\ FileFollows /\ KeptIsWithinLimit

----------------------------------------------------------------------------
(* The limit *)

\* Of a finite set of numbers, at most Max have fewer than Max above them.
LEMMA NewestAreFew ==
    ASSUME NEW D \in SUBSET Nat, IsFiniteSet(D), NEW Max \in Nat,
           NEW K \in SUBSET D, \A k \in K : Cardinality({f \in D : f > k}) < Max
    PROVE  IsFiniteSet(K) /\ Cardinality(K) \in Nat /\ Cardinality(K) <= Max
<1>1. IsFiniteSet(K) /\ Cardinality(K) \in Nat
  BY FS_Subset, FS_CardinalityType
<1>2. CASE K = {}
  BY <1>2, FS_EmptySet
<1>3. CASE K # {}
  <2>1. PICK m \in K : \A n \in K : m <= n
    BY <1>1, <1>3, LeastOf
  <2> DEFINE Above == {f \in D : f > m}
             Rest == K \ {m}
  <2>2. Rest \subseteq Above
    BY <2>1
  <2>3. Above \subseteq D /\ Cardinality(Above) < Max
    OBVIOUS
  <2> HIDE DEF Above
  <2>4. IsFiniteSet(Above) /\ Cardinality(Above) \in Nat
    BY <2>3, FS_Subset, FS_CardinalityType
  <2>5. Cardinality(Rest) <= Cardinality(Above)
    BY <2>2, <2>4, FS_Subset
  <2>6. Cardinality(Rest) = Cardinality(K) - 1
    BY <1>1, FS_RemoveElement
  <2>7. QED
    BY <1>1, <2>3, <2>4, <2>5, <2>6
<1>4. QED
  BY <1>1, <1>2, <1>3

----------------------------------------------------------------------------
(* Exports: rows and tasks *)

\* A row that exists is an export's.
LEMMA ExportRowFacts ==
    ASSUME ExportsTypeOK, NEW e \in DOMAIN rows
    PROVE  /\ rows[e] \in ExportRow /\ rows[e].status \in ExportStatuses /\ rows[e].result \in BOOLEAN
           /\ e \in Exports /\ e \in Nat /\ e <= made
<1>1. rows[e] \in ExportRow
  BY DEF ExportsTypeOK
<1>2. e \in 1 .. made /\ made \in 0 .. MaxMade
  BY DEF ExportsTypeOK
<1>3. QED
  BY <1>1, <1>2, ExportsAssumption DEF ExportRow, Exports

\* What is loaded are copies of the rows there are.
LEMMA LoadedFacts ==
    ASSUME ExportsTypeOK, NEW es \in SUBSET DOMAIN rows
    PROVE  Loaded(es) \in SUBSET Copies /\ Named(Loaded(es)) = es
<1>1. \A e \in es : e \in Exports /\ rows[e] \in ExportRow
  BY ExportRowFacts
<1>2. \A e \in es : [e |-> e, row |-> rows[e]] \in Copies
  BY <1>1 DEF Copies
<1>3. Loaded(es) \in SUBSET Copies
  BY <1>2 DEF Loaded
<1>4. \A x \in Loaded(es) : x.e \in es
  BY DEF Loaded
<1>5. ASSUME NEW e \in es PROVE \E x \in Loaded(es) : x.e = e
  <2>1. [e |-> e, row |-> rows[e]] \in Loaded(es)
    BY DEF Loaded
  <2>2. QED
    BY <2>1
<1>6. Named(Loaded(es)) = es
  BY <1>4, <1>5 DEF Named
<1>7. QED
  BY <1>3, <1>6

\* Saving a status leaves the result, and the other rows.
LEMMA StatusSaved ==
    ASSUME ExportsTypeOK, NEW e \in Exports, NEW status \in ExportStatuses, SetStatus(e, status)
    PROVE  /\ DOMAIN rows' = DOMAIN rows
           /\ rows' \in [DOMAIN rows -> ExportRow]
           /\ \A x \in DOMAIN rows : rows'[x].result = rows[x].result
           /\ \A x \in DOMAIN rows : x # e => rows'[x] = rows[x]
           /\ e \in DOMAIN rows => rows'[e].status = status
<1>1. CASE e \in DOMAIN rows
  <2>1. rows' = [x \in DOMAIN rows |-> IF x = e THEN [rows[e] EXCEPT !.status = status] ELSE rows[x]]
    BY <1>1 DEF SetStatus, Exists
  <2>2. \A x \in DOMAIN rows : rows[x] \in ExportRow
    BY ExportRowFacts
  <2>3. [rows[e] EXCEPT !.status = status] \in ExportRow
    BY <1>1, <2>2 DEF ExportRow
  <2>4. [rows[e] EXCEPT !.status = status].status = status
        /\ [rows[e] EXCEPT !.status = status].result = rows[e].result
    BY <1>1, <2>2 DEF ExportRow
  <2>5. QED
    BY <2>1, <2>2, <2>3, <2>4
<1>2. CASE e \notin DOMAIN rows
  <2>1. rows' = rows
    BY <1>2 DEF SetStatus, Exists
  <2>2. QED
    BY <1>2, <2>1 DEF ExportsTypeOK
<1>3. QED
  BY <1>1, <1>2

\* A task goes on, the others stay where they are.
LEMMA RunGoes ==
    ASSUME ExportsTypeOK, NEW e \in Exports, NEW pc \in RunPlaces, NEW held \in SUBSET Copies,
           Hold(e, pc, held)
    PROVE  /\ run' \in [Exports -> [pc: RunPlaces, held: SUBSET Copies]]
           /\ run'[e].pc = pc /\ run'[e].held = held
           /\ \A x \in Exports : x # e => run'[x] = run[x]
  BY DEF ExportsTypeOK, Hold

LEMMA GoIsHold ==
    ASSUME NEW e, NEW pc, Go(e, pc)
    PROVE  Hold(e, pc, {}) /\ {} \in SUBSET Copies /\ Named({}) = {}
  BY DEF Go, Hold, Named

\* What is removed is no longer there; the other rows are as they were.
LEMMA WithoutFacts ==
    ASSUME ExportsTypeOK, NEW es, rows' = Without(es)
    PROVE  /\ DOMAIN rows' = DOMAIN rows \ es
           /\ rows' \in [DOMAIN rows' -> ExportRow]
           /\ \A x \in DOMAIN rows' : rows'[x] = rows[x]
<1>1. \A x \in DOMAIN rows : rows[x] \in ExportRow
  BY ExportRowFacts
<1>2. QED
  BY <1>1 DEF Without, Restrict

LEMMA NamedFacts ==
    ASSUME NEW held \in SUBSET Copies
    PROVE  Named(held) \subseteq Exports /\ Known(held) \subseteq Named(held)
  BY DEF Named, Known, Copies

----------------------------------------------------------------------------
(* Exports: what is kept *)

\* The exports are finitely many.
LEMMA HopefulIsFinite ==
    ASSUME ExportsTypeOK
    PROVE  /\ IsFiniteSet(DOMAIN rows) /\ DOMAIN rows \subseteq Nat
           /\ IsFiniteSet(Hopeful) /\ Hopeful \subseteq DOMAIN rows
<1>1. DOMAIN rows \subseteq 1 .. made /\ made \in Nat
  BY DEF ExportsTypeOK
<1>2. IsFiniteSet(1 .. made)
  BY <1>1, FS_Interval
<1>3. IsFiniteSet(DOMAIN rows)
  BY <1>1, <1>2, FS_Subset
<1>4. Hopeful \subseteq DOMAIN rows
  BY DEF Hopeful
<1>5. QED
  BY <1>1, <1>3, <1>4, FS_Subset

\* No more than what is kept is within the limit.
LEMMA NoMoreThanKept ==
    ASSUME ExportsTypeOK, KeptIsWithinLimit, NEW g \in SUBSET Removing, NEW S \in SUBSET Kept(g)
    PROVE  Cardinality(S) <= MaxExports
<1>1. Kept(g) \subseteq Hopeful
  BY DEF Kept
<1>2. IsFiniteSet(Kept(g))
  BY <1>1, HopefulIsFinite, FS_Subset
<1>3. IsFiniteSet(S) /\ Cardinality(S) <= Cardinality(Kept(g))
  BY <1>2, FS_Subset
<1>4. Cardinality(Kept(g)) \in Nat /\ Cardinality(S) \in Nat /\ MaxExports \in Nat
  BY <1>2, <1>3, FS_CardinalityType, ExportsAssumption
<1>5. Cardinality(Kept(g)) <= MaxExports
  BY DEF KeptIsWithinLimit
<1>6. QED
  BY <1>3, <1>4, <1>5

\* What is kept is within the limit if no more is kept than before, whichever
\* tasks fail.
LEMMA KeptShrinks ==
    ASSUME ExportsTypeOK, KeptIsWithinLimit,
           \A f \in SUBSET Removing' : \E g \in SUBSET Removing : Kept(f)' \subseteq Kept(g)
    PROVE  KeptIsWithinLimit'
<1>1. ASSUME NEW f \in SUBSET Removing' PROVE Cardinality(Kept(f)') <= MaxExports
  BY <1>1, NoMoreThanKept
<1>2. QED
  BY <1>1 DEF KeptIsWithinLimit

\* So it is if the same tasks are removing the same rows, and fewer may complete ...
LEMMA FewerHopes ==
    ASSUME ExportsTypeOK, KeptIsWithinLimit, Hopeful' \subseteq Hopeful, Removing' = Removing,
           \A x \in Removing : run'[x].held = run[x].held
    PROVE  KeptIsWithinLimit'
<1>1. ASSUME NEW f \in SUBSET Removing' PROVE f \in SUBSET Removing /\ Kept(f)' \subseteq Kept(f)
  BY <1>1 DEF Kept
<1>2. QED
  BY <1>1, KeptShrinks

\* ... and if one of them fails.
LEMMA OneFails ==
    ASSUME ExportsTypeOK, KeptIsWithinLimit, NEW e \in Removing,
           Hopeful' \subseteq Hopeful \ {e}, Removing' = Removing \ {e},
           \A x \in Removing' : run'[x].held = run[x].held
    PROVE  KeptIsWithinLimit'
<1>1. ASSUME NEW f \in SUBSET Removing'
      PROVE  f \cup {e} \in SUBSET Removing /\ Kept(f)' \subseteq Kept(f \cup {e})
  <2>1. Removing' \ f = Removing \ (f \cup {e})
    OBVIOUS
  <2>2. Hopeful' \ f \subseteq Hopeful \ (f \cup {e})
    OBVIOUS
  <2>3. QED
    BY <2>1, <2>2 DEF Kept
<1>2. QED
  BY <1>1, KeptShrinks

----------------------------------------------------------------------------
(* Exports: the steps of a task *)

\* What every step of a task does: it moves on, keeps what is known of the others,
\* and writes rows other than its own only of exports found stuck.
TaskStep(e, pc, held) ==
    /\ run[e].pc \notin {"none", "done"} /\ Hold(e, pc, held)
    /\ UNCHANGED <<made, aged, remover, removals>>
    /\ stuck \subseteq stuck' /\ stuck' \subseteq 1 .. made
    /\ doomed \subseteq doomed' /\ doomed' \subseteq 1 .. made
    /\ killed' \subseteq 1 .. made
    /\ files' \subseteq 1 .. made /\ files \ files' \subseteq doomed
    /\ Named(held) \subseteq 1 .. made
    /\ pc = "mark_stuck" => Named(held) \subseteq stuck' \cap (1 .. aged)
    /\ pc \in {"erase", "drop"} => Named(held) \subseteq doomed'
    /\ DOMAIN rows' \subseteq 1 .. made /\ rows' \in [DOMAIN rows' -> ExportRow]
    /\ \A x \in DOMAIN rows' \ {e} :
         \/ x \in DOMAIN rows /\ rows'[x] = rows[x]
         \/ x \in stuck' /\ rows'[x].status # "complete"
    /\ e \in DOMAIN rows' /\ rows'[e].status = "complete" => pc = "done"
    /\ e \notin stuck' \cup doomed' =>
         /\ pc = "store" => e \in files'
         /\ e \in DOMAIN rows' /\ (\/ rows'[e].status = "complete"
                                   \/ pc \in {"list_excess", "erase", "drop", "complete"})
              => rows'[e].result /\ e \in files'

LEMMA TaskStepKeeps ==
    ASSUME ExportsInv, NEW e \in Exports, NEW pc \in RunPlaces \ {"none"},
           NEW held \in SUBSET Copies, TaskStep(e, pc, held)
    PROVE  ExportsTypeOK' /\ LoadedIsKnown' /\ FileFollows'
<1>1. ExportsTypeOK /\ LoadedIsKnown /\ FileFollows
  BY DEF ExportsInv
<1>2. /\ run' \in [Exports -> [pc: RunPlaces, held: SUBSET Copies]]
      /\ run'[e].pc = pc /\ run'[e].held = held
      /\ \A x \in Exports : x # e => run'[x] = run[x]
  BY <1>1, RunGoes DEF TaskStep
<1>3. ExportsTypeOK'
  BY <1>1, <1>2 DEF ExportsTypeOK, TaskStep
<1>4. LoadedIsKnown'
  <2>1. ASSUME NEW x \in Exports
        PROVE  /\ run'[x].pc # "none" => x <= made'
               /\ Named(run'[x].held) \subseteq 1 .. made'
               /\ run'[x].pc = "mark_stuck" => Named(run'[x].held) \subseteq stuck' \cap (1 .. aged')
               /\ run'[x].pc \in {"erase", "drop"} => Named(run'[x].held) \subseteq doomed'
               /\ x \in DOMAIN rows' /\ rows'[x].status = "complete" => run'[x].pc = "done"
    <3>1. CASE x = e
      BY <1>1, <1>2, <3>1 DEF TaskStep, LoadedIsKnown
    <3>2. CASE x # e
      BY <1>1, <1>2, <3>2 DEF TaskStep, LoadedIsKnown, Exists
    <3>3. QED
      BY <3>1, <3>2
  <2>2. Named(remover'.held) \subseteq doomed'
    BY <1>1 DEF TaskStep, LoadedIsKnown
  <2>3. \A held2 : Named(held2)' = Named(held2)
    BY DEF Named
  <2>4. QED
    BY <2>1, <2>2 DEF LoadedIsKnown, Named, Exists
<1>5. FileFollows'
  <2>1. ASSUME NEW x \in Exports, x \notin stuck' \cup doomed'
        PROVE  /\ run'[x].pc = "store" => x \in files'
               /\ x \in DOMAIN rows' /\ (\/ rows'[x].status = "complete"
                                         \/ run'[x].pc \in {"list_excess", "erase", "drop", "complete"})
                    => rows'[x].result /\ x \in files'
    <3>1. CASE x = e
      BY <1>2, <2>1, <3>1 DEF TaskStep
    <3>2. CASE x # e
      BY <1>1, <1>2, <2>1, <3>2 DEF TaskStep, FileFollows, Exists
    <3>3. QED
      BY <3>1, <3>2
  <2>2. QED
    BY <2>1 DEF FileFollows, Exists
<1>6. QED
  BY <1>3, <1>4, <1>5

\* How the hopes change with the step of a task.
LEMMA TaskHopes ==
    ASSUME ExportsInv, NEW e \in Exports, NEW pc \in RunPlaces,
           NEW held \in SUBSET Copies, TaskStep(e, pc, held)
    PROVE  /\ Hopeful' \ {e} \subseteq Hopeful
           /\ e \in Hopeful' => e \in DOMAIN rows' \ stuck' /\ pc \in {"erase", "drop", "complete", "done"}
           /\ e \in Hopeful' /\ pc = "done" => rows'[e].status = "complete"
           /\ Removing' \ {e} = Removing \ {e}
           /\ e \in Removing' <=> pc \in {"erase", "drop"}
           /\ \A x \in Exports \ {e} : run'[x] = run[x]
           /\ run'[e].pc = pc /\ run'[e].held = held
<1>1. ExportsTypeOK
  BY DEF ExportsInv
<1>2. /\ run'[e].pc = pc /\ run'[e].held = held
      /\ \A x \in Exports : x # e => run'[x] = run[x]
  BY <1>1, RunGoes DEF TaskStep
<1>3. DOMAIN rows' \subseteq Exports
  <2>1. DOMAIN rows' \subseteq 1 .. made /\ made \in 0 .. MaxMade
    BY <1>1 DEF TaskStep, ExportsTypeOK
  <2>2. QED
    BY <2>1, ExportsAssumption DEF Exports
<1>4. ASSUME NEW x \in Hopeful', x # e PROVE x \in Hopeful
  BY <1>2, <1>3, <1>4 DEF Hopeful, TaskStep
<1>5. Removing' \ {e} = Removing \ {e} /\ (e \in Removing' <=> pc \in {"erase", "drop"})
  BY <1>2 DEF Removing
<1>6. e \in Hopeful' => /\ e \in DOMAIN rows' \ stuck'
                        /\ rows'[e].status = "complete" \/ pc \in {"erase", "drop", "complete"}
  BY <1>2 DEF Hopeful
<1>7. QED
  BY <1>2, <1>4, <1>5, <1>6 DEF TaskStep

\* A task that is not removing anything, and will not be, gives no new hope ...
LEMMA PlainStep ==
    ASSUME ExportsInv, NEW e \in Exports, NEW pc \in RunPlaces \ {"none", "erase", "drop", "complete"},
           NEW held \in SUBSET Copies, TaskStep(e, pc, held),
           run[e].pc \notin {"erase", "drop"},
           e \in Hopeful' => e \in Hopeful
    PROVE  ExportsInv'
<1>1. e \notin Removing /\ e \notin Removing'
  BY TaskHopes DEF Removing
<1>2. Removing' = Removing /\ \A x \in Removing : run'[x].held = run[x].held
  BY <1>1, TaskHopes DEF Removing
<1>3. Hopeful' \subseteq Hopeful
  BY TaskHopes
<1>4. KeptIsWithinLimit'
  BY <1>2, <1>3, FewerHopes DEF ExportsInv
<1>5. QED
  BY <1>4, TaskStepKeeps DEF ExportsInv

\* ... and one that stops removing and will not complete takes its own hope away.
LEMMA FailingStep ==
    ASSUME ExportsInv, NEW e \in Exports, NEW pc \in {"fail", "done"},
           TaskStep(e, pc, {}), UNCHANGED rows, run[e].pc \in {"erase", "drop"}
    PROVE  ExportsInv'
<1>1. pc \in RunPlaces \ {"none"} /\ {} \in SUBSET Copies
  BY DEF RunPlaces
<1>2. e \in Removing /\ e \notin Removing'
  BY <1>1, TaskHopes DEF Removing
<1>3. rows[e].status # "complete" \/ e \notin DOMAIN rows
  BY DEF ExportsInv, LoadedIsKnown, Exists
<1>4. e \notin Hopeful'
  BY <1>1, <1>3, TaskHopes
<1>5. Hopeful' \subseteq Hopeful \ {e} /\ Removing' = Removing \ {e}
  BY <1>1, <1>2, <1>4, TaskHopes
<1>6. \A x \in Removing' : run'[x].held = run[x].held
  BY <1>1, <1>5, TaskHopes DEF Removing
<1>7. KeptIsWithinLimit'
  BY <1>2, <1>5, <1>6, OneFails DEF ExportsInv
<1>8. QED
  BY <1>1, <1>7, TaskStepKeeps DEF ExportsInv

----------------------------------------------------------------------------
(* Exports: the actions of a task *)

\* What the invariant says of one export.
LEMMA ExportFacts ==
    ASSUME ExportsInv, NEW e \in Exports
    PROVE  /\ made \in Nat /\ aged \in Nat /\ run[e].held \in SUBSET Copies
           /\ DOMAIN rows \subseteq 1 .. made /\ rows \in [DOMAIN rows -> ExportRow]
           /\ files \subseteq 1 .. made /\ stuck \subseteq 1 .. made
           /\ doomed \subseteq 1 .. made /\ killed \subseteq 1 .. made
           /\ run[e].pc # "none" => e \in 1 .. made
           /\ e \in DOMAIN rows /\ rows[e].status = "complete" => run[e].pc = "done"
<1>1. made \in 0 .. MaxMade /\ aged \in 0 .. made /\ MaxMade \in Nat
  BY ExportsAssumption DEF ExportsInv, ExportsTypeOK
<1>2. made \in Nat /\ aged \in Nat
  BY <1>1
<1>3. run[e].held \in SUBSET Copies
  BY DEF ExportsInv, ExportsTypeOK
<1>4. run[e].pc # "none" => e \in 1 .. made
  BY <1>2 DEF ExportsInv, LoadedIsKnown, Exports
<1>5. QED
  BY <1>2, <1>3, <1>4 DEF ExportsInv, ExportsTypeOK, LoadedIsKnown, Exists

LEMMA RefetchKeeps ==
    ASSUME ExportsInv, NEW e \in Exports, Refetch(e)
    PROVE  ExportsInv'
<1> DEFINE pc == IF Exists(e) /\ rows[e].status = "created" THEN "fetched" ELSE "done"
<1>1. pc \in RunPlaces \ {"none", "erase", "drop", "complete"} /\ pc \in {"fetched", "done"}
  BY DEF RunPlaces
<1>2. run[e].pc = "waiting" /\ Go(e, pc)
  BY DEF Refetch
<1> HIDE DEF pc
<1>3. Hold(e, pc, {}) /\ {} \in SUBSET Copies /\ Named({}) = {}
  BY <1>2, GoIsHold
<1>4. TaskStep(e, pc, {})
  BY <1>1, <1>2, <1>3, ExportFacts DEF TaskStep, Refetch
<1>5. e \notin Hopeful'
  BY <1>1, <1>2, <1>3, <1>4, ExportFacts, TaskHopes DEF Refetch
<1>6. QED
  BY <1>1, <1>2, <1>3, <1>4, <1>5, PlainStep

LEMMA BeginKeeps ==
    ASSUME ExportsInv, NEW e \in Exports, Begin(e)
    PROVE  ExportsInv'
<1> DEFINE pc == IF Exists(e) THEN "list_stuck" ELSE "done"
<1>1. pc \in RunPlaces \ {"none", "erase", "drop", "complete"} /\ pc \in {"list_stuck", "done"}
  BY DEF RunPlaces
<1>2. run[e].pc = "fetched" /\ Go(e, pc) /\ SetStatus(e, "processing")
  BY DEF Begin
<1> HIDE DEF pc
<1>3. Hold(e, pc, {}) /\ {} \in SUBSET Copies /\ Named({}) = {}
  BY <1>2, GoIsHold
<1>4. /\ DOMAIN rows' = DOMAIN rows
      /\ rows' \in [DOMAIN rows -> ExportRow]
      /\ \A x \in DOMAIN rows : x # e => rows'[x] = rows[x]
      /\ e \in DOMAIN rows => rows'[e].status = "processing"
  BY <1>2, StatusSaved DEF ExportsInv, ExportStatuses
<1>5. TaskStep(e, pc, {})
  BY <1>1, <1>2, <1>3, <1>4, ExportFacts DEF TaskStep, Begin
<1>6. e \notin Hopeful'
  BY <1>1, <1>3, <1>4, <1>5, TaskHopes
<1>7. QED
  BY <1>1, <1>2, <1>3, <1>5, <1>6, PlainStep

LEMMA ListStuckKeeps ==
    ASSUME ExportsInv, NEW e \in Exports, ListStuck(e)
    PROVE  ExportsInv'
<1> DEFINE found == AreStuck(DOMAIN rows)
<1>1. run[e].pc = "list_stuck" /\ Hold(e, "mark_stuck", Loaded(found))
  BY DEF ListStuck
<1>2. found \subseteq DOMAIN rows
  BY DEF AreStuck
<1>3. Loaded(found) \in SUBSET Copies /\ Named(Loaded(found)) = found
  BY <1>2, LoadedFacts DEF ExportsInv
<1>4. found \subseteq 1 .. aged
  <2>1. \A x \in found : x \in 1 .. made /\ x <= aged
    BY <1>2, ExportFacts DEF AreStuck
  <2>2. QED
    BY <2>1, ExportFacts
<1>5. stuck' = stuck \cup found /\ found \subseteq 1 .. made
  BY <1>2, ExportFacts DEF ListStuck
<1> HIDE DEF found
<1>6. "mark_stuck" \in RunPlaces \ {"none", "erase", "drop", "complete"}
  BY DEF RunPlaces
<1>7. TaskStep(e, "mark_stuck", Loaded(found))
  BY <1>1, <1>3, <1>4, <1>5, ExportFacts DEF TaskStep, ListStuck
<1>8. e \notin Hopeful'
  BY <1>3, <1>6, <1>7, TaskHopes
<1>9. QED
  BY <1>1, <1>3, <1>6, <1>7, <1>8, PlainStep

LEMMA MarkStuckKeeps ==
    ASSUME ExportsInv, NEW e \in Exports, MarkStuck(e)
    PROVE  ExportsInv'
<1> DEFINE held == run[e].held
           saved(x) == (CHOOSE c \in held : c.e = x).row
           marked(x) == [saved(x) EXCEPT !.status = "error"]
<1>1. run[e].pc = "mark_stuck" /\ Go(e, "write")
  BY DEF MarkStuck
<1>2. rows' = [x \in DOMAIN rows \cup Named(held) |-> IF x \in Named(held) THEN marked(x) ELSE rows[x]]
  BY DEF MarkStuck
<1>3. held \in SUBSET Copies /\ Named(held) \subseteq stuck /\ Named(held) \subseteq 1 .. made
  BY <1>1, ExportFacts DEF ExportsInv, LoadedIsKnown
<1>4. ASSUME NEW x \in Named(held) PROVE marked(x) \in ExportRow /\ marked(x).status = "error"
  <2>1. \E c \in held : c.e = x
    BY DEF Named
  <2>2. (CHOOSE c \in held : c.e = x) \in held
    BY <2>1
  <2>3. saved(x) \in ExportRow
    BY <1>3, <2>2 DEF Copies
  <2> HIDE DEF saved
  <2>4. QED
    BY <2>3 DEF ExportRow, ExportStatuses
<1> HIDE DEF held, marked
<1>5. /\ DOMAIN rows' = DOMAIN rows \cup Named(held)
      /\ rows' \in [DOMAIN rows' -> ExportRow]
      /\ \A x \in DOMAIN rows' :
           \/ x \in DOMAIN rows /\ x \notin Named(held) /\ rows'[x] = rows[x]
           \/ x \in Named(held) /\ rows'[x].status = "error"
  BY <1>2, <1>4, ExportFacts
<1>6. Hold(e, "write", {}) /\ {} \in SUBSET Copies /\ Named({}) = {}
  BY <1>1, GoIsHold
<1>7. "write" \in RunPlaces \ {"none", "erase", "drop", "complete"}
  BY DEF RunPlaces
<1>8. TaskStep(e, "write", {})
  BY <1>1, <1>3, <1>5, <1>6, ExportFacts DEF TaskStep, MarkStuck
<1>9. e \notin Hopeful'
  BY <1>6, <1>7, <1>8, TaskHopes
<1>10. QED
  BY <1>1, <1>6, <1>7, <1>8, <1>9, PlainStep

LEMMA WriteKeeps ==
    ASSUME ExportsInv, NEW e \in Exports, Write(e)
    PROVE  ExportsInv'
<1>1. PICK pc \in {"store", "fail"} :
        Go(e, pc) /\ files' \in {files, files \cup {e}} /\ (pc = "store" => e \in files')
  BY DEF Write
<1>2. run[e].pc = "write"
  BY DEF Write
<1>3. Hold(e, pc, {}) /\ {} \in SUBSET Copies /\ Named({}) = {}
  BY <1>1, GoIsHold
<1>4. pc \in RunPlaces \ {"none", "erase", "drop", "complete"}
  BY DEF RunPlaces
<1>5. TaskStep(e, pc, {})
  BY <1>1, <1>2, <1>3, ExportFacts DEF TaskStep, Write
<1>6. e \notin Hopeful'
  BY <1>1, <1>3, <1>4, <1>5, TaskHopes
<1>7. QED
  BY <1>2, <1>3, <1>4, <1>5, <1>6, PlainStep

LEMMA StoreKeeps ==
    ASSUME ExportsInv, NEW e \in Exports, Store(e)
    PROVE  ExportsInv'
<1> DEFINE pc == IF Exists(e) THEN "list_excess" ELSE "fail"
<1>1. pc \in RunPlaces \ {"none", "erase", "drop", "complete", "done"}
  BY DEF RunPlaces
<1>2. run[e].pc = "store" /\ Go(e, pc)
  BY DEF Store
<1> HIDE DEF pc
<1>3. Hold(e, pc, {}) /\ {} \in SUBSET Copies /\ Named({}) = {}
  BY <1>2, GoIsHold
<1>4. /\ DOMAIN rows' = DOMAIN rows
      /\ rows' \in [DOMAIN rows -> ExportRow]
      /\ \A x \in DOMAIN rows : x # e => rows'[x] = rows[x]
      /\ e \in DOMAIN rows => rows'[e].result /\ rows'[e].status = rows[e].status
  <2>1. CASE e \in DOMAIN rows
    <3>1. rows' = [x \in DOMAIN rows |-> IF x = e THEN [rows[e] EXCEPT !.result = TRUE] ELSE rows[x]]
      BY <2>1 DEF Store, Exists
    <3>2. \A x \in DOMAIN rows : rows[x] \in ExportRow
      BY ExportFacts
    <3>3. /\ [rows[e] EXCEPT !.result = TRUE] \in ExportRow
          /\ [rows[e] EXCEPT !.result = TRUE].result = TRUE
          /\ [rows[e] EXCEPT !.result = TRUE].status = rows[e].status
      BY <2>1, <3>2 DEF ExportRow
    <3>4. QED
      BY <3>1, <3>2, <3>3
  <2>2. CASE e \notin DOMAIN rows
    BY <2>2, ExportFacts DEF Store, Exists
  <2>3. QED
    BY <2>1, <2>2
<1>5. e \in files \cup stuck \cup doomed
  BY <1>2 DEF ExportsInv, FileFollows
<1>6. TaskStep(e, pc, {})
  BY <1>1, <1>2, <1>3, <1>4, <1>5, ExportFacts DEF TaskStep, Store
<1>7. e \notin Hopeful'
  BY <1>1, <1>3, <1>4, <1>6, TaskHopes
<1>8. QED
  BY <1>1, <1>2, <1>3, <1>6, <1>7, PlainStep

LEMMA ListExcessKeeps ==
    ASSUME ExportsInv, NEW e \in Exports, ListExcess(e)
    PROVE  ExportsInv'
<1> DEFINE found == AreExcess(DOMAIN rows)
<1>1. run[e].pc = "list_excess" /\ Hold(e, "erase", Loaded(found)) /\ UNCHANGED rows
  BY DEF ListExcess
<1>2. found \subseteq DOMAIN rows
  BY DEF AreExcess
<1>3. Loaded(found) \in SUBSET Copies /\ Named(Loaded(found)) = found
  BY <1>2, LoadedFacts DEF ExportsInv
<1>4. doomed' = doomed \cup found /\ found \subseteq 1 .. made
  BY <1>2, ExportFacts DEF ListExcess
<1>5. ASSUME NEW S \in SUBSET (DOMAIN rows \ found) PROVE Cardinality(S) <= MaxExports
  <2>1. IsFiniteSet(DOMAIN rows) /\ DOMAIN rows \subseteq Nat
    BY HopefulIsFinite DEF ExportsInv
  <2>2. ASSUME NEW k \in S PROVE Cardinality({f \in DOMAIN rows : f > k}) < MaxExports
    <3>1. ~(Cardinality({f \in DOMAIN rows : f > k}) >= MaxExports)
      BY DEF AreExcess
    <3>2. {f \in DOMAIN rows : f > k} \subseteq DOMAIN rows
      OBVIOUS
    <3>3. Cardinality({f \in DOMAIN rows : f > k}) \in Nat
      BY <2>1, <3>2, FS_Subset, FS_CardinalityType
    <3>4. QED
      BY <3>1, <3>3, ExportsAssumption
  <2>3. QED
    BY <2>1, <2>2, NewestAreFew, ExportsAssumption
<1> HIDE DEF found
<1>6. "erase" \in RunPlaces \ {"none"}
  BY DEF RunPlaces
<1>7. e \in DOMAIN rows => (rows[e].result /\ e \in files) \/ e \in stuck \cup doomed
  BY <1>1 DEF ExportsInv, FileFollows, Exists
<1>8. TaskStep(e, "erase", Loaded(found))
  BY <1>1, <1>3, <1>4, <1>7, ExportFacts DEF TaskStep, ListExcess
<1>9. KeptIsWithinLimit'
  <2>1. e \notin Removing /\ Removing' = Removing \cup {e} /\ run'[e].held = Loaded(found)
    BY <1>1, <1>3, <1>6, <1>8, TaskHopes DEF Removing
  <2>2. Hopeful' \subseteq DOMAIN rows /\ Hopeful' \ {e} \subseteq Hopeful
    BY <1>1, <1>3, <1>6, <1>8, TaskHopes DEF Hopeful
  <2>3. ASSUME NEW f \in SUBSET Removing' PROVE Cardinality(Kept(f)') <= MaxExports
    <3>1. CASE e \in f
      <4>1. f \ {e} \in SUBSET Removing /\ Removing' \ f = Removing \ (f \ {e})
        BY <2>1, <3>1
      <4>2. \A x \in Removing' \ f : run'[x].held = run[x].held
        BY <1>3, <1>6, <1>8, <3>1, TaskHopes DEF Removing
      <4>3. Kept(f)' \subseteq Kept(f \ {e})
        BY <2>2, <3>1, <4>1, <4>2 DEF Kept
      <4>4. QED
        BY <4>1, <4>3, NoMoreThanKept DEF ExportsInv
    <3>2. CASE e \notin f
      <4>1. e \in Removing' \ f /\ Named(run'[e].held) = found
        BY <1>3, <2>1, <3>2
      <4>2. Kept(f)' \subseteq DOMAIN rows \ found
        BY <2>2, <4>1 DEF Kept
      <4>3. QED
        BY <1>5, <4>2
    <3>3. QED
      BY <3>1, <3>2
  <2>4. QED
    BY <2>3 DEF KeptIsWithinLimit
<1>10. QED
  BY <1>3, <1>6, <1>8, <1>9, TaskStepKeeps DEF ExportsInv

LEMMA EraseExcessKeeps ==
    ASSUME ExportsInv, NEW e \in Exports, EraseExcess(e)
    PROVE  ExportsInv'
<1> DEFINE held == run[e].held
<1>1. run[e].pc = "erase" /\ UNCHANGED rows
  BY DEF EraseExcess
<1>2. held \in SUBSET Copies /\ Named(held) \subseteq doomed /\ Named(held) \subseteq 1 .. made
  BY <1>1, ExportFacts DEF ExportsInv, LoadedIsKnown
<1>3. Known(held) \subseteq doomed
  BY <1>2, NamedFacts
<1>4. CASE files' = files \ Known(held) /\ Hold(e, "drop", held)
  <2>1. e \in DOMAIN rows => (rows[e].result /\ e \in files) \/ e \in stuck \cup doomed
    BY <1>1 DEF ExportsInv, FileFollows, Exists
  <2>2. TaskStep(e, "drop", held)
    BY <1>1, <1>2, <1>3, <1>4, <2>1, ExportFacts DEF TaskStep, EraseExcess
  <2>3. "drop" \in RunPlaces \ {"none"}
    BY DEF RunPlaces
  <2>4. e \in Removing /\ Removing' = Removing /\ \A x \in Removing : run'[x].held = run[x].held
    BY <1>1, <1>2, <2>2, <2>3, TaskHopes DEF Removing
  <2>5. e \in Hopeful' => e \in Hopeful
    BY <1>1, <1>2, <2>2, <2>3, TaskHopes DEF Hopeful, EraseExcess
  <2>6. Hopeful' \subseteq Hopeful
    BY <1>2, <2>2, <2>3, <2>5, TaskHopes
  <2>7. KeptIsWithinLimit'
    BY <2>4, <2>6, FewerHopes DEF ExportsInv
  <2>8. QED
    BY <1>2, <2>2, <2>3, <2>7, TaskStepKeeps DEF ExportsInv
<1>5. CASE \E gone \in SUBSET Known(held) : files' = files \ gone /\ Go(e, "fail")
  <2>1. Hold(e, "fail", {}) /\ Named({}) = {}
    BY <1>5, GoIsHold
  <2>2. TaskStep(e, "fail", {})
    BY <1>1, <1>3, <1>5, <2>1, ExportFacts DEF TaskStep, EraseExcess
  <2>3. QED
    BY <1>1, <2>2, FailingStep
<1>6. QED
  BY <1>4, <1>5 DEF EraseExcess

LEMMA DropExcessKeeps ==
    ASSUME ExportsInv, NEW e \in Exports, DropExcess(e)
    PROVE  ExportsInv'
<1> DEFINE found == Named(run[e].held)
<1>1. run[e].pc = "drop" /\ Go(e, "complete") /\ rows' = Without(found)
  BY DEF DropExcess
<1>2. /\ DOMAIN rows' = DOMAIN rows \ found
      /\ rows' \in [DOMAIN rows' -> ExportRow]
      /\ \A x \in DOMAIN rows' : rows'[x] = rows[x]
  BY <1>1, WithoutFacts DEF ExportsInv
<1>3. Hold(e, "complete", {}) /\ {} \in SUBSET Copies /\ Named({}) = {}
  BY <1>1, GoIsHold
<1>4. e \in DOMAIN rows => (rows[e].result /\ e \in files) \/ e \in stuck \cup doomed
  BY <1>1 DEF ExportsInv, FileFollows, Exists
<1>5. TaskStep(e, "complete", {})
  BY <1>1, <1>2, <1>3, <1>4, ExportFacts DEF TaskStep, DropExcess
<1>6. "complete" \in RunPlaces \ {"none"}
  BY DEF RunPlaces
<1>7. e \in Removing /\ Removing' = Removing \ {e} /\ \A x \in Removing' : run'[x].held = run[x].held
  BY <1>1, <1>3, <1>5, <1>6, TaskHopes DEF Removing
<1>8. e \in Hopeful' => e \in Hopeful
  BY <1>1, <1>2, <1>3, <1>5, <1>6, TaskHopes DEF Hopeful, DropExcess
<1>9. Hopeful' \subseteq Hopeful \ found
  <2>1. Hopeful' \subseteq Hopeful
    BY <1>3, <1>5, <1>6, <1>8, TaskHopes
  <2>2. Hopeful' \subseteq DOMAIN rows'
    BY DEF Hopeful
  <2>3. QED
    BY <1>2, <2>1, <2>2
<1>10. ASSUME NEW f \in SUBSET Removing' PROVE f \in SUBSET Removing /\ Kept(f)' \subseteq Kept(f)
  <2>1. Removing \ f = (Removing' \ f) \cup {e}
    BY <1>7
  <2>2. ASSUME NEW x \in Kept(f)' PROVE x \in Kept(f)
    <3>1. x \in Hopeful \ f /\ x \notin found
      BY <1>9 DEF Kept
    <3>2. \A g \in Removing' \ f : x \notin Named(run[g].held)
      BY <1>7 DEF Kept
    <3>3. QED
      BY <2>1, <3>1, <3>2 DEF Kept
  <2>3. QED
    BY <1>7, <2>2
<1>11. KeptIsWithinLimit'
  BY <1>10, KeptShrinks DEF ExportsInv
<1>12. QED
  BY <1>3, <1>5, <1>6, <1>11, TaskStepKeeps DEF ExportsInv

LEMMA EndKeeps ==
    ASSUME ExportsInv, NEW e \in Exports, End(e)
    PROVE  ExportsInv'
<1> DEFINE status == IF run[e].pc = "complete" THEN "complete" ELSE "error"
<1>1. run[e].pc \in {"complete", "fail"} /\ Go(e, "done") /\ SetStatus(e, status)
  BY DEF End
<1>2. status \in ExportStatuses /\ (status = "complete" <=> run[e].pc = "complete")
  BY DEF ExportStatuses
<1> HIDE DEF status
<1>3. Hold(e, "done", {}) /\ {} \in SUBSET Copies /\ Named({}) = {}
  BY <1>1, GoIsHold
<1>4. /\ DOMAIN rows' = DOMAIN rows
      /\ rows' \in [DOMAIN rows -> ExportRow]
      /\ \A x \in DOMAIN rows : rows'[x].result = rows[x].result
      /\ \A x \in DOMAIN rows : x # e => rows'[x] = rows[x]
      /\ e \in DOMAIN rows => rows'[e].status = status
  BY <1>1, <1>2, StatusSaved DEF ExportsInv
<1>5. run[e].pc = "complete" /\ e \in DOMAIN rows => (rows[e].result /\ e \in files) \/ e \in stuck \cup doomed
  BY DEF ExportsInv, FileFollows, Exists
<1>6. TaskStep(e, "done", {})
  BY <1>1, <1>2, <1>3, <1>4, <1>5, ExportFacts DEF TaskStep, End
<1>7. "done" \in RunPlaces \ {"none", "erase", "drop", "complete"}
  BY DEF RunPlaces
<1>8. e \in Hopeful' => e \in Hopeful
  BY <1>2, <1>3, <1>4, <1>6, <1>7, TaskHopes DEF Hopeful, End
<1>9. QED
  BY <1>1, <1>3, <1>6, <1>7, <1>8, PlainStep

LEMMA KillRunKeeps ==
    ASSUME ExportsInv, NEW e \in Exports, KillRun(e)
    PROVE  ExportsInv'
<1>1. run[e].pc \notin {"none", "done"} /\ Go(e, "done") /\ UNCHANGED rows
  BY DEF KillRun
<1>2. Hold(e, "done", {}) /\ {} \in SUBSET Copies /\ Named({}) = {}
  BY <1>1, GoIsHold
<1>3. TaskStep(e, "done", {})
  BY <1>1, <1>2, ExportFacts DEF TaskStep, KillRun
<1>4. "done" \in RunPlaces \ {"none", "erase", "drop", "complete"}
  BY DEF RunPlaces
<1>5. e \notin Hopeful'
  BY <1>1, <1>2, <1>3, <1>4, ExportFacts, TaskHopes
<1>6. QED
  BY <1>1, <1>2, <1>3, <1>4, <1>5, PlainStep, FailingStep

----------------------------------------------------------------------------
(* Exports: the other actions *)

LEMMA RequestExportKeeps ==
    ASSUME ExportsInv, RequestExport
    PROVE  ExportsInv'
<1> DEFINE e == made + 1
           new == [status |-> "created", result |-> FALSE]
<1>1. /\ made' = e /\ e \in Exports /\ e \in Nat /\ e \notin 1 .. made /\ e \in 1 .. made'
      /\ 1 .. made \subseteq 1 .. made' /\ made' \in 0 .. MaxMade /\ made \in Nat
  <2>1. made \in 0 .. MaxMade /\ MaxMade \in Nat /\ made < MaxMade
    BY ExportsAssumption DEF ExportsInv, ExportsTypeOK, RequestExport
  <2>2. QED
    BY <2>1 DEF RequestExport, Exports
<1>2. ExportsTypeOK /\ LoadedIsKnown /\ FileFollows /\ KeptIsWithinLimit
  BY DEF ExportsInv
<1>3. PICK pc \in {"waiting", "done"} : Go(e, pc)
  BY DEF RequestExport
<1>4. killed' \in {killed, killed \cup {e}}
      /\ UNCHANGED <<aged, files, remover, removals, stuck, doomed>>
      /\ rows' = [x \in DOMAIN rows \cup {e} |-> IF x = e THEN new ELSE rows[x]]
  BY DEF RequestExport
<1>5. e \notin DOMAIN rows /\ run[e].pc = "none"
  <2>1. ~(e <= made)
    BY <1>1
  <2>2. QED
    BY <1>1, <1>2, <2>1 DEF ExportsTypeOK, LoadedIsKnown, Exists
<1> HIDE DEF e
<1>6. new \in ExportRow /\ new.status = "created"
  BY DEF ExportRow, ExportStatuses
<1> HIDE DEF new
<1>7. /\ DOMAIN rows' = DOMAIN rows \cup {e} /\ rows'[e] = new
      /\ \A x \in DOMAIN rows : rows'[x] = rows[x]
      /\ rows' \in [DOMAIN rows' -> ExportRow]
  BY <1>2, <1>4, <1>5, <1>6 DEF ExportsTypeOK
<1>8. Hold(e, pc, {}) /\ {} \in SUBSET Copies /\ Named({}) = {} /\ pc \in RunPlaces
  BY <1>3, GoIsHold DEF RunPlaces
<1>9. /\ run' \in [Exports -> [pc: RunPlaces, held: SUBSET Copies]]
      /\ run'[e].pc = pc /\ run'[e].held = {}
      /\ \A x \in Exports : x # e => run'[x] = run[x]
  BY <1>1, <1>2, <1>8, RunGoes
<1>10. ExportsTypeOK'
  <2>1. aged \in 0 .. made'
    BY <1>1, <1>2 DEF ExportsTypeOK
  <2>2. QED
    BY <1>1, <1>2, <1>4, <1>7, <1>9, <2>1 DEF ExportsTypeOK
<1>11. LoadedIsKnown'
  <2>1. ASSUME NEW x \in Exports
        PROVE  /\ run'[x].pc # "none" => x <= made'
               /\ Named(run'[x].held) \subseteq 1 .. made'
               /\ run'[x].pc = "mark_stuck" => Named(run'[x].held) \subseteq stuck' \cap (1 .. aged')
               /\ run'[x].pc \in {"erase", "drop"} => Named(run'[x].held) \subseteq doomed'
               /\ x \in DOMAIN rows' /\ rows'[x].status = "complete" => run'[x].pc = "done"
    <3>1. CASE x = e
      <4>1. run'[x].pc = pc /\ run'[x].held = {} /\ rows'[x].status = "created"
        BY <1>6, <1>7, <1>9, <3>1
      <4>2. x <= made'
        BY <1>1, <3>1
      <4>3. QED
        BY <1>8, <4>1, <4>2
    <3>2. CASE x # e
      <4>1. run[x].pc # "none" => x <= made'
        BY <1>1, <1>2, <3>2 DEF LoadedIsKnown, Exports
      <4>2. QED
        BY <1>1, <1>2, <1>4, <1>7, <1>9, <3>2, <4>1 DEF LoadedIsKnown, Exists
    <3>3. QED
      BY <3>1, <3>2
  <2>2. Named(remover'.held) \subseteq doomed'
    BY <1>2, <1>4 DEF LoadedIsKnown
  <2>3. QED
    BY <2>1, <2>2 DEF LoadedIsKnown, Named, Exists
<1>12. FileFollows'
  BY <1>2, <1>4, <1>6, <1>7, <1>9 DEF FileFollows, Exists
<1>13. Hopeful' \subseteq Hopeful /\ e \notin Removing /\ Removing' = Removing
       /\ \A x \in Removing : run'[x] = run[x]
  <2>1. e \notin Hopeful'
    BY <1>6, <1>7, <1>9 DEF Hopeful
  <2>2. DOMAIN rows \subseteq Exports
    BY <1>2, ExportRowFacts
  <2>3. QED
    BY <1>4, <1>5, <1>7, <1>9, <2>1, <2>2 DEF Hopeful, Removing
<1>14. QED
  BY <1>2, <1>10, <1>11, <1>12, <1>13, FewerHopes DEF ExportsInv

\* While the tasks stay where they are, nothing is lost but what is listed for
\* removal.
LEMMA TasksStay ==
    ASSUME ExportsInv, ExportsTypeOK', Named(remover.held)' \subseteq doomed',
           UNCHANGED <<made, run, stuck>>, 1 .. aged \subseteq 1 .. aged', doomed \subseteq doomed',
           files' \subseteq files, files \ files' \subseteq doomed,
           DOMAIN rows' \subseteq DOMAIN rows, \A x \in DOMAIN rows' : rows'[x] = rows[x]
    PROVE  ExportsInv'
<1>1. LoadedIsKnown'
  BY DEF ExportsInv, LoadedIsKnown, Exists, Named
<1>2. FileFollows'
  BY DEF ExportsInv, FileFollows, Exists
<1>3. Hopeful' \subseteq Hopeful /\ Removing' = Removing
  BY DEF Hopeful, Removing
<1>4. KeptIsWithinLimit'
  BY <1>3, FewerHopes DEF ExportsInv
<1>5. QED
  BY <1>1, <1>2, <1>4 DEF ExportsInv

LEMMA AskRemovalKeeps ==
    ASSUME ExportsInv, NEW es \in SUBSET DOMAIN rows, AskRemoval(es)
    PROVE  ExportsInv'
<1>1. Loaded(es) \in SUBSET Copies /\ Named(Loaded(es)) = es /\ es \subseteq 1 .. made
  BY LoadedFacts DEF ExportsInv, ExportsTypeOK
<1>2. remover' = [pc |-> "erase", held |-> Loaded(es)] /\ doomed' = doomed \cup es
      /\ removals' = removals + 1 /\ UNCHANGED <<made, aged, rows, files, run, stuck, killed>>
  BY DEF AskRemoval
<1>3. ExportsTypeOK'
  BY <1>1, <1>2 DEF ExportsInv, ExportsTypeOK
<1>4. Named(remover.held)' \subseteq doomed'
  <2>1. Named(remover.held)' = Named(Loaded(es))
    BY <1>2 DEF Named
  <2>2. QED
    BY <1>1, <1>2, <2>1
<1>5. QED
  BY <1>2, <1>3, <1>4, TasksStay

LEMMA EraseFilesKeeps ==
    ASSUME ExportsInv, EraseFiles
    PROVE  ExportsInv'
<1>1. files' = files \ Known(remover.held) /\ remover' = [remover EXCEPT !.pc = "drop"]
      /\ UNCHANGED <<made, aged, rows, run, removals, stuck, doomed, killed>>
  BY DEF EraseFiles
<1>2. remover \in [pc: {"none", "erase", "drop"}, held: SUBSET Copies]
      /\ Named(remover.held) \subseteq doomed
  BY DEF ExportsInv, ExportsTypeOK, LoadedIsKnown
<1>3. Known(remover.held) \subseteq doomed
  BY <1>2, NamedFacts
<1>4. remover' \in [pc: {"none", "erase", "drop"}, held: SUBSET Copies]
      /\ remover'.held = remover.held
  BY <1>1, <1>2
<1>5. ExportsTypeOK'
  BY <1>1, <1>4 DEF ExportsInv, ExportsTypeOK
<1>6. Named(remover.held)' \subseteq doomed'
  BY <1>1, <1>2, <1>4 DEF Named
<1>7. QED
  BY <1>1, <1>3, <1>5, <1>6, TasksStay

LEMMA DropRowsKeeps ==
    ASSUME ExportsInv, DropRows
    PROVE  ExportsInv'
<1>1. rows' = Without(Named(remover.held)) /\ remover' = [pc |-> "none", held |-> {}]
      /\ UNCHANGED <<made, aged, files, run, removals, stuck, doomed, killed>>
  BY DEF DropRows
<1>2. /\ DOMAIN rows' = DOMAIN rows \ Named(remover.held)
      /\ rows' \in [DOMAIN rows' -> ExportRow]
      /\ \A x \in DOMAIN rows' : rows'[x] = rows[x]
  BY <1>1, WithoutFacts DEF ExportsInv
<1>3. ExportsTypeOK'
  BY <1>1, <1>2 DEF ExportsInv, ExportsTypeOK
<1>4. Named(remover.held)' \subseteq doomed'
  BY <1>1 DEF Named
<1>5. QED
  BY <1>1, <1>2, <1>3, <1>4, TasksStay

LEMMA AgeExportKeeps ==
    ASSUME ExportsInv, AgeExport
    PROVE  ExportsInv'
<1>1. aged < made /\ aged' = aged + 1
      /\ UNCHANGED <<made, rows, files, run, remover, removals, stuck, doomed, killed>>
  BY DEF AgeExport
<1>2. aged \in 0 .. made /\ made \in Nat
  BY ExportsAssumption DEF ExportsInv, ExportsTypeOK
<1>3. aged' \in 0 .. made /\ 1 .. aged \subseteq 1 .. aged'
  BY <1>1, <1>2
<1>4. ExportsTypeOK'
  BY <1>1, <1>3 DEF ExportsInv, ExportsTypeOK
<1>5. Named(remover.held)' \subseteq doomed'
  BY <1>1 DEF ExportsInv, LoadedIsKnown, Named
<1>6. QED
  BY <1>1, <1>3, <1>4, <1>5, TasksStay

----------------------------------------------------------------------------
(* Exports: the specification *)

LEMMA InitExports == ExportsInit => ExportsInv
<1> SUFFICES ASSUME ExportsInit PROVE ExportsInv
  OBVIOUS
<1>1. 0 \in 0 .. MaxMade /\ MaxExports \in Nat
  BY ExportsAssumption
<1>2. DOMAIN rows = {}
  BY DEF ExportsInit
<1>3. ExportsTypeOK
  BY <1>1, <1>2 DEF ExportsInit, ExportsTypeOK, RunPlaces
<1>4. Named({}) = {}
  BY DEF Named
<1>5. LoadedIsKnown /\ FileFollows
  BY <1>2, <1>4 DEF ExportsInit, LoadedIsKnown, FileFollows, Exists
<1>6. ASSUME NEW f PROVE Kept(f) = {}
  BY <1>2 DEF Kept, Hopeful
<1>7. KeptIsWithinLimit
  BY <1>1, <1>6, FS_EmptySet DEF KeptIsWithinLimit
<1>8. QED
  BY <1>3, <1>5, <1>7 DEF ExportsInv

LEMMA NextExports == ExportsInv /\ [ExportsNext]_exportVars => ExportsInv'
<1> SUFFICES ASSUME ExportsInv, [ExportsNext]_exportVars PROVE ExportsInv'
  OBVIOUS
<1>1. ASSUME NEW e \in Exports, RunStep(e) PROVE ExportsInv'
  BY <1>1, RefetchKeeps, BeginKeeps, ListStuckKeeps, MarkStuckKeeps, WriteKeeps, StoreKeeps,
     ListExcessKeeps, EraseExcessKeeps, DropExcessKeeps, EndKeeps DEF RunStep
<1>2. ASSUME NEW e \in Exports, KillRun(e) PROVE ExportsInv'
  BY <1>2, KillRunKeeps
<1>3. ASSUME NEW es \in {DOMAIN rows} \cup {{e} : e \in DOMAIN rows}, AskRemoval(es)
      PROVE  ExportsInv'
  BY <1>3, AskRemovalKeeps
<1>4. CASE RequestExport \/ EraseFiles \/ DropRows \/ AgeExport
  BY <1>4, RequestExportKeeps, EraseFilesKeeps, DropRowsKeeps, AgeExportKeeps
<1>5. CASE UNCHANGED exportVars
  <2>1. ExportsTypeOK' /\ Named(remover.held)' \subseteq doomed'
    BY <1>5 DEF ExportsInv, ExportsTypeOK, LoadedIsKnown, exportVars, Named
  <2>2. QED
    BY <1>5, <2>1, TasksStay DEF exportVars
<1>6. QED
  BY <1>1, <1>2, <1>3, <1>4, <1>5 DEF ExportsNext

\* The variables of ExportTasks keep their types.
THEOREM ExportsTypeCorrect == ExportsSpec => []ExportsTypeOK
<1>1. ExportsInv => ExportsTypeOK
  BY DEF ExportsInv
<1>2. QED
  BY <1>1, InitExports, NextExports, PTL DEF ExportsSpec

\* For any number of exports, an export that says it is COMPLETE has its result
\* and its file, unless it was listed for removal or found stuck.
THEOREM CompleteExportsHaveFiles == ExportsSpec => []CompleteHasFile
<1>1. ASSUME ExportsInv PROVE CompleteHasFile
  <2>1. DOMAIN rows \subseteq Exports
    BY <1>1, ExportRowFacts DEF ExportsInv
  <2>2. QED
    BY <1>1, <2>1 DEF ExportsInv, FileFollows, CompleteHasFile, Exists
<1>2. QED
  BY <1>1, InitExports, NextExports, PTL DEF ExportsSpec

\* However many tasks run at once and whichever of them fail or are killed, no
\* more exports than the limit are COMPLETE, those found stuck excepted.
THEOREM CompleteExportsAreFew == ExportsSpec => []LimitIsKept
<1>1. ASSUME ExportsInv PROVE LimitIsKept
  <2> DEFINE completed == {e \in DOMAIN rows \ stuck : rows[e].status = "complete"}
  <2>1. ASSUME NEW e \in completed PROVE e \in Hopeful /\ e \notin Removing
    <3>1. e \in Exports
      BY <1>1, ExportRowFacts DEF ExportsInv
    <3>2. run[e].pc = "done"
      BY <1>1, <3>1 DEF ExportsInv, LoadedIsKnown, Exists
    <3>3. QED
      BY <3>2 DEF Hopeful, Removing
  <2>2. completed \subseteq Kept(Removing)
    BY <2>1 DEF Kept
  <2>3. Cardinality(completed) <= MaxExports
    BY <1>1, <2>2, NoMoreThanKept DEF ExportsInv
  <2>4. QED
    BY <2>3 DEF LimitIsKept
<1>2. QED
  BY <1>1, InitExports, NextExports, PTL DEF ExportsSpec

\* Housekeeping writes old rows back, but of no export that is COMPLETE and of
\* which the time is not up.
THEOREM CompleteExportsStay == ExportsSpec => CompleteIsFinal
<1> DEFINE Final ==
      \A e \in DOMAIN rows \cap DOMAIN rows' :
         e > aged /\ rows[e].status = "complete" => rows'[e] = rows[e]
<1>1. ASSUME ExportsInv, ExportsNext PROVE Final
  <2> SUFFICES ASSUME NEW e \in DOMAIN rows \cap DOMAIN rows',
                      e > aged, rows[e].status = "complete"
               PROVE  rows'[e] = rows[e]
    OBVIOUS
  <2>1. e \in Exports /\ e \in Nat /\ e <= made
    BY <1>1, ExportRowFacts DEF ExportsInv
  <2>2. run[e].pc = "done" /\ made \in Nat /\ aged \in Nat
    BY <1>1, <2>1, ExportFacts
  <2>3. ASSUME NEW d \in Exports, RunStep(d) \/ KillRun(d) PROVE rows'[e] = rows[e]
    <3>1. CASE MarkStuck(d)
      <4>1. Named(run[d].held) \subseteq 1 .. aged
        BY <1>1, <3>1 DEF ExportsInv, LoadedIsKnown, MarkStuck
      <4>2. e \notin Named(run[d].held)
        BY <2>1, <2>2, <4>1
      <4>3. QED
        BY <3>1, <4>2 DEF MarkStuck
    <3>2. CASE Begin(d)
      <4>1. d # e /\ SetStatus(d, "processing")
        BY <2>2, <3>2 DEF Begin
      <4>2. QED
        BY <1>1, <4>1, StatusSaved DEF ExportsInv, ExportStatuses
    <3>3. CASE End(d)
      <4>1. PICK status \in ExportStatuses : SetStatus(d, status)
        BY <3>3 DEF End, ExportStatuses
      <4>2. d # e
        BY <2>2, <3>3 DEF End
      <4>3. QED
        BY <1>1, <4>1, <4>2, StatusSaved DEF ExportsInv
    <3>4. CASE Store(d)
      BY <2>2, <3>4 DEF Store
    <3>5. CASE DropExcess(d)
      BY <1>1, <3>5, WithoutFacts DEF DropExcess, ExportsInv
    <3>6. CASE Refetch(d) \/ ListStuck(d) \/ Write(d) \/ ListExcess(d) \/ EraseExcess(d) \/ KillRun(d)
      BY <3>6 DEF Refetch, ListStuck, Write, ListExcess, EraseExcess, KillRun
    <3>7. QED
      BY <2>3, <3>1, <3>2, <3>3, <3>4, <3>5, <3>6 DEF RunStep
  <2>4. CASE RequestExport
    <3>1. e # made + 1
      BY <2>1, <2>2
    <3>2. QED
      BY <2>4, <3>1 DEF RequestExport
  <2>5. CASE DropRows
    BY <1>1, <2>5, WithoutFacts DEF DropRows, ExportsInv
  <2>6. CASE EraseFiles \/ AgeExport \/ \E es \in {DOMAIN rows} \cup {{d} : d \in DOMAIN rows} : AskRemoval(es)
    BY <2>6 DEF EraseFiles, AgeExport, AskRemoval
  <2>7. QED
    BY <1>1, <2>3, <2>4, <2>5, <2>6 DEF ExportsNext
<1>2. ASSUME ExportsInv, [ExportsNext]_exportVars PROVE [Final]_exportVars
  BY <1>1, <1>2
<1>3. QED
  BY <1>2, InitExports, NextExports, PTL DEF ExportsSpec, CompleteIsFinal
=============================================================================
