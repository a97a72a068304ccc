---------------------------- MODULE SftpTransfer ----------------------------
(***************************************************************************)
(* File transfers of an SFTP session: crates/miaominal-sftp                *)
(* (sftp/transfer.rs, sftp/session.rs, sftp/local.rs) and the page that    *)
(* shows them (crates/miaominal-ui, features/sftp/controller.rs).          *)
(*                                                                         *)
(* The session executes commands in their order and spawns a task for each *)
(* transfer.  A task moves its files one after the other through a         *)
(* temporary file beside the destination; a semaphore lets few tasks work  *)
(* at a time.  The page learns what happens from a queue of events and     *)
(* from a second channel for progress, and sends pause, resume, cancel.    *)
(*                                                                         *)
(* A step of a task is one request to the server, one operation on local   *)
(* files, or one look at its control.                                      *)
(***************************************************************************)
EXTENDS Naturals, Sequences, FiniteSets

CONSTANTS
  Transfer,    \* transfers
  Path,        \* destinations
  Scenarios    \* the transfers in the order they are queued: a direction, the
               \* destinations of their files; the destinations that exist
               \* before; whether the server lets a rename replace a file; the
               \* size of the semaphore; bounds: chunks of a file, presses of
               \* buttons, faults, and whether progress is reported at all

Missing == "missing"
Distinct(q) == \A i, j \in DOMAIN q : q[i] = q[j] => i = j

\* A transfer is queued once, and brings at least one file; the entries of a
\* directory have different names.
ASSUME SftpAssumption ==
  /\ {"old", Missing} \cap Transfer = {}
  /\ \A s \in Scenarios :
       /\ s.order \in Seq(Transfer) /\ Distinct(s.order)
       /\ s.upload \in [Transfer -> BOOLEAN]
       /\ s.paths \in [Transfer -> Seq(Path)]
       /\ \A t \in Transfer : Distinct(s.paths[t])
       /\ \A i \in DOMAIN s.order : s.paths[s.order[i]] # <<>>
       /\ s.before \subseteq Path /\ s.replaces \in BOOLEAN
       /\ s.permits \in Nat \ {0} /\ s.reports \in BOOLEAN
       /\ {s.chunks, s.presses, s.faults} \subseteq Nat

VARIABLES
  scenario,
  files,    \* destinations; temporary and backup files of each transfer
  task,     \* the tasks
  control,  \* TransferControl, and whether the session still has it
  waiting,  \* the queue of the semaphore
  session,  \* commands not yet executed; whether the session is open
  page,     \* rows, events and progress not yet seen; the tab; presses so far
  net       \* the connection; faults so far

vars == <<scenario, files, task, control, waiting, session, page, net>>

Up(t) == scenario.upload[t]
Paths(t) == scenario.paths[t]
Planned == {scenario.order[i] : i \in DOMAIN scenario.order}
Here(t) == Paths(t)[task[t].file]

Content == Transfer \cup {"old", Missing}
Terminal == {"Done", "Cancelled", "Failed"}

\* Where a task exchanges messages with the server or touches files ...
Working == {"open", "chunk", "install", "inspect", "backup", "replace",
            "rollback", "unbackup", "close", "discard", "release"}
\* ... and where it looks at its control or waits.
Gated == {"gate", "parked", "queued"}

TypeOK ==
  /\ scenario \in Scenarios
  /\ files \in [at : [Path -> Content],
                tmp : [Transfer -> {Missing, "partial", "whole"}],
                bak : [Path -> [Transfer -> Content]]]
  /\ task \in [Transfer ->
                 [at : {"none", "end", "done", "aborted"} \cup Gated \cup Working,
                  then : {"open", "chunk", "install"},
                  file : Nat, sent : 0..scenario.chunks, holds : BOOLEAN,
                  outcome : {"none"} \cup Terminal,
                  brought : SUBSET Path]]
  /\ control \in [Transfer -> [known : BOOLEAN, cancelled : BOOLEAN,
                               paused : BOOLEAN, note : BOOLEAN]]
  /\ waiting \in Seq(Transfer)
  /\ session.at \in {"open", "closing", "closed"}
  /\ page \in [rows : [Transfer -> {"none", "Queued", "Running", "Paused"} \cup Terminal],
               events : Seq([about : Transfer,
                             is : {"Queued", "Paused", "Resumed"} \cup Terminal]),
               progress : SUBSET Transfer, hand : SUBSET Transfer,
               open : BOOLEAN, presses : Nat]
  /\ net \in [up : BOOLEAN, faults : Nat]

Command(k, t) == [kind |-> k, about |-> t]

Init ==
  /\ scenario \in Scenarios
  /\ files = [at |-> [p \in Path |-> IF p \in scenario.before THEN "old" ELSE Missing],
              tmp |-> [t \in Transfer |-> Missing],
              bak |-> [p \in Path |-> [t \in Transfer |-> Missing]]]
  /\ task = [t \in Transfer |->
               [at |-> "none", then |-> "open", file |-> 1, sent |-> 0,
                holds |-> FALSE, outcome |-> "none", brought |-> {}]]
  /\ control = [t \in Transfer |-> [known |-> FALSE, cancelled |-> FALSE,
                                    paused |-> FALSE, note |-> FALSE]]
  /\ waiting = <<>>
  /\ session = [at |-> "open",
                commands |-> [i \in DOMAIN scenario.order |->
                                Command("Queue", scenario.order[i])]]
  /\ page = [rows |-> [t \in Transfer |-> "none"], events |-> <<>>,
             progress |-> {}, hand |-> {}, open |-> TRUE, presses |-> 0]
  /\ net = [up |-> TRUE, faults |-> 0]
-----------------------------------------------------------------------------
(* Requests.                                                               *)

Fault == [net EXCEPT !.faults = @ + 1]
MayFail == net.faults < scenario.faults

\* How a request that can be carried out, or cannot, ends: whether it was, what
\* the task sees, and the connection after it.  A fault is a refusal, or an
\* answer that is lost after the request was carried out.
Replies(can) ==
  (IF net.up THEN {[done |-> can, seen |-> can, net |-> net]}
   ELSE {[done |-> FALSE, seen |-> FALSE, net |-> net]})
  \cup (IF net.up /\ MayFail
        THEN {[done |-> d, seen |-> FALSE, net |-> Fault] : d \in {FALSE, can}}
        ELSE {})

\* An operation on local files.
Local ==
  {[seen |-> TRUE, net |-> net]}
  \cup (IF MayFail THEN {[seen |-> FALSE, net |-> Fault]} ELSE {})

LoseLink ==
  /\ net.up /\ MayFail
  /\ net' = [Fault EXCEPT !.up = FALSE]
  /\ UNCHANGED <<scenario, files, task, control, waiting, session, page>>
-----------------------------------------------------------------------------
(* A task.                                                                 *)

At(t, at) == task[t].at = at
Go(t, at) == task' = [task EXCEPT ![t].at = at]
Gate(t, then) == task' = [task EXCEPT ![t].at = "gate", ![t].then = then]
Ends(t, outcome) == task' = [task EXCEPT ![t].at = "end", ![t].outcome = outcome]
Discards(t, outcome) ==
  task' = [task EXCEPT ![t].at = "discard", ![t].outcome = outcome]

Holders == {t \in Transfer : task[t].holds}

\* Mutant of Pass: a cancelled transfer leaves its temporary file.
PassLittering(t) ==
  /\ At(t, "gate")
  /\ IF control[t].cancelled
     THEN /\ task' = [task EXCEPT ![t].at = "end", ![t].outcome = "Cancelled",
                                  ![t].holds = FALSE]
          /\ UNCHANGED waiting
     ELSE IF control[t].paused
     THEN /\ task' = [task EXCEPT ![t].at = "parked", ![t].holds = FALSE]
          /\ UNCHANGED waiting
     ELSE IF task[t].holds
     THEN Go(t, task[t].then) /\ UNCHANGED waiting
     ELSE Go(t, "queued") /\ waiting' = Append(waiting, t)
  /\ UNCHANGED <<scenario, files, control, session, page, net>>

\* ActiveTransferPermit::wait_until_active: the permit is given up by a transfer
\* that is cancelled or paused, and asked for by one that has none.  A file
\* begun is discarded.
Pass(t) ==
  /\ At(t, "gate")
  /\ IF control[t].cancelled
     THEN /\ task' = [task EXCEPT
                        ![t].at = IF task[t].then = "open" THEN "end" ELSE "discard",
                        ![t].outcome = "Cancelled", ![t].holds = FALSE]
          /\ UNCHANGED waiting
     ELSE IF control[t].paused
     THEN /\ task' = [task EXCEPT ![t].at = "parked", ![t].holds = FALSE]
          /\ UNCHANGED waiting
     ELSE IF task[t].holds
     THEN Go(t, task[t].then) /\ UNCHANGED waiting
     ELSE Go(t, "queued") /\ waiting' = Append(waiting, t)
  /\ UNCHANGED <<scenario, files, control, session, page, net>>

\* TransferControl::wait_until_active: each notification is consumed, and the
\* control looked at again.
Wake(t) ==
  /\ At(t, "parked") /\ control[t].note
  /\ control' = [control EXCEPT ![t].note = FALSE]
  /\ IF control[t].cancelled \/ ~control[t].paused THEN Go(t, "gate")
     ELSE UNCHANGED task
  /\ UNCHANGED <<scenario, files, waiting, session, page, net>>

\* The select: a permit, ...
Acquire(t) ==
  /\ At(t, "queued") /\ waiting # <<>> /\ t = Head(waiting)
  /\ Cardinality(Holders) < scenario.permits
  /\ task' = [task EXCEPT ![t].at = "gate", ![t].holds = TRUE]
  /\ waiting' = Tail(waiting)
  /\ UNCHANGED <<scenario, files, control, session, page, net>>

\* ... or a notification, which leaves the queue.
Interrupt(t) ==
  /\ At(t, "queued") /\ control[t].note
  /\ control' = [control EXCEPT ![t].note = FALSE]
  /\ Go(t, "gate")
  /\ \E i \in DOMAIN waiting :
       /\ waiting[i] = t
       /\ waiting' = SubSeq(waiting, 1, i - 1) \o SubSeq(waiting, i + 1, Len(waiting))
  /\ UNCHANGED <<scenario, files, session, page, net>>

\* SftpProgressSender: at most one report of a transfer is under way.
Report(t) ==
  page' = IF scenario.reports THEN [page EXCEPT !.progress = @ \cup {t}] ELSE page

Work == UNCHANGED <<scenario, control, waiting, session>>

\* The source is opened and a temporary file created.
Open(t) ==
  /\ At(t, "open")
  /\ \E r \in Replies(TRUE) :
       /\ files' = IF r.done THEN [files EXCEPT !.tmp[t] = "partial"] ELSE files
       /\ IF r.seen THEN Gate(t, "chunk") ELSE Ends(t, "Failed")
       /\ net' = r.net
  /\ Report(t)
  /\ Work

\* A chunk is read and written, ...
Chunk(t) ==
  /\ At(t, "chunk") /\ task[t].sent < scenario.chunks
  /\ \E r \in Replies(TRUE) :
       /\ IF r.seen THEN task' = [task EXCEPT ![t].at = "gate", ![t].sent = @ + 1]
          ELSE Discards(t, "Failed")
       /\ IF r.seen THEN Report(t) ELSE UNCHANGED page
       /\ net' = r.net
  /\ UNCHANGED files /\ Work

\* ... or the source has no more, and an upload is synchronised to disk.
LastChunk(t) ==
  /\ At(t, "chunk")
  /\ \E r \in Replies(TRUE) :
       /\ files' = IF r.seen THEN [files EXCEPT !.tmp[t] = "whole"] ELSE files
       /\ IF r.seen THEN Gate(t, "install") ELSE Discards(t, "Failed")
       /\ net' = r.net
  /\ UNCHANGED page /\ Work

\* The next file of a directory, or the end.
Advance(t, installed) ==
  LET x == [task[t] EXCEPT !.brought = @ \cup installed] IN
  task' = [task EXCEPT ![t] =
             IF x.file < Len(Paths(t))
             THEN [x EXCEPT !.at = "gate", !.then = "open", !.file = @ + 1,
                            !.sent = 0]
             ELSE [x EXCEPT !.at = "end", !.outcome = "Done"]]

Vacant(p) == files.at[p] = Missing \/ scenario.replaces

\* The temporary file takes the name of the destination.
Installed(t) == [files EXCEPT !.at[Here(t)] = t, !.tmp[t] = Missing]

\* replace_remote_upload: the remote file is closed and renamed, ...
Install(t) ==
  /\ At(t, "install") /\ Up(t)
  /\ \/ \E r \in Replies(Vacant(Here(t))) :
          /\ files' = IF r.done THEN Installed(t) ELSE files
          /\ IF r.seen THEN Advance(t, {Here(t)}) ELSE Go(t, "inspect")
          /\ net' = r.net
     \/ MayFail /\ Discards(t, "Failed") /\ net' = Fault /\ UNCHANGED files
  /\ UNCHANGED page /\ Work

\* ... if that is refused, the destination inspected, ...
Inspect(t) ==
  /\ At(t, "inspect")
  /\ \E r \in Replies(files.at[Here(t)] # Missing) :
       /\ IF r.seen THEN Go(t, "backup") ELSE Discards(t, "Failed")
       /\ net' = r.net
  /\ UNCHANGED <<files, page>> /\ Work

\* Mutant of Backup: the old file is removed instead.
BackupByRemoving(t) ==
  /\ At(t, "backup")
  /\ \E r \in Replies(files.at[Here(t)] # Missing) :
       /\ files' = IF r.done THEN [files EXCEPT !.at[Here(t)] = Missing] ELSE files
       /\ IF r.seen THEN Go(t, "replace") ELSE Discards(t, "Failed")
       /\ net' = r.net
  /\ UNCHANGED page /\ Work

\* ... moved to a backup, ...
Backup(t) ==
  /\ At(t, "backup")
  /\ \E r \in Replies(files.at[Here(t)] # Missing) :
       /\ files' = IF r.done THEN [files EXCEPT !.bak[Here(t)][t] = files.at[Here(t)],
                                                !.at[Here(t)] = Missing]
                   ELSE files
       /\ IF r.seen THEN Go(t, "replace") ELSE Discards(t, "Failed")
       /\ net' = r.net
  /\ UNCHANGED page /\ Work

\* ... replaced, ...
Replace(t) ==
  /\ At(t, "replace")
  /\ \E r \in Replies(Vacant(Here(t)) /\ files.tmp[t] # Missing) :
       /\ files' = IF r.done THEN Installed(t) ELSE files
       /\ task' = [task EXCEPT ![t].at = IF r.seen THEN "unbackup" ELSE "rollback",
                               ![t].brought = IF r.seen THEN @ \cup {Here(t)} ELSE @]
       /\ net' = r.net
  /\ UNCHANGED page /\ Work

\* ... or, if that is refused, put back; ...
Rollback(t) ==
  /\ At(t, "rollback")
  /\ \E r \in Replies(Vacant(Here(t))) :
       /\ files' = IF r.done THEN [files EXCEPT !.at[Here(t)] = files.bak[Here(t)][t],
                                                !.bak[Here(t)][t] = Missing]
                   ELSE files
       /\ net' = r.net
  /\ Discards(t, "Failed")
  /\ UNCHANGED page /\ Work

\* ... the backup goes, if it can.
RemoveBackup(t) ==
  /\ At(t, "unbackup")
  /\ \E r \in Replies(TRUE) :
       /\ files' = IF r.done THEN [files EXCEPT !.bak[Here(t)][t] = Missing] ELSE files
       /\ net' = r.net
  /\ Advance(t, {})
  /\ UNCHANGED page /\ Work

\* A download takes the name of its destination in one step.
Commit(t) ==
  /\ At(t, "install") /\ ~Up(t)
  /\ \E r \in Local :
       /\ files' = IF r.seen THEN Installed(t) ELSE [files EXCEPT !.tmp[t] = Missing]
       /\ task' = IF r.seen
                  THEN [task EXCEPT ![t].at = "close", ![t].brought = @ \cup {Here(t)}]
                  ELSE [task EXCEPT ![t].at = "release", ![t].outcome = "Failed"]
       /\ net' = r.net
  /\ UNCHANGED page /\ Work

\* The remote file of a download is closed, or the download fails after all.
Close(t) ==
  /\ At(t, "close")
  /\ \E r \in Replies(TRUE) :
       /\ IF r.seen THEN Advance(t, {}) ELSE Ends(t, "Failed")
       /\ net' = r.net
  /\ UNCHANGED <<files, page>> /\ Work

\* remove_remote_temporary_file, LocalWriteSession::discard
Discard(t) ==
  /\ At(t, "discard")
  /\ \E r \in IF Up(t) THEN Replies(TRUE) ELSE {[done |-> TRUE, net |-> net]} :
       /\ files' = IF r.done THEN [files EXCEPT !.tmp[t] = Missing] ELSE files
       /\ net' = r.net
  /\ Go(t, IF Up(t) THEN "end" ELSE "release")
  /\ UNCHANGED page /\ Work

\* The remote file of a download given up is closed as well, and if that fails
\* even a cancelled one has failed.
Release(t) ==
  /\ At(t, "release")
  /\ \E r \in Replies(TRUE) :
       /\ Ends(t, IF r.seen THEN task[t].outcome ELSE "Failed")
       /\ net' = r.net
  /\ UNCHANGED <<files, page>> /\ Work

\* The permit is dropped and the outcome reported.
End(t) ==
  /\ At(t, "end")
  /\ task' = [task EXCEPT ![t].at = "done", ![t].holds = FALSE]
  /\ page' = [page EXCEPT !.events = Append(@, [about |-> t, is |-> task[t].outcome]),
                          !.progress = @ \ {t}]
  /\ UNCHANGED <<scenario, files, control, waiting, session, net>>
-----------------------------------------------------------------------------
(* The session.                                                            *)

\* The notification of a task's end.
Reap(t) ==
  /\ session.at = "open"
  /\ task[t].at = "done" /\ control[t].known
  /\ control' = [control EXCEPT ![t].known = FALSE]
  /\ UNCHANGED <<scenario, files, task, waiting, session, page, net>>

Next1(k) ==
  /\ session.at = "open" /\ session.commands # <<>>
  /\ Head(session.commands).kind = k
  /\ session' = [session EXCEPT !.commands = Tail(@)]

Posted(t, e) == [page EXCEPT !.events = Append(@, [about |-> t, is |-> e])]
Asked == Head(session.commands).about

QueueTransfer ==
  /\ Next1("Queue")
  /\ page' = Posted(Asked, "Queued")
  /\ Gate(Asked, "open")
  /\ control' = [control EXCEPT ![Asked].known = TRUE]
  /\ UNCHANGED <<scenario, files, waiting, net>>

\* TransferControl::pause and resume: the task is notified, the page told.
SetPaused(k, b) ==
  /\ Next1(k)
  /\ IF control[Asked].known /\ ~control[Asked].cancelled /\ control[Asked].paused # b
     THEN /\ control' = [control EXCEPT ![Asked].paused = b, ![Asked].note = TRUE]
          /\ page' = Posted(Asked, IF b THEN "Paused" ELSE "Resumed")
     ELSE UNCHANGED <<control, page>>
  /\ UNCHANGED <<scenario, files, task, waiting, net>>

PauseTransfer == SetPaused("Pause", TRUE)
ResumeTransfer == SetPaused("Resume", FALSE)

\* Mutant of CancelTransfer: a paused task is left waiting.
CancelTransferSilently ==
  /\ Next1("Cancel")
  /\ control' = IF control[Asked].known
                THEN [control EXCEPT ![Asked].cancelled = TRUE] ELSE control
  /\ UNCHANGED <<scenario, files, task, waiting, page, net>>

\* TransferControl::cancel
CancelTransfer ==
  /\ Next1("Cancel")
  /\ control' = IF control[Asked].known
                THEN [control EXCEPT ![Asked].cancelled = TRUE, ![Asked].note = TRUE]
                ELSE control
  /\ UNCHANGED <<scenario, files, task, waiting, page, net>>

\* The loop ends by a command, or by an error of an operation on a connection
\* that is lost: cancel_all_transfers.
CancelAll ==
  control' = [t \in Transfer |->
                IF control[t].known
                THEN [control[t] EXCEPT !.known = FALSE, !.cancelled = TRUE,
                                        !.note = TRUE]
                ELSE control[t]]

CloseSession ==
  /\ session.at = "open"
  /\ \/ session.commands # <<>> /\ Head(session.commands).kind = "Close"
     \/ ~net.up
  /\ session' = [at |-> "closing", commands |-> <<>>]
  /\ CancelAll
  /\ UNCHANGED <<scenario, files, task, waiting, page, net>>

Alive == {t \in Transfer : task[t].at \in Gated \cup Working \cup {"end"}}

\* After fifteen seconds tasks that still wait for an answer are aborted; the
\* temporary file of a download goes with its task.
AbortTasks ==
  /\ session.at = "closing"
  /\ Alive # {} /\ \A t \in Alive : task[t].at \in Working
  /\ task' = [t \in Transfer |->
                IF t \in Alive THEN [task[t] EXCEPT !.at = "aborted", !.holds = FALSE]
                ELSE task[t]]
  /\ files' = [files EXCEPT !.tmp = [t \in Transfer |->
                 IF t \in Alive /\ ~Up(t) THEN Missing ELSE @[t]]]
  /\ UNCHANGED <<scenario, control, waiting, session, page, net>>

SessionClosed ==
  /\ session.at = "closing" /\ Alive = {}
  /\ session' = [session EXCEPT !.at = "closed"]
  /\ UNCHANGED <<scenario, files, task, control, waiting, page, net>>
-----------------------------------------------------------------------------
(* The page.                                                               *)

\* Mutant of RowAfter: an event names the state of its row.
RowAfterVerbatim(row, e) == IF row = "none" /\ e # "Queued" THEN "none" ELSE e

\* What an event makes of the row of its transfer.
RowAfter(row, e) ==
  IF row = "none" /\ e # "Queued" THEN "none"
  ELSE IF e = "Resumed" THEN "Running"
  ELSE e

\* handle_event; the events of a tab that is closed are dropped.
Receive ==
  /\ page.events # <<>>
  /\ LET e == Head(page.events) IN
     page' = [page EXCEPT !.events = Tail(@),
                          !.rows[e.about] = IF page.open THEN RowAfter(@, e.is) ELSE @]
  /\ UNCHANGED <<scenario, files, task, control, waiting, session, net>>

\* The progress task takes an update ...
TakeProgress ==
  /\ page.hand = {}
  /\ \E t \in page.progress :
       page' = [page EXCEPT !.hand = {t}, !.progress = @ \ {t}]
  /\ UNCHANGED <<scenario, files, task, control, waiting, session, net>>

\* Mutant of ShowProgress: whatever the row says, the transfer is running.
ShowProgressAlways ==
  /\ page.hand # {}
  /\ page' = [page EXCEPT
                !.rows = [t \in Transfer |->
                            IF t \in page.hand \cup page.progress
                               /\ @[t] \notin {"none", "Paused"}
                            THEN "Running" ELSE @[t]],
                !.hand = {}, !.progress = {}]
  /\ UNCHANGED <<scenario, files, task, control, waiting, session, net>>

\* ... and shows it, with what came in meanwhile, a moment later.
ShowProgress ==
  /\ page.hand # {}
  /\ page' = [page EXCEPT
                !.rows = [t \in Transfer |->
                            IF t \in page.hand \cup page.progress /\ @[t] = "Queued"
                            THEN "Running" ELSE @[t]],
                !.hand = {}, !.progress = {}]
  /\ UNCHANGED <<scenario, files, task, control, waiting, session, net>>

Press(k, t) ==
  /\ page.open /\ page.presses < scenario.presses
  /\ session' = IF session.at = "open"
                THEN [session EXCEPT !.commands = Append(@, Command(k, t))]
                ELSE session
  /\ page' = [page EXCEPT !.presses = @ + 1, !.open = (k # "Close")]
  /\ UNCHANGED <<scenario, files, task, control, waiting, net>>

\* The buttons a row offers, and the tab's own.
PressButton ==
  \E t \in Planned :
    \/ page.rows[t] \in {"Queued", "Running"} /\ Press("Pause", t)
    \/ page.rows[t] = "Paused" /\ Press("Resume", t)
    \/ page.rows[t] \in {"Queued", "Running", "Paused"} /\ Press("Cancel", t)

CloseTab == \E t \in Planned : t = Head(scenario.order) /\ Press("Close", t)

RemoveRow(t) ==
  /\ page.rows[t] \in Terminal /\ page.open
  /\ page.presses < scenario.presses
  /\ page' = [page EXCEPT !.rows[t] = "none", !.presses = @ + 1]
  /\ UNCHANGED <<scenario, files, task, control, waiting, session, net>>
-----------------------------------------------------------------------------
TaskStep(t) ==
  \/ Pass(t) \/ Wake(t) \/ Acquire(t) \/ Interrupt(t)
  \/ Open(t) \/ Chunk(t) \/ LastChunk(t)
  \/ Install(t) \/ Inspect(t) \/ Backup(t) \/ Replace(t) \/ Rollback(t)
  \/ RemoveBackup(t) \/ Commit(t) \/ Close(t) \/ Discard(t)
  \/ Release(t) \/ End(t)

SessionStep ==
  \/ QueueTransfer \/ PauseTransfer \/ ResumeTransfer \/ CancelTransfer
  \/ CloseSession \/ SessionClosed

PageStep == Receive \/ TakeProgress \/ ShowProgress

Next ==
  \/ \E t \in Transfer : TaskStep(t) \/ Reap(t) \/ RemoveRow(t)
  \/ SessionStep \/ AbortTasks \/ PageStep
  \/ PressButton \/ CloseTab \/ LoseLink

Spec == Init /\ [][Next]_vars

\* Tasks are scheduled, and every request is answered or given up by the client
\* library.
FairSpec == Spec /\ \A t \in Transfer : WF_vars(TaskStep(t))
-----------------------------------------------------------------------------
(* Correctness.                                                            *)

\* What transfers promise of the files they replace: the destination and its
\* backups always hold a whole file, whatever is refused, lost or aborted, and
\* whichever transfers meet at one destination; a transfer reported done put
\* all its files in place, one reported cancelled did not.
OfPath(t) == {Paths(t)[i] : i \in DOMAIN Paths(t)}
Goals == [t \in Transfer |-> OfPath(t)]
Saved == [p \in Path |->
            ({files.at[p]} \cup {files.bak[p][t] : t \in Transfer}) \ {Missing}]
Brought == [t \in Transfer |-> task[t].brought]
Word == [Done |-> "done", Cancelled |-> "cancelled", Failed |-> "failed"]
Told == [t \in Transfer |->
           IF task[t].at # "done" THEN "nothing"
           ELSE Word[task[t].outcome]]
Kept == INSTANCE FileReplacement WITH
  goal <- Goals, saved <- Saved, brought <- Brought, told <- Told
ReplacesFiles == Kept!Spec

\* Without faults a task that ends leaves nothing beside its destination,
\* cancelled or not; only one that failed may leave a backup, when another
\* transfer took the place it was to be restored to.  And a task that waits, is
\* parked or has ended holds no permit, with faults or without.
NothingLeft ==
  /\ net.faults = 0 =>
       \A t \in Transfer : At(t, "done") =>
         /\ files.tmp[t] = Missing
         /\ (\A p \in Path : files.bak[p][t] = Missing) \/ task[t].outcome = "Failed"
  /\ \A t \in Holders : task[t].at \in Working \cup {"gate", "end"}

\* A row that says how its transfer ended is not reopened by progress that comes
\* late, on another channel.
FinishedStaysFinished ==
  [][\A t \in Transfer :
       page.rows[t] \in Terminal /\ page.rows'[t] \notin Terminal \cup {"none"} =>
         page.events # <<>> /\ Head(page.events).is \in {"Paused", "Resumed"}]_vars

\* Every transfer that was queued ends, unless it stays paused, and a cancelled
\* one ends, paused, queued or at work as it may be: permits are handed on, and
\* no notification is lost between looking and waiting.
TransfersEnd ==
  \A t \in Transfer :
    /\ t \in Alive ~> t \notin Alive \/ (control[t].paused /\ ~control[t].cancelled)
    /\ control[t].cancelled ~> t \notin Alive

\* The page shows the end of every transfer that has ended: its row can then be
\* removed.
RowTellsEnd ==
  \A t \in Transfer :
    At(t, "done") /\ page.events = <<>> /\ page.open =>
      page.rows[t] \in Terminal \cup {"none"}
=============================================================================
