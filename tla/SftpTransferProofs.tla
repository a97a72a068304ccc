------------------------- MODULE SftpTransferProofs -------------------------
(***************************************************************************)
(* Theorems about SftpTransfer: its types, what a transfer leaves behind,  *)
(* what the page shows of one that has ended, and the refinement of        *)
(* FileReplacement, for any number of transfers, files, chunks, permits    *)
(* and faults.                                                             *)
(*                                                                         *)
(* The inductive invariant has a part for each task (Own: what it has      *)
(* brought, and the names it uses beside its destinations, follow from its *)
(* place) and parts that relate tasks to one another (Covered, Single) or  *)
(* to what was sent and is still to be seen (QueuedOnce, Announced).       *)
(***************************************************************************)
EXTENDS SftpTransfer, SequenceTheorems, TLAPS

\* Where a task has not begun to replace its file, is replacing it by way of a
\* backup, and has replaced it.
Ahead == Gated \cup {"open", "chunk", "install", "inspect", "backup"}
Swapping == {"replace", "rollback"}
Placed == {"unbackup", "close"}
Fixing == {"inspect", "backup", "replace", "rollback"}
Stage(x) == IF x.at \in Gated THEN x.then ELSE x.at

\* The destinations of the files before the nth.
Before(t, n) == {Paths(t)[i] : i \in {j \in DOMAIN Paths(t) : j < n}}

\* What a task has brought is what its place in the transfer says.
Course(t, x) ==
  /\ x.at = "none" => x.file = 1 /\ x.brought = {}
  /\ x.at = "chunk" => x.then = "chunk"
  /\ x.at \in Gated \cup Working \cup {"end"} => x.file \in DOMAIN Paths(t)
  /\ x.at \in Ahead \cup Swapping => x.brought = Before(t, x.file)
  /\ x.at \in Placed => x.brought = Before(t, x.file + 1)
  /\ x.at \in {"discard", "release", "end", "done"} =>
       /\ x.outcome \in Terminal
       /\ x.outcome = "Done" => x.brought = OfPath(t)
       /\ x.outcome = "Cancelled" => x.brought # OfPath(t)

\* The names of the backups still to be made are free.
Free(t, x, f) ==
  x.at \in {"none"} \cup Ahead \cup Swapping \cup Placed =>
    \A i \in DOMAIN Paths(t) :
      i > x.file \/ (i = x.file /\ x.at \notin Swapping \cup Placed) =>
        f.bak[Paths(t)[i]][t] = Missing

\* Without faults a task leaves no temporary file behind, and no backup but the
\* one it is replacing a file with.
Tidy(t, x, f) ==
  /\ Stage(x) \in {"none", "open", "unbackup", "close", "release", "end",
                   "done"} =>
       f.tmp[t] = Missing
  /\ Stage(x) = "install" => f.tmp[t] # Missing
  /\ \/ x.at = "aborted"
     \/ x.at \in {"discard", "release", "end", "done"} /\ x.outcome = "Failed"
     \/ \A p \in Path :
          \/ f.bak[p][t] = Missing
          \/ x.at \in Swapping \cup {"unbackup"} /\ p = Paths(t)[x.file]

Kempt(t, x, f, n) ==
  /\ Course(t, x) /\ Free(t, x, f)
  /\ n.faults = 0 => Tidy(t, x, f)
  /\ x.holds => x.at \in Working \cup {"gate", "end"}

Own(t) == Kempt(t, task[t], files, net)

\* A transfer is queued once.
QueuedOnce ==
  \A i \in DOMAIN session.commands : session.commands[i].kind = "Queue" =>
    /\ task[session.commands[i].about].at = "none"
    /\ \A j \in DOMAIN session.commands :
         session.commands[j] = session.commands[i] => j = i

\* The first thing the page hears of a transfer is that it is queued.
Announced ==
  /\ \A i \in DOMAIN page.events : page.events[i].is = "Queued" =>
       /\ page.rows[page.events[i].about] = "none"
       /\ task[page.events[i].about].at # "none"
       /\ \A j \in DOMAIN page.events : page.events[j] = page.events[i] => j = i
  /\ \A t \in Transfer : task[t].at = "none" => page.rows[t] = "none"

Commands ==
  [kind : {"Queue", "Pause", "Resume", "Cancel", "Close"}, about : Planned]

TypeInv ==
  /\ TypeOK
  /\ session \in [at : {"open", "closing", "closed"}, commands : Seq(Commands)]

Inv ==
  /\ TypeInv /\ QueuedOnce /\ Announced
  /\ net.faults = 0 => net.up
  /\ \A t \in Transfer : Own(t)

\* Where a server's rename replaces files, two faults can make a rollback
\* replace a file that was transferred.
Keeps(s) == ~s.replaces \/ s.faults <= 1

Spare(t, p) == task[t].at = "unbackup" /\ Here(t) = p

\* Where a backup is to be removed, a transferred file is there, or in a backup
\* that is not.
Covered ==
  \A p \in Path : (\E t \in Transfer : Spare(t, p)) =>
    \/ files.at[p] \in Transfer
    \/ \E t \in Transfer : ~Spare(t, p) /\ files.bak[p][t] \in Transfer

\* A task that is refused although its server replaces files was met by the
\* one fault: it is the only one, and its backup is the old file only as long as
\* its own can still be put in place.
Restores(t) ==
  /\ At(t, "rollback") => files.tmp[t] = Missing
  /\ files.tmp[t] = Missing =>
       IF task[t].at \in {"inspect", "backup"} THEN files.at[Here(t)] \in Transfer
       ELSE files.bak[Here(t)][t] \in Transfer

Single ==
  scenario.replaces /\ net.up =>
    \A t \in Transfer : task[t].at \in Fixing =>
      /\ net.faults # 0 /\ Restores(t)
      /\ \A u \in Transfer : task[u].at \in Fixing => u = t

KeptInv == Keeps(scenario) /\ Covered /\ Single
-----------------------------------------------------------------------------
Files ==
  [at : [Path -> Content],
   tmp : [Transfer -> {Missing, "partial", "whole"}],
   bak : [Path -> [Transfer -> Content]]]

Tasks ==
  [at : {"none", "end", "done", "aborted"} \cup Gated \cup Working,
   then : {"open", "chunk", "install"},
   file : Nat, sent : 0..scenario.chunks, holds : BOOLEAN,
   outcome : {"none"} \cup Terminal, brought : SUBSET Path]

Controls ==
  [Transfer -> [known : BOOLEAN, cancelled : BOOLEAN, paused : BOOLEAN, note : BOOLEAN]]

Event == [about : Transfer, is : {"Queued", "Paused", "Resumed"} \cup Terminal]

Pages ==
  [rows : [Transfer -> {"none", "Queued", "Running", "Paused"} \cup Terminal],
   events : Seq(Event), progress : SUBSET Transfer, hand : SUBSET Transfer,
   open : BOOLEAN, presses : Nat]

Nets == [up : BOOLEAN, faults : Nat]

\* What TypeInv says, under the names above.
LEMMA Types ==
  TypeInv <=>
    /\ scenario \in Scenarios /\ files \in Files /\ task \in [Transfer -> Tasks]
    /\ control \in Controls /\ waiting \in Seq(Transfer)
    /\ session \in [at : {"open", "closing", "closed"}, commands : Seq(Commands)]
    /\ page \in Pages /\ net \in Nets
  BY DEF TypeInv, TypeOK, Files, Tasks, Controls, Event, Pages, Nets

\* The same of the next state.
LEMMA TypesLater ==
  TypeInv' <=>
    /\ scenario' \in Scenarios /\ files' \in Files /\ task' \in [Transfer -> Tasks']
    /\ control' \in Controls /\ waiting' \in Seq(Transfer)
    /\ session' \in [at : {"open", "closing", "closed"}, commands : Seq(Commands')]
    /\ page' \in Pages /\ net' \in Nets
  BY DEF TypeInv, TypeOK, Files, Tasks, Controls, Event, Pages, Nets

\* The paths of a transfer are a sequence without repetitions.
LEMMA PathsLemma ==
  ASSUME scenario \in Scenarios, NEW t \in Transfer
  PROVE  /\ Paths(t) \in Seq(Path) /\ Distinct(Paths(t))
         /\ Len(Paths(t)) \in Nat /\ DOMAIN Paths(t) = 1..Len(Paths(t))
         /\ \A i \in DOMAIN Paths(t) : Paths(t)[i] \in Path
         /\ Up(t) \in BOOLEAN /\ OfPath(t) \subseteq Path
  <1>1. /\ Paths(t) \in Seq(Path) /\ Distinct(Paths(t)) /\ Up(t) \in BOOLEAN
    BY SftpAssumption DEF Paths, Up
  <1>2. /\ Len(Paths(t)) \in Nat /\ DOMAIN Paths(t) = 1..Len(Paths(t))
        /\ \A i \in DOMAIN Paths(t) : Paths(t)[i] \in Path
    BY <1>1, LenProperties, ElementOfSeq
  <1> QED BY <1>1, <1>2 DEF OfPath

\* One file more.
LEMMA BeforeLemma ==
  ASSUME scenario \in Scenarios, NEW t \in Transfer, NEW n \in DOMAIN Paths(t)
  PROVE  /\ Before(t, n + 1) = Before(t, n) \cup {Paths(t)[n]}
         /\ Paths(t)[n] \notin Before(t, n)
         /\ Paths(t)[n] \in OfPath(t) /\ Paths(t)[n] \in Path
         /\ Before(t, n) # OfPath(t)
         /\ n < Len(Paths(t)) => n + 1 \in DOMAIN Paths(t)
         /\ ~(n < Len(Paths(t))) => Before(t, n + 1) = OfPath(t)
         /\ n \in Nat \ {0}
         /\ Before(t, n) \subseteq Path /\ Before(t, 1) = {}
  <1>1. /\ DOMAIN Paths(t) = 1..Len(Paths(t)) /\ Len(Paths(t)) \in Nat
        /\ \A i \in DOMAIN Paths(t) : Paths(t)[i] \in Path
        /\ \A i, j \in DOMAIN Paths(t) : Paths(t)[i] = Paths(t)[j] => i = j
    BY PathsLemma DEF Distinct
  <1>2. n \in Nat \ {0} /\ n <= Len(Paths(t))
    BY <1>1
  <1>3. \A j \in DOMAIN Paths(t) : j \in Nat \ {0} /\ (j < n + 1 <=> j < n \/ j = n)
    BY <1>1, <1>2
  <1>4. Before(t, n + 1) = Before(t, n) \cup {Paths(t)[n]}
    BY <1>3 DEF Before
  <1>5. Paths(t)[n] \notin Before(t, n)
    BY <1>1, <1>2 DEF Before
  <1>6. n < Len(Paths(t)) => n + 1 \in DOMAIN Paths(t)
    BY <1>1, <1>2
  <1>7. ~(n < Len(Paths(t))) => Before(t, n + 1) = OfPath(t)
    BY <1>1, <1>2 DEF Before, OfPath
  <1>8. Paths(t)[n] \in OfPath(t) /\ Paths(t)[n] \in Path
    BY <1>1 DEF OfPath
  <1>9. Before(t, n) \subseteq Path /\ Before(t, 1) = {}
    BY <1>1 DEF Before
  <1> QED BY <1>2, <1>4, <1>5, <1>6, <1>7, <1>8, <1>9

\* A transfer names its own file, which is neither missing nor the old one.
LEMMA Names ==
  /\ \A t \in Transfer : t \in Content /\ t # Missing /\ t # "old"
  /\ Missing \in Content /\ Missing \notin Transfer
  BY SftpAssumption DEF Content, Missing

\* How a request can end.
Answer(r, can) ==
  /\ r.done \in BOOLEAN /\ r.seen \in BOOLEAN /\ r.net \in Nets
  /\ r.done => can /\ net.up
  /\ r.seen => r.done
  /\ r.net.up = net.up
  /\ r.net.faults = 0 => net.faults = 0 /\ (net.up => r.done = can /\ r.seen = can)
  /\ net.up /\ can /\ ~r.seen => MayFail /\ r.net.faults # 0
  /\ net.up /\ ~MayFail => r.seen = can /\ r.done = can

\* What Replies can give.
LEMMA Answers ==
  ASSUME net \in Nets, NEW can \in BOOLEAN, NEW r \in Replies(can)
  PROVE  Answer(r, can)
  <1>1. /\ net.faults \in Nat /\ net.up \in BOOLEAN
        /\ Fault \in Nets /\ Fault.faults = net.faults + 1 /\ Fault.up = net.up
    BY DEF Nets, Fault
  <1>2. \/ r = [done |-> can, seen |-> can, net |-> net] /\ net.up
        \/ r = [done |-> FALSE, seen |-> FALSE, net |-> net] /\ ~net.up
        \/ \E d \in {FALSE, can} :
             r = [done |-> d, seen |-> FALSE, net |-> Fault] /\ net.up /\ MayFail
    BY DEF Replies
  <1>3. CASE r = [done |-> can, seen |-> can, net |-> net] /\ net.up
    BY <1>3 DEF Answer
  <1>4. CASE r = [done |-> FALSE, seen |-> FALSE, net |-> net] /\ ~net.up
    BY <1>4 DEF Answer
  <1>5. ASSUME NEW d \in {FALSE, can},
               r = [done |-> d, seen |-> FALSE, net |-> Fault] /\ net.up /\ MayFail
        PROVE  Answer(r, can)
    <2>1. r.done = d /\ r.seen = FALSE /\ r.net = Fault
      BY <1>5
    <2>2. Fault.faults # 0
      BY <1>1
    <2> QED BY <1>1, <1>5, <2>1, <2>2 DEF Answer
  <1> QED BY <1>2, <1>3, <1>4, <1>5
\* A step of transfer t touches a destination h, its temporary file, and its
\* backup of h.
Writes(t, h, a, v, w) ==
  /\ files' \in Files /\ h \in Path
  /\ \A p \in Path : files'.at[p] = IF p = h THEN a ELSE files.at[p]
  /\ \A u \in Transfer : files'.tmp[u] = IF u = t THEN v ELSE files.tmp[u]
  /\ \A p \in Path, u \in Transfer :
       files'.bak[p][u] = IF p = h /\ u = t THEN w ELSE files.bak[p][u]

\* The three maps of files.
LEMMA FilesParts ==
  ASSUME files \in Files
  PROVE  /\ files.at \in [Path -> Content]
         /\ files.tmp \in [Transfer -> {Missing, "partial", "whole"}]
         /\ files.bak \in [Path -> [Transfer -> Content]]
         /\ \A p \in Path : files.at[p] \in Content
         /\ \A p \in Path : files.bak[p] \in [Transfer -> Content]
         /\ \A p \in Path, u \in Transfer : files.bak[p][u] \in Content
  BY DEF Files

\* A step that leaves the files as they are.
LEMMA WritesNothing ==
  ASSUME files \in Files, NEW t \in Transfer, NEW h \in Path, files' = files
  PROVE  Writes(t, h, files.at[h], files.tmp[t], files.bak[h][t])
  BY FilesParts DEF Writes

\* The temporary file is written, or removed.
LEMMA WritesTemporary ==
  ASSUME files \in Files, NEW t \in Transfer, NEW h \in Path,
         NEW v \in {Missing, "partial", "whole"},
         files' = [files EXCEPT !.tmp[t] = v]
  PROVE  Writes(t, h, files.at[h], v, files.bak[h][t])
  <1>1. PICK T : T = [files.tmp EXCEPT ![t] = v]
    OBVIOUS
  <1>2. T \in [Transfer -> {Missing, "partial", "whole"}]
    BY <1>1, FilesParts
  <1>3. files' = [files EXCEPT !.tmp = T]
    BY <1>1
  <1>4. files' \in Files /\ files'.at = files.at /\ files'.tmp = T /\ files'.bak = files.bak
    BY <1>2, <1>3 DEF Files
  <1> QED BY <1>1, <1>4, FilesParts DEF Writes

\* The temporary file takes the name of the destination.
LEMMA WritesInstalled ==
  ASSUME files \in Files, NEW t \in Transfer, NEW h \in Path,
         files' = [files EXCEPT !.at[h] = t, !.tmp[t] = Missing]
  PROVE  Writes(t, h, t, Missing, files.bak[h][t])
  <1>1. PICK T, A : T = [files.tmp EXCEPT ![t] = Missing] /\ A = [files.at EXCEPT ![h] = t]
    OBVIOUS
  <1>2. T \in [Transfer -> {Missing, "partial", "whole"}] /\ A \in [Path -> Content]
    BY <1>1, FilesParts, Names
  <1>3. files' = [files EXCEPT !.at = A, !.tmp = T]
    BY <1>1
  <1>4. files' \in Files /\ files'.at = A /\ files'.tmp = T /\ files'.bak = files.bak
    BY <1>2, <1>3 DEF Files
  <1> QED BY <1>1, <1>4, FilesParts DEF Writes

\* The three steps that touch a backup.
LEMMA WritesBackup ==
  ASSUME files \in Files, NEW t \in Transfer, NEW h \in Path,
         NEW a \in Content, NEW w \in Content,
         \/ files' = [files EXCEPT !.bak[h][t] = w, !.at[h] = a]
         \/ files' = [files EXCEPT !.at[h] = a, !.bak[h][t] = w]
         \/ files' = [files EXCEPT !.bak[h][t] = w] /\ a = files.at[h]
  PROVE  Writes(t, h, a, files.tmp[t], w)
  <1>1. PICK A, R, B : /\ A = [files.at EXCEPT ![h] = a]
                       /\ R = [files.bak[h] EXCEPT ![t] = w]
                       /\ B = [files.bak EXCEPT ![h] = R]
    OBVIOUS
  <1>2. A \in [Path -> Content] /\ R \in [Transfer -> Content]
    BY <1>1, FilesParts
  <1>3. B \in [Path -> [Transfer -> Content]]
    BY <1>1, <1>2, FilesParts
  <1>4. [files EXCEPT !.bak[h][t] = w] = [files EXCEPT !.bak = B]
    BY <1>1
  <1>5. files' = [files EXCEPT !.at = A, !.bak = B]
    <2>1. CASE files' = [files EXCEPT !.bak[h][t] = w, !.at[h] = a]
      BY <1>1, <2>1 DEF Files
    <2>2. CASE files' = [files EXCEPT !.at[h] = a, !.bak[h][t] = w]
      BY <1>1, <2>2 DEF Files
    <2>3. CASE files' = [files EXCEPT !.bak[h][t] = w] /\ a = files.at[h]
      <3>1. A = files.at
        BY <1>1, <2>3, FilesParts
      <3> QED BY <1>4, <2>3, <3>1 DEF Files
    <2> QED BY <2>1, <2>2, <2>3
  <1>6. files' \in Files /\ files'.at = A /\ files'.tmp = files.tmp /\ files'.bak = B
    BY <1>2, <1>3, <1>5 DEF Files
  <1>7. \A p \in Path, u \in Transfer :
          B[p][u] = IF p = h /\ u = t THEN w ELSE files.bak[p][u]
    BY <1>1, FilesParts
  <1>8. \A p \in Path : A[p] = IF p = h THEN a ELSE files.at[p]
    BY <1>1, FilesParts
  <1> QED BY <1>6, <1>7, <1>8, FilesParts DEF Writes

\* A step of transfer t, and what it leaves to the session and the page.
Move(t, h, y, a, v, w) ==
  /\ task' = [task EXCEPT ![t] = y] /\ y \in Tasks
  /\ Writes(t, h, a, v, w)
  /\ scenario' = scenario /\ net' \in Nets
  /\ net'.up => net.up
  /\ net'.faults = 0 => net.faults = 0 /\ net'.up = net.up

Beside ==
  /\ control' \in Controls /\ waiting' \in Seq(Transfer) /\ session' = session
  /\ page' \in Pages /\ page'.events = page.events /\ page'.rows = page.rows

\* Whatever depends on the scenario only stays what it is.
LEMMA Frozen ==
  ASSUME scenario' = scenario
  PROVE  /\ Tasks' = Tasks /\ Planned' = Planned /\ Commands' = Commands
         /\ \A t : Paths(t)' = Paths(t) /\ OfPath(t)' = OfPath(t)
         /\ \A t, n : Before(t, n)' = Before(t, n)
  <1>1. Planned' = Planned /\ Tasks' = Tasks /\ \A t : Paths(t)' = Paths(t)
    BY DEF Planned, Tasks, Paths
  <1> QED BY <1>1 DEF Commands, OfPath, Before

\* What a task owns depends on its paths only.
LEMMA KemptLater ==
  ASSUME scenario' = scenario, NEW t \in Transfer
  PROVE  Own(t)' <=> Kempt(t, task'[t], files', net')
  BY Frozen DEF Own, Kempt, Course, Free, Tidy

\* A task whose names are not touched keeps what it owns.
LEMMA KemptStays ==
  ASSUME scenario \in Scenarios, scenario' = scenario, NEW u \in Transfer, Own(u),
         task'[u] = task[u], files'.tmp[u] = files.tmp[u],
         \A p \in Path : files'.bak[p][u] = files.bak[p][u],
         net'.faults = 0 => net.faults = 0
  PROVE  Own(u)'
  <1>1. Course(u, task'[u]) /\ (task'[u].holds => task'[u].at \in Working \cup {"gate", "end"})
    BY DEF Own, Kempt
  <1>2. Free(u, task'[u], files')
    BY PathsLemma DEF Own, Kempt, Free
  <1>3. net'.faults = 0 => Tidy(u, task'[u], files')
    BY DEF Own, Kempt, Tidy
  <1> QED BY <1>1, <1>2, <1>3, KemptLater DEF Kempt

\* A step of a task that neither begins nor says that it has ended.
LEMMA MoveKeeps ==
  ASSUME Inv, NEW t \in Transfer, NEW h, NEW y, NEW a, NEW v, NEW w,
         Move(t, h, y, a, v, w), Beside,
         task[t].at # "none", y.at # "none", Kempt(t, y, files', net')
  PROVE  Inv'
  <1>1. /\ scenario \in Scenarios /\ task \in [Transfer -> Tasks] /\ net \in Nets
        /\ session \in [at : {"open", "closing", "closed"}, commands : Seq(Commands)]
        /\ page \in Pages
    BY Types DEF Inv
  <1>2. /\ task' \in [Transfer -> Tasks] /\ task'[t] = y
        /\ \A u \in Transfer : u # t => task'[u] = task[u]
    BY <1>1 DEF Move
  <1>3. TypeInv'
    BY <1>1, <1>2, Frozen, TypesLater DEF Move, Beside, Writes
  <1>4. \A u \in Transfer : Own(u)'
    <2>1. ASSUME NEW u \in Transfer, u # t
          PROVE  Own(u)'
      <3>1. files'.tmp[u] = files.tmp[u] /\ \A p \in Path : files'.bak[p][u] = files.bak[p][u]
        BY <2>1 DEF Move, Writes
      <3> QED BY <1>1, <1>2, <2>1, <3>1, KemptStays DEF Inv, Move
    <2>2. Own(t)'
      BY <1>2, KemptLater DEF Move
    <2> QED BY <2>1, <2>2
  <1>5. QueuedOnce'
    <2>1. \A i \in DOMAIN session.commands : session.commands[i].about \in Transfer
      <3>1. \A i \in DOMAIN session.commands : session.commands[i] \in Commands
        BY <1>1, LenProperties, ElementOfSeq
      <3>2. Planned \subseteq Transfer
        BY <1>1, SftpAssumption, LenProperties, ElementOfSeq DEF Planned
      <3> QED BY <3>1, <3>2 DEF Commands
    <2>2. \A u \in Transfer : task[u].at = "none" => task'[u].at = "none"
      BY <1>2
    <2> QED BY <2>1, <2>2 DEF Inv, QueuedOnce, Beside
  <1>6. Announced'
    <2>1. \A i \in DOMAIN page.events : page.events[i].about \in Transfer
      <3>1. page.events \in Seq(Event)
        BY <1>1 DEF Pages
      <3>2. \A i \in DOMAIN page.events : page.events[i] \in Event
        BY <3>1, LenProperties, ElementOfSeq
      <3> QED BY <3>2 DEF Event
    <2>2. \A u \in Transfer : task[u].at # "none" <=> task'[u].at # "none"
      BY <1>2
    <2> QED BY <2>1, <2>2 DEF Inv, Announced, Beside
  <1>7. net'.faults = 0 => net'.up
    BY DEF Inv, Move
  <1> QED BY <1>3, <1>4, <1>5, <1>6, <1>7 DEF Inv
\* Where a task is at work.
LEMMA HereLemma ==
  ASSUME scenario \in Scenarios, NEW t \in Transfer, Own(t),
         task[t].at \in Gated \cup Working \cup {"end"}
  PROVE  /\ task[t].file \in DOMAIN Paths(t) /\ Here(t) = Paths(t)[task[t].file]
         /\ Here(t) \in Path /\ Here(t) \in OfPath(t)
  <1>1. task[t].file \in DOMAIN Paths(t)
    BY DEF Own, Kempt, Course
  <1> QED BY <1>1, BeforeLemma DEF Here

\* Covered and Single after a step of a task.
LEMMA CoveredStep ==
  ASSUME task \in [Transfer -> Tasks], Covered, NEW t \in Transfer,
         NEW h, NEW y, NEW a, NEW v, NEW w, Move(t, h, y, a, v, w), Here(t) = h,
         y.at = "unbackup" => y.file = task[t].file /\ a \in Transfer,
         \/ a \in Transfer
         \/ a = files.at[h] /\ (w = files.bak[h][t] \/ task[t].at = "unbackup")
         \/ /\ {a, w} = {files.at[h], files.bak[h][t]}
            /\ task[t].at # "unbackup"
  PROVE  Covered'
  <1>1. /\ task'[t] = y /\ \A u \in Transfer : u # t => task'[u] = task[u]
        /\ \A u : Paths(u)' = Paths(u)
    BY Frozen DEF Move
  <1>2. \A u \in Transfer, p \in Path :
          u # t => (Spare(u, p)' <=> Spare(u, p))
    BY <1>1 DEF Spare, Here
  <1>3. \A p \in Path : Spare(t, p)' => p = h /\ a \in Transfer
    BY <1>1 DEF Spare, Here
  <1>4. /\ h \in Path
        /\ \A p \in Path : files'.at[p] = IF p = h THEN a ELSE files.at[p]
        /\ \A p \in Path, u \in Transfer :
             files'.bak[p][u] = IF p = h /\ u = t THEN w ELSE files.bak[p][u]
    BY DEF Move, Writes
  <1>5. ASSUME NEW p \in Path, NEW z \in Transfer, Spare(z, p)'
        PROVE  files'.at[p] \in Transfer
               \/ \E u \in Transfer : ~Spare(u, p)' /\ files'.bak[p][u] \in Transfer
    <2>1. CASE p = h /\ a \in Transfer
      BY <1>4, <2>1
    <2>2. CASE ~(p = h /\ a \in Transfer)
      <3>1. z # t /\ Spare(z, p)
        BY <1>2, <1>3, <1>5, <2>2
      <3>2. \/ files.at[p] \in Transfer
            \/ \E u \in Transfer : ~Spare(u, p) /\ files.bak[p][u] \in Transfer
        BY <3>1 DEF Covered
      <3>3. ~Spare(t, p)'
        BY <1>3, <2>2
      <3>4. CASE p # h
        BY <1>2, <1>4, <3>2, <3>3, <3>4
      <3>5. CASE p = h /\ a = files.at[h] /\ (w = files.bak[h][t] \/ task[t].at = "unbackup")
        <4>1. CASE files.at[p] \in Transfer
          BY <1>4, <3>5, <4>1
        <4>2. CASE \E u \in Transfer : ~Spare(u, p) /\ files.bak[p][u] \in Transfer
          <5>1. PICK u \in Transfer : ~Spare(u, p) /\ files.bak[p][u] \in Transfer
            BY <4>2
          <5>2. u = t => task[t].at # "unbackup"
            BY <3>5, <5>1 DEF Spare
          <5>3. files'.bak[p][u] = files.bak[p][u]
            BY <1>4, <3>5, <5>2
          <5>4. ~Spare(u, p)'
            BY <1>2, <3>3, <5>1
          <5> QED BY <5>1, <5>3, <5>4
        <4> QED BY <3>2, <4>1, <4>2
      <3>6. CASE /\ p = h /\ {a, w} = {files.at[h], files.bak[h][t]}
                 /\ task[t].at # "unbackup"
        <4>1. files'.at[p] = a /\ files'.bak[p][t] = w
          BY <1>4, <3>6
        <4>2. CASE files.at[p] \in Transfer
          BY <3>3, <3>6, <4>1, <4>2
        <4>3. CASE \E u \in Transfer : ~Spare(u, p) /\ files.bak[p][u] \in Transfer
          <5>1. PICK u \in Transfer : ~Spare(u, p) /\ files.bak[p][u] \in Transfer
            BY <4>3
          <5>2. CASE u = t
            BY <3>3, <3>6, <4>1, <5>1, <5>2
          <5>3. CASE u # t
            BY <1>2, <1>4, <5>1, <5>3
          <5> QED BY <5>2, <5>3
        <4> QED BY <3>2, <4>2, <4>3
      <3> QED BY <2>2, <3>4, <3>5, <3>6
    <2> QED BY <2>1, <2>2
  <1> QED BY <1>5 DEF Covered

\* The one task that replaces a file on a server that does it by renaming stays the
\* only one.
LEMMA SingleStep ==
  ASSUME Inv, Single, NEW t \in Transfer,
         NEW h, NEW y, NEW a, NEW v, NEW w, Move(t, h, y, a, v, w), Here(t) = h,
         scenario.replaces /\ net'.up /\ y.at \in Fixing =>
           /\ net'.faults # 0 /\ Restores(t)'
           /\ \A u \in Transfer : task[u].at \in Fixing => u = t,
         a \in Transfer \/ a = files.at[h] \/ task[t].at \in Fixing
  PROVE  Single'
  <1> task \in [Transfer -> Tasks]
    BY Types DEF Inv
  <1>1. /\ task'[t] = y /\ \A u \in Transfer : u # t => task'[u] = task[u]
        /\ \A u : Paths(u)' = Paths(u)
        /\ scenario' = scenario /\ (net'.up => net.up)
        /\ net'.faults = 0 => net.faults = 0
    BY Frozen DEF Move
  <1>2. /\ \A p \in Path : files'.at[p] = IF p = h THEN a ELSE files.at[p]
        /\ \A u \in Transfer : u # t => files'.tmp[u] = files.tmp[u]
        /\ \A p, u : p \in Path /\ u \in Transfer /\ u # t => files'.bak[p][u] = files.bak[p][u]
        /\ h \in Path
    BY DEF Move, Writes
  <1>3. SUFFICES ASSUME scenario.replaces, net'.up, NEW u \in Transfer,
                        task'[u].at \in Fixing
                 PROVE  /\ net'.faults # 0 /\ Restores(u)'
                        /\ \A z \in Transfer : task'[z].at \in Fixing => z = u
    BY <1>1 DEF Single
  <1>4. CASE u = t
    BY <1>1, <1>3, <1>4
  <1>5. CASE u # t
    <2>1. task[u].at \in Fixing /\ task'[u] = task[u]
      BY <1>1, <1>3, <1>5
    <2>2. /\ net.faults # 0 /\ Restores(u)
          /\ \A z \in Transfer : task[z].at \in Fixing => z = u
      BY <1>1, <1>3, <2>1 DEF Single
    <2>3. y.at \notin Fixing
      BY <1>3, <1>5, <2>1
    <2>4. \A z \in Transfer : task'[z].at \in Fixing => z = u
      BY <1>1, <2>2, <2>3
    <2>5. a \in Transfer \/ a = files.at[h]
      BY <1>5, <2>2
    <2>6. Here(u)' = Here(u) /\ files'.tmp[u] = files.tmp[u]
      BY <1>1, <1>2, <1>5 DEF Here
    <2>7. Here(u) \in Path
      BY <2>1, HereLemma, Types DEF Inv, Fixing, Working
    <2>8. Restores(u)'
      <3>1. files'.bak[Here(u)][u] = files.bak[Here(u)][u]
        BY <1>2, <1>5, <2>7
      <3>2. files.at[Here(u)] \in Transfer => files'.at[Here(u)] \in Transfer
        BY <1>2, <2>5, <2>7
      <3>3. /\ task'[u].at = "rollback" => files'.tmp[u] = Missing
            /\ files'.tmp[u] = Missing =>
                 IF task'[u].at \in {"inspect", "backup"} THEN files'.at[Here(u)] \in Transfer
                 ELSE files'.bak[Here(u)][u] \in Transfer
        BY <2>1, <2>2, <2>6, <3>1, <3>2 DEF Restores, At
      <3> QED BY <2>6, <3>3 DEF Restores, At
    <2> QED BY <1>1, <2>2, <2>4, <2>8
  <1> QED BY <1>4, <1>5
KeptStep == Kept!Next \/ UNCHANGED <<Goals, Saved, Brought, Told>>

\* The files kept at a destination, and what a step of a task makes of them.
LEMMA SavedLemma ==
  ASSUME NEW t \in Transfer, NEW h, NEW y, NEW a, NEW v, NEW w, Move(t, h, y, a, v, w)
  PROVE  LET O == {files.bak[h][u] : u \in Transfer \ {t}} IN
         /\ Saved[h] = ({files.at[h], files.bak[h][t]} \cup O) \ {Missing}
         /\ Saved'[h] = ({a, w} \cup O) \ {Missing}
         /\ Saved' = [Saved EXCEPT ![h] = Saved'[h]]
         /\ h \in Path
  <1> DEFINE O == {files.bak[h][u] : u \in Transfer \ {t}}
  <1>1. /\ h \in Path
        /\ \A p \in Path : files'.at[p] = IF p = h THEN a ELSE files.at[p]
        /\ \A p \in Path, u \in Transfer :
             files'.bak[p][u] = IF p = h /\ u = t THEN w ELSE files.bak[p][u]
    BY DEF Move, Writes
  <1>2. Saved[h] = ({files.at[h], files.bak[h][t]} \cup O) \ {Missing}
    <2>1. {files.bak[h][u] : u \in Transfer} = {files.bak[h][t]} \cup O
      OBVIOUS
    <2> QED BY <1>1, <2>1 DEF Saved
  <1>3. Saved'[h] = ({a, w} \cup O) \ {Missing}
    <2>1. {files'.bak[h][u] : u \in Transfer} = {w} \cup O
      BY <1>1
    <2>2. Saved'[h] = ({files'.at[h]} \cup {files'.bak[h][u] : u \in Transfer}) \ {Missing}
      BY <1>1 DEF Saved
    <2> QED BY <1>1, <2>1, <2>2
  <1>4. \A p \in Path : p # h => Saved'[p] = Saved[p]
    BY <1>1 DEF Saved
  <1>5. Saved' = [Saved EXCEPT ![h] = Saved'[h]]
    <2>1. Saved' = [p \in Path |-> Saved'[p]] /\ Saved = [p \in Path |-> Saved[p]]
      BY DEF Saved
    <2> QED BY <1>4, <2>1
  <1> QED BY <1>1, <1>2, <1>3, <1>5

\* What a task has brought and what was told of it, after a step that does not
\* tell.
LEMMA SilentLemma ==
  ASSUME task \in [Transfer -> Tasks], NEW t \in Transfer,
         NEW h, NEW y, NEW a, NEW v, NEW w, Move(t, h, y, a, v, w),
         task[t].at # "done", y.at # "done"
  PROVE  /\ Goals' = Goals /\ Told' = Told /\ Told[t] = "nothing"
         /\ Brought' = [Brought EXCEPT ![t] = y.brought]
         /\ Brought[t] = task[t].brought
         /\ y.brought = task[t].brought => Brought' = Brought
  <1>1. /\ task'[t] = y /\ \A u \in Transfer : u # t => task'[u] = task[u]
        /\ Goals' = Goals
    BY Frozen DEF Move, Goals
  <1>2. Told' = Told /\ Told[t] = "nothing"
    <2>1. \A u \in Transfer : (u # t => task'[u] = task[u])
                              /\ (u = t => task[u].at # "done" /\ task'[u].at # "done")
      BY <1>1
    <2>2. Told' = [u \in Transfer |->
                     IF task'[u].at # "done" THEN "nothing"
                     ELSE Word[task'[u].outcome]]
      BY DEF Told
    <2> QED BY <2>1, <2>2 DEF Told
  <1>3. /\ Brought' = [Brought EXCEPT ![t] = y.brought]
        /\ Brought[t] = task[t].brought
        /\ y.brought = task[t].brought => Brought' = Brought
    BY <1>1 DEF Brought
  <1> QED BY <1>1, <1>2, <1>3

\* A step that leaves the same files at a destination and in its backups does nothing
\* that FileReplacement tells of.
LEMMA MoveStutters ==
  ASSUME task \in [Transfer -> Tasks], NEW t \in Transfer,
         NEW h, NEW y, NEW a, NEW v, NEW w, Move(t, h, y, a, v, w),
         task[t].at # "done", y.at # "done", y.brought = task[t].brought,
         {a, w} = {files.at[h], files.bak[h][t]}
  PROVE  KeptStep
  <1>1. Saved' = [Saved EXCEPT ![h] = Saved[h]] /\ h \in Path
    <2>1. /\ Saved[h] = ({files.at[h], files.bak[h][t]}
                          \cup {files.bak[h][u] : u \in Transfer \ {t}}) \ {Missing}
          /\ Saved'[h] = ({a, w} \cup {files.bak[h][u] : u \in Transfer \ {t}}) \ {Missing}
          /\ Saved' = [Saved EXCEPT ![h] = Saved'[h]]
          /\ h \in Path
      BY SavedLemma
    <2>2. Saved'[h] = Saved[h]
      BY <2>1
    <2> QED BY <2>1, <2>2
  <1>2. Saved' = Saved
    BY <1>1 DEF Saved
  <1> QED BY <1>2, SilentLemma DEF KeptStep

\* A step that puts the temporary file in place is a Bring.
LEMMA MoveBrings ==
  ASSUME task \in [Transfer -> Tasks], NEW t \in Transfer,
         NEW h, NEW y, NEW v, NEW w, Move(t, h, y, t, v, w), w = files.bak[h][t],
         task[t].at # "done", y.at # "done", h \in OfPath(t),
         y.brought = task[t].brought \/ y.brought = task[t].brought \cup {h}
  PROVE  KeptStep
  <1> DEFINE O == {files.bak[h][u] : u \in Transfer \ {t}}
             S == ({w} \cup O) \ {Missing}
  <1>1. /\ Saved[h] = ({files.at[h], w} \cup O) \ {Missing}
        /\ Saved'[h] = ({t, w} \cup O) \ {Missing}
        /\ Saved' = [Saved EXCEPT ![h] = Saved'[h]]
        /\ h \in Path
    BY SavedLemma
  <1>2. Saved'[h] = S \cup {t} /\ S \in SUBSET Saved[h]
    BY <1>1, Names
  <1>3. \E X \in SUBSET Saved[h] : Saved' = [Saved EXCEPT ![h] = X \cup {t}]
    BY <1>1, <1>2
  <1>4. /\ Goals' = Goals /\ Told' = Told /\ Told[t] = "nothing"
        /\ Brought' = [Brought EXCEPT ![t] = y.brought]
        /\ Brought[t] = task[t].brought
        /\ y.brought = task[t].brought => Brought' = Brought
    BY SilentLemma
  <1>5. Brought' \in {Brought, [Brought EXCEPT ![t] = @ \cup {h}]}
    BY <1>4
  <1>6. Kept!Bring(t, h)
    BY <1>3, <1>4, <1>5 DEF Kept!Bring
  <1>7. h \in Goals[t]
    BY DEF Goals
  <1> QED BY <1>6, <1>7 DEF KeptStep, Kept!Next

\* What is found at h and in the backup of t is the same, but for x.
Loses(t, h, a, w, x) ==
  /\ {a, w} \subseteq {files.at[h], files.bak[h][t], Missing}
  /\ {files.at[h], files.bak[h][t]} \ {x} \subseteq {a, w}

\* A step after which a file is found no more, but a transferred one is, is a Forget.
LEMMA MoveForgets ==
  ASSUME task \in [Transfer -> Tasks], NEW t \in Transfer,
         NEW h, NEW y, NEW a, NEW v, NEW w, Move(t, h, y, a, v, w),
         task[t].at # "done", y.at # "done", y.brought = task[t].brought,
         NEW x, Loses(t, h, a, w, x), Saved'[h] \cap Transfer # {}
  PROVE  KeptStep
  <1>1. /\ Saved[h] = ({files.at[h], files.bak[h][t]}
                        \cup {files.bak[h][u] : u \in Transfer \ {t}}) \ {Missing}
        /\ Saved'[h] = ({a, w} \cup {files.bak[h][u] : u \in Transfer \ {t}}) \ {Missing}
        /\ Saved' = [Saved EXCEPT ![h] = Saved'[h]]
        /\ h \in Path
    BY SavedLemma
  <1>2. Goals' = Goals /\ Told' = Told /\ Brought' = Brought
    BY SilentLemma
  <1>3. CASE Saved'[h] = Saved[h]
    <2>1. Saved' = Saved
      BY <1>1, <1>3 DEF Saved
    <2> QED BY <1>2, <2>1 DEF KeptStep
  <1>4. CASE Saved'[h] # Saved[h]
    <2>1. x \in Saved[h] /\ Saved'[h] = Saved[h] \ {x}
      <3>1. PICK O : O = {files.bak[h][u] : u \in Transfer \ {t}}
        OBVIOUS
      <3>2. PICK X, Y : X = {files.at[h], files.bak[h][t]} /\ Y = {a, w}
        OBVIOUS
      <3>3. Saved[h] = (X \cup O) \ {Missing} /\ Saved'[h] = (Y \cup O) \ {Missing}
        BY <1>1, <3>1, <3>2
      <3>4. Y \subseteq X \cup {Missing} /\ X \ {x} \subseteq Y
        BY <3>2 DEF Loses
      <3>5. \A z : z \in Saved'[h] => z \in Saved[h]
        BY <3>3, <3>4
      <3>6. \A z : z \in Saved[h] /\ z # x => z \in Saved'[h]
        BY <3>3, <3>4
      <3>7. x \in Saved[h] /\ x \notin Saved'[h]
        BY <1>4, <3>5, <3>6
      <3> QED BY <3>5, <3>6, <3>7
    <2>2. Saved' = [Saved EXCEPT ![h] = @ \ {x}]
      BY <1>1, <2>1
    <2>3. (Saved[h] \ {x}) \cap Transfer # {}
      BY <2>1
    <2>4. Kept!Forget(h)
      BY <1>2, <2>1, <2>2, <2>3 DEF Kept!Forget
    <2> QED BY <1>1, <2>4 DEF KeptStep, Kept!Next
  <1> QED BY <1>3, <1>4
TaskGoal == Inv' /\ (KeptInv => KeptInv' /\ KeptStep)

\* What is known of a task at work.
LEMMA Ready ==
  ASSUME Inv, NEW t \in Transfer, task[t].at \in Gated \cup Working \cup {"end"}
  PROVE  /\ scenario \in Scenarios /\ files \in Files /\ net \in Nets
         /\ task \in [Transfer -> Tasks] /\ task[t] \in Tasks
         /\ control \in Controls /\ waiting \in Seq(Transfer) /\ page \in Pages
         /\ Here(t) \in Path /\ Here(t) \in OfPath(t)
         /\ task[t].file \in DOMAIN Paths(t) /\ Here(t) = Paths(t)[task[t].file]
         /\ Kempt(t, task[t], files, net)
         /\ (net.faults = 0 => net.up) /\ net.faults \in Nat
  <1>1. TypeInv /\ Own(t)
    BY DEF Inv
  <1>2. /\ scenario \in Scenarios /\ files \in Files /\ net \in Nets
        /\ task \in [Transfer -> Tasks] /\ control \in Controls
        /\ waiting \in Seq(Transfer) /\ page \in Pages
    BY <1>1, Types
  <1>3. task[t] \in Tasks
    BY <1>2
  <1> QED BY <1>1, <1>2, <1>3, HereLemma DEF Own, Inv, Nets

\* A step of a task that touches nothing but its temporary file, and does not
\* begin to replace a file or say that it has ended.
LEMMA AsideStep ==
  ASSUME Inv, NEW t \in Transfer, task[t].at \in Gated \cup Working \cup {"end"},
         NEW y, NEW v, Move(t, Here(t), y, files.at[Here(t)], v, files.bak[Here(t)][t]),
         Beside, y.at \notin {"none", "done", "unbackup"} \cup Fixing,
         y.brought = task[t].brought, Kempt(t, y, files', net')
  PROVE  TaskGoal
  <1>1. task \in [Transfer -> Tasks] /\ task[t].at \notin {"none", "done"}
    BY Ready DEF Gated, Working
  <1>2. Inv'
    BY <1>1, MoveKeeps
  <1>3. ASSUME KeptInv
        PROVE  KeptInv' /\ KeptStep
    <2>1. Covered'
      BY <1>1, <1>3, CoveredStep DEF KeptInv
    <2>2. Single'
      BY <1>1, <1>3, SingleStep DEF KeptInv
    <2>3. KeptStep
      BY <1>1, MoveStutters
    <2>4. Keeps(scenario')
      BY <1>3 DEF KeptInv, Move
    <2> QED BY <2>1, <2>2, <2>3, <2>4 DEF KeptInv, Keeps
  <1> QED BY <1>2, <1>3 DEF TaskGoal

\* A task that goes on with the same file keeps what it owns.
LEMMA KemptAside ==
  ASSUME NEW t \in Transfer, NEW x, NEW y, Kempt(t, x, files, net), scenario \in Scenarios,
         files'.bak = files.bak, files'.tmp = files.tmp, net'.faults = 0 => net.faults = 0,
         y.file = x.file, y.brought = x.brought, y.then = x.then,
         \/ x.at \in Ahead \ {"install", "inspect", "backup"}
            /\ y.at \in Ahead \ {"install", "inspect", "backup"} /\ Stage(y) = Stage(x)
         \/ x.at \in Gated /\ y.at = "install" /\ x.then = "install"
         \/ x.at \in {"install", "inspect", "backup"} /\ y.at \in {"inspect", "backup"}
         \/ x.at \in Swapping /\ y.at \in Swapping,
         y.holds => y.at \in Working \cup {"gate"}
  PROVE  Kempt(t, y, files', net')
  <1>1. Course(t, y)
    BY DEF Kempt, Course, Stage, Ahead, Swapping, Placed, Gated, Working
  <1>2. Free(t, y, files')
    BY DEF Kempt, Free, Ahead, Swapping, Placed, Gated
  <1>3. ASSUME net.faults = 0
        PROVE  Tidy(t, y, files')
    <2>1. Tidy(t, x, files)
      BY <1>3 DEF Kempt
    <2> QED BY <2>1 DEF Tidy, Stage, Ahead, Swapping, Gated
  <1> QED BY <1>1, <1>2, <1>3 DEF Kempt

\* A task that gives its file up.
LEMMA KemptDiscards ==
  ASSUME NEW t \in Transfer, NEW x, NEW y, Kempt(t, x, files, net), scenario \in Scenarios,
         net'.faults = 0 => net.faults = 0,
         y.at = "discard", y.file = x.file, y.brought = x.brought,
         \/ y.outcome = "Failed"
         \/ /\ y.outcome = "Cancelled" /\ x.at \in Ahead
            /\ files'.bak = files.bak,
         x.file \in DOMAIN Paths(t), x.at \notin {"discard", "end", "done", "aborted"}
  PROVE  Kempt(t, y, files', net')
  <1>1. Course(t, y)
    BY BeforeLemma DEF Kempt, Course, Ahead, Swapping, Placed, Gated, Working, Terminal
  <1>2. Free(t, y, files')
    BY DEF Free, Ahead, Swapping, Placed, Gated
  <1>3. ASSUME net.faults = 0
        PROVE  Tidy(t, y, files')
    <2>1. Tidy(t, x, files)
      BY <1>3 DEF Kempt
    <2> QED BY <2>1 DEF Tidy, Stage, Ahead, Swapping, Gated
  <1> QED BY <1>1, <1>2, <1>3 DEF Kempt, Working

\* Steps that touch no file and no connection.
LEMMA MoveOnly ==
  ASSUME Inv, NEW t \in Transfer, task[t].at \in Gated \cup Working \cup {"end"},
         NEW y \in Tasks, task' = [task EXCEPT ![t] = y],
         UNCHANGED <<scenario, files, net>>
  PROVE  Move(t, Here(t), y, files.at[Here(t)], files.tmp[t], files.bak[Here(t)][t])
  BY Ready, WritesNothing DEF Move

\* A step on the answer to a request.
LEMMA MoveReplied ==
  ASSUME Inv, NEW t \in Transfer, task[t].at \in Gated \cup Working \cup {"end"},
         NEW y \in Tasks, task' = [task EXCEPT ![t] = y], scenario' = scenario,
         NEW can, NEW r, Answer(r, can), net' = r.net,
         NEW h, NEW a, NEW v, NEW w, Writes(t, h, a, v, w)
  PROVE  Move(t, h, y, a, v, w)
  BY Ready DEF Move, Answer

\* A step on a fault.
LEMMA MoveFaulted ==
  ASSUME Inv, NEW t \in Transfer, task[t].at \in Gated \cup Working \cup {"end"},
         NEW y \in Tasks, task' = [task EXCEPT ![t] = y], scenario' = scenario,
         net' = Fault,
         NEW h, NEW a, NEW v, NEW w, Writes(t, h, a, v, w)
  PROVE  /\ Move(t, h, y, a, v, w) /\ net'.faults # 0
  <1>1. net.faults \in Nat /\ net \in Nets
    BY Ready
  <1>2. net'.faults = net.faults + 1 /\ net'.up = net.up /\ net' \in Nets
    BY <1>1 DEF Fault, Nets
  <1> QED BY <1>1, <1>2 DEF Move
\* The task looks at its control.
LEMMA PassStep ==
  ASSUME Inv, NEW t \in Transfer, Pass(t)
  PROVE  TaskGoal
  <1>1. task[t].at = "gate" /\ task[t].at \in Gated \cup Working \cup {"end"}
    BY DEF Pass, At, Gated
  <1>2. /\ task[t] \in Tasks /\ scenario \in Scenarios /\ waiting \in Seq(Transfer)
        /\ Kempt(t, task[t], files, net) /\ task[t].file \in DOMAIN Paths(t)
        /\ control \in Controls /\ page \in Pages
    BY <1>1, Ready
  <1>3. UNCHANGED <<scenario, files, control, session, page, net>>
    BY DEF Pass
  <1>4. PICK y : /\ task' = [task EXCEPT ![t] = y] /\ y \in Tasks
                 /\ y.at \in {"end", "discard", "parked", "queued", task[t].then}
                 /\ y.file = task[t].file /\ y.brought = task[t].brought
                 /\ y.then = task[t].then
                 /\ y.at = "end" => y.outcome = "Cancelled" /\ task[t].then = "open"
                 /\ y.at = "discard" => y.outcome = "Cancelled"
                 /\ y.at \in {"end", "discard", "parked"} => ~y.holds
                 /\ y.at = "queued" => ~y.holds
                 /\ waiting' \in Seq(Transfer)
    <2>1. CASE control[t].cancelled
      <3>1. PICK y : y = [task[t] EXCEPT
                            !.at = IF task[t].then = "open" THEN "end" ELSE "discard",
                            !.outcome = "Cancelled", !.holds = FALSE]
        OBVIOUS
      <3>2. task' = [task EXCEPT ![t] = y] /\ waiting' = waiting
        BY <2>1, <3>1 DEF Pass
      <3>3. y \in Tasks /\ y.at = (IF task[t].then = "open" THEN "end" ELSE "discard")
            /\ y.outcome = "Cancelled" /\ y.holds = FALSE
            /\ y.file = task[t].file /\ y.brought = task[t].brought /\ y.then = task[t].then
        BY <1>2, <3>1 DEF Tasks, Terminal, Working
      <3> QED BY <1>2, <3>2, <3>3
    <2>2. CASE ~control[t].cancelled /\ control[t].paused
      <3>1. PICK y : y = [task[t] EXCEPT !.at = "parked", !.holds = FALSE]
        OBVIOUS
      <3>2. task' = [task EXCEPT ![t] = y] /\ waiting' = waiting
        BY <2>2, <3>1 DEF Pass
      <3>3. y \in Tasks /\ y.at = "parked" /\ y.holds = FALSE
            /\ y.file = task[t].file /\ y.brought = task[t].brought /\ y.then = task[t].then
        BY <1>2, <3>1 DEF Tasks, Gated
      <3> QED BY <1>2, <3>2, <3>3
    <2>3. CASE ~control[t].cancelled /\ ~control[t].paused /\ task[t].holds
      <3>1. PICK y : y = [task[t] EXCEPT !.at = task[t].then]
        OBVIOUS
      <3>2. task' = [task EXCEPT ![t] = y] /\ waiting' = waiting
        BY <2>3, <3>1 DEF Pass, Go
      <3>3. y \in Tasks /\ y.at = task[t].then /\ task[t].then \in {"open", "chunk", "install"}
            /\ y.file = task[t].file /\ y.brought = task[t].brought /\ y.then = task[t].then
        BY <1>2, <3>1 DEF Tasks, Working
      <3> QED BY <1>2, <3>2, <3>3
    <2>4. CASE ~control[t].cancelled /\ ~control[t].paused /\ ~task[t].holds
      <3>1. PICK y : y = [task[t] EXCEPT !.at = "queued"]
        OBVIOUS
      <3>2. task' = [task EXCEPT ![t] = y] /\ waiting' = Append(waiting, t)
        BY <2>4, <3>1 DEF Pass, Go
      <3>3. y \in Tasks /\ y.at = "queued" /\ ~y.holds
            /\ y.file = task[t].file /\ y.brought = task[t].brought /\ y.then = task[t].then
        BY <1>2, <2>4, <3>1 DEF Tasks, Gated
      <3>4. waiting' \in Seq(Transfer)
        BY <1>2, <3>2, AppendProperties
      <3> QED BY <3>2, <3>3, <3>4
    <2> QED BY <2>1, <2>2, <2>3, <2>4
  <1>5. Move(t, Here(t), y, files.at[Here(t)], files.tmp[t], files.bak[Here(t)][t])
    BY <1>1, <1>3, <1>4, MoveOnly
  <1>6. task[t].then \in {"open", "chunk", "install"}
    BY <1>2 DEF Tasks
  <1>7. Kempt(t, y, files', net')
    <2>1. CASE y.at = "end"
      <3>1. Course(t, y)
        BY <1>1, <1>2, <1>4, <2>1, BeforeLemma
        DEF Kempt, Course, Ahead, Swapping, Placed, Gated, Working, Terminal
      <3>2. Free(t, y, files')
        BY <2>1 DEF Free, Ahead, Swapping, Placed, Gated
      <3>3. net.faults = 0 => Tidy(t, y, files)
        BY <1>1, <1>2, <1>4, <2>1 DEF Kempt, Tidy, Stage, Gated, Swapping
      <3> QED BY <1>3, <1>4, <2>1, <3>1, <3>2, <3>3 DEF Kempt
    <2>2. CASE y.at = "discard"
      BY <1>1, <1>2, <1>3, <1>4, <2>2, KemptDiscards DEF Ahead, Gated
    <2>3. CASE y.at \in {"parked", "queued", task[t].then}
      <3>1. CASE y.at = "install"
        BY <1>1, <1>2, <1>3, <1>4, <1>6, <2>3, <3>1, KemptAside DEF Gated, Working
      <3>2. CASE y.at # "install"
        <4>1. /\ y.at \in Ahead \ {"install", "inspect", "backup"}
              /\ task[t].at \in Ahead \ {"install", "inspect", "backup"}
              /\ Stage(y) = Stage(task[t])
          BY <1>1, <1>4, <1>6, <2>3, <3>2 DEF Ahead, Gated, Stage
        <4>2. y.holds => y.at \in Working \cup {"gate"}
          BY <1>4, <1>6, <2>3 DEF Working
        <4>3. files'.bak = files.bak /\ files'.tmp = files.tmp
              /\ (net'.faults = 0 => net.faults = 0)
          BY <1>3
        <4> QED BY <1>2, <1>4, <4>1, <4>2, <4>3, KemptAside
      <3> QED BY <3>1, <3>2
    <2> QED BY <1>4, <2>1, <2>2, <2>3
  <1>8. Beside
    BY <1>2, <1>3, <1>4 DEF Beside
  <1>9. y.at \notin {"none", "done", "unbackup"} \cup Fixing
    BY <1>4, <1>6 DEF Fixing
  <1> QED BY <1>1, <1>4, <1>5, <1>7, <1>8, <1>9, AsideStep

\* A notification makes the task look at its control again.
LEMMA GateStep ==
  ASSUME Inv, NEW t \in Transfer, task[t].at \in {"parked", "queued"},
         NEW b \in BOOLEAN, task' = [task EXCEPT ![t].at = "gate", ![t].holds = b],
         UNCHANGED <<scenario, files, net>>, Beside
  PROVE  TaskGoal
  <1>1. task[t].at \in Gated \cup Working \cup {"end"}
    BY DEF Gated
  <1>2. /\ task[t] \in Tasks /\ scenario \in Scenarios /\ task \in [Transfer -> Tasks]
        /\ Kempt(t, task[t], files, net)
    BY <1>1, Ready
  <1>3. PICK y : y = [task[t] EXCEPT !.at = "gate", !.holds = b]
    OBVIOUS
  <1>4. task' = [task EXCEPT ![t] = y]
    BY <1>2, <1>3
  <1>5. /\ y \in Tasks /\ y.at = "gate" /\ y.then = task[t].then
        /\ y.file = task[t].file /\ y.brought = task[t].brought
    BY <1>2, <1>3 DEF Tasks, Gated
  <1>6. Move(t, Here(t), y, files.at[Here(t)], files.tmp[t], files.bak[Here(t)][t])
    BY <1>1, <1>4, <1>5, MoveOnly
  <1>7. Kempt(t, y, files', net')
    <2>1. /\ y.at \in Ahead \ {"install", "inspect", "backup"}
          /\ task[t].at \in Ahead \ {"install", "inspect", "backup"}
          /\ Stage(y) = Stage(task[t])
      BY <1>5 DEF Ahead, Gated, Stage
    <2> QED BY <1>2, <1>5, <2>1, KemptAside
  <1>8. y.at \notin {"none", "done", "unbackup"} \cup Fixing
    BY <1>5 DEF Fixing
  <1> QED BY <1>1, <1>5, <1>6, <1>7, <1>8, AsideStep

\* A notification is taken.
LEMMA Noted ==
  ASSUME control \in Controls, NEW t \in Transfer,
         control' = [control EXCEPT ![t].note = FALSE]
  PROVE  control' \in Controls
  <1>1. PICK c : c = [control[t] EXCEPT !.note = FALSE]
    OBVIOUS
  <1>2. control' = [control EXCEPT ![t] = c]
    BY <1>1
  <1> QED BY <1>1, <1>2 DEF Controls

\* A step that leaves every task, file and row as it is.
Idles ==
  /\ UNCHANGED <<scenario, files, task>>
  /\ control' \in Controls /\ waiting' \in Seq(Transfer)
  /\ net' \in Nets /\ (net'.up => net.up)
  /\ net'.faults = 0 => net.faults = 0 /\ net'.up = net.up

\* A step that leaves tasks and files alone keeps what the refinement rests on.
LEMMA IdleKept ==
  ASSUME Idles
  PROVE  KeptInv => KeptInv' /\ KeptStep
  <1>1. KeptStep
    BY DEF Idles, KeptStep, Goals, Saved, Brought, Told, OfPath, Paths
  <1>2. Covered => Covered'
    BY DEF Idles, Covered, Spare, Here, Paths
  <1>3. Single => Single'
    BY DEF Idles, Single, Restores, At, Here, Paths
  <1> QED BY <1>1, <1>2, <1>3 DEF Idles, KeptInv, Keeps

\* A step that leaves tasks and files alone keeps what each task owns.
LEMMA IdleOwn ==
  ASSUME Inv, Idles
  PROVE  /\ \A t \in Transfer : Own(t)'
         /\ net'.faults = 0 => net'.up
         /\ page' \in Pages /\ session' \in [at : {"open", "closing", "closed"}, commands : Seq(Commands)]
              => TypeInv'
  <1>1. /\ scenario \in Scenarios /\ files \in Files /\ task \in [Transfer -> Tasks]
    BY Types DEF Inv
  <1>2. \A t \in Transfer : Own(t)'
    BY <1>1, KemptStays DEF Idles, Inv
  <1>3. net'.faults = 0 => net'.up
    BY DEF Inv, Idles
  <1>4. Tasks' = Tasks /\ Commands' = Commands
    BY Frozen DEF Idles
  <1> QED BY <1>1, <1>2, <1>3, <1>4, TypesLater DEF Idles

\* A parked task is notified.
LEMMA WakeStep ==
  ASSUME Inv, NEW t \in Transfer, Wake(t)
  PROVE  TaskGoal
  <1>1. task[t].at = "parked" /\ task[t].at \in Gated \cup Working \cup {"end"}
    BY DEF Wake, At, Gated
  <1>2. /\ task[t] \in Tasks /\ task \in [Transfer -> Tasks] /\ control \in Controls
        /\ waiting \in Seq(Transfer) /\ page \in Pages /\ net \in Nets
        /\ Kempt(t, task[t], files, net)
    BY <1>1, Ready
  <1>3. UNCHANGED <<scenario, files, waiting, session, page, net>> /\ control' \in Controls
    BY <1>2, Noted DEF Wake
  <1>4. CASE Go(t, "gate")
    <2>1. task[t].holds = FALSE
      BY <1>1, <1>2 DEF Kempt, Working, Tasks
    <2>2. [task[t] EXCEPT !.at = "gate"] = [task[t] EXCEPT !.at = "gate", !.holds = FALSE]
      BY <1>2, <2>1 DEF Tasks
    <2>3. task' = [task EXCEPT ![t].at = "gate", ![t].holds = FALSE]
      BY <1>2, <1>4, <2>2 DEF Go
    <2> QED BY <1>1, <1>2, <1>3, <2>3, GateStep DEF Beside
  <1>5. CASE UNCHANGED task
    <2>1. Idles
      BY <1>2, <1>3, <1>5 DEF Idles
    <2>2. Inv'
      <3>1. TypeInv' /\ (\A u \in Transfer : Own(u)') /\ (net'.faults = 0 => net'.up)
        BY <1>2, <1>3, <2>1, IdleOwn, Types DEF Inv
      <3>2. QueuedOnce' /\ Announced'
        BY <1>3, <1>5 DEF Inv, QueuedOnce, Announced
      <3> QED BY <3>1, <3>2 DEF Inv
    <2> QED BY <2>1, <2>2, IdleKept DEF TaskGoal
  <1> QED BY <1>4, <1>5 DEF Wake

\* A queued task gets a permit.
LEMMA AcquireStep ==
  ASSUME Inv, NEW t \in Transfer, Acquire(t)
  PROVE  TaskGoal
  <1>1. task[t].at = "queued" /\ task[t].at \in Gated \cup Working \cup {"end"}
    BY DEF Acquire, At, Gated
  <1>2. control \in Controls /\ waiting \in Seq(Transfer) /\ page \in Pages
    BY <1>1, Ready
  <1>3. waiting' \in Seq(Transfer)
    BY <1>2, HeadTailProperties DEF Acquire
  <1>4. Beside
    BY <1>2, <1>3 DEF Beside, Acquire
  <1>5. task' = [task EXCEPT ![t].at = "gate", ![t].holds = TRUE]
        /\ UNCHANGED <<scenario, files, net>>
    BY DEF Acquire
  <1> QED BY <1>1, <1>4, <1>5, GateStep

\* A queued task is notified, and leaves the queue of the semaphore.
LEMMA InterruptStep ==
  ASSUME Inv, NEW t \in Transfer, Interrupt(t)
  PROVE  TaskGoal
  <1>1. task[t].at = "queued" /\ task[t].at \in Gated \cup Working \cup {"end"}
    BY DEF Interrupt, At, Gated
  <1>2. /\ task[t] \in Tasks /\ task \in [Transfer -> Tasks] /\ control \in Controls
        /\ waiting \in Seq(Transfer) /\ page \in Pages /\ Kempt(t, task[t], files, net)
    BY <1>1, Ready
  <1>3. waiting' \in Seq(Transfer)
    <2>1. PICK i \in DOMAIN waiting :
            waiting' = SubSeq(waiting, 1, i - 1) \o SubSeq(waiting, i + 1, Len(waiting))
      BY DEF Interrupt
    <2>2. /\ DOMAIN waiting = 1..Len(waiting) /\ Len(waiting) \in Nat
          /\ \A j \in 1..Len(waiting) : waiting[j] \in Transfer
      BY <1>2, LenProperties, ElementOfSeq
    <2>3. SubSeq(waiting, 1, i - 1) \in Seq(Transfer)
      BY <2>2, SubSeqProperties
    <2>4. SubSeq(waiting, i + 1, Len(waiting)) \in Seq(Transfer)
      BY <2>2, SubSeqProperties
    <2> QED BY <2>1, <2>3, <2>4, ConcatProperties
  <1>4. control' \in Controls
    BY <1>2, Noted DEF Interrupt
  <1>5. Beside
    BY <1>2, <1>3, <1>4 DEF Beside, Interrupt
  <1>6. task[t].holds = FALSE
    BY <1>1, <1>2 DEF Kempt, Working, Tasks
  <1>7. [task[t] EXCEPT !.at = "gate"] = [task[t] EXCEPT !.at = "gate", !.holds = FALSE]
    BY <1>2, <1>6 DEF Tasks
  <1>8. task' = [task EXCEPT ![t].at = "gate", ![t].holds = FALSE]
        /\ UNCHANGED <<scenario, files, net>>
    BY <1>2, <1>7 DEF Interrupt, Go
  <1> QED BY <1>1, <1>5, <1>8, GateStep
\* A step of a task at work leaves the session and the page's rows and events.
LEMMA WorkBeside ==
  ASSUME Inv, NEW t \in Transfer, Work, page' = page \/ Report(t)
  PROVE  Beside /\ scenario' = scenario
  <1>1. control \in Controls /\ waiting \in Seq(Transfer) /\ page \in Pages
    BY Types DEF Inv
  <1>2. page' = page \/ page' = [page EXCEPT !.progress = @ \cup {t}]
    BY DEF Report
  <1>3. page' \in Pages /\ page'.events = page.events /\ page'.rows = page.rows
    BY <1>1, <1>2 DEF Pages
  <1> QED BY <1>1, <1>3 DEF Beside, Work

\* A task that ends, or is about to, with a fault.
LEMMA KemptFails ==
  ASSUME NEW t \in Transfer, NEW y, y.at \in {"end", "release"}, y.outcome = "Failed",
         y.file \in DOMAIN Paths(t), net'.faults # 0
  PROVE  Kempt(t, y, files', net')
  BY DEF Kempt, Course, Free, Ahead, Swapping, Placed, Gated, Working, Terminal

\* The next file, or the end.
LEMMA AdvanceLemma ==
  ASSUME Inv, NEW t \in Transfer, task[t].at \in Working,
         NEW I \in SUBSET Path, Advance(t, I),
         task[t].brought \cup I = Before(t, task[t].file + 1)
  PROVE  \E y \in Tasks :
           /\ task' = [task EXCEPT ![t] = y] /\ y.holds = task[t].holds
           /\ y.brought = task[t].brought \cup I /\ y.file \in DOMAIN Paths(t)
           /\ \/ /\ y.at = "gate" /\ y.then = "open" /\ y.file = task[t].file + 1
                 /\ y.brought = Before(t, y.file)
              \/ /\ y.at = "end" /\ y.outcome = "Done" /\ y.brought = OfPath(t)
                 /\ y.file = task[t].file
  <1>1. /\ task[t] \in Tasks /\ scenario \in Scenarios /\ task[t].file \in DOMAIN Paths(t)
    BY Ready
  <1>2. /\ task[t].file < Len(Paths(t)) => task[t].file + 1 \in DOMAIN Paths(t)
        /\ ~(task[t].file < Len(Paths(t))) => Before(t, task[t].file + 1) = OfPath(t)
        /\ task[t].file \in Nat
    BY <1>1, BeforeLemma
  <1>3. PICK x : x = [task[t] EXCEPT !.brought = @ \cup I]
    OBVIOUS
  <1>4. /\ x \in Tasks /\ x.brought = task[t].brought \cup I /\ x.file = task[t].file
        /\ x.holds = task[t].holds
    BY <1>1, <1>3 DEF Tasks
  <1>5. CASE x.file < Len(Paths(t))
    <2> PICK n : n = x.file + 1
      OBVIOUS
    <2> n \in Nat /\ n = task[t].file + 1
      BY <1>2, <1>4
    <2>1. PICK z : z = [x EXCEPT !.at = "gate", !.then = "open", !.file = n]
      OBVIOUS
    <2>2. /\ z \in Tasks /\ z.at = "gate" /\ z.then = "open" /\ z.file = task[t].file + 1
          /\ z.brought = x.brought /\ z.holds = x.holds
      BY <1>2, <1>4, <2>1 DEF Tasks, Gated
    <2>3. PICK y : y = [z EXCEPT !.sent = 0]
      OBVIOUS
    <2>4. 0 \in 0..scenario.chunks
      BY <1>1, SftpAssumption
    <2>5. /\ y \in Tasks /\ y.at = "gate" /\ y.then = "open" /\ y.file = task[t].file + 1
          /\ y.brought = x.brought /\ y.holds = x.holds
      BY <2>2, <2>3, <2>4 DEF Tasks
    <2>6. y = [x EXCEPT !.at = "gate", !.then = "open", !.file = @ + 1, !.sent = 0]
      BY <2>1, <2>3 DEF Tasks
    <2>7. task' = [task EXCEPT ![t] = y]
      BY <1>3, <1>5, <2>6 DEF Advance
    <2> QED BY <1>2, <1>4, <1>5, <2>5, <2>7
  <1>6. CASE ~(x.file < Len(Paths(t)))
    <2>1. PICK y : y = [x EXCEPT !.at = "end", !.outcome = "Done"]
      OBVIOUS
    <2>2. /\ y \in Tasks /\ y.at = "end" /\ y.outcome = "Done" /\ y.file = task[t].file
          /\ y.brought = x.brought /\ y.holds = x.holds
      BY <1>2, <1>4, <2>1 DEF Tasks, Terminal
    <2>3. task' = [task EXCEPT ![t] = y]
      BY <1>3, <1>6, <2>1 DEF Advance
    <2> QED BY <1>1, <1>2, <1>4, <1>6, <2>2, <2>3
  <1> QED BY <1>5, <1>6

\* A task that goes on to the next file, or ends, keeps what it owns.
LEMMA KemptAdvances ==
  ASSUME Inv, NEW t \in Transfer, task[t].at \in {"install", "unbackup", "close"},
         NEW h, NEW y, NEW a, NEW v, NEW w, Writes(t, h, a, v, w), h = Here(t),
         y.file \in DOMAIN Paths(t),
         \/ /\ y.at = "gate" /\ y.then = "open" /\ y.file = task[t].file + 1
            /\ y.brought = Before(t, y.file)
         \/ y.at = "end" /\ y.outcome = "Done" /\ y.brought = OfPath(t),
         net'.faults = 0 => net.faults = 0 /\ v = Missing /\ w = Missing
  PROVE  Kempt(t, y, files', net')
  <1>1. task[t].at \in Gated \cup Working \cup {"end"}
    BY DEF Working
  <1>2. /\ Kempt(t, task[t], files, net) /\ task[t].file \in DOMAIN Paths(t)
        /\ scenario \in Scenarios /\ Here(t) = Paths(t)[task[t].file] /\ Here(t) \in Path
    BY <1>1, Ready
  <1>3. Course(t, y)
    BY DEF Course, Ahead, Swapping, Placed, Gated, Working, Terminal
  <1>4. /\ \A p \in Path, u \in Transfer :
             files'.bak[p][u] = IF p = h /\ u = t THEN w ELSE files.bak[p][u]
        /\ files'.tmp[t] = v
    BY DEF Writes
  <1>5. Free(t, y, files')
    <2>1. CASE y.at = "end"
      BY <2>1 DEF Free, Ahead, Swapping, Placed, Gated
    <2>2. CASE y.at = "gate" /\ y.file = task[t].file + 1
      <3>1. task[t].file \in Nat /\ \A i \in DOMAIN Paths(t) : i \in Nat
        BY <1>2, PathsLemma
      <3>2. ASSUME NEW i \in DOMAIN Paths(t), i > y.file \/ i = y.file
            PROVE  files'.bak[Paths(t)[i]][t] = Missing
        <4>1. i > task[t].file /\ i # task[t].file
          BY <2>2, <3>1, <3>2
        <4>2. files.bak[Paths(t)[i]][t] = Missing
          BY <1>2, <4>1 DEF Kempt, Free, Ahead, Swapping, Placed, Gated
        <4>3. Paths(t)[i] # h /\ Paths(t)[i] \in Path
          BY <1>2, <4>1, PathsLemma DEF Distinct
        <4> QED BY <1>4, <4>2, <4>3
      <3> QED BY <3>2 DEF Free
    <2> QED BY <2>1, <2>2
  <1>6. ASSUME net'.faults = 0
        PROVE  Tidy(t, y, files')
    <2>1. Tidy(t, task[t], files) /\ files'.tmp[t] = Missing
      BY <1>2, <1>4, <1>6 DEF Kempt
    <2>2. \A p \in Path : files.bak[p][t] = Missing \/ p = h
      BY <1>2, <2>1 DEF Tidy, Swapping
    <2>3. \A p \in Path : files'.bak[p][t] = Missing
      BY <1>4, <1>6, <2>2
    <2> QED BY <2>1, <2>3 DEF Tidy, Stage, Gated
  <1> QED BY <1>3, <1>5, <1>6 DEF Kempt, Working

\* A temporary file is created.
LEMMA OpenStep ==
  ASSUME Inv, NEW t \in Transfer, Open(t)
  PROVE  TaskGoal
  <1>1. task[t].at = "open" /\ task[t].at \in Gated \cup Working \cup {"end"}
    BY DEF Open, At, Working
  <1>2. /\ task[t] \in Tasks /\ files \in Files /\ Here(t) \in Path /\ net \in Nets
        /\ Kempt(t, task[t], files, net) /\ task[t].file \in DOMAIN Paths(t)
        /\ (net.faults = 0 => net.up) /\ scenario \in Scenarios
    BY <1>1, Ready
  <1>3. Beside /\ scenario' = scenario
    BY WorkBeside DEF Open
  <1>4. PICK r \in Replies(TRUE) :
          /\ files' = IF r.done THEN [files EXCEPT !.tmp[t] = "partial"] ELSE files
          /\ IF r.seen THEN Gate(t, "chunk") ELSE Ends(t, "Failed")
          /\ net' = r.net
    BY DEF Open
  <1>5. Answer(r, TRUE)
    BY <1>2, Answers
  <1>6. PICK v : Writes(t, Here(t), files.at[Here(t)], v, files.bak[Here(t)][t])
    BY <1>2, <1>4, WritesTemporary, WritesNothing
  <1>7. PICK y : y = IF r.seen THEN [task[t] EXCEPT !.at = "gate", !.then = "chunk"]
                     ELSE [task[t] EXCEPT !.at = "end", !.outcome = "Failed"]
    OBVIOUS
  <1>8. /\ y \in Tasks /\ y.file = task[t].file /\ y.brought = task[t].brought
        /\ r.seen => y.at = "gate" /\ y.then = "chunk" /\ y.holds = task[t].holds
        /\ ~r.seen => y.at = "end" /\ y.outcome = "Failed"
    BY <1>2, <1>7 DEF Tasks, Gated, Terminal
  <1>9. task' = [task EXCEPT ![t] = y]
    BY <1>4, <1>7 DEF Gate, Ends
  <1>10. Move(t, Here(t), y, files.at[Here(t)], v, files.bak[Here(t)][t])
    BY <1>1, <1>3, <1>4, <1>5, <1>6, <1>8, <1>9, MoveReplied
  <1>11. Kempt(t, y, files', net')
    <2>1. CASE ~r.seen
      <3>1. net'.faults # 0
        BY <1>2, <1>4, <1>5, <2>1 DEF Answer
      <3> QED BY <1>2, <1>8, <2>1, <3>1, KemptFails
    <2>2. CASE r.seen
      <3>1. Course(t, y)
        BY <1>1, <1>2, <1>8, <2>2
        DEF Kempt, Course, Ahead, Swapping, Placed, Gated, Working
      <3>2. \A p \in Path : files'.bak[p][t] = files.bak[p][t]
        BY <1>6 DEF Writes
      <3>3. Free(t, y, files')
        BY <1>1, <1>2, <1>8, <2>2, <3>2, PathsLemma
        DEF Kempt, Free, Ahead, Swapping, Placed, Gated
      <3>4. net'.faults = 0 => Tidy(t, y, files')
        BY <1>1, <1>2, <1>4, <1>5, <1>8, <2>2, <3>2
        DEF Kempt, Tidy, Stage, Swapping, Gated, Answer
      <3> QED BY <1>8, <2>2, <3>1, <3>3, <3>4 DEF Kempt
    <2> QED BY <2>1, <2>2
  <1>12. y.at \notin {"none", "done", "unbackup"} \cup Fixing
    BY <1>8 DEF Fixing
  <1> QED BY <1>1, <1>3, <1>8, <1>10, <1>11, <1>12, AsideStep

\* A chunk is moved.
LEMMA ChunkStep ==
  ASSUME Inv, NEW t \in Transfer, Chunk(t)
  PROVE  TaskGoal
  <1>1. task[t].at = "chunk" /\ task[t].at \in Gated \cup Working \cup {"end"}
    BY DEF Chunk, At, Working
  <1>2. /\ task[t] \in Tasks /\ files \in Files /\ Here(t) \in Path /\ net \in Nets
        /\ Kempt(t, task[t], files, net) /\ task[t].file \in DOMAIN Paths(t)
        /\ scenario \in Scenarios
    BY <1>1, Ready
  <1>3. PICK r \in Replies(TRUE) :
          /\ IF r.seen THEN task' = [task EXCEPT ![t].at = "gate", ![t].sent = @ + 1]
             ELSE Discards(t, "Failed")
          /\ IF r.seen THEN Report(t) ELSE UNCHANGED page
          /\ net' = r.net
    BY DEF Chunk
  <1>4. Beside /\ scenario' = scenario
    BY <1>3, WorkBeside DEF Chunk
  <1>5. Answer(r, TRUE)
    BY <1>2, Answers
  <1>6. files' = files /\ Writes(t, Here(t), files.at[Here(t)], files.tmp[t], files.bak[Here(t)][t])
    BY <1>2, WritesNothing DEF Chunk
  <1>7. PICK y : y = IF r.seen THEN [task[t] EXCEPT !.at = "gate", !.sent = @ + 1]
                     ELSE [task[t] EXCEPT !.at = "discard", !.outcome = "Failed"]
    OBVIOUS
  <1>8. task[t].sent + 1 \in 0..scenario.chunks
    BY <1>2, SftpAssumption DEF Chunk, Tasks
  <1>9. /\ y \in Tasks /\ y.file = task[t].file /\ y.brought = task[t].brought
        /\ r.seen => y.at = "gate" /\ y.then = task[t].then /\ y.holds = task[t].holds
        /\ ~r.seen => y.at = "discard" /\ y.outcome = "Failed"
    BY <1>2, <1>7, <1>8 DEF Tasks, Gated, Working, Terminal
  <1>10. task' = [task EXCEPT ![t] = y]
    BY <1>3, <1>7 DEF Discards
  <1>11. Move(t, Here(t), y, files.at[Here(t)], files.tmp[t], files.bak[Here(t)][t])
    BY <1>1, <1>3, <1>4, <1>5, <1>6, <1>9, <1>10, MoveReplied
  <1>12. net'.faults = 0 => net.faults = 0
    BY <1>3, <1>5 DEF Answer
  <1>13. Kempt(t, y, files', net')
    <2>1. CASE ~r.seen
      BY <1>1, <1>2, <1>9, <1>12, <2>1, KemptDiscards
    <2>2. CASE r.seen
      <3>1. Course(t, y)
        BY <1>1, <1>2, <1>9, <2>2
        DEF Kempt, Course, Ahead, Swapping, Placed, Gated, Working
      <3>2. Free(t, y, files')
        BY <1>1, <1>2, <1>6, <1>9, <2>2
        DEF Kempt, Free, Ahead, Swapping, Placed, Gated
      <3>3. ASSUME net'.faults = 0
            PROVE  Tidy(t, y, files')
        <4>1. Tidy(t, task[t], files) /\ task[t].then = "chunk"
          BY <1>1, <1>2, <1>12, <3>3 DEF Kempt, Course
        <4>2. Stage(y) = "chunk"
          BY <1>9, <2>2, <4>1 DEF Stage, Gated
        <4>3. \A p \in Path : files.bak[p][t] = Missing
          BY <1>1, <4>1 DEF Tidy, Swapping
        <4> QED BY <1>6, <4>2, <4>3 DEF Tidy
      <3> QED BY <1>9, <2>2, <3>1, <3>2, <3>3 DEF Kempt
    <2> QED BY <2>1, <2>2
  <1>14. y.at \notin {"none", "done", "unbackup"} \cup Fixing
    BY <1>9 DEF Fixing
  <1> QED BY <1>1, <1>4, <1>9, <1>11, <1>13, <1>14, AsideStep
\* The temporary file is whole.
LEMMA LastChunkStep ==
  ASSUME Inv, NEW t \in Transfer, LastChunk(t)
  PROVE  TaskGoal
  <1>1. task[t].at = "chunk" /\ task[t].at \in Gated \cup Working \cup {"end"}
    BY DEF LastChunk, At, Working
  <1>2. /\ task[t] \in Tasks /\ files \in Files /\ Here(t) \in Path /\ net \in Nets
        /\ Kempt(t, task[t], files, net) /\ task[t].file \in DOMAIN Paths(t)
        /\ scenario \in Scenarios
    BY <1>1, Ready
  <1>3. PICK r \in Replies(TRUE) :
          /\ files' = IF r.seen THEN [files EXCEPT !.tmp[t] = "whole"] ELSE files
          /\ IF r.seen THEN Gate(t, "install") ELSE Discards(t, "Failed")
          /\ net' = r.net
    BY DEF LastChunk
  <1>4. Beside /\ scenario' = scenario
    BY WorkBeside DEF LastChunk
  <1>5. Answer(r, TRUE)
    BY <1>2, Answers
  <1>6. PICK v : /\ Writes(t, Here(t), files.at[Here(t)], v, files.bak[Here(t)][t])
                 /\ r.seen => v = "whole"
    BY <1>2, <1>3, WritesTemporary, WritesNothing
  <1>7. PICK y : y = IF r.seen THEN [task[t] EXCEPT !.at = "gate", !.then = "install"]
                     ELSE [task[t] EXCEPT !.at = "discard", !.outcome = "Failed"]
    OBVIOUS
  <1>8. /\ y \in Tasks /\ y.file = task[t].file /\ y.brought = task[t].brought
        /\ r.seen => y.at = "gate" /\ y.then = "install" /\ y.holds = task[t].holds
        /\ ~r.seen => y.at = "discard" /\ y.outcome = "Failed"
    BY <1>2, <1>7 DEF Tasks, Gated, Working, Terminal
  <1>9. task' = [task EXCEPT ![t] = y]
    BY <1>3, <1>7 DEF Gate, Discards
  <1>10. Move(t, Here(t), y, files.at[Here(t)], v, files.bak[Here(t)][t])
    BY <1>1, <1>3, <1>4, <1>5, <1>6, <1>8, <1>9, MoveReplied
  <1>11. net'.faults = 0 => net.faults = 0
    BY <1>3, <1>5 DEF Answer
  <1>12. Kempt(t, y, files', net')
    <2>1. CASE ~r.seen
      BY <1>1, <1>2, <1>8, <1>11, <2>1, KemptDiscards
    <2>2. CASE r.seen
      <3>1. Course(t, y)
        BY <1>1, <1>2, <1>8, <2>2
        DEF Kempt, Course, Ahead, Swapping, Placed, Gated, Working
      <3>2. /\ \A p \in Path : files'.bak[p][t] = files.bak[p][t]
            /\ files'.tmp[t] = "whole"
        BY <1>6, <2>2 DEF Writes
      <3>3. Free(t, y, files')
        BY <1>1, <1>2, <1>8, <2>2, <3>2, PathsLemma
        DEF Kempt, Free, Ahead, Swapping, Placed, Gated
      <3>4. ASSUME net'.faults = 0
            PROVE  Tidy(t, y, files')
        <4>1. Tidy(t, task[t], files)
          BY <1>2, <1>11, <3>4 DEF Kempt
        <4>2. Stage(y) = "install"
          BY <1>8, <2>2 DEF Stage, Gated
        <4>3. \A p \in Path : files.bak[p][t] = Missing
          BY <1>1, <4>1 DEF Tidy, Swapping
        <4> QED BY <3>2, <4>2, <4>3 DEF Tidy, Missing
      <3> QED BY <1>8, <2>2, <3>1, <3>3, <3>4 DEF Kempt
    <2> QED BY <2>1, <2>2
  <1>13. y.at \notin {"none", "done", "unbackup"} \cup Fixing
    BY <1>8 DEF Fixing
  <1> QED BY <1>1, <1>4, <1>8, <1>10, <1>12, <1>13, AsideStep

\* A step of a task towards its goal.
LEMMA TaskStepGoal ==
  ASSUME Inv, NEW t \in Transfer, task[t].at \in Gated \cup Working \cup {"end"},
         NEW y, NEW a, NEW v, NEW w, Move(t, Here(t), y, a, v, w), Beside,
         y.at \notin {"none", "done"}, Kempt(t, y, files', net'),
         KeptInv => Covered' /\ Single' /\ KeptStep
  PROVE  TaskGoal
  <1>1. Inv'
    BY MoveKeeps DEF Gated, Working
  <1>2. KeptInv => Keeps(scenario')
    BY DEF KeptInv, Move
  <1> QED BY <1>1, <1>2 DEF TaskGoal, KeptInv, Keeps

\* When a rename is not refused for what is there.
LEMMA VacantLemma ==
  ASSUME scenario \in Scenarios, NEW p
  PROVE  Vacant(p) \in BOOLEAN /\ (scenario.replaces => Vacant(p))
         /\ (Vacant(p) /\ ~scenario.replaces => files.at[p] = Missing)
         /\ scenario.faults \in Nat
  BY SftpAssumption DEF Vacant

\* An upload takes the name of its destination, or is refused.
LEMMA InstallStep ==
  ASSUME Inv, NEW t \in Transfer, Install(t)
  PROVE  TaskGoal
  <1>1. /\ task[t].at = "install" /\ task[t].at \in Gated \cup Working \cup {"end"}
        /\ task[t].at \in Working
    BY DEF Install, At, Working
  <1>2. /\ task[t] \in Tasks /\ files \in Files /\ Here(t) \in Path /\ net \in Nets
        /\ Kempt(t, task[t], files, net) /\ task[t].file \in DOMAIN Paths(t)
        /\ Here(t) = Paths(t)[task[t].file] /\ Here(t) \in OfPath(t)
        /\ (net.faults = 0 => net.up) /\ scenario \in Scenarios
        /\ task \in [Transfer -> Tasks] /\ net.faults \in Nat
    BY <1>1, Ready
  <1>3. Beside /\ scenario' = scenario
    BY WorkBeside DEF Install
  <1>4. files.bak[Here(t)][t] = Missing /\ task[t].brought = Before(t, task[t].file)
    BY <1>1, <1>2 DEF Kempt, Free, Course, Ahead, Swapping, Placed
  <1>5. CASE MayFail /\ Discards(t, "Failed") /\ net' = Fault /\ UNCHANGED files
    <2>1. PICK y : y = [task[t] EXCEPT !.at = "discard", !.outcome = "Failed"]
      OBVIOUS
    <2>2. /\ y \in Tasks /\ y.file = task[t].file /\ y.brought = task[t].brought
          /\ y.at = "discard" /\ y.outcome = "Failed"
      BY <1>2, <2>1 DEF Tasks, Working, Terminal
    <2>3. task' = [task EXCEPT ![t] = y]
      BY <1>5, <2>1 DEF Discards
    <2>4. /\ Move(t, Here(t), y, files.at[Here(t)], files.tmp[t], files.bak[Here(t)][t])
          /\ net'.faults # 0
      BY <1>1, <1>2, <1>3, <1>5, <2>2, <2>3, MoveFaulted, WritesNothing
    <2>5. Kempt(t, y, files', net')
      BY <1>1, <1>2, <2>2, <2>4, KemptDiscards
    <2>6. y.at \notin {"none", "done", "unbackup"} \cup Fixing
      BY <2>2 DEF Fixing
    <2> QED BY <1>1, <1>3, <2>2, <2>4, <2>5, <2>6, AsideStep
  <1>6. ASSUME NEW r \in Replies(Vacant(Here(t))),
               /\ files' = IF r.done THEN Installed(t) ELSE files
               /\ IF r.seen THEN Advance(t, {Here(t)}) ELSE Go(t, "inspect")
               /\ net' = r.net
        PROVE  TaskGoal
    <2>1. Answer(r, Vacant(Here(t)))
      BY <1>2, VacantLemma, Answers
    <2>2. r.done => Writes(t, Here(t), t, Missing, files.bak[Here(t)][t])
      BY <1>2, <1>6, WritesInstalled DEF Installed
    <2>3. ~r.done => Writes(t, Here(t), files.at[Here(t)], files.tmp[t], files.bak[Here(t)][t])
      BY <1>2, <1>6, WritesNothing
    <2>4. CASE r.seen
      <3>1. r.done /\ Advance(t, {Here(t)})
        BY <1>6, <2>1, <2>4 DEF Answer
      <3>2. task[t].brought \cup {Here(t)} = Before(t, task[t].file + 1)
        BY <1>2, <1>4, BeforeLemma
      <3>3. PICK y \in Tasks :
              /\ task' = [task EXCEPT ![t] = y] /\ y.holds = task[t].holds
              /\ y.brought = task[t].brought \cup {Here(t)} /\ y.file \in DOMAIN Paths(t)
              /\ \/ /\ y.at = "gate" /\ y.then = "open" /\ y.file = task[t].file + 1
                    /\ y.brought = Before(t, y.file)
                 \/ /\ y.at = "end" /\ y.outcome = "Done" /\ y.brought = OfPath(t)
                    /\ y.file = task[t].file
        BY <1>1, <1>2, <3>1, <3>2, AdvanceLemma
      <3>4. Move(t, Here(t), y, t, Missing, files.bak[Here(t)][t])
        BY <1>1, <1>3, <1>6, <2>1, <2>2, <3>1, <3>3, MoveReplied
      <3>5. net'.faults = 0 => net.faults = 0
        BY <3>4 DEF Move
      <3>6. Kempt(t, y, files', net')
        BY <1>1, <1>4, <2>2, <3>1, <3>3, <3>5, KemptAdvances
      <3>7. y.at \notin {"none", "done", "unbackup"} \cup Fixing
        BY <3>3 DEF Fixing
      <3>8. KeptInv => Covered' /\ Single' /\ KeptStep
        <4>1. KeptInv => Covered'
          BY <1>2, <3>4, <3>7, CoveredStep DEF KeptInv
        <4>2. KeptInv => Single'
          BY <3>4, <3>7, SingleStep DEF KeptInv
        <4>3. KeptStep
          BY <1>1, <1>2, <3>3, <3>4, <3>7, MoveBrings
        <4> QED BY <4>1, <4>2, <4>3
      <3> QED BY <1>1, <1>3, <3>4, <3>6, <3>7, <3>8, TaskStepGoal
    <2>5. CASE ~r.seen
      <3>1. PICK y : y = [task[t] EXCEPT !.at = "inspect"]
        OBVIOUS
      <3>2. /\ y \in Tasks /\ y.at = "inspect" /\ y.file = task[t].file
            /\ y.brought = task[t].brought /\ y.holds = task[t].holds
        BY <1>2, <3>1 DEF Tasks, Working
      <3>3. task' = [task EXCEPT ![t] = y]
        BY <1>6, <2>5, <3>1 DEF Go
      <3>4. PICK a, v :
              /\ Writes(t, Here(t), a, v, files.bak[Here(t)][t])
              /\ r.done => a = t
              /\ ~r.done => a = files.at[Here(t)] /\ v = files.tmp[t]
        BY <2>2, <2>3
      <3>5. Move(t, Here(t), y, a, v, files.bak[Here(t)][t])
        BY <1>1, <1>3, <1>6, <2>1, <3>2, <3>3, <3>4, MoveReplied
      <3>6. Kempt(t, y, files', net')
        <4>1. Course(t, y)
          BY <1>1, <1>2, <3>2
          DEF Kempt, Course, Ahead, Swapping, Placed, Gated, Working
        <4>2. \A p \in Path : files'.bak[p][t] = files.bak[p][t]
          BY <3>4 DEF Writes
        <4>3. Free(t, y, files')
          BY <1>1, <1>2, <3>2, <4>2, PathsLemma
          DEF Kempt, Free, Ahead, Swapping, Placed, Gated
        <4>4. ASSUME net'.faults = 0
              PROVE  Tidy(t, y, files')
          <5>1. net.faults = 0 /\ ~r.done
            BY <1>2, <1>6, <2>1, <2>5, <4>4 DEF Answer
          <5>2. Tidy(t, task[t], files)
            BY <1>2, <5>1 DEF Kempt
          <5>3. \A p \in Path : files.bak[p][t] = Missing
            BY <1>1, <5>2 DEF Tidy, Swapping
          <5>4. Stage(y) = "inspect"
            BY <3>2 DEF Stage, Gated
          <5> QED BY <4>2, <5>3, <5>4 DEF Tidy
        <4> QED BY <3>2, <4>1, <4>3, <4>4 DEF Kempt, Working
      <3>7. ASSUME KeptInv
            PROVE  Covered' /\ Single' /\ KeptStep
        <4>1. Covered'
          BY <1>2, <3>2, <3>4, <3>5, <3>7, CoveredStep DEF KeptInv
        <4>2. ASSUME scenario.replaces, net'.up
              PROVE  /\ net'.faults # 0 /\ Restores(t)'
                     /\ \A u \in Transfer : task[u].at \in Fixing => u = t
          <5>1. MayFail /\ net'.faults # 0 /\ net.up
            BY <1>2, <1>6, <2>1, <2>5, <4>2, VacantLemma DEF Answer
          <5>2. net.faults = 0
            BY <1>2, <3>7, <4>2, <5>1, VacantLemma DEF KeptInv, Keeps, MayFail
          <5>3. \A u \in Transfer : task[u].at \notin Fixing
            BY <3>7, <4>2, <5>1, <5>2 DEF KeptInv, Single
          <5>4. task'[t] = y /\ Here(t)' = Here(t)
            BY <1>2, <1>3, <3>2, <3>3, Frozen DEF Here
          <5>5. files.tmp[t] # Missing
            BY <1>1, <1>2, <5>2 DEF Kempt, Tidy, Stage, Gated
          <5>6. files'.tmp[t] = Missing => files'.at[Here(t)] \in Transfer
            BY <3>4, <5>5 DEF Writes
          <5>7. Restores(t)'
            BY <3>2, <5>4, <5>6 DEF Restores, At
          <5> QED BY <5>1, <5>3, <5>7
        <4>3. Single'
          BY <3>4, <3>5, <3>7, <4>2, SingleStep DEF KeptInv
        <4>4. KeptStep
          <5>1. CASE r.done
            <6>1. Move(t, Here(t), y, t, v, files.bak[Here(t)][t])
              BY <3>4, <3>5, <5>1
            <6> QED BY <1>1, <1>2, <3>2, <6>1, MoveBrings
          <5>2. CASE ~r.done
            BY <1>1, <1>2, <3>2, <3>4, <3>5, <5>2, MoveStutters
          <5> QED BY <5>1, <5>2
        <4> QED BY <4>1, <4>3, <4>4
      <3>8. y.at \notin {"none", "done"}
        BY <3>2
      <3> QED BY <1>1, <1>3, <3>5, <3>6, <3>7, <3>8, TaskStepGoal
    <2> QED BY <2>4, <2>5
  <1> QED BY <1>5, <1>6 DEF Install
\* The destination is inspected.
LEMMA InspectStep ==
  ASSUME Inv, NEW t \in Transfer, Inspect(t)
  PROVE  TaskGoal
  <1>1. task[t].at = "inspect" /\ task[t].at \in Gated \cup Working \cup {"end"}
    BY DEF Inspect, At, Working
  <1>2. /\ task[t] \in Tasks /\ files \in Files /\ Here(t) \in Path /\ net \in Nets
        /\ Kempt(t, task[t], files, net) /\ task[t].file \in DOMAIN Paths(t)
        /\ scenario \in Scenarios /\ task \in [Transfer -> Tasks]
    BY <1>1, Ready
  <1>3. Beside /\ scenario' = scenario /\ files' = files
    BY WorkBeside DEF Inspect
  <1> PICK can : can = (files.at[Here(t)] # Missing)
    OBVIOUS
  <1> can \in BOOLEAN
    OBVIOUS
  <1>4. PICK r \in Replies(can) :
          /\ IF r.seen THEN Go(t, "backup") ELSE Discards(t, "Failed")
          /\ net' = r.net
    BY DEF Inspect
  <1>5. Answer(r, can)
    BY <1>2, Answers
  <1>6. Writes(t, Here(t), files.at[Here(t)], files.tmp[t], files.bak[Here(t)][t])
    BY <1>2, <1>3, WritesNothing
  <1>7. PICK y : y = IF r.seen THEN [task[t] EXCEPT !.at = "backup"]
                     ELSE [task[t] EXCEPT !.at = "discard", !.outcome = "Failed"]
    OBVIOUS
  <1>8. /\ y \in Tasks /\ y.file = task[t].file /\ y.brought = task[t].brought
        /\ r.seen => y.at = "backup" /\ y.holds = task[t].holds /\ y.then = task[t].then
        /\ ~r.seen => y.at = "discard" /\ y.outcome = "Failed"
    BY <1>2, <1>7 DEF Tasks, Working, Terminal
  <1>9. task' = [task EXCEPT ![t] = y]
    BY <1>4, <1>7 DEF Go, Discards
  <1>10. Move(t, Here(t), y, files.at[Here(t)], files.tmp[t], files.bak[Here(t)][t])
    BY <1>1, <1>3, <1>4, <1>5, <1>6, <1>8, <1>9, MoveReplied
  <1>11. net'.faults = 0 => net.faults = 0
    BY <1>10 DEF Move
  <1>12. Kempt(t, y, files', net')
    <2>1. CASE ~r.seen
      BY <1>1, <1>2, <1>8, <1>11, <2>1, KemptDiscards
    <2>2. CASE r.seen
      BY <1>1, <1>2, <1>3, <1>8, <1>11, <2>2, KemptAside DEF Working
    <2> QED BY <2>1, <2>2
  <1>13. y.at \notin {"none", "done", "unbackup"}
    BY <1>8
  <1>14. ASSUME KeptInv
         PROVE  Covered' /\ Single' /\ KeptStep
    <2>1. Covered'
      BY <1>2, <1>10, <1>13, <1>14, CoveredStep DEF KeptInv
    <2>2. ASSUME scenario.replaces, net'.up, y.at \in Fixing
          PROVE  /\ net'.faults # 0 /\ Restores(t)'
                 /\ \A u \in Transfer : task[u].at \in Fixing => u = t
      <3>1. /\ net.faults # 0 /\ Restores(t)
            /\ \A u \in Transfer : task[u].at \in Fixing => u = t
        BY <1>1, <1>10, <1>14, <2>2 DEF KeptInv, Single, Move, Fixing
      <3>2. task'[t] = y /\ Here(t)' = Here(t) /\ y.at = "backup"
        BY <1>2, <1>3, <1>8, <1>9, <2>2, Frozen DEF Here, Fixing
      <3>3. Restores(t)'
        BY <1>1, <1>3, <3>1, <3>2 DEF Restores, At
      <3> QED BY <1>11, <3>1, <3>3
    <2>3. Single'
      BY <1>10, <1>14, <2>2, SingleStep DEF KeptInv
    <2>4. KeptStep
      BY <1>1, <1>2, <1>8, <1>10, <1>13, MoveStutters
    <2> QED BY <2>1, <2>3, <2>4
  <1> QED BY <1>1, <1>3, <1>10, <1>12, <1>13, <1>14, TaskStepGoal

\* The old file is moved to a backup.
LEMMA BackupStep ==
  ASSUME Inv, NEW t \in Transfer, Backup(t)
  PROVE  TaskGoal
  <1>1. task[t].at = "backup" /\ task[t].at \in Gated \cup Working \cup {"end"}
    BY DEF Backup, At, Working
  <1>2. /\ task[t] \in Tasks /\ files \in Files /\ Here(t) \in Path /\ net \in Nets
        /\ Kempt(t, task[t], files, net) /\ task[t].file \in DOMAIN Paths(t)
        /\ Here(t) = Paths(t)[task[t].file]
        /\ scenario \in Scenarios /\ task \in [Transfer -> Tasks]
    BY <1>1, Ready
  <1>3. Beside /\ scenario' = scenario
    BY WorkBeside DEF Backup
  <1> PICK can : can = (files.at[Here(t)] # Missing)
    OBVIOUS
  <1> can \in BOOLEAN
    OBVIOUS
  <1>4. PICK r \in Replies(can) :
          /\ files' = IF r.done THEN [files EXCEPT !.bak[Here(t)][t] = files.at[Here(t)],
                                                   !.at[Here(t)] = Missing]
                      ELSE files
          /\ IF r.seen THEN Go(t, "replace") ELSE Discards(t, "Failed")
          /\ net' = r.net
    BY DEF Backup
  <1>5. Answer(r, can)
    BY <1>2, Answers
  <1>6. files.bak[Here(t)][t] = Missing
    BY <1>1, <1>2 DEF Kempt, Free, Ahead, Swapping, Placed
  <1>7. files.at[Here(t)] \in Content
    BY <1>2, FilesParts
  <1>8. PICK a, w :
          /\ Writes(t, Here(t), a, files.tmp[t], w)
          /\ {a, w} = {files.at[Here(t)], files.bak[Here(t)][t]}
          /\ r.done => a = Missing /\ w = files.at[Here(t)]
    <2>1. CASE r.done
      <3>1. Writes(t, Here(t), Missing, files.tmp[t], files.at[Here(t)])
        BY <1>2, <1>4, <1>7, <2>1, Names, WritesBackup
      <3> QED BY <1>6, <2>1, <3>1
    <2>2. CASE ~r.done
      <3>1. Writes(t, Here(t), files.at[Here(t)], files.tmp[t], files.bak[Here(t)][t])
        BY <1>2, <1>4, <2>2, WritesNothing
      <3> QED BY <2>2, <3>1
    <2> QED BY <2>1, <2>2
  <1>9. PICK y : y = IF r.seen THEN [task[t] EXCEPT !.at = "replace"]
                     ELSE [task[t] EXCEPT !.at = "discard", !.outcome = "Failed"]
    OBVIOUS
  <1>10. /\ y \in Tasks /\ y.file = task[t].file /\ y.brought = task[t].brought
         /\ r.seen => y.at = "replace" /\ y.holds = task[t].holds
         /\ ~r.seen => y.at = "discard" /\ y.outcome = "Failed"
    BY <1>2, <1>9 DEF Tasks, Working, Terminal
  <1>11. task' = [task EXCEPT ![t] = y]
    BY <1>4, <1>9 DEF Go, Discards
  <1>12. Move(t, Here(t), y, a, files.tmp[t], w)
    BY <1>1, <1>3, <1>4, <1>5, <1>8, <1>10, <1>11, MoveReplied
  <1>13. net'.faults = 0 => net.faults = 0
    BY <1>12 DEF Move
  <1>14. Kempt(t, y, files', net')
    <2>1. CASE ~r.seen
      BY <1>1, <1>2, <1>10, <1>13, <2>1, KemptDiscards
    <2>2. CASE r.seen
      <3>1. Course(t, y)
        BY <1>1, <1>2, <1>10, <2>2
        DEF Kempt, Course, Ahead, Swapping, Placed, Gated, Working
      <3>2. \A p \in Path : p # Here(t) => files'.bak[p][t] = files.bak[p][t]
        BY <1>8 DEF Writes
      <3>3. ASSUME NEW i \in DOMAIN Paths(t), i > task[t].file
            PROVE  files'.bak[Paths(t)[i]][t] = Missing
        <4>1. files.bak[Paths(t)[i]][t] = Missing
          BY <1>1, <1>2, <3>3 DEF Kempt, Free, Ahead
        <4>2. i # task[t].file
          BY <1>2, <3>3, PathsLemma
        <4>3. Paths(t)[i] \in Path /\ Paths(t)[i] # Here(t)
          BY <1>2, <4>2, PathsLemma DEF Distinct
        <4> QED BY <3>2, <4>1, <4>3
      <3>4. Free(t, y, files')
        BY <1>10, <2>2, <3>3 DEF Free, Swapping
      <3>5. ASSUME net'.faults = 0
            PROVE  Tidy(t, y, files')
        <4>1. Tidy(t, task[t], files)
          BY <1>2, <1>13, <3>5 DEF Kempt
        <4>2. \A p \in Path : files.bak[p][t] = Missing
          BY <1>1, <4>1 DEF Tidy, Swapping
        <4>3. \A p \in Path : files'.bak[p][t] = Missing \/ p = Paths(t)[y.file]
          BY <1>2, <1>10, <3>2, <4>2
        <4>4. Stage(y) = "replace"
          BY <1>10, <2>2 DEF Stage, Gated
        <4> QED BY <1>10, <2>2, <4>3, <4>4 DEF Tidy, Swapping
      <3> QED BY <1>10, <2>2, <3>1, <3>4, <3>5 DEF Kempt, Working
    <2> QED BY <2>1, <2>2
  <1>15. y.at \notin {"none", "done", "unbackup"}
    BY <1>10
  <1>16. ASSUME KeptInv
         PROVE  Covered' /\ Single' /\ KeptStep
    <2>1. Covered'
      BY <1>1, <1>2, <1>8, <1>12, <1>15, <1>16, CoveredStep DEF KeptInv
    <2>2. ASSUME scenario.replaces, net'.up, y.at \in Fixing
          PROVE  /\ net'.faults # 0 /\ Restores(t)'
                 /\ \A u \in Transfer : task[u].at \in Fixing => u = t
      <3>1. /\ net.faults # 0 /\ Restores(t)
            /\ \A u \in Transfer : task[u].at \in Fixing => u = t
        BY <1>1, <1>12, <1>16, <2>2 DEF KeptInv, Single, Move, Fixing
      <3>2. r.seen /\ r.done
        BY <1>5, <1>10, <2>2 DEF Fixing, Answer
      <3>3. task'[t] = y /\ Here(t)' = Here(t) /\ y.at = "replace"
        BY <1>2, <1>3, <1>10, <1>11, <3>2, Frozen DEF Here
      <3>4. files'.tmp[t] = files.tmp[t] /\ files'.bak[Here(t)][t] = files.at[Here(t)]
        BY <1>8, <3>2 DEF Writes
      <3>5. Restores(t)'
        BY <1>1, <3>1, <3>3, <3>4 DEF Restores, At
      <3> QED BY <1>13, <3>1, <3>5
    <2>3. Single'
      BY <1>1, <1>12, <1>16, <2>2, SingleStep DEF KeptInv, Fixing
    <2>4. KeptStep
      BY <1>1, <1>2, <1>8, <1>10, <1>12, <1>15, MoveStutters
    <2> QED BY <2>1, <2>3, <2>4
  <1> QED BY <1>1, <1>3, <1>12, <1>14, <1>15, <1>16, TaskStepGoal
\* The upload takes the place of the old file.
LEMMA ReplaceStep ==
  ASSUME Inv, NEW t \in Transfer, Replace(t)
  PROVE  TaskGoal
  <1>1. task[t].at = "replace" /\ task[t].at \in Gated \cup Working \cup {"end"}
    BY DEF Replace, At, Working
  <1>2. /\ task[t] \in Tasks /\ files \in Files /\ Here(t) \in Path /\ net \in Nets
        /\ Kempt(t, task[t], files, net) /\ task[t].file \in DOMAIN Paths(t)
        /\ Here(t) = Paths(t)[task[t].file] /\ Here(t) \in OfPath(t)
        /\ scenario \in Scenarios /\ task \in [Transfer -> Tasks]
        /\ net.faults \in Nat /\ (net.faults = 0 => net.up)
    BY <1>1, Ready
  <1>3. Beside /\ scenario' = scenario
    BY WorkBeside DEF Replace
  <1> PICK can : can = (Vacant(Here(t)) /\ files.tmp[t] # Missing)
    OBVIOUS
  <1> can \in BOOLEAN
    BY <1>2, VacantLemma
  <1>4. PICK r \in Replies(can) :
          /\ files' = IF r.done THEN Installed(t) ELSE files
          /\ task' = [task EXCEPT ![t].at = IF r.seen THEN "unbackup" ELSE "rollback",
                                  ![t].brought = IF r.seen THEN @ \cup {Here(t)} ELSE @]
          /\ net' = r.net
    BY DEF Replace
  <1>5. Answer(r, can)
    BY <1>2, Answers
  <1>6. PICK a, v :
          /\ Writes(t, Here(t), a, v, files.bak[Here(t)][t])
          /\ r.done => a = t /\ v = Missing
          /\ ~r.done => a = files.at[Here(t)] /\ v = files.tmp[t]
    <2>1. r.done => Writes(t, Here(t), t, Missing, files.bak[Here(t)][t])
      BY <1>2, <1>4, WritesInstalled DEF Installed
    <2>2. ~r.done => Writes(t, Here(t), files.at[Here(t)], files.tmp[t], files.bak[Here(t)][t])
      BY <1>2, <1>4, WritesNothing
    <2> QED BY <2>1, <2>2
  <1>7. PICK B \in SUBSET Path :
          B = IF r.seen THEN task[t].brought \cup {Here(t)} ELSE task[t].brought
    <2>1. task[t].brought \in SUBSET Path
      BY <1>2 DEF Tasks
    <2> QED BY <1>2, <2>1
  <1>8. PICK y : y = [task[t] EXCEPT !.at = IF r.seen THEN "unbackup" ELSE "rollback",
                                     !.brought = B]
    OBVIOUS
  <1>9. /\ y \in Tasks /\ y.file = task[t].file /\ y.brought = B
        /\ y.at = (IF r.seen THEN "unbackup" ELSE "rollback") /\ y.holds = task[t].holds
    BY <1>2, <1>8 DEF Tasks, Working
  <1>10. task' = [task EXCEPT ![t] = y]
    <2>1. y = [task[t] EXCEPT !.at = IF r.seen THEN "unbackup" ELSE "rollback",
                              !.brought = IF r.seen THEN @ \cup {Here(t)} ELSE @]
      BY <1>2, <1>7, <1>8 DEF Tasks
    <2> QED BY <1>4, <2>1
  <1>11. Move(t, Here(t), y, a, v, files.bak[Here(t)][t])
    BY <1>1, <1>3, <1>4, <1>5, <1>6, <1>9, <1>10, MoveReplied
  <1>12. net'.faults = 0 => net.faults = 0
    BY <1>11 DEF Move
  <1>13. r.seen => r.done
    BY <1>5 DEF Answer
  <1>14. Kempt(t, y, files', net')
    <2>1. Course(t, y)
      <3>1. task[t].brought = Before(t, task[t].file)
        BY <1>1, <1>2 DEF Kempt, Course, Swapping
      <3>2. Before(t, task[t].file + 1) = task[t].brought \cup {Here(t)}
        BY <1>2, <3>1, BeforeLemma
      <3> QED BY <1>2, <1>7, <1>9, <3>1, <3>2
          DEF Course, Ahead, Swapping, Placed, Gated, Working
    <2>2. \A p \in Path : files'.bak[p][t] = files.bak[p][t]
      BY <1>6 DEF Writes
    <2>3. Free(t, y, files')
      BY <1>1, <1>2, <1>9, <2>2, PathsLemma
      DEF Kempt, Free, Ahead, Swapping, Placed, Gated
    <2>4. ASSUME net'.faults = 0
          PROVE  Tidy(t, y, files')
      <3>1. Tidy(t, task[t], files)
        BY <1>2, <1>12, <2>4 DEF Kempt
      <3>2. \A p \in Path : files.bak[p][t] = Missing \/ p = Paths(t)[task[t].file]
        BY <1>1, <3>1 DEF Tidy, Swapping
      <3>3. r.seen => files'.tmp[t] = Missing
        BY <1>6, <1>13 DEF Writes
      <3>4. Stage(y) = y.at
        BY <1>9 DEF Stage, Gated
      <3> QED BY <1>9, <2>2, <3>2, <3>3, <3>4 DEF Tidy, Swapping
    <2> QED BY <1>9, <2>1, <2>3, <2>4 DEF Kempt, Working
  <1>15. y.at \notin {"none", "done"}
    BY <1>9
  <1>16. ASSUME KeptInv
         PROVE  Covered' /\ Single' /\ KeptStep
    <2>1. Covered'
      BY <1>2, <1>6, <1>9, <1>11, <1>13, <1>16, CoveredStep DEF KeptInv
    <2>2. ASSUME scenario.replaces, net'.up, y.at \in Fixing
          PROVE  /\ net'.faults # 0 /\ Restores(t)'
                 /\ \A u \in Transfer : task[u].at \in Fixing => u = t
      <3>1. /\ net.faults # 0 /\ Restores(t) /\ net.up
            /\ \A u \in Transfer : task[u].at \in Fixing => u = t
        BY <1>1, <1>11, <1>16, <2>2 DEF KeptInv, Single, Move, Fixing
      <3>2. ~MayFail
        BY <1>2, <1>16, <2>2, <3>1, VacantLemma DEF KeptInv, Keeps, MayFail
      <3>3. ~r.seen /\ ~r.done /\ ~can
        BY <1>5, <1>9, <2>2, <3>1, <3>2 DEF Fixing, Answer
      <3>4. files.tmp[t] = Missing
        BY <1>2, <2>2, <3>3, VacantLemma
      <3>5. files.bak[Here(t)][t] \in Transfer /\ files' = files
        BY <1>1, <1>4, <3>1, <3>3, <3>4 DEF Restores
      <3>6. task'[t] = y /\ Here(t)' = Here(t) /\ y.at = "rollback"
        BY <1>2, <1>3, <1>9, <1>10, <3>3, Frozen DEF Here
      <3>7. Restores(t)'
        BY <3>4, <3>5, <3>6 DEF Restores, At
      <3> QED BY <1>12, <3>1, <3>7
    <2>3. Single'
      BY <1>6, <1>11, <1>16, <2>2, SingleStep DEF KeptInv
    <2>4. KeptStep
      <3>1. CASE r.done
        <4>1. Move(t, Here(t), y, t, v, files.bak[Here(t)][t])
          BY <1>6, <1>11, <3>1
        <4> QED BY <1>1, <1>2, <1>7, <1>9, <1>15, <4>1, MoveBrings
      <3>2. CASE ~r.done
        <4>1. Move(t, Here(t), y, files.at[Here(t)], v, files.bak[Here(t)][t])
          BY <1>6, <1>11, <3>2
        <4>2. y.brought = task[t].brought
          BY <1>7, <1>9, <1>13, <3>2
        <4> QED BY <1>1, <1>2, <1>15, <4>1, <4>2, MoveStutters
      <3> QED BY <3>1, <3>2
    <2> QED BY <2>1, <2>3, <2>4
  <1> QED BY <1>1, <1>3, <1>11, <1>14, <1>15, <1>16, TaskStepGoal

\* The old file is put back.
LEMMA RollbackStep ==
  ASSUME Inv, NEW t \in Transfer, Rollback(t)
  PROVE  TaskGoal
  <1>1. task[t].at = "rollback" /\ task[t].at \in Gated \cup Working \cup {"end"}
    BY DEF Rollback, At, Working
  <1>2. /\ task[t] \in Tasks /\ files \in Files /\ Here(t) \in Path /\ net \in Nets
        /\ Kempt(t, task[t], files, net) /\ task[t].file \in DOMAIN Paths(t)
        /\ scenario \in Scenarios /\ task \in [Transfer -> Tasks]
    BY <1>1, Ready
  <1>3. Beside /\ scenario' = scenario
    BY WorkBeside DEF Rollback
  <1>4. PICK r \in Replies(Vacant(Here(t))) :
          /\ files' = IF r.done THEN [files EXCEPT !.at[Here(t)] = files.bak[Here(t)][t],
                                                   !.bak[Here(t)][t] = Missing]
                      ELSE files
          /\ net' = r.net
    BY DEF Rollback
  <1>5. Answer(r, Vacant(Here(t)))
    BY <1>2, VacantLemma, Answers
  <1>6. PICK a, w :
          /\ Writes(t, Here(t), a, files.tmp[t], w)
          /\ r.done => a = files.bak[Here(t)][t] /\ w = Missing
          /\ ~r.done => a = files.at[Here(t)] /\ w = files.bak[Here(t)][t]
    <2>1. r.done => Writes(t, Here(t), files.bak[Here(t)][t], files.tmp[t], Missing)
      <3>1. files.bak[Here(t)][t] \in Content
        BY <1>2, FilesParts
      <3> QED BY <1>2, <1>4, <3>1, Names, WritesBackup
    <2>2. ~r.done => Writes(t, Here(t), files.at[Here(t)], files.tmp[t], files.bak[Here(t)][t])
      BY <1>2, <1>4, WritesNothing
    <2> QED BY <2>1, <2>2
  <1>7. PICK y : y = [task[t] EXCEPT !.at = "discard", !.outcome = "Failed"]
    OBVIOUS
  <1>8. /\ y \in Tasks /\ y.file = task[t].file /\ y.brought = task[t].brought
        /\ y.at = "discard" /\ y.outcome = "Failed"
    BY <1>2, <1>7 DEF Tasks, Working, Terminal
  <1>9. task' = [task EXCEPT ![t] = y]
    BY <1>7 DEF Rollback, Discards
  <1>10. Move(t, Here(t), y, a, files.tmp[t], w)
    BY <1>1, <1>3, <1>4, <1>5, <1>6, <1>8, <1>9, MoveReplied
  <1>11. net'.faults = 0 => net.faults = 0
    BY <1>10 DEF Move
  <1>12. Kempt(t, y, files', net')
    BY <1>1, <1>2, <1>8, <1>11, KemptDiscards
  <1>13. y.at \notin {"none", "done", "unbackup"} \cup Fixing
    BY <1>8 DEF Fixing
  <1>14. ASSUME KeptInv
         PROVE  Covered' /\ Single' /\ KeptStep
    <2>1. Single'
      BY <1>1, <1>10, <1>13, <1>14, SingleStep DEF KeptInv, Fixing
    <2>2. CASE {a, w} = {files.at[Here(t)], files.bak[Here(t)][t]}
      <3>1. Covered'
        BY <1>1, <1>2, <1>10, <1>13, <1>14, <2>2, CoveredStep DEF KeptInv
      <3>2. KeptStep
        BY <1>1, <1>2, <1>8, <1>10, <1>13, <2>2, MoveStutters
      <3> QED BY <2>1, <3>1, <3>2
    <2>3. CASE {a, w} # {files.at[Here(t)], files.bak[Here(t)][t]}
      <3>1. r.done /\ files.at[Here(t)] # Missing
        BY <1>6, <2>3
      <3>2. scenario.replaces /\ net.up
        BY <1>2, <1>5, <3>1, VacantLemma DEF Answer
      <3>3. a \in Transfer /\ a = files.bak[Here(t)][t] /\ w = Missing
        BY <1>1, <1>6, <1>14, <3>1, <3>2 DEF KeptInv, Single, Restores, At, Fixing
      <3>4. Covered'
        BY <1>2, <1>10, <1>13, <1>14, <3>3, CoveredStep DEF KeptInv
      <3>5. a \in Saved'[Here(t)]
        BY <1>10, <3>3, SavedLemma, Names
      <3>6. KeptStep
        <4>1. Loses(t, Here(t), a, w, files.at[Here(t)])
          BY <3>3 DEF Loses
        <4>2. Saved'[Here(t)] \cap Transfer # {}
          BY <3>3, <3>5
        <4> QED BY <1>1, <1>2, <1>8, <1>10, <1>13, <4>1, <4>2, MoveForgets
      <3> QED BY <2>1, <3>4, <3>6
    <2> QED BY <2>2, <2>3
  <1> QED BY <1>1, <1>3, <1>10, <1>12, <1>13, <1>14, TaskStepGoal

\* The backup is removed.
LEMMA RemoveBackupStep ==
  ASSUME Inv, NEW t \in Transfer, RemoveBackup(t)
  PROVE  TaskGoal
  <1>1. /\ task[t].at = "unbackup" /\ task[t].at \in Gated \cup Working \cup {"end"}
        /\ task[t].at \in Working
    BY DEF RemoveBackup, At, Working
  <1>2. /\ task[t] \in Tasks /\ files \in Files /\ Here(t) \in Path /\ net \in Nets
        /\ Kempt(t, task[t], files, net) /\ task[t].file \in DOMAIN Paths(t)
        /\ scenario \in Scenarios /\ task \in [Transfer -> Tasks]
        /\ (net.faults = 0 => net.up)
    BY <1>1, Ready
  <1>3. Beside /\ scenario' = scenario
    BY WorkBeside DEF RemoveBackup
  <1>4. PICK r \in Replies(TRUE) :
          /\ files' = IF r.done THEN [files EXCEPT !.bak[Here(t)][t] = Missing] ELSE files
          /\ net' = r.net
    BY DEF RemoveBackup
  <1>5. Answer(r, TRUE)
    BY <1>2, Answers
  <1>6. PICK w :
          /\ Writes(t, Here(t), files.at[Here(t)], files.tmp[t], w)
          /\ r.done => w = Missing
          /\ ~r.done => w = files.bak[Here(t)][t]
    <2>1. r.done => Writes(t, Here(t), files.at[Here(t)], files.tmp[t], Missing)
      <3>1. files.at[Here(t)] \in Content
        BY <1>2, FilesParts
      <3> QED BY <1>2, <1>4, <3>1, Names, WritesBackup
    <2>2. ~r.done => Writes(t, Here(t), files.at[Here(t)], files.tmp[t], files.bak[Here(t)][t])
      BY <1>2, <1>4, WritesNothing
    <2> QED BY <2>1, <2>2
  <1>7. PICK y \in Tasks :
          /\ task' = [task EXCEPT ![t] = y] /\ y.holds = task[t].holds
          /\ y.brought = task[t].brought /\ y.file \in DOMAIN Paths(t)
          /\ \/ /\ y.at = "gate" /\ y.then = "open" /\ y.file = task[t].file + 1
                /\ y.brought = Before(t, y.file)
             \/ /\ y.at = "end" /\ y.outcome = "Done" /\ y.brought = OfPath(t)
                /\ y.file = task[t].file
    <2>1. task[t].brought = Before(t, task[t].file + 1)
      BY <1>1, <1>2 DEF Kempt, Course, Placed
    <2>2. Advance(t, {})
      BY DEF RemoveBackup
    <2>3. PICK I \in SUBSET Path : I = {}
      OBVIOUS
    <2>4. Advance(t, I) /\ task[t].brought \cup I = task[t].brought
      BY <2>2, <2>3
    <2>5. task[t].brought \cup I = Before(t, task[t].file + 1)
      BY <2>1, <2>4
    <2>6. PICK y \in Tasks :
            /\ task' = [task EXCEPT ![t] = y] /\ y.holds = task[t].holds
            /\ y.brought = task[t].brought \cup I /\ y.file \in DOMAIN Paths(t)
            /\ \/ /\ y.at = "gate" /\ y.then = "open" /\ y.file = task[t].file + 1
                  /\ y.brought = Before(t, y.file)
               \/ /\ y.at = "end" /\ y.outcome = "Done" /\ y.brought = OfPath(t)
                  /\ y.file = task[t].file
      BY <1>1, <2>4, <2>5, AdvanceLemma
    <2>7. y.brought = task[t].brought
      BY <2>4, <2>6
    <2> QED BY <2>6, <2>7
  <1>8. Move(t, Here(t), y, files.at[Here(t)], files.tmp[t], w)
    BY <1>1, <1>3, <1>4, <1>5, <1>6, <1>7, MoveReplied
  <1>9. net'.faults = 0 => net.faults = 0 /\ files.tmp[t] = Missing /\ w = Missing
    <2>1. net'.faults = 0 => net.faults = 0 /\ r.done
      BY <1>2, <1>4, <1>5 DEF Answer
    <2>2. net.faults = 0 => files.tmp[t] = Missing
      BY <1>1, <1>2 DEF Kempt, Tidy, Stage, Gated
    <2> QED BY <1>6, <2>1, <2>2
  <1>10. Kempt(t, y, files', net')
    BY <1>1, <1>6, <1>7, <1>9, KemptAdvances
  <1>11. y.at \notin {"none", "done", "unbackup"} \cup Fixing
    BY <1>7 DEF Fixing
  <1>12. ASSUME KeptInv
         PROVE  Covered' /\ Single' /\ KeptStep
    <2>1. Covered'
      BY <1>1, <1>2, <1>8, <1>11, <1>12, CoveredStep DEF KeptInv
    <2>2. Single'
      BY <1>8, <1>11, <1>12, SingleStep DEF KeptInv
    <2>3. Saved'[Here(t)] \cap Transfer # {}
      <3>1. Spare(t, Here(t))
        BY <1>1 DEF Spare
      <3>2. \/ files.at[Here(t)] \in Transfer
            \/ \E u \in Transfer : u # t /\ files.bak[Here(t)][u] \in Transfer
        BY <1>2, <1>12, <3>1 DEF KeptInv, Covered
      <3>3. Saved'[Here(t)] = ({files.at[Here(t)], w}
              \cup {files.bak[Here(t)][u] : u \in Transfer \ {t}}) \ {Missing}
        BY <1>8, SavedLemma
      <3> QED BY <3>2, <3>3, Names
    <2>4. KeptStep
      <3>2. Loses(t, Here(t), files.at[Here(t)], w, files.bak[Here(t)][t])
        BY <1>6 DEF Loses
      <3> QED BY <1>1, <1>2, <1>7, <1>8, <1>11, <2>3, <3>2, MoveForgets
    <2> QED BY <2>1, <2>2, <2>4
  <1> QED BY <1>1, <1>3, <1>8, <1>10, <1>11, <1>12, TaskStepGoal
\* A download takes the name of its destination.
LEMMA CommitStep ==
  ASSUME Inv, NEW t \in Transfer, Commit(t)
  PROVE  TaskGoal
  <1>1. task[t].at = "install" /\ task[t].at \in Gated \cup Working \cup {"end"}
    BY DEF Commit, At, Working
  <1>2. /\ task[t] \in Tasks /\ files \in Files /\ Here(t) \in Path /\ net \in Nets
        /\ Kempt(t, task[t], files, net) /\ task[t].file \in DOMAIN Paths(t)
        /\ Here(t) = Paths(t)[task[t].file] /\ Here(t) \in OfPath(t)
        /\ scenario \in Scenarios /\ task \in [Transfer -> Tasks]
    BY <1>1, Ready
  <1>3. Beside /\ scenario' = scenario
    BY WorkBeside DEF Commit
  <1>4. PICK r \in Local :
          /\ files' = IF r.seen THEN Installed(t) ELSE [files EXCEPT !.tmp[t] = Missing]
          /\ task' = IF r.seen
                     THEN [task EXCEPT ![t].at = "close", ![t].brought = @ \cup {Here(t)}]
                     ELSE [task EXCEPT ![t].at = "release", ![t].outcome = "Failed"]
          /\ net' = r.net
    BY DEF Commit
  <1>5. (r.seen = TRUE /\ r.net = net) \/ (r.seen = FALSE /\ r.net = Fault)
    BY DEF Local
  <1>6. CASE r.seen = TRUE /\ r.net = net
    <2>1. Writes(t, Here(t), t, Missing, files.bak[Here(t)][t])
      BY <1>2, <1>4, <1>6, WritesInstalled DEF Installed
    <2>2. PICK B \in SUBSET Path : B = task[t].brought \cup {Here(t)}
      <3>1. task[t].brought \in SUBSET Path
        BY <1>2 DEF Tasks
      <3> QED BY <1>2, <3>1
    <2>3. PICK y : y = [task[t] EXCEPT !.at = "close", !.brought = B]
      OBVIOUS
    <2>4. /\ y \in Tasks /\ y.file = task[t].file /\ y.brought = B
          /\ y.at = "close" /\ y.holds = task[t].holds
      BY <1>2, <2>3 DEF Tasks, Working
    <2>5. task' = [task EXCEPT ![t] = y]
      <3>1. y = [task[t] EXCEPT !.at = "close", !.brought = @ \cup {Here(t)}]
        BY <1>2, <2>2, <2>3 DEF Tasks
      <3> QED BY <1>4, <1>6, <3>1
    <2>6. Move(t, Here(t), y, t, Missing, files.bak[Here(t)][t])
      BY <1>2, <1>3, <1>4, <1>6, <2>1, <2>4, <2>5 DEF Move
    <2>7. Kempt(t, y, files', net')
      <3>1. Course(t, y)
        <4>1. task[t].brought = Before(t, task[t].file)
          BY <1>1, <1>2 DEF Kempt, Course, Ahead
        <4>2. Before(t, task[t].file + 1) = task[t].brought \cup {Here(t)}
          BY <1>2, <4>1, BeforeLemma
        <4> QED BY <1>2, <2>2, <2>4, <4>2
            DEF Course, Ahead, Swapping, Placed, Gated, Working
      <3>2. files'.tmp[t] = Missing /\ \A p \in Path : files'.bak[p][t] = files.bak[p][t]
        BY <2>1 DEF Writes
      <3>3. Free(t, y, files')
        BY <1>1, <1>2, <2>4, <3>2, PathsLemma
        DEF Kempt, Free, Ahead, Swapping, Placed, Gated
      <3>4. ASSUME net'.faults = 0
            PROVE  Tidy(t, y, files')
        <4>1. Tidy(t, task[t], files)
          BY <1>2, <1>4, <1>6, <3>4 DEF Kempt
        <4>2. \A p \in Path : files.bak[p][t] = Missing
          BY <1>1, <4>1 DEF Tidy, Swapping
        <4>3. Stage(y) = "close"
          BY <2>4 DEF Stage, Gated
        <4> QED BY <3>2, <4>2, <4>3 DEF Tidy
      <3> QED BY <2>4, <3>1, <3>3, <3>4 DEF Kempt, Working
    <2>8. y.at \notin {"none", "done", "unbackup"} \cup Fixing
      BY <2>4 DEF Fixing
    <2>9. KeptInv => Covered' /\ Single' /\ KeptStep
      <3>1. KeptInv => Covered'
        BY <1>2, <2>6, <2>8, CoveredStep DEF KeptInv
      <3>2. KeptInv => Single'
        BY <2>6, <2>8, SingleStep DEF KeptInv
      <3>3. KeptStep
        BY <1>1, <1>2, <2>2, <2>4, <2>6, <2>8, MoveBrings
      <3> QED BY <3>1, <3>2, <3>3
    <2> QED BY <1>1, <1>3, <2>6, <2>7, <2>8, <2>9, TaskStepGoal
  <1>7. CASE r.seen = FALSE /\ r.net = Fault
    <2>1. Writes(t, Here(t), files.at[Here(t)], Missing, files.bak[Here(t)][t])
      BY <1>2, <1>4, <1>7, WritesTemporary
    <2>2. PICK y : y = [task[t] EXCEPT !.at = "release", !.outcome = "Failed"]
      OBVIOUS
    <2>3. /\ y \in Tasks /\ y.file = task[t].file /\ y.brought = task[t].brought
          /\ y.at = "release" /\ y.outcome = "Failed"
      BY <1>2, <2>2 DEF Tasks, Terminal, Working
    <2>4. task' = [task EXCEPT ![t] = y]
      BY <1>4, <1>7, <2>2
    <2>5. /\ Move(t, Here(t), y, files.at[Here(t)], Missing, files.bak[Here(t)][t])
          /\ net'.faults # 0
      BY <1>1, <1>3, <1>4, <1>7, <2>1, <2>3, <2>4, MoveFaulted
    <2>6. Kempt(t, y, files', net')
      BY <1>2, <2>3, <2>5, KemptFails
    <2>7. y.at \notin {"none", "done", "unbackup"} \cup Fixing
      BY <2>3 DEF Fixing
    <2> QED BY <1>1, <1>3, <2>3, <2>5, <2>6, <2>7, AsideStep
  <1> QED BY <1>5, <1>6, <1>7

\* The remote file of a download is closed.
LEMMA CloseStep ==
  ASSUME Inv, NEW t \in Transfer, Close(t)
  PROVE  TaskGoal
  <1>1. /\ task[t].at = "close" /\ task[t].at \in Gated \cup Working \cup {"end"}
        /\ task[t].at \in Working
    BY DEF Close, At, Working
  <1>2. /\ task[t] \in Tasks /\ files \in Files /\ Here(t) \in Path /\ net \in Nets
        /\ Kempt(t, task[t], files, net) /\ task[t].file \in DOMAIN Paths(t)
        /\ scenario \in Scenarios /\ task \in [Transfer -> Tasks]
        /\ (net.faults = 0 => net.up)
    BY <1>1, Ready
  <1>3. Beside /\ scenario' = scenario /\ files' = files
    BY WorkBeside DEF Close
  <1>4. PICK r \in Replies(TRUE) :
          /\ IF r.seen THEN Advance(t, {}) ELSE Ends(t, "Failed")
          /\ net' = r.net
    BY DEF Close
  <1>5. Answer(r, TRUE)
    BY <1>2, Answers
  <1>6. Writes(t, Here(t), files.at[Here(t)], files.tmp[t], files.bak[Here(t)][t])
    BY <1>2, <1>3, WritesNothing
  <1>7. CASE ~r.seen
    <2>1. PICK y : y = [task[t] EXCEPT !.at = "end", !.outcome = "Failed"]
      OBVIOUS
    <2>2. /\ y \in Tasks /\ y.file = task[t].file /\ y.brought = task[t].brought
          /\ y.at = "end" /\ y.outcome = "Failed"
      BY <1>2, <2>1 DEF Tasks, Terminal
    <2>3. task' = [task EXCEPT ![t] = y]
      BY <1>4, <1>7, <2>1 DEF Ends
    <2>4. Move(t, Here(t), y, files.at[Here(t)], files.tmp[t], files.bak[Here(t)][t])
      BY <1>1, <1>3, <1>4, <1>5, <1>6, <2>2, <2>3, MoveReplied
    <2>5. net'.faults # 0
      BY <1>2, <1>4, <1>5, <1>7 DEF Answer
    <2>6. Kempt(t, y, files', net')
      BY <1>2, <2>2, <2>5, KemptFails
    <2>7. y.at \notin {"none", "done", "unbackup"} \cup Fixing
      BY <2>2 DEF Fixing
    <2> QED BY <1>1, <1>3, <2>2, <2>4, <2>6, <2>7, AsideStep
  <1>8. CASE r.seen
    <2>1. PICK I \in SUBSET Path : I = {}
      OBVIOUS
    <2>2. Advance(t, I) /\ task[t].brought \cup I = task[t].brought
      BY <1>4, <1>8, <2>1
    <2>3. task[t].brought \cup I = Before(t, task[t].file + 1)
      BY <1>1, <1>2, <2>2 DEF Kempt, Course, Placed
    <2>4. PICK y \in Tasks :
            /\ task' = [task EXCEPT ![t] = y] /\ y.holds = task[t].holds
            /\ y.brought = task[t].brought \cup I /\ y.file \in DOMAIN Paths(t)
            /\ \/ /\ y.at = "gate" /\ y.then = "open" /\ y.file = task[t].file + 1
                  /\ y.brought = Before(t, y.file)
               \/ /\ y.at = "end" /\ y.outcome = "Done" /\ y.brought = OfPath(t)
                  /\ y.file = task[t].file
      BY <1>1, <2>2, <2>3, AdvanceLemma
    <2>5. y.brought = task[t].brought
      BY <2>2, <2>4
    <2>6. Move(t, Here(t), y, files.at[Here(t)], files.tmp[t], files.bak[Here(t)][t])
      BY <1>1, <1>3, <1>4, <1>5, <1>6, <2>4, MoveReplied
    <2>7. ASSUME net'.faults = 0
          PROVE  net.faults = 0 /\ files.tmp[t] = Missing /\ files.bak[Here(t)][t] = Missing
      <3>1. net.faults = 0
        BY <2>6, <2>7 DEF Move
      <3>2. Tidy(t, task[t], files)
        BY <1>2, <3>1 DEF Kempt
      <3> QED BY <1>1, <1>2, <3>1, <3>2 DEF Tidy, Stage, Gated, Swapping
    <2>8. Kempt(t, y, files', net')
      BY <1>1, <1>6, <2>4, <2>7, KemptAdvances
    <2>9. y.at \notin {"none", "done", "unbackup"} \cup Fixing
      BY <2>4 DEF Fixing
    <2> QED BY <1>1, <1>3, <2>5, <2>6, <2>8, <2>9, AsideStep
  <1> QED BY <1>7, <1>8

\* A temporary file is removed.
LEMMA DiscardStep ==
  ASSUME Inv, NEW t \in Transfer, Discard(t)
  PROVE  TaskGoal
  <1>1. task[t].at = "discard" /\ task[t].at \in Gated \cup Working \cup {"end"}
    BY DEF Discard, At, Working
  <1>2. /\ task[t] \in Tasks /\ files \in Files /\ Here(t) \in Path /\ net \in Nets
        /\ Kempt(t, task[t], files, net) /\ task[t].file \in DOMAIN Paths(t)
        /\ scenario \in Scenarios /\ task \in [Transfer -> Tasks]
        /\ (net.faults = 0 => net.up)
    BY <1>1, Ready
  <1>3. Beside /\ scenario' = scenario
    BY WorkBeside DEF Discard
  <1>4. PICK r \in (IF Up(t) THEN Replies(TRUE) ELSE {[done |-> TRUE, net |-> net]}) :
          /\ files' = IF r.done THEN [files EXCEPT !.tmp[t] = Missing] ELSE files
          /\ net' = r.net
    BY DEF Discard
  <1>5. /\ net' \in Nets /\ net'.up = net.up
        /\ net'.faults = 0 => net.faults = 0 /\ r.done
    <2>1. CASE Up(t)
      <3>1. Answer(r, TRUE)
        BY <1>2, <1>4, <2>1, Answers
      <3> QED BY <1>2, <1>4, <3>1 DEF Answer
    <2>2. CASE ~Up(t)
      BY <1>2, <1>4, <2>2
    <2> QED BY <2>1, <2>2
  <1>6. PICK v : /\ Writes(t, Here(t), files.at[Here(t)], v, files.bak[Here(t)][t])
                 /\ r.done => v = Missing
    BY <1>2, <1>4, WritesTemporary, WritesNothing
  <1>7. PICK y : y = [task[t] EXCEPT !.at = IF Up(t) THEN "end" ELSE "release"]
    OBVIOUS
  <1>8. /\ y \in Tasks /\ y.file = task[t].file /\ y.brought = task[t].brought
        /\ y.at \in {"end", "release"} /\ y.outcome = task[t].outcome
        /\ y.holds = task[t].holds
    BY <1>2, <1>7 DEF Tasks, Working
  <1>9. task' = [task EXCEPT ![t] = y]
    BY <1>7 DEF Discard, Go
  <1>10. Move(t, Here(t), y, files.at[Here(t)], v, files.bak[Here(t)][t])
    BY <1>3, <1>5, <1>6, <1>8, <1>9 DEF Move
  <1>11. Kempt(t, y, files', net')
    <2>1. Course(t, y)
      BY <1>1, <1>2, <1>8
      DEF Kempt, Course, Ahead, Swapping, Placed, Gated, Working
    <2>2. Free(t, y, files')
      BY <1>8 DEF Free, Ahead, Swapping, Placed, Gated
    <2>3. ASSUME net'.faults = 0
          PROVE  Tidy(t, y, files')
      <3>1. Tidy(t, task[t], files)
        BY <1>2, <1>5, <2>3 DEF Kempt
      <3>2. files'.tmp[t] = Missing /\ \A p \in Path : files'.bak[p][t] = files.bak[p][t]
        BY <1>5, <1>6, <2>3 DEF Writes
      <3>3. y.outcome = "Failed" \/ \A p \in Path : files.bak[p][t] = Missing
        BY <1>1, <1>8, <3>1 DEF Tidy, Swapping
      <3>4. Stage(y) = y.at
        BY <1>8 DEF Stage, Gated
      <3> QED BY <1>8, <3>2, <3>3, <3>4 DEF Tidy
    <2> QED BY <1>8, <2>1, <2>2, <2>3 DEF Kempt, Working
  <1>12. y.at \notin {"none", "done", "unbackup"} \cup Fixing
    BY <1>8 DEF Fixing
  <1> QED BY <1>1, <1>3, <1>8, <1>10, <1>11, <1>12, AsideStep

\* The remote file of a download given up is closed.
LEMMA ReleaseStep ==
  ASSUME Inv, NEW t \in Transfer, Release(t)
  PROVE  TaskGoal
  <1>1. task[t].at = "release" /\ task[t].at \in Gated \cup Working \cup {"end"}
    BY DEF Release, At, Working
  <1>2. /\ task[t] \in Tasks /\ files \in Files /\ Here(t) \in Path /\ net \in Nets
        /\ Kempt(t, task[t], files, net) /\ task[t].file \in DOMAIN Paths(t)
        /\ (net.faults = 0 => net.up)
    BY <1>1, Ready
  <1>3. Beside /\ scenario' = scenario /\ files' = files
    BY WorkBeside DEF Release
  <1>4. PICK r \in Replies(TRUE) :
          /\ Ends(t, IF r.seen THEN task[t].outcome ELSE "Failed")
          /\ net' = r.net
    BY DEF Release
  <1>5. Answer(r, TRUE)
    BY <1>2, Answers
  <1>6. Writes(t, Here(t), files.at[Here(t)], files.tmp[t], files.bak[Here(t)][t])
    BY <1>2, <1>3, WritesNothing
  <1>7. PICK o \in Terminal : o = IF r.seen THEN task[t].outcome ELSE "Failed"
    BY <1>1, <1>2 DEF Kempt, Course, Terminal
  <1>8. PICK y : y = [task[t] EXCEPT !.at = "end", !.outcome = o]
    OBVIOUS
  <1>9. /\ y \in Tasks /\ y.file = task[t].file /\ y.brought = task[t].brought
        /\ y.at = "end" /\ y.outcome = o /\ y.holds = task[t].holds
    BY <1>2, <1>7, <1>8 DEF Tasks
  <1>10. task' = [task EXCEPT ![t] = y]
    BY <1>4, <1>7, <1>8 DEF Ends
  <1>11. Move(t, Here(t), y, files.at[Here(t)], files.tmp[t], files.bak[Here(t)][t])
    BY <1>1, <1>3, <1>4, <1>5, <1>6, <1>9, <1>10, MoveReplied
  <1>12. Kempt(t, y, files', net')
    <2>1. CASE ~r.seen
      <3>1. net'.faults # 0
        BY <1>2, <1>4, <1>5, <2>1 DEF Answer
      <3> QED BY <1>2, <1>7, <1>9, <2>1, <3>1, KemptFails
    <2>2. CASE r.seen
      <3>1. o = task[t].outcome
        BY <1>7, <2>2
      <3>2. Course(t, y)
        BY <1>1, <1>2, <1>9, <3>1
        DEF Kempt, Course, Ahead, Swapping, Placed, Gated, Working
      <3>3. Free(t, y, files')
        BY <1>9 DEF Free, Ahead, Swapping, Placed, Gated
      <3>4. ASSUME net'.faults = 0
            PROVE  Tidy(t, y, files')
        <4>1. Tidy(t, task[t], files)
          BY <1>2, <1>11, <3>4 DEF Kempt, Move
        <4> QED BY <1>1, <1>3, <1>9, <3>1, <4>1 DEF Tidy, Stage, Swapping, Gated
      <3> QED BY <1>9, <3>2, <3>3, <3>4 DEF Kempt
    <2> QED BY <2>1, <2>2
  <1>13. y.at \notin {"none", "done", "unbackup"} \cup Fixing
    BY <1>9 DEF Fixing
  <1> QED BY <1>1, <1>3, <1>9, <1>11, <1>12, <1>13, AsideStep

\* One element more at the end of a sequence, one fewer at its head.
LEMMA Appended ==
  ASSUME NEW S, NEW s \in Seq(S), NEW e \in S
  PROVE  /\ Append(s, e) \in Seq(S)
         /\ DOMAIN s \subseteq DOMAIN Append(s, e)
         /\ Len(s) + 1 \in DOMAIN Append(s, e)
         /\ Append(s, e)[Len(s) + 1] = e
         /\ \A i \in DOMAIN Append(s, e) :
              (i \in DOMAIN s /\ Append(s, e)[i] = s[i]) \/ i = Len(s) + 1
  <1>1. DOMAIN s = 1..Len(s) /\ Len(s) \in Nat
    BY LenProperties
  <1>2. /\ Append(s, e) \in Seq(S) /\ Len(Append(s, e)) = Len(s) + 1
        /\ \A i \in 1..Len(s) : Append(s, e)[i] = s[i]
        /\ Append(s, e)[Len(s) + 1] = e
    BY AppendProperties
  <1>3. DOMAIN Append(s, e) = 1..(Len(s) + 1)
    BY <1>2, LenProperties
  <1> QED BY <1>1, <1>2, <1>3

\* One element fewer.
LEMMA Shortened ==
  ASSUME NEW S, NEW s \in Seq(S), s # <<>>
  PROVE  /\ Tail(s) \in Seq(S) /\ Head(s) \in S /\ Head(s) = s[1] /\ 1 \in DOMAIN s
         /\ \A i \in DOMAIN Tail(s) :
              i \in Nat \ {0} /\ i + 1 \in DOMAIN s /\ Tail(s)[i] = s[i + 1]
  <1>1. DOMAIN s = 1..Len(s) /\ Len(s) \in Nat
    BY LenProperties
  <1>2. /\ Tail(s) \in Seq(S) /\ Head(s) \in S /\ Head(s) = s[1]
        /\ Len(Tail(s)) = Len(s) - 1
        /\ \A i \in 1..Len(Tail(s)) : Tail(s)[i] = s[i + 1]
    BY HeadTailProperties
  <1>3. Len(s) # 0
    BY EmptySeq
  <1>4. DOMAIN Tail(s) = 1..(Len(s) - 1)
    BY <1>1, <1>2, LenProperties
  <1> QED BY <1>1, <1>2, <1>3, <1>4

\* The elements of the queues.
LEMMA Elements ==
  ASSUME TypeInv
  PROVE  /\ Planned \subseteq Transfer
         /\ session.commands \in Seq(Commands)
         /\ \A i \in DOMAIN session.commands :
              session.commands[i] \in Commands /\ session.commands[i].about \in Transfer
         /\ page \in Pages /\ page.events \in Seq(Event)
         /\ \A i \in DOMAIN page.events :
              page.events[i] \in Event /\ page.events[i].about \in Transfer
  <1>1. /\ scenario \in Scenarios /\ page \in Pages
        /\ session \in [at : {"open", "closing", "closed"}, commands : Seq(Commands)]
    BY Types
  <1>2. Planned \subseteq Transfer
    BY <1>1, SftpAssumption, LenProperties, ElementOfSeq DEF Planned
  <1>3. session.commands \in Seq(Commands) /\ page.events \in Seq(Event)
    BY <1>1 DEF Pages
  <1>4. /\ \A i \in DOMAIN session.commands : session.commands[i] \in Commands
        /\ \A i \in DOMAIN page.events : page.events[i] \in Event
    BY <1>3, LenProperties, ElementOfSeq
  <1> QED BY <1>1, <1>2, <1>3, <1>4 DEF Commands, Event

\* What the page has yet to hear, after an event that queues nothing.
LEMMA AnnouncedStays ==
  ASSUME TypeInv, Announced,
         \/ page'.events = page.events
         \/ \E e \in Event : e.is # "Queued" /\ page'.events = Append(page.events, e),
         \A u \in Transfer : page.rows[u] = "none" => page'.rows[u] = "none",
         \A u \in Transfer : task'[u].at = "none" <=> task[u].at = "none"
  PROVE  Announced'
  <1>1. /\ page.events \in Seq(Event)
        /\ \A i \in DOMAIN page.events : page.events[i].about \in Transfer
    BY Elements
  <1>2. /\ DOMAIN page.events \subseteq DOMAIN page'.events
        /\ \A i \in DOMAIN page'.events : page'.events[i].is = "Queued" =>
             i \in DOMAIN page.events /\ page'.events[i] = page.events[i]
    <2>1. CASE page'.events = page.events
      BY <2>1
    <2>2. ASSUME NEW e \in Event, e.is # "Queued", page'.events = Append(page.events, e)
          PROVE  /\ DOMAIN page.events \subseteq DOMAIN page'.events
                 /\ \A i \in DOMAIN page'.events : page'.events[i].is = "Queued" =>
                      i \in DOMAIN page.events /\ page'.events[i] = page.events[i]
      BY <1>1, <2>2, Appended
    <2> QED BY <2>1, <2>2
  <1>3. ASSUME NEW i \in DOMAIN page'.events, page'.events[i].is = "Queued"
        PROVE  /\ page'.rows[page'.events[i].about] = "none"
               /\ task'[page'.events[i].about].at # "none"
               /\ \A j \in DOMAIN page'.events :
                    page'.events[j] = page'.events[i] => j = i
    <2>1. i \in DOMAIN page.events /\ page'.events[i] = page.events[i]
      BY <1>2, <1>3
    <2>2. /\ page.rows[page.events[i].about] = "none"
          /\ task[page.events[i].about].at # "none"
          /\ \A j \in DOMAIN page.events : page.events[j] = page.events[i] => j = i
      BY <1>3, <2>1 DEF Announced
    <2>3. \A j \in DOMAIN page'.events : page'.events[j] = page'.events[i] =>
            j \in DOMAIN page.events /\ page.events[j] = page.events[i]
      BY <1>2, <1>3, <2>1
    <2> QED BY <1>1, <2>1, <2>2, <2>3
  <1>4. \A u \in Transfer : task'[u].at = "none" => page'.rows[u] = "none"
    BY DEF Announced
  <1> QED BY <1>3, <1>4 DEF Announced

\* What is yet to be queued, after a command has been taken.
LEMMA QueuedTail ==
  ASSUME TypeInv, QueuedOnce, NEW k, Next1(k),
         \A u \in Transfer : \/ u = Asked /\ k = "Queue"
                             \/ task[u].at = "none" => task'[u].at = "none"
  PROVE  QueuedOnce'
  <1>1. /\ session.commands \in Seq(Commands)
        /\ \A i \in DOMAIN session.commands :
             session.commands[i] \in Commands /\ session.commands[i].about \in Transfer
        /\ session.commands # <<>> /\ Head(session.commands).kind = k
    BY Elements DEF Next1
  <1>2. session'.commands = Tail(session.commands)
    <2>1. session \in [at : {"open", "closing", "closed"}, commands : Seq(Commands)]
      BY Types
    <2> QED BY <2>1 DEF Next1
  <1>3. /\ Head(session.commands) = session.commands[1] /\ 1 \in DOMAIN session.commands
        /\ \A i \in DOMAIN session'.commands :
             /\ i \in Nat \ {0} /\ i + 1 \in DOMAIN session.commands
             /\ session'.commands[i] = session.commands[i + 1]
    BY <1>1, <1>2, Shortened
  <1>4. ASSUME NEW i \in DOMAIN session'.commands, session'.commands[i].kind = "Queue"
        PROVE  /\ task'[session'.commands[i].about].at = "none"
               /\ \A j \in DOMAIN session'.commands :
                    session'.commands[j] = session'.commands[i] => j = i
    <2> DEFINE c == session.commands[i + 1]
    <2>1. /\ c.kind = "Queue" /\ task[c.about].at = "none" /\ c \in Commands
          /\ c.about \in Transfer
          /\ \A j \in DOMAIN session.commands : session.commands[j] = c => j = i + 1
      BY <1>1, <1>3, <1>4 DEF QueuedOnce
    <2>2. k = "Queue" => c.about # Asked
      <3>1. SUFFICES ASSUME k = "Queue", c.about = Asked
                     PROVE  FALSE
        OBVIOUS
      <3>2. session.commands[1] = c
        BY <1>1, <1>3, <2>1, <3>1 DEF Commands, Asked
      <3> QED BY <1>3, <2>1, <3>2
    <2>3. task'[c.about].at = "none"
      BY <2>1, <2>2
    <2> QED BY <1>3, <2>1, <2>3
  <1> QED BY <1>4 DEF QueuedOnce

Sessions == [at : {"open", "closing", "closed"}, commands : Seq(Commands)]

\* A step that leaves every task, file and row's first word as it is.
LEMMA IdleGoal ==
  ASSUME Inv, Idles, page' \in Pages, session' \in Sessions, QueuedOnce', Announced'
  PROVE  TaskGoal
  <1>1. TypeInv' /\ (\A t \in Transfer : Own(t)') /\ (net'.faults = 0 => net'.up)
    BY IdleOwn DEF Sessions
  <1> QED BY <1>1, IdleKept DEF TaskGoal, Inv

\* What the invariant says of each variable.
LEMMA Parts ==
  ASSUME Inv
  PROVE  /\ TypeInv /\ QueuedOnce /\ Announced
         /\ control \in Controls /\ waiting \in Seq(Transfer) /\ net \in Nets
         /\ page \in Pages /\ session \in Sessions /\ scenario \in Scenarios
         /\ task \in [Transfer -> Tasks] /\ files \in Files
  BY Types DEF Inv, Sessions

\* The command taken, and the session after it.
LEMMA NextCommand ==
  ASSUME TypeInv, NEW k, Next1(k)
  PROVE  session' \in Sessions /\ Asked \in Planned /\ Asked \in Transfer
  <1>1. /\ session \in Sessions /\ session.commands \in Seq(Commands)
        /\ session.commands # <<>> /\ Planned \subseteq Transfer
    BY Types, Elements DEF Next1, Sessions
  <1>2. Tail(session.commands) \in Seq(Commands) /\ Asked \in Planned
    <2>1. Tail(session.commands) \in Seq(Commands) /\ Head(session.commands) \in Commands
      BY <1>1, Shortened
    <2> QED BY <2>1 DEF Asked, Commands
  <1>3. session' = [session EXCEPT !.commands = Tail(session.commands)]
    BY DEF Next1
  <1> QED BY <1>1, <1>2, <1>3 DEF Sessions

\* A pause or a resumption is executed.
LEMMA SetPausedStep ==
  ASSUME Inv, NEW k \in {"Pause", "Resume"}, NEW b \in BOOLEAN, SetPaused(k, b)
  PROVE  TaskGoal
  <1>1. /\ Next1(k) /\ UNCHANGED <<scenario, files, task, waiting, net>>
        /\ \/ /\ control' = [control EXCEPT ![Asked].paused = b, ![Asked].note = TRUE]
              /\ page' = Posted(Asked, IF b THEN "Paused" ELSE "Resumed")
           \/ UNCHANGED <<control, page>>
    BY DEF SetPaused
  <1>2. session' \in Sessions /\ Asked \in Transfer
    BY <1>1, NextCommand, Parts
  <1>3. control' \in Controls
    <2>1. PICK c : c = [control[Asked] EXCEPT !.paused = b, !.note = TRUE]
      OBVIOUS
    <2>2. control \in Controls
      BY Parts
    <2>3. c \in [known : BOOLEAN, cancelled : BOOLEAN, paused : BOOLEAN, note : BOOLEAN]
      BY <1>2, <2>1, <2>2 DEF Controls
    <2>4. control' = [control EXCEPT ![Asked] = c] \/ control' = control
      BY <1>1, <1>2, <2>1, <2>2 DEF Controls
    <2> QED BY <2>2, <2>3, <2>4 DEF Controls
  <1>4. PICK e : e = [about |-> Asked, is |-> IF b THEN "Paused" ELSE "Resumed"]
    OBVIOUS
  <1>5. e \in Event /\ e.is # "Queued"
    BY <1>2, <1>4 DEF Event
  <1>6. /\ page' \in Pages /\ page'.rows = page.rows
        /\ page'.events = page.events \/ page'.events = Append(page.events, e)
    <2>1. page \in Pages /\ page.events \in Seq(Event)
      BY Parts, Elements
    <2>2. Append(page.events, e) \in Seq(Event)
      BY <1>5, <2>1, AppendProperties
    <2>3. page' = page \/ page' = [page EXCEPT !.events = Append(page.events, e)]
      BY <1>1, <1>4 DEF Posted
    <2> QED BY <2>1, <2>2, <2>3 DEF Pages
  <1>7. Announced'
    BY <1>1, <1>5, <1>6, Parts, AnnouncedStays
  <1>8. QueuedOnce'
    BY <1>1, Parts, QueuedTail
  <1>9. Idles
    BY <1>1, <1>3, Parts DEF Idles
  <1> QED BY <1>2, <1>6, <1>7, <1>8, <1>9, IdleGoal

\* A transfer that has told the task and the page nothing new.
LEMMA Silent ==
  ASSUME Inv, Idles, page' = page, session' \in Sessions, QueuedOnce'
  PROVE  TaskGoal
  <1>1. Announced'
    BY Parts, AnnouncedStays DEF Idles
  <1> QED BY <1>1, Parts, IdleGoal

\* A cancellation is executed.
LEMMA CancelStep ==
  ASSUME Inv, CancelTransfer
  PROVE  TaskGoal
  <1>1. /\ Next1("Cancel") /\ UNCHANGED <<scenario, files, task, waiting, page, net>>
        /\ \/ control' = [control EXCEPT ![Asked].cancelled = TRUE, ![Asked].note = TRUE]
           \/ control' = control
    BY DEF CancelTransfer
  <1>2. session' \in Sessions /\ Asked \in Transfer
    BY <1>1, NextCommand, Parts
  <1>3. control' \in Controls
    <2>1. PICK c : c = [control[Asked] EXCEPT !.cancelled = TRUE, !.note = TRUE]
      OBVIOUS
    <2>2. control \in Controls
      BY Parts
    <2>3. c \in [known : BOOLEAN, cancelled : BOOLEAN, paused : BOOLEAN, note : BOOLEAN]
      BY <1>2, <2>1, <2>2 DEF Controls
    <2>4. control' = [control EXCEPT ![Asked] = c] \/ control' = control
      BY <1>1, <1>2, <2>1, <2>2 DEF Controls
    <2> QED BY <2>2, <2>3, <2>4 DEF Controls
  <1>4. QueuedOnce'
    BY <1>1, Parts, QueuedTail
  <1>5. Idles
    BY <1>1, <1>3, Parts DEF Idles
  <1> QED BY <1>1, <1>2, <1>4, <1>5, Silent

\* The session starts to close.
LEMMA CloseSessionStep ==
  ASSUME Inv, CloseSession
  PROVE  TaskGoal
  <1>1. /\ session' = [at |-> "closing", commands |-> <<>>] /\ CancelAll
        /\ UNCHANGED <<scenario, files, task, waiting, page, net>>
    BY DEF CloseSession
  <1>2. session' \in Sessions /\ session'.commands = <<>>
    BY <1>1 DEF Sessions
  <1>3. control' \in Controls
    <2>1. control \in Controls
      BY Parts
    <2>2. ASSUME NEW t \in Transfer
          PROVE  [control[t] EXCEPT !.known = FALSE, !.cancelled = TRUE, !.note = TRUE]
                   \in [known : BOOLEAN, cancelled : BOOLEAN, paused : BOOLEAN, note : BOOLEAN]
      BY <2>1 DEF Controls
    <2> QED BY <1>1, <2>1, <2>2 DEF CancelAll, Controls
  <1>4. QueuedOnce'
    BY <1>2 DEF QueuedOnce
  <1>5. Idles
    BY <1>1, <1>3, Parts DEF Idles
  <1> QED BY <1>1, <1>2, <1>4, <1>5, Silent

\* The session has closed.
LEMMA SessionClosedStep ==
  ASSUME Inv, SessionClosed
  PROVE  TaskGoal
  <1>1. /\ session' = [session EXCEPT !.at = "closed"]
        /\ UNCHANGED <<scenario, files, task, control, waiting, page, net>>
    BY DEF SessionClosed
  <1>2. session' \in Sessions /\ session'.commands = session.commands
    BY <1>1, Parts DEF Sessions
  <1>3. QueuedOnce'
    BY <1>1, <1>2, Parts DEF QueuedOnce
  <1>4. Idles
    BY <1>1, Parts DEF Idles
  <1> QED BY <1>1, <1>2, <1>3, <1>4, Silent

\* The session forgets a transfer that has ended.
LEMMA ReapStep ==
  ASSUME Inv, NEW t \in Transfer, Reap(t)
  PROVE  TaskGoal
  <1>1. /\ control' = [control EXCEPT ![t].known = FALSE]
        /\ UNCHANGED <<scenario, files, task, waiting, session, page, net>>
    BY DEF Reap
  <1>2. control' \in Controls
    <2>1. PICK c : c = [control[t] EXCEPT !.known = FALSE]
      OBVIOUS
    <2>2. control' = [control EXCEPT ![t] = c] /\ control \in Controls
      BY <1>1, <2>1, Parts
    <2> QED BY <2>1, <2>2 DEF Controls
  <1>3. QueuedOnce'
    BY <1>1, Parts DEF QueuedOnce
  <1>4. Idles
    BY <1>1, <1>2, Parts DEF Idles
  <1> QED BY <1>1, <1>3, <1>4, Parts, Silent

\* The connection is lost.
LEMMA LoseLinkStep ==
  ASSUME Inv, LoseLink
  PROVE  TaskGoal
  <1>1. /\ net' = [Fault EXCEPT !.up = FALSE]
        /\ UNCHANGED <<scenario, files, task, control, waiting, session, page>>
    BY DEF LoseLink
  <1>2. net.faults \in Nat /\ net \in Nets
    BY Parts DEF Nets
  <1>3. net' \in Nets /\ net'.up = FALSE /\ net'.faults = net.faults + 1
    <2>1. PICK n \in Nat : n = net.faults + 1
      BY <1>2
    <2>2. net' = [net EXCEPT !.faults = n, !.up = FALSE]
      BY <1>1, <1>2, <2>1 DEF Fault, Nets
    <2> QED BY <1>2, <2>1, <2>2 DEF Nets
  <1>4. Idles
    <2>1. net'.up = FALSE /\ net' \in Nets
      BY <1>3
    <2>2. net'.faults # 0
      BY <1>2, <1>3
    <2> QED BY <1>1, <2>1, <2>2, Parts DEF Idles
  <1>5. QueuedOnce'
    BY <1>1, Parts DEF QueuedOnce
  <1> QED BY <1>1, <1>4, <1>5, Parts, Silent

\* Steps of the page.
LEMMA PageGoal ==
  ASSUME Inv, UNCHANGED <<scenario, files, task, control, waiting, net>>,
         page' \in Pages, session' \in Sessions, QueuedOnce', Announced'
  PROVE  TaskGoal
  <1>1. Idles
    BY Parts DEF Idles
  <1> QED BY <1>1, IdleGoal

\* A step that leaves the commands and the tasks.
LEMMA QueuedSame ==
  ASSUME Inv, task' = task, session' = session
  PROVE  QueuedOnce'
  BY Parts DEF QueuedOnce

\* What an event makes of a row.
LEMMA RowAfterLemma ==
  ASSUME NEW row \in {"none", "Queued", "Running", "Paused"} \cup Terminal,
         NEW e \in {"Queued", "Paused", "Resumed"} \cup Terminal
  PROVE  /\ RowAfter(row, e) \in {"none", "Queued", "Running", "Paused"} \cup Terminal
         /\ row = "none" /\ e # "Queued" => RowAfter(row, e) = "none"
         /\ e \in Terminal /\ row # "none" => RowAfter(row, e) = e
  <1>1. CASE row = "none" /\ e # "Queued"
    BY <1>1 DEF RowAfter
  <1>2. CASE ~(row = "none" /\ e # "Queued") /\ e = "Resumed"
    BY <1>2 DEF RowAfter, Terminal
  <1>3. CASE ~(row = "none" /\ e # "Queued") /\ e # "Resumed"
    <2>1. RowAfter(row, e) = e
      BY <1>3 DEF RowAfter
    <2> QED BY <1>3, <2>1 DEF Terminal
  <1> QED BY <1>1, <1>2, <1>3

\* What Receive does, event by event.
LEMMA Received ==
  ASSUME TypeInv, Receive
  PROVE  /\ page.events # <<>> /\ page' \in Pages
         /\ Head(page.events) \in Event /\ Head(page.events).about \in Transfer
         /\ page'.events = Tail(page.events)
         /\ page' = [page EXCEPT !.events = Tail(page.events), !.rows = page'.rows]
         /\ \A u \in Transfer :
              page'.rows[u] = IF u = Head(page.events).about /\ page.open
                              THEN RowAfter(page.rows[u], Head(page.events).is)
                              ELSE page.rows[u]
  <1>1. /\ page \in Pages /\ page.events \in Seq(Event) /\ page.events # <<>>
        /\ page.rows \in [Transfer -> {"none", "Queued", "Running", "Paused"} \cup Terminal]
    BY Elements DEF Receive, Pages
  <1>2. PICK e : e = Head(page.events)
    OBVIOUS
  <1>3. e \in Event /\ Tail(page.events) \in Seq(Event)
    BY <1>1, <1>2, Shortened
  <1>4. /\ e.about \in Transfer
        /\ e.is \in {"Queued", "Paused", "Resumed"} \cup Terminal
    BY <1>3 DEF Event
  <1>5. PICK v \in {"none", "Queued", "Running", "Paused"} \cup Terminal :
          v = IF page.open THEN RowAfter(page.rows[e.about], e.is) ELSE page.rows[e.about]
    <2>1. page.rows[e.about] \in {"none", "Queued", "Running", "Paused"} \cup Terminal
      BY <1>1, <1>4
    <2>2. RowAfter(page.rows[e.about], e.is)
            \in {"none", "Queued", "Running", "Paused"} \cup Terminal
      BY <1>4, <2>1, RowAfterLemma
    <2> QED BY <2>1, <2>2
  <1>6. PICK R : R = [page.rows EXCEPT ![e.about] = v]
    OBVIOUS
  <1>7. /\ R \in [Transfer -> {"none", "Queued", "Running", "Paused"} \cup Terminal]
        /\ R[e.about] = v
        /\ \A u \in Transfer : u # e.about => R[u] = page.rows[u]
    BY <1>1, <1>4, <1>5, <1>6
  <1>8. page' = [page EXCEPT !.events = Tail(page.events), !.rows = R]
    BY <1>1, <1>2, <1>5, <1>6 DEF Receive
  <1>9. /\ page' \in Pages /\ page'.events = Tail(page.events) /\ page'.rows = R
    BY <1>1, <1>3, <1>7, <1>8 DEF Pages
  <1>10. \A u \in Transfer :
           page'.rows[u] = IF u = e.about /\ page.open
                           THEN RowAfter(page.rows[u], e.is) ELSE page.rows[u]
    BY <1>5, <1>7, <1>9
  <1> QED BY <1>1, <1>2, <1>3, <1>4, <1>8, <1>9, <1>10

\* The page hears of an event.
LEMMA ReceiveStep ==
  ASSUME Inv, Receive
  PROVE  TaskGoal
  <1>1. UNCHANGED <<scenario, files, task, control, waiting, session, net>>
    BY DEF Receive
  <1>2. PICK e : e = Head(page.events)
    OBVIOUS
  <1>3. /\ page.events # <<>> /\ page' \in Pages /\ e \in Event /\ e.about \in Transfer
        /\ page'.events = Tail(page.events)
        /\ \A u \in Transfer :
             page'.rows[u] = IF u = e.about /\ page.open
                             THEN RowAfter(page.rows[u], e.is) ELSE page.rows[u]
    BY <1>2, Parts, Received
  <1>4. /\ page.events \in Seq(Event)
        /\ \A i \in DOMAIN page.events :
             page.events[i] \in Event /\ page.events[i].about \in Transfer
        /\ page \in Pages
    BY Parts, Elements
  <1>5. /\ e = page.events[1] /\ 1 \in DOMAIN page.events
        /\ \A i \in DOMAIN page'.events :
             /\ i \in Nat \ {0} /\ i + 1 \in DOMAIN page.events
             /\ page'.events[i] = page.events[i + 1]
    BY <1>2, <1>3, <1>4, Shortened
  <1>6. \A u \in Transfer : page.rows[u] = "none" /\ ~(u = e.about /\ e.is = "Queued")
                              => page'.rows[u] = "none"
    <2> SUFFICES ASSUME NEW u \in Transfer, page.rows[u] = "none",
                        ~(u = e.about /\ e.is = "Queued")
                 PROVE  page'.rows[u] = "none"
      OBVIOUS
    <2>1. /\ page.rows[u] \in {"none", "Queued", "Running", "Paused"} \cup Terminal
          /\ e.is \in {"Queued", "Paused", "Resumed"} \cup Terminal
      BY <1>3, <1>4 DEF Pages, Event
    <2>2. e.is # "Queued" => RowAfter(page.rows[u], e.is) = "none"
      BY <2>1, RowAfterLemma
    <2> QED BY <1>3, <2>2
  <1>7. ASSUME NEW i \in DOMAIN page'.events, page'.events[i].is = "Queued"
        PROVE  /\ page'.rows[page'.events[i].about] = "none"
               /\ task'[page'.events[i].about].at # "none"
               /\ \A j \in DOMAIN page'.events :
                    page'.events[j] = page'.events[i] => j = i
    <2> DEFINE c == page.events[i + 1]
    <2>1. /\ c.is = "Queued" /\ c \in Event /\ c.about \in Transfer
          /\ page.rows[c.about] = "none" /\ task[c.about].at # "none"
          /\ \A j \in DOMAIN page.events : page.events[j] = c => j = i + 1
      BY <1>4, <1>5, <1>7, Parts DEF Announced
    <2>2. ~(c.about = e.about /\ e.is = "Queued")
      <3>1. SUFFICES ASSUME c.about = e.about, e.is = "Queued"
                     PROVE  FALSE
        OBVIOUS
      <3>2. page.events[1] = c
        BY <1>3, <1>5, <2>1, <3>1 DEF Event
      <3> QED BY <1>5, <2>1, <3>2
    <2>3. page'.rows[c.about] = "none"
      BY <1>6, <2>1, <2>2
    <2> QED BY <1>1, <1>5, <2>1, <2>3
  <1>8. ASSUME NEW u \in Transfer, task'[u].at = "none"
        PROVE  page'.rows[u] = "none"
    <2>1. page.rows[u] = "none" /\ task[u].at = "none"
      BY <1>1, <1>8, Parts DEF Announced
    <2>2. ~(u = e.about /\ e.is = "Queued")
      BY <1>5, <2>1, Parts DEF Announced
    <2> QED BY <1>6, <2>1, <2>2
  <1>9. Announced'
    BY <1>7, <1>8 DEF Announced
  <1> QED BY <1>1, <1>3, <1>9, Parts, QueuedSame, PageGoal

\* The page shows what it has heard; what it has not heard of it does not show.
LEMMA PageStays ==
  ASSUME Inv, UNCHANGED <<scenario, files, task, control, waiting, net>>,
         page' \in Pages, page'.events = page.events,
         \A u \in Transfer : page.rows[u] = "none" => page'.rows[u] = "none",
         session' \in Sessions, QueuedOnce'
  PROVE  TaskGoal
  <1>1. Announced'
    BY Parts, AnnouncedStays
  <1> QED BY <1>1, PageGoal

\* The page takes an update.
LEMMA TakeProgressStep ==
  ASSUME Inv, TakeProgress
  PROVE  TaskGoal
  <1>1. UNCHANGED <<scenario, files, task, control, waiting, session, net>>
    BY DEF TakeProgress
  <1>2. page' \in Pages /\ page'.events = page.events /\ page'.rows = page.rows
    <2>1. PICK t \in page.progress :
            page' = [page EXCEPT !.hand = {t}, !.progress = @ \ {t}]
      BY DEF TakeProgress
    <2>2. page \in Pages /\ t \in Transfer
      BY <2>1, Parts DEF Pages
    <2> QED BY <2>1, <2>2 DEF Pages
  <1> QED BY <1>1, <1>2, Parts, QueuedSame, PageStays

\* Progress changes no row but a queued one.
LEMMA ShownProgress ==
  ASSUME page \in Pages, ShowProgress
  PROVE  /\ page' \in Pages /\ page'.events = page.events
         /\ \A u \in Transfer :
              page'.rows[u] = page.rows[u] \/ (page.rows[u] = "Queued" /\ page'.rows[u] = "Running")
  <1>1. page.rows \in [Transfer -> {"none", "Queued", "Running", "Paused"} \cup Terminal]
    BY DEF Pages
  <1>2. PICK R : R = [t \in Transfer |->
                        IF t \in page.hand \cup page.progress /\ page.rows[t] = "Queued"
                        THEN "Running" ELSE page.rows[t]]
    OBVIOUS
  <1>3. /\ R \in [Transfer -> {"none", "Queued", "Running", "Paused"} \cup Terminal]
        /\ \A u \in Transfer :
             R[u] = page.rows[u] \/ (page.rows[u] = "Queued" /\ R[u] = "Running")
    BY <1>1, <1>2
  <1>4. page' = [page EXCEPT !.rows = R, !.hand = {}, !.progress = {}]
    BY <1>2 DEF ShowProgress
  <1>5. page' \in Pages /\ page'.events = page.events /\ page'.rows = R
    BY <1>3, <1>4 DEF Pages
  <1> QED BY <1>3, <1>5

\* The page shows progress.
LEMMA ShowProgressStep ==
  ASSUME Inv, ShowProgress
  PROVE  TaskGoal
  <1>1. UNCHANGED <<scenario, files, task, control, waiting, session, net>>
    BY DEF ShowProgress
  <1>2. /\ page' \in Pages /\ page'.events = page.events
        /\ \A u \in Transfer : page.rows[u] = "none" => page'.rows[u] = "none"
    BY Parts, ShownProgress
  <1> QED BY <1>1, <1>2, Parts, QueuedSame, PageStays

\* A row is removed.
LEMMA RemoveRowStep ==
  ASSUME Inv, NEW t \in Transfer, RemoveRow(t)
  PROVE  TaskGoal
  <1>1. UNCHANGED <<scenario, files, task, control, waiting, session, net>>
    BY DEF RemoveRow
  <1>2. page \in Pages
        /\ page.rows \in [Transfer -> {"none", "Queued", "Running", "Paused"} \cup Terminal]
    BY Parts DEF Pages
  <1>3. PICK R, n : R = [page.rows EXCEPT ![t] = "none"] /\ n = page.presses + 1
    OBVIOUS
  <1>4. R \in [Transfer -> {"none", "Queued", "Running", "Paused"} \cup Terminal] /\ n \in Nat
    BY <1>2, <1>3 DEF Pages
  <1>5. page' = [page EXCEPT !.rows = R, !.presses = n]
    BY <1>3 DEF RemoveRow
  <1>6. page' \in Pages /\ page'.events = page.events /\ page'.rows = R
    BY <1>2, <1>4, <1>5 DEF Pages
  <1>7. \A u \in Transfer : page.rows[u] = "none" => page'.rows[u] = "none"
    BY <1>2, <1>3, <1>6
  <1> QED BY <1>1, <1>6, <1>7, Parts, QueuedSame, PageStays

\* A button is pressed, or the tab closed.
LEMMA PressStep ==
  ASSUME Inv, NEW k \in {"Pause", "Resume", "Cancel", "Close"}, NEW t \in Planned, Press(k, t)
  PROVE  TaskGoal
  <1>1. UNCHANGED <<scenario, files, task, control, waiting, net>>
    BY DEF Press
  <1>2. page \in Pages /\ session \in Sessions /\ session.commands \in Seq(Commands)
    BY Parts, Elements
  <1>3. PICK n \in Nat : n = page.presses + 1
    BY <1>2 DEF Pages
  <1>4. PICK b \in BOOLEAN : b = (k # "Close")
    OBVIOUS
  <1>5. page' = [page EXCEPT !.presses = n, !.open = b]
    BY <1>3, <1>4 DEF Press
  <1>6. page' \in Pages /\ page'.events = page.events /\ page'.rows = page.rows
    BY <1>2, <1>5 DEF Pages
  <1>7. PICK c : c = Command(k, t)
    OBVIOUS
  <1>8. c \in Commands /\ c.kind # "Queue"
    BY <1>7 DEF Command, Commands
  <1>9. session' = session \/ session' = [session EXCEPT !.commands = Append(session.commands, c)]
    BY <1>7 DEF Press
  <1>10. /\ session' \in Sessions
         /\ \/ session'.commands = session.commands
            \/ session'.commands = Append(session.commands, c)
    <2>1. Append(session.commands, c) \in Seq(Commands)
      BY <1>2, <1>8, AppendProperties
    <2> QED BY <1>2, <1>9, <2>1 DEF Sessions
  <1>11. /\ DOMAIN session.commands \subseteq DOMAIN session'.commands
         /\ \A i \in DOMAIN session'.commands : session'.commands[i].kind = "Queue" =>
              i \in DOMAIN session.commands /\ session'.commands[i] = session.commands[i]
    <2>1. CASE session'.commands = session.commands
      BY <2>1
    <2>2. CASE session'.commands = Append(session.commands, c)
      BY <1>2, <1>8, <2>2, Appended
    <2> QED BY <1>10, <2>1, <2>2
  <1>12. QueuedOnce'
    BY <1>1, <1>11, Parts DEF QueuedOnce
  <1> QED BY <1>1, <1>6, <1>10, <1>12, PageStays

\* A step that leaves the names of tasks alone, but for one of them.
LEMMA OwnAll ==
  ASSUME Inv, NEW t \in Transfer, scenario' = scenario, files' = files, net' = net,
         NEW y, task' = [task EXCEPT ![t] = y], Kempt(t, y, files', net')
  PROVE  /\ \A u \in Transfer : Own(u)'
         /\ net'.faults = 0 => net'.up
  <1>1. /\ task'[t] = y /\ \A u \in Transfer : u # t => task'[u] = task[u]
    BY Parts
  <1>2. ASSUME NEW u \in Transfer, u # t
        PROVE  Own(u)'
    BY <1>1, <1>2, Parts, KemptStays DEF Inv
  <1>3. Own(t)'
    BY <1>1, KemptLater
  <1> QED BY <1>2, <1>3 DEF Inv

\* A transfer is queued: its task starts, and the page is told first.
LEMMA QueueStep ==
  ASSUME Inv, QueueTransfer
  PROVE  TaskGoal
  <1>1. /\ Next1("Queue") /\ page' = Posted(Asked, "Queued") /\ Gate(Asked, "open")
        /\ control' = [control EXCEPT ![Asked].known = TRUE]
        /\ UNCHANGED <<scenario, files, waiting, net>>
    BY DEF QueueTransfer
  <1>2. /\ session' \in Sessions /\ Asked \in Planned /\ Asked \in Transfer
    BY <1>1, Parts, NextCommand
  <1> PICK t \in Transfer : t = Asked
    BY <1>2
  <1>3. task[t].at = "none"
    <2>1. /\ session.commands \in Seq(Commands) /\ session.commands # <<>>
          /\ Head(session.commands).kind = "Queue"
      BY <1>1, Parts, Elements DEF Next1
    <2>2. Head(session.commands) = session.commands[1] /\ 1 \in DOMAIN session.commands
      BY <2>1, Shortened
    <2> QED BY <2>1, <2>2, Parts DEF QueuedOnce, Asked
  <1>4. PICK h : h = Paths(t)[1]
    OBVIOUS
  <1>5. 1 \in DOMAIN Paths(t) /\ h \in Path
    <2>1. Paths(t) # <<>>
      BY <1>2, Parts, SftpAssumption DEF Planned, Paths
    <2>2. /\ Paths(t) \in Seq(Path) /\ DOMAIN Paths(t) = 1..Len(Paths(t))
          /\ Len(Paths(t)) \in Nat /\ \A i \in DOMAIN Paths(t) : Paths(t)[i] \in Path
      BY Parts, PathsLemma
    <2>3. Len(Paths(t)) # 0
      BY <2>1, <2>2, EmptySeq
    <2> QED BY <1>4, <2>2, <2>3
  <1>6. /\ task[t] \in Tasks /\ Kempt(t, task[t], files, net)
        /\ task[t].file = 1 /\ task[t].brought = {} /\ task[t].holds = FALSE
    <2>1. task[t] \in Tasks /\ Own(t)
      BY Parts DEF Inv
    <2> QED BY <1>3, <2>1 DEF Own, Kempt, Course, Working, Tasks
  <1>7. PICK y : y = [task[t] EXCEPT !.at = "gate", !.then = "open"]
    OBVIOUS
  <1>8. /\ y \in Tasks /\ y.at = "gate" /\ y.then = "open" /\ y.file = 1
        /\ y.brought = {} /\ y.holds = FALSE
    BY <1>6, <1>7 DEF Tasks, Gated
  <1>9. task' = [task EXCEPT ![t] = y]
    BY <1>1, <1>7 DEF Gate
  <1>10. Kempt(t, y, files', net')
    <2>1. Course(t, y)
      <3>1. Before(t, 1) = {}
        BY <1>5, Parts, BeforeLemma
      <3> QED BY <1>5, <1>8, <3>1 DEF Course, Ahead, Swapping, Placed, Gated, Working
    <2>2. Free(t, y, files')
      BY <1>1, <1>3, <1>6, <1>8 DEF Kempt, Free, Ahead, Swapping, Placed, Gated
    <2>3. net.faults = 0 => Tidy(t, y, files)
      BY <1>3, <1>6, <1>8 DEF Kempt, Tidy, Stage, Gated, Swapping
    <2> QED BY <1>1, <1>8, <2>1, <2>2, <2>3 DEF Kempt
  <1>11. (\A u \in Transfer : Own(u)') /\ (net'.faults = 0 => net'.up)
    BY <1>1, <1>9, <1>10, OwnAll
  <1>12. /\ task' \in [Transfer -> Tasks] /\ task'[t] = y
         /\ \A u \in Transfer : u # t => task'[u] = task[u]
    BY <1>8, <1>9, Parts
  <1>13. QueuedOnce'
    BY <1>1, <1>12, Parts, QueuedTail
  <1>14. PICK e : e = [about |-> t, is |-> "Queued"]
    OBVIOUS
  <1>15. /\ page' \in Pages /\ page'.rows = page.rows
         /\ page'.events = Append(page.events, e)
         /\ page.events \in Seq(Event) /\ e \in Event
    <2>1. page \in Pages /\ page.events \in Seq(Event) /\ e \in Event
      BY <1>14, Parts, Elements DEF Event
    <2>2. Append(page.events, e) \in Seq(Event)
      BY <2>1, AppendProperties
    <2>3. page' = [page EXCEPT !.events = Append(page.events, e)]
      BY <1>1, <1>14 DEF Posted
    <2> QED BY <2>1, <2>2, <2>3 DEF Pages
  <1>16. control' \in Controls
    <2>1. PICK c : c = [control[t] EXCEPT !.known = TRUE]
      OBVIOUS
    <2>2. control' = [control EXCEPT ![t] = c] /\ control \in Controls
      BY <1>1, <2>1, Parts
    <2> QED BY <2>1, <2>2 DEF Controls
  <1>17. TypeInv'
    BY <1>1, <1>2, <1>12, <1>15, <1>16, Parts, Frozen, TypesLater DEF Sessions
  <1>18. Announced'
    <2>1. \A i \in DOMAIN page.events : page.events[i].about \in Transfer
      BY Parts, Elements
    <2>2. \A i \in DOMAIN page.events : page.events[i] # e
      BY <1>3, <1>14, Parts DEF Announced
    <2>3. /\ DOMAIN page.events \subseteq DOMAIN page'.events
          /\ \A i \in DOMAIN page'.events :
               \/ i \in DOMAIN page.events /\ page'.events[i] = page.events[i]
               \/ i = Len(page.events) + 1 /\ page'.events[i] = e
      BY <1>15, Appended
    <2>4. ASSUME NEW i \in DOMAIN page'.events, page'.events[i].is = "Queued"
          PROVE  /\ page'.rows[page'.events[i].about] = "none"
                 /\ task'[page'.events[i].about].at # "none"
                 /\ \A j \in DOMAIN page'.events :
                      page'.events[j] = page'.events[i] => j = i
      <3>1. CASE i \in DOMAIN page.events /\ page'.events[i] = page.events[i]
        <4>1. /\ page.rows[page.events[i].about] = "none"
              /\ task[page.events[i].about].at # "none"
              /\ \A j \in DOMAIN page.events : page.events[j] = page.events[i] => j = i
          BY <2>4, <3>1, Parts DEF Announced
        <4>2. page.events[i].about # t /\ page.events[i].about \in Transfer
          BY <1>3, <2>1, <3>1, <4>1
        <4> QED BY <1>12, <1>15, <2>2, <2>3, <3>1, <4>1, <4>2
      <3>2. CASE i = Len(page.events) + 1 /\ page'.events[i] = e
        <4>1. page.rows[t] = "none" /\ e.about = t
          BY <1>3, <1>14, Parts DEF Announced
        <4>2. task'[t].at # "none"
          BY <1>8, <1>12
        <4>3. \A j \in DOMAIN page'.events : page'.events[j] = e => j = i
          BY <2>2, <2>3, <3>2
        <4> QED BY <1>15, <3>2, <4>1, <4>2, <4>3
      <3> QED BY <2>3, <3>1, <3>2
    <2>5. \A u \in Transfer : task'[u].at = "none" => page'.rows[u] = "none"
      BY <1>8, <1>12, <1>15, Parts DEF Announced
    <2> QED BY <2>4, <2>5 DEF Announced
  <1>19. Inv'
    BY <1>11, <1>13, <1>17, <1>18 DEF Inv
  <1>20. Move(t, h, y, files.at[h], files.tmp[t], files.bak[h][t])
    <2>1. Writes(t, h, files.at[h], files.tmp[t], files.bak[h][t])
      BY <1>1, <1>5, Parts, WritesNothing
    <2> QED BY <1>1, <1>8, <1>9, <2>1, Parts DEF Move
  <1>21. Here(t) = h /\ y.at \notin {"done", "unbackup"} \cup Fixing /\ y.brought = task[t].brought
    BY <1>4, <1>6, <1>8 DEF Here, Fixing
  <1>22. KeptStep
    BY <1>3, <1>20, <1>21, Parts, MoveStutters
  <1>23. Covered => Covered'
    BY <1>20, <1>21, Parts, CoveredStep
  <1>24. Single => Single'
    BY <1>20, <1>21, Parts, SingleStep
  <1> QED BY <1>1, <1>19, <1>22, <1>23, <1>24 DEF TaskGoal, KeptInv, Keeps

\* A task ends and tells how: a Tell of FileReplacement.
LEMMA EndStep ==
  ASSUME Inv, NEW t \in Transfer, End(t)
  PROVE  TaskGoal
  <1>1. /\ task[t].at = "end" /\ task[t].at \in Gated \cup Working \cup {"end"}
        /\ UNCHANGED <<scenario, files, control, waiting, session, net>>
    BY DEF End, At
  <1>2. /\ task[t] \in Tasks /\ Kempt(t, task[t], files, net) /\ Here(t) \in Path
    BY <1>1, Ready
  <1>3. task[t].outcome \in Terminal
    BY <1>1, <1>2 DEF Kempt, Course
  <1>4. PICK y : y = [task[t] EXCEPT !.at = "done", !.holds = FALSE]
    OBVIOUS
  <1>5. /\ y \in Tasks /\ y.at = "done" /\ y.holds = FALSE /\ y.outcome = task[t].outcome
        /\ y.file = task[t].file /\ y.brought = task[t].brought
    BY <1>2, <1>4 DEF Tasks
  <1>6. task' = [task EXCEPT ![t] = y]
    BY <1>4 DEF End
  <1>7. Kempt(t, y, files', net')
    <2>1. Course(t, y)
      BY <1>1, <1>2, <1>5 DEF Kempt, Course, Ahead, Swapping, Placed, Gated, Working
    <2>2. Free(t, y, files')
      BY <1>5 DEF Free, Ahead, Swapping, Placed, Gated
    <2>3. net.faults = 0 => Tidy(t, y, files)
      BY <1>1, <1>2, <1>5 DEF Kempt, Tidy, Stage, Gated, Swapping
    <2> QED BY <1>1, <1>5, <2>1, <2>2, <2>3 DEF Kempt
  <1>8. (\A u \in Transfer : Own(u)') /\ (net'.faults = 0 => net'.up)
    BY <1>1, <1>6, <1>7, OwnAll
  <1>9. /\ task' \in [Transfer -> Tasks] /\ task'[t] = y
        /\ \A u \in Transfer : u # t => task'[u] = task[u]
    BY <1>5, <1>6, Parts
  <1>10. \A u \in Transfer : task'[u].at = "none" <=> task[u].at = "none"
    BY <1>1, <1>5, <1>9
  <1>11. PICK e : e = [about |-> t, is |-> task[t].outcome]
    OBVIOUS
  <1>12. e \in Event /\ e.is # "Queued"
    BY <1>3, <1>11 DEF Event, Terminal
  <1>13. /\ page' \in Pages /\ page'.rows = page.rows
         /\ page'.events = Append(page.events, e)
    <2>1. page \in Pages /\ page.events \in Seq(Event)
      BY Parts, Elements
    <2>2. Append(page.events, e) \in Seq(Event)
      BY <1>12, <2>1, AppendProperties
    <2>3. PICK P : P = page.progress \ {t}
      OBVIOUS
    <2>4. page' = [page EXCEPT !.events = Append(page.events, e), !.progress = P]
      BY <1>11, <2>3 DEF End
    <2>5. P \in SUBSET Transfer
      BY <2>1, <2>3 DEF Pages
    <2> QED BY <2>1, <2>2, <2>4, <2>5 DEF Pages
  <1>14. Announced'
    BY <1>10, <1>12, <1>13, Parts, AnnouncedStays
  <1>15. QueuedOnce'
    BY <1>1, <1>10, Parts, Elements DEF QueuedOnce
  <1>16. TypeInv'
    BY <1>1, <1>9, <1>13, Parts, Frozen, TypesLater DEF Sessions
  <1>17. Inv'
    BY <1>8, <1>14, <1>15, <1>16 DEF Inv
  <1>18. Move(t, Here(t), y, files.at[Here(t)], files.tmp[t], files.bak[Here(t)][t])
    BY <1>1, <1>5, <1>6, MoveOnly
  <1>19. y.at # "unbackup" /\ y.at \notin Fixing
    BY <1>5 DEF Fixing
  <1>20. Covered => Covered'
    BY <1>18, <1>19, Parts, CoveredStep
  <1>21. Single => Single'
    BY <1>18, <1>19, SingleStep
  <1>22. KeptStep
    <2>1. PICK o : o = Word[task[t].outcome]
      OBVIOUS
    <2>2. o \in Kept!Outcome /\ (o = "done" <=> task[t].outcome = "Done")
          /\ (o = "cancelled" <=> task[t].outcome = "Cancelled")
      BY <1>3, <2>1 DEF Kept!Outcome, Word, Terminal
    <2>3. Goals' = Goals /\ Goals[t] = OfPath(t)
      BY <1>1, Frozen DEF Goals
    <2>4. Saved' = Saved
      BY <1>1 DEF Saved
    <2>5. Brought' = Brought /\ Brought[t] = task[t].brought
      BY <1>5, <1>9 DEF Brought
    <2>6. Told[t] = "nothing"
      BY <1>1 DEF Told
    <2>7. Told' = [Told EXCEPT ![t] = o]
      <3>1. Told' = [u \in Transfer |-> IF task'[u].at # "done" THEN "nothing"
                                        ELSE Word[task'[u].outcome]]
        BY DEF Told
      <3>2. Word[y.outcome] = o
        BY <1>5, <2>1
      <3>3. \A u \in Transfer : Told'[u] = IF u = t THEN o ELSE Told[u]
        BY <1>5, <1>9, <3>1, <3>2 DEF Told
      <3> QED BY <3>1, <3>3 DEF Told
    <2>8. /\ task[t].outcome = "Done" => task[t].brought = OfPath(t)
          /\ task[t].outcome = "Cancelled" => task[t].brought # OfPath(t)
      BY <1>1, <1>2 DEF Kempt, Course
    <2>9. Kept!Tell(t, o)
      BY <2>2, <2>3, <2>4, <2>5, <2>6, <2>7, <2>8 DEF Kept!Tell
    <2> QED BY <2>2, <2>9 DEF KeptStep, Kept!Next
  <1> QED BY <1>1, <1>17, <1>20, <1>21, <1>22 DEF TaskGoal, KeptInv, Keeps

\* Tasks at work are aborted; files stay where they are, but for the temporary ones
\* of downloads.
LEMMA AbortStep ==
  ASSUME Inv, AbortTasks
  PROVE  TaskGoal
  <1>1. /\ \A t \in Alive : task[t].at \in Working
        /\ task' = [t \in Transfer |->
                      IF t \in Alive THEN [task[t] EXCEPT !.at = "aborted", !.holds = FALSE]
                      ELSE task[t]]
        /\ files' = [files EXCEPT !.tmp = [t \in Transfer |->
                       IF t \in Alive /\ ~Up(t) THEN Missing ELSE files.tmp[t]]]
        /\ UNCHANGED <<scenario, control, waiting, session, page, net>>
    BY DEF AbortTasks
  <1>2. \A t \in Transfer : task[t] \in Tasks
    BY Parts
  <1>3. ASSUME NEW t \in Alive
        PROVE  /\ t \in Transfer /\ task'[t] \in Tasks /\ task'[t].at = "aborted"
               /\ task'[t].holds = FALSE /\ task'[t].brought = task[t].brought
               /\ task[t].at \notin {"none", "done"}
    BY <1>1, <1>2 DEF Alive, Tasks, Working
  <1>4. \A t \in Transfer : t \notin Alive => task'[t] = task[t] /\ task[t].at \notin Working
    BY <1>1 DEF Alive
  <1>5. task' \in [Transfer -> Tasks]
    <2>1. \A t \in Transfer : task'[t] \in Tasks
      BY <1>2, <1>3, <1>4
    <2>2. task' = [t \in Transfer |-> task'[t]]
      BY <1>1
    <2> QED BY <2>1, <2>2
  <1>6. /\ files' \in Files /\ files'.at = files.at /\ files'.bak = files.bak
        /\ \A t \in Transfer : t \notin Alive => files'.tmp[t] = files.tmp[t]
    <2>1. PICK T : T = [t \in Transfer |->
                          IF t \in Alive /\ ~Up(t) THEN Missing ELSE files.tmp[t]]
      OBVIOUS
    <2>2. T \in [Transfer -> {Missing, "partial", "whole"}]
      BY <2>1, Parts, FilesParts
    <2>3. files' = [files EXCEPT !.tmp = T] /\ files \in Files
      BY <1>1, <2>1, Parts
    <2>4. files' \in Files /\ files'.at = files.at /\ files'.bak = files.bak /\ files'.tmp = T
      BY <2>2, <2>3 DEF Files
    <2> QED BY <2>1, <2>4
  <1>7. ASSUME NEW t \in Transfer
        PROVE  Own(t)'
    <2>1. CASE t \in Alive
      <3>1. task'[t].at = "aborted" /\ task'[t].holds = FALSE
        BY <1>3, <2>1
      <3>2. Kempt(t, task'[t], files', net')
        BY <3>1 DEF Kempt, Course, Free, Tidy, Stage, Ahead, Swapping, Placed, Gated, Working
      <3> QED BY <1>1, <3>2, KemptLater
    <2>2. CASE t \notin Alive
      <3>1. /\ task'[t] = task[t] /\ files'.tmp[t] = files.tmp[t]
            /\ \A p \in Path : files'.bak[p][t] = files.bak[p][t]
        BY <1>4, <1>6, <2>2
      <3>2. Own(t) /\ scenario \in Scenarios
        BY Parts DEF Inv
      <3> QED BY <1>1, <3>1, <3>2, KemptStays
    <2> QED BY <2>1, <2>2
  <1>8. \A u \in Transfer : task'[u].at = "none" <=> task[u].at = "none"
    BY <1>3, <1>4
  <1>9. TypeInv'
    BY <1>1, <1>5, <1>6, Parts, Frozen, TypesLater DEF Sessions
  <1>10. QueuedOnce' /\ Announced'
    <2>1. QueuedOnce'
      BY <1>1, <1>8, Parts, Elements DEF QueuedOnce
    <2>2. Announced'
      BY <1>1, <1>8, Parts, AnnouncedStays
    <2> QED BY <2>1, <2>2
  <1>11. Inv'
    BY <1>1, <1>7, <1>9, <1>10 DEF Inv
  <1>12. \A u \in Transfer : task'[u].at \notin Fixing \cup {"unbackup"}
    BY <1>3, <1>4 DEF Fixing, Working
  <1>13. Covered' /\ Single'
    BY <1>12 DEF Covered, Single, Spare
  <1>14. KeptStep
    <2>1. Goals' = Goals
      BY <1>1, Frozen DEF Goals
    <2>2. Saved' = Saved
      BY <1>6 DEF Saved
    <2>3. \A u \in Transfer : task'[u].brought = task[u].brought
      BY <1>3, <1>4
    <2>4. Brought' = Brought
      BY <2>3 DEF Brought
    <2>5. Told' = Told
      <3>1. Told' = [u \in Transfer |-> IF task'[u].at # "done" THEN "nothing"
                                        ELSE Word[task'[u].outcome]]
        BY DEF Told
      <3>2. \A u \in Transfer : \/ task'[u] = task[u]
                                \/ task'[u].at # "done" /\ task[u].at # "done"
        BY <1>3, <1>4
      <3> QED BY <3>1, <3>2 DEF Told
    <2> QED BY <2>1, <2>2, <2>4, <2>5 DEF KeptStep
  <1> QED BY <1>1, <1>11, <1>13, <1>14 DEF TaskGoal, KeptInv, Keeps

\* The initial states.
LEMMA InitInv ==
  ASSUME Init
  PROVE  Inv
  <1>1. scenario \in Scenarios
    BY DEF Init
  <1>2. /\ scenario.order \in Seq(Transfer) /\ Distinct(scenario.order)
        /\ scenario.chunks \in Nat
    BY <1>1, SftpAssumption
  <1>3. /\ DOMAIN scenario.order = 1..Len(scenario.order) /\ Len(scenario.order) \in Nat
        /\ \A i \in DOMAIN scenario.order :
             scenario.order[i] \in Transfer /\ scenario.order[i] \in Planned
    BY <1>2, LenProperties, ElementOfSeq DEF Planned
  <1>4. files \in Files
    <2>1. PICK A : A = [p \in Path |-> IF p \in scenario.before THEN "old" ELSE Missing]
      OBVIOUS
    <2>2. A \in [Path -> Content]
      BY <2>1 DEF Content
    <2>3. PICK B : B = [p \in Path |-> [t \in Transfer |-> Missing]]
      OBVIOUS
    <2>4. B \in [Path -> [Transfer -> Content]]
      BY <2>3 DEF Content
    <2>5. files = [at |-> A, tmp |-> [t \in Transfer |-> Missing], bak |-> B]
      BY <2>1, <2>3 DEF Init
    <2> QED BY <2>2, <2>4, <2>5 DEF Files
  <1>5. task \in [Transfer -> Tasks]
    <2>1. [at |-> "none", then |-> "open", file |-> 1, sent |-> 0,
           holds |-> FALSE, outcome |-> "none", brought |-> {}] \in Tasks
      BY <1>2 DEF Tasks
    <2> QED BY <2>1 DEF Init
  <1>6. /\ \A t \in Transfer : files.tmp[t] = Missing
        /\ \A p \in Path, t \in Transfer : files.bak[p][t] = Missing
        /\ \A t \in Transfer :
             /\ task[t].at = "none" /\ task[t].file = 1 /\ task[t].brought = {}
             /\ task[t].holds = FALSE
    BY DEF Init
  <1>7. control \in Controls /\ waiting \in Seq(Transfer) /\ net \in Nets
    BY EmptySeq DEF Init, Controls, Nets
  <1>8. page \in Pages /\ page.events = <<>> /\ \A t \in Transfer : page.rows[t] = "none"
    BY EmptySeq DEF Init, Pages
  <1>9. /\ session.at = "open"
        /\ session.commands = [i \in DOMAIN scenario.order |->
                                 Command("Queue", scenario.order[i])]
        /\ session = [at |-> "open", commands |-> session.commands]
    BY DEF Init
  <1>10. session.commands \in Seq(Commands)
    <2>1. \A i \in 1..Len(scenario.order) : session.commands[i] \in Commands
      BY <1>3, <1>9 DEF Command, Commands
    <2>2. session.commands \in [1..Len(scenario.order) -> Commands]
      BY <1>3, <1>9, <2>1
    <2>3. Seq(Commands) = UNION {[1..n -> Commands] : n \in Nat}
      BY SeqDef
    <2> QED BY <1>3, <2>2, <2>3
  <1>11. TypeInv
    BY <1>1, <1>4, <1>5, <1>7, <1>8, <1>9, <1>10, Types
  <1>12. QueuedOnce
    BY <1>2, <1>3, <1>6, <1>9 DEF QueuedOnce, Command, Distinct
  <1>13. Announced
    BY <1>8 DEF Announced
  <1>14. ASSUME NEW t \in Transfer
         PROVE  Own(t)
    <2>1. Course(t, task[t])
      BY <1>6 DEF Course, Ahead, Swapping, Placed, Gated, Working
    <2>2. Free(t, task[t], files)
      BY <1>1, <1>6, PathsLemma DEF Free
    <2>3. Tidy(t, task[t], files)
      BY <1>6 DEF Tidy, Stage, Gated
    <2> QED BY <1>6, <2>1, <2>2, <2>3 DEF Own, Kempt
  <1>15. net.faults = 0 => net.up
    BY DEF Init
  <1> QED BY <1>11, <1>12, <1>13, <1>14, <1>15 DEF Inv

\* The initial states, as FileReplacement sees them.
LEMMA InitKept ==
  ASSUME Init
  PROVE  /\ Keeps(scenario) => KeptInv
         /\ Kept!Init
  <1>1. \A t \in Transfer : task[t].at = "none" /\ task[t].brought = {}
    BY DEF Init
  <1>2. Covered /\ Single
    BY <1>1 DEF Covered, Single, Spare, Fixing
  <1>3. Goals \in [Transfer -> SUBSET Path]
    BY PathsLemma DEF Init, Goals
  <1>4. Saved \in [Path -> SUBSET {"old"}]
    BY DEF Init, Saved
  <1>5. Brought = [t \in Transfer |-> {}] /\ Told = [t \in Transfer |-> "nothing"]
    BY <1>1 DEF Brought, Told
  <1> QED BY <1>2, <1>3, <1>4, <1>5 DEF KeptInv, Kept!Init

\* Every step.
LEMMA StepGoal ==
  ASSUME Inv, [Next]_vars
  PROVE  TaskGoal
  <1>1. CASE Next
    <2>1. ASSUME NEW t \in Transfer, TaskStep(t) \/ Reap(t) \/ RemoveRow(t)
          PROVE  TaskGoal
      <3>1. CASE Pass(t) \/ Wake(t) \/ Acquire(t) \/ Interrupt(t)
        BY <3>1, PassStep, WakeStep, AcquireStep, InterruptStep
      <3>2. CASE Open(t) \/ Chunk(t) \/ LastChunk(t)
        BY <3>2, OpenStep, ChunkStep, LastChunkStep
      <3>3. CASE Install(t) \/ Inspect(t) \/ Backup(t) \/ Replace(t) \/ Rollback(t)
        BY <3>3, InstallStep, InspectStep, BackupStep, ReplaceStep, RollbackStep
      <3>4. CASE RemoveBackup(t) \/ Commit(t) \/ Close(t) \/ Discard(t) \/ Release(t) \/ End(t)
        BY <3>4, RemoveBackupStep, CommitStep, CloseStep, DiscardStep, ReleaseStep, EndStep
      <3>5. CASE Reap(t) \/ RemoveRow(t)
        BY <3>5, ReapStep, RemoveRowStep
      <3> QED BY <2>1, <3>1, <3>2, <3>3, <3>4, <3>5 DEF TaskStep
    <2>2. CASE SessionStep
      <3>1. CASE QueueTransfer \/ CancelTransfer \/ CloseSession \/ SessionClosed
        BY <3>1, QueueStep, CancelStep, CloseSessionStep, SessionClosedStep
      <3>2. CASE PauseTransfer
        BY <3>2, SetPausedStep DEF PauseTransfer
      <3>3. CASE ResumeTransfer
        BY <3>3, SetPausedStep DEF ResumeTransfer
      <3> QED BY <2>2, <3>1, <3>2, <3>3 DEF SessionStep
    <2>3. CASE PageStep
      BY <2>3, ReceiveStep, TakeProgressStep, ShowProgressStep DEF PageStep
    <2>4. CASE PressButton
      BY <2>4, PressStep DEF PressButton
    <2>5. CASE CloseTab
      BY <2>5, PressStep DEF CloseTab
    <2>6. CASE AbortTasks \/ LoseLink
      BY <2>6, AbortStep, LoseLinkStep
    <2> QED BY <1>1, <2>1, <2>2, <2>3, <2>4, <2>5, <2>6 DEF Next
  <1>2. CASE UNCHANGED vars
    <2>1. /\ UNCHANGED <<scenario, files, task, control, waiting, net>>
          /\ page' = page /\ session' = session
      BY <1>2 DEF vars
    <2>2. Idles
      BY <2>1, Parts DEF Idles
    <2> QED BY <2>1, <2>2, Parts, QueuedSame, Silent
  <1> QED BY <1>1, <1>2

\* The inductive invariant holds in every state.
LEMMA Invariance == Spec => []Inv
  <1>1. Inv /\ [Next]_vars => Inv'
    BY StepGoal DEF TaskGoal
  <1> QED BY <1>1, InitInv, PTL DEF Spec

\* Every task, file, queue and row has its type (TypeOK).
THEOREM TypeCorrect == Spec => []TypeOK
  <1>1. Inv => TypeOK
    BY DEF Inv, TypeInv
  <1> QED BY <1>1, Invariance, PTL

\* What a task that ends without faults leaves beside its destination, and who
\* holds permits (NothingLeft).
THEOREM LeavesNothing == Spec => []NothingLeft
  <1>1. Inv => NothingLeft
    <2> SUFFICES ASSUME Inv
                 PROVE  NothingLeft
      OBVIOUS
    <2>1. ASSUME net.faults = 0, NEW t \in Transfer, At(t, "done")
          PROVE  /\ files.tmp[t] = Missing
                 /\ (\A p \in Path : files.bak[p][t] = Missing) \/ task[t].outcome = "Failed"
      <3>1. Tidy(t, task[t], files) /\ task[t].at = "done"
        BY <2>1 DEF Inv, Own, Kempt, At
      <3> QED BY <3>1 DEF Tidy, Stage, Gated, Swapping
    <2>2. \A t \in Holders : task[t].at \in Working \cup {"gate", "end"}
      BY DEF Inv, Own, Kempt, Holders
    <2> QED BY <2>1, <2>2 DEF NothingLeft
  <1> QED BY <1>1, Invariance, PTL

\* The transfers keep what FileReplacement promises of the files they replace,
\* unless a server replaces files by renaming and more than one fault is met.
THEOREM Implements == Spec /\ Keeps(scenario) => ReplacesFiles
  <1>1. Init /\ Keeps(scenario) => KeptInv /\ Kept!Init
    BY InitKept
  <1>2. Inv /\ KeptInv /\ [Next]_vars => KeptInv'
    BY StepGoal DEF TaskGoal
  <1>3. Inv /\ KeptInv /\ [Next]_vars =>
          [Kept!Next]_<<Goals, Saved, Brought, Told>>
    BY StepGoal DEF TaskGoal, KeptStep
  <1> QED BY <1>1, <1>2, <1>3, Invariance, PTL DEF Spec, ReplacesFiles, Kept!Spec

\* Steps of tasks and of the session leave the rows alone.
LEMMA RowsStay ==
  ASSUME page \in Pages,
         \/ \E t \in Transfer : TaskStep(t) \/ Reap(t)
         \/ SessionStep \/ AbortTasks \/ TakeProgress \/ PressButton \/ CloseTab
         \/ LoseLink
  PROVE  page'.rows = page.rows
  <1>1. ASSUME NEW t \in Transfer, TaskStep(t) \/ Reap(t)
        PROVE  page'.rows = page.rows
    <2>1. Report(t) => page'.rows = page.rows
      BY DEF Report, Pages
    <2>2. CASE Pass(t) \/ Wake(t) \/ Acquire(t) \/ Interrupt(t) \/ Reap(t)
      BY <2>2 DEF Pass, Wake, Acquire, Interrupt, Reap
    <2>3. CASE Open(t) \/ Chunk(t) \/ LastChunk(t)
      BY <2>1, <2>3 DEF Open, Chunk, LastChunk
    <2>4. CASE Install(t) \/ Inspect(t) \/ Backup(t) \/ Replace(t) \/ Rollback(t)
      BY <2>4 DEF Install, Inspect, Backup, Replace, Rollback
    <2>5. CASE RemoveBackup(t) \/ Commit(t) \/ Close(t) \/ Discard(t) \/ Release(t)
      BY <2>5 DEF RemoveBackup, Commit, Close, Discard, Release
    <2>6. CASE End(t)
      BY <2>6 DEF End, Pages
    <2> QED BY <1>1, <2>2, <2>3, <2>4, <2>5, <2>6 DEF TaskStep
  <1>2. CASE SessionStep
    BY <1>2 DEF SessionStep, QueueTransfer, PauseTransfer, ResumeTransfer, SetPaused,
       CancelTransfer, CloseSession, SessionClosed, Posted, Pages
  <1>3. CASE PressButton \/ CloseTab
    BY <1>3 DEF PressButton, CloseTab, Press, Pages
  <1>4. CASE AbortTasks \/ TakeProgress \/ LoseLink
    BY <1>4 DEF AbortTasks, TakeProgress, LoseLink, Pages
  <1> QED BY <1>1, <1>2, <1>3, <1>4

\* A row that shows how its transfer ended is reopened only by a pause or a
\* resumption told late (FinishedStaysFinished).
THEOREM FinishedStays == Spec => FinishedStaysFinished
  <1> DEFINE Reopened(t) == page.rows[t] \in Terminal
                            /\ page'.rows[t] \notin Terminal \cup {"none"}
             Late == page.events # <<>> /\ Head(page.events).is \in {"Paused", "Resumed"}
  <1>1. Inv /\ [Next]_vars => \A t \in Transfer : Reopened(t) => Late
    <2> SUFFICES ASSUME Inv, [Next]_vars, NEW t \in Transfer, Reopened(t)
                 PROVE  Late
      OBVIOUS
    <2>1. page \in Pages /\ page'.rows # page.rows
      BY Parts
    <2>2. \/ \E u \in Transfer : RemoveRow(u)
          \/ Receive \/ ShowProgress
      BY <2>1, RowsStay DEF Next, PageStep, vars
    <2>3. ASSUME NEW u \in Transfer, RemoveRow(u)
          PROVE  FALSE
      BY <2>1, <2>3 DEF RemoveRow, Pages
    <2>4. CASE ShowProgress
      BY <2>1, <2>4, ShownProgress DEF Terminal
    <2>5. CASE Receive
      <3>1. PICK e : e = Head(page.events)
        OBVIOUS
      <3>2. /\ page.events # <<>> /\ e \in Event
            /\ page'.rows[t] = IF t = e.about /\ page.open
                               THEN RowAfter(page.rows[t], e.is) ELSE page.rows[t]
        BY <2>5, <3>1, Parts, Received
      <3>3. t = e.about /\ page'.rows[t] = RowAfter(page.rows[t], e.is)
        BY <3>2
      <3>4. e.is # "Queued"
        <4>1. page.events \in Seq(Event) /\ e = page.events[1] /\ 1 \in DOMAIN page.events
          BY <3>1, <3>2, Parts, Elements, Shortened
        <4>2. page.rows[t] # "none"
          BY DEF Terminal
        <4> QED BY <3>3, <4>1, <4>2, Parts DEF Announced
      <3>5. e.is \notin Terminal
        BY <3>2, <3>3 DEF Terminal, RowAfter
      <3>6. e.is \in {"Queued", "Paused", "Resumed"} \cup Terminal
        BY <3>2 DEF Event
      <3> QED BY <3>1, <3>2, <3>4, <3>5, <3>6
    <2> QED BY <2>2, <2>3, <2>4, <2>5
  <1>2. Inv /\ [Next]_vars =>
          [\A t \in Transfer :
             page.rows[t] \in Terminal /\ page.rows'[t] \notin Terminal \cup {"none"} =>
               page.events # <<>> /\ Head(page.events).is \in {"Paused", "Resumed"}]_vars
    BY <1>1
  <1> QED BY <1>2, Invariance, PTL DEF Spec, FinishedStaysFinished
=============================================================================
