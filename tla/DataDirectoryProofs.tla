------------------------ MODULE DataDirectoryProofs ------------------------
(* Theorems about DataDirectory, for any number of processes, files, moves, *)
(* failures and crashes. *)
EXTENDS DataDirectory, TLAPS

-----------------------------------------------------------------------------
(* Types.  x is the state of a process, n the number of moves so far.       *)

\* Where a process moves files; where it knows its bootstrap; where it has
\* settled on a data directory.
Moving == {"prepare", "clear", "stage", "copy", "place", "move", "activate", "recheck",
           "switch", "cleanup", "unmark", "done", "drop", "recreate", "forget"}
Settled == {"enter", "running", "quitting"}
Task == [at : {"off", "inspect", "rename", "read"} \cup Moving \cup Settled,
         boot : Bootstrap \cup {None}, loc : Location, active : Place \cup {None},
         on : Place \cup {None}, left : SUBSET (File \cup {"marker", "location"}),
         then : {"off", "stage", "move", "unmark", "forget", "recreate"},
         warned : BOOLEAN]

Sound(x, n) ==
  /\ x.loc.migration.id <= n
  /\ x.at \in Moving => x.loc.migration \in Migration
  /\ x.at \in {"read"} \cup Moving \cup Settled => x.boot \in Bootstrap
  /\ x.at \in Settled => x.active \in Place
  /\ x.at = "clear" => x.on \in Place /\ x.then # "off"
  /\ x.at = "copy" => x.left \subseteq File

\* The bootstrap alone knows of moves, and of none that never was scheduled.
Typed(D, n) ==
  /\ D \in [Place -> Directory]
  /\ \A d \in Place : /\ d \notin Bootstrap => D[d].location = None
                      /\ D[d].location # None => D[d].location.migration.id <= n
Staged(T) == T \in [Id -> Directory] /\ \A i \in Id : T[i].location = None
Bounded(u) ==
  /\ u \in [saves : Nat, moves : Nat, faults : Nat, crashes : Nat]
  /\ u.moves <= scene.moves

TypeInv ==
  /\ scene \in Scenarios /\ Bounded(used)
  /\ Typed(dirs, used.moves) /\ Staged(stages)
  /\ proc \in [Process -> Task] /\ \A p \in Process : Sound(proc[p], used.moves)
  /\ saved \in Files /\ wish \in Place
-----------------------------------------------------------------------------
(* Directories.                                                            *)

\* What a directory that is not there, and an empty one, hold.
LEMMA MissingLemma ==
  /\ Missing \in Directory /\ ~Missing.there /\ Missing.marker = 0 /\ Missing.location = None
  /\ \A f \in File : Missing.data[f] = 0
  /\ Empty \in Directory /\ Empty.there /\ Empty.marker = 0 /\ Empty.location = None
  /\ \A f \in File : Empty.data[f] = 0
  <1>1. Missing \in Directory
    BY DEF Missing, Directory, Files
  <1>2. ~Missing.there /\ Missing.marker = 0 /\ Missing.location = None /\ \A f \in File : Missing.data[f] = 0
    BY DEF Missing
  <1>3. PICK m \in Directory : m = Missing
    BY <1>1
  <1>4. /\ [m EXCEPT !.there = TRUE] \in Directory /\ [m EXCEPT !.there = TRUE].there
        /\ [m EXCEPT !.there = TRUE].marker = m.marker /\ [m EXCEPT !.there = TRUE].location = m.location
        /\ [m EXCEPT !.there = TRUE].data = m.data
    BY DEF Directory
  <1> QED BY <1>1, <1>2, <1>3, <1>4 DEF Empty

\* Making sure that a directory is there changes nothing in it.
LEMMA MadeLemma ==
  ASSUME NEW d \in Directory
  PROVE  /\ Made(d) \in Directory /\ Made(d).there /\ Made(d).data = d.data
         /\ Made(d).marker = d.marker /\ Made(d).location = d.location
  BY DEF Made, Directory

\* An entry is a file or one of the two files of the migration.
LEMMA EntriesLemma ==
  ASSUME NEW d \in Directory
  PROVE  /\ Entries(d) \subseteq File \cup {"marker", "location"}
         /\ \A f \in File : f \in Entries(d) <=> d.data[f] # 0
         /\ "marker" \in Entries(d) <=> d.marker # 0
         /\ "location" \in Entries(d) <=> d.location # None
  BY DataDirectoryAssumption DEF Entries

\* Removing an entry: the others stay.
LEMMA WithoutLemma ==
  ASSUME NEW d \in Directory, NEW e \in File \cup {"marker", "location"}
  PROVE  /\ Without(d, e) \in Directory /\ Without(d, e).there = d.there
         /\ \A f \in File : Without(d, e).data[f] = IF f = e THEN 0 ELSE d.data[f]
         /\ Without(d, e).marker = IF e = "marker" THEN 0 ELSE d.marker
         /\ Without(d, e).location = IF e = "location" THEN None ELSE d.location
  <1>1. "marker" \notin File /\ "location" \notin File
    BY DataDirectoryAssumption
  <1>2. CASE e = "marker"
    BY <1>1, <1>2 DEF Without, Directory
  <1>3. CASE e = "location"
    BY <1>1, <1>3 DEF Without, Directory
  <1>4. CASE e \in File
    <2>1. PICK k : k = [d.data EXCEPT ![e] = 0]
      OBVIOUS
    <2>2. d.data \in Files
      BY DEF Directory
    <2>3. k \in Files /\ \A f \in File : k[f] = IF f = e THEN 0 ELSE d.data[f]
      BY <1>4, <2>1, <2>2 DEF Files
    <2>4. Without(d, e) = [d EXCEPT !.data = k]
      BY <1>1, <1>4, <2>1 DEF Without
    <2> QED BY <1>1, <1>4, <2>3, <2>4 DEF Directory
  <1> QED BY <1>2, <1>3, <1>4

\* Copying an entry: the others stay.
LEMMA WithLemma ==
  ASSUME NEW d \in Directory, NEW s \in Directory, NEW e \in File \cup {"marker"}
  PROVE  /\ With(d, e, s) \in Directory /\ With(d, e, s).there = d.there
         /\ With(d, e, s).location = d.location
         /\ \A f \in File : With(d, e, s).data[f] = IF f = e THEN s.data[f] ELSE d.data[f]
         /\ With(d, e, s).marker = IF e = "marker" THEN s.marker ELSE d.marker
  <1>1. "marker" \notin File
    BY DataDirectoryAssumption
  <1>2. CASE e = "marker"
    <2>1. s.marker \in Nat
      BY DEF Directory
    <2> QED BY <1>1, <1>2, <2>1 DEF With, Directory
  <1>3. CASE e \in File
    <2>1. PICK k : k = [d.data EXCEPT ![e] = s.data[e]]
      OBVIOUS
    <2>2. d.data \in Files /\ s.data \in Files
      BY DEF Directory
    <2>3. k \in Files /\ \A f \in File : k[f] = IF f = e THEN s.data[f] ELSE d.data[f]
      BY <1>3, <2>1, <2>2 DEF Files
    <2>4. With(d, e, s) = [d EXCEPT !.data = k]
      BY <1>1, <1>3, <2>1 DEF With
    <2> QED BY <1>1, <1>3, <2>3, <2>4 DEF Directory
  <1> QED BY <1>2, <1>3

\* One directory is replaced.
LEMMA ReplaceLemma ==
  ASSUME NEW D, NEW n \in Nat, Typed(D, n), NEW d \in Place, NEW x \in Directory,
         x.location # None => d \in Bootstrap /\ x.location.migration.id <= n
  PROVE  /\ Typed([D EXCEPT ![d] = x], n) /\ [D EXCEPT ![d] = x][d] = x
         /\ \A e \in Place \ {d} : [D EXCEPT ![d] = x][e] = D[e]
  BY DEF Typed

\* One stage is replaced.
LEMMA StageLemma ==
  ASSUME NEW T, Staged(T), NEW i \in Id, NEW x \in Directory, x.location = None
  PROVE  /\ Staged([T EXCEPT ![i] = x]) /\ [T EXCEPT ![i] = x][i] = x
         /\ \A j \in Id \ {i} : [T EXCEPT ![i] = x][j] = T[j]
  BY DEF Staged

\* A bootstrap without data_location.toml: nothing chosen, nothing moved.
LEMMA FreshLemma ==
  /\ Fresh \in Location /\ Fresh.active = None /\ Fresh.migration = NoMove
  /\ NoMove.id = 0 /\ NoMove.phase = "none" /\ NoMove \notin Migration
  <1>1. NoMove.id = 0 /\ NoMove.phase = "none"
    BY DEF NoMove
  <1>2. \A m \in Migration : m.id # 0
    BY DEF Migration
  <1>3. Fresh \in Location /\ Fresh.active = None /\ Fresh.migration = NoMove
    BY DEF Fresh, Location
  <1> QED BY <1>1, <1>2, <1>3

\* What a bootstrap records of the directories.
LEMMA RecordedLemma ==
  ASSUME TypeInv, NEW b \in Place
  PROVE  /\ Recorded(b) \in Location /\ Recorded(b).migration.id <= used.moves
         /\ Recorded(b).active \in Place \cup {None}
         /\ Recorded(b).migration \in Migration <=> Recorded(b).migration.phase # "none"
  <1>1. dirs[b] \in Directory /\ used.moves \in Nat
        /\ (dirs[b].location # None => dirs[b].location.migration.id <= used.moves)
    BY DEF TypeInv, Typed, Bounded
  <1>2. Recorded(b) \in Location /\ Recorded(b).migration.id <= used.moves
    BY <1>1, FreshLemma DEF Recorded, Directory
  <1>3. \A m \in Migration : m.phase # "none"
    BY DEF Migration
  <1>4. Recorded(b).active \in Place \cup {None} /\ Recorded(b).migration \in Migration \cup {NoMove}
    BY <1>2 DEF Location
  <1> QED BY <1>2, <1>3, <1>4, FreshLemma
-----------------------------------------------------------------------------
(* Processes.                                                              *)

\* How the state of a process changes.
LEMMA AtLemma ==
  ASSUME NEW x \in Task, NEW at \in {"off", "inspect", "rename", "read"} \cup Moving \cup Settled
  PROVE  /\ [x EXCEPT !.at = at] \in Task /\ [x EXCEPT !.at = at].at = at
         /\ [x EXCEPT !.at = at].boot = x.boot /\ [x EXCEPT !.at = at].loc = x.loc
         /\ [x EXCEPT !.at = at].active = x.active /\ [x EXCEPT !.at = at].on = x.on
         /\ [x EXCEPT !.at = at].left = x.left /\ [x EXCEPT !.at = at].then = x.then
         /\ [x EXCEPT !.at = at].warned = x.warned
  BY DEF Task

\* A process settles on the directory its location stands for.
LEMMA EnterLemma ==
  ASSUME NEW x \in Task, x.boot \in Bootstrap
  PROVE  /\ Enter(x) \in Task /\ Enter(x).at = "enter" /\ Enter(x).boot = x.boot
         /\ Enter(x).loc = x.loc /\ Enter(x).warned = x.warned
         /\ Enter(x).active = IF x.loc.active = None THEN x.boot ELSE x.loc.active
         /\ Enter(x).active \in Place
         /\ \A n : Sound(x, n) => Sound(Enter(x), n)
  <1>1. x.loc.active \in Place \cup {None} /\ x.boot \in Place
    BY DEF Task, Location, Bootstrap, Place
  <1>2. PICK a \in Place : a = IF x.loc.active = None THEN x.boot ELSE x.loc.active
    BY <1>1
  <1>3. Enter(x) = [x EXCEPT !.at = "enter", !.active = a]
    BY <1>2 DEF Enter
  <1>4. /\ Enter(x) \in Task /\ Enter(x).at = "enter" /\ Enter(x).boot = x.boot
        /\ Enter(x).loc = x.loc /\ Enter(x).warned = x.warned /\ Enter(x).active = a
    BY <1>3 DEF Task, Settled
  <1>5. \A n : Sound(x, n) => Sound(Enter(x), n)
    BY <1>4 DEF Sound, Moving
  <1> QED BY <1>2, <1>4, <1>5

\* What an error leads to: the way back, or the directory in use.
LEMMA FailedLemma ==
  ASSUME NEW x \in Task, x.boot \in Bootstrap
  PROVE  /\ Failed(x) \in Task /\ Failed(x).boot = x.boot /\ Failed(x).loc = x.loc
         /\ \/ /\ x.warned \/ x.loc.migration.phase # "copy"
               /\ Failed(x).at = "enter" /\ Failed(x).active \in Place
               /\ Failed(x).active = IF x.loc.active = None THEN x.boot ELSE x.loc.active
            \/ /\ x.loc.migration.phase = "copy"
               /\ Failed(x).at = "drop" /\ x.loc.migration \in Migration
         /\ \A n : Sound(x, n) => Sound(Failed(x), n)
  <1>1. CASE x.warned \/ x.loc.migration.phase # "copy"
    <2>1. PICK y : y = Enter(x)
      OBVIOUS
    <2>2. /\ y \in Task /\ y.at = "enter" /\ y.boot = x.boot /\ y.loc = x.loc /\ y.active \in Place
          /\ y.active = IF x.loc.active = None THEN x.boot ELSE x.loc.active
      BY <2>1, EnterLemma
    <2>3. Failed(x) = [y EXCEPT !.warned = TRUE]
      BY <1>1, <2>1 DEF Failed
    <2>4. /\ Failed(x) \in Task /\ Failed(x).at = y.at /\ Failed(x).boot = y.boot
          /\ Failed(x).loc = y.loc /\ Failed(x).active = y.active
      BY <2>2, <2>3 DEF Task
    <2>5. \A n : Sound(x, n) => Sound(Failed(x), n)
      BY <2>2, <2>4 DEF Sound, Moving, Settled
    <2> QED BY <1>1, <2>2, <2>4, <2>5
  <1>2. CASE ~(x.warned \/ x.loc.migration.phase # "copy")
    <2>1. Failed(x) = [x EXCEPT !.at = "drop", !.warned = TRUE]
      BY <1>2 DEF Failed
    <2>2. /\ Failed(x) \in Task /\ Failed(x).at = "drop" /\ Failed(x).boot = x.boot
          /\ Failed(x).loc = x.loc
      BY <2>1 DEF Task, Moving
    <2>3. x.loc.migration \in Migration
      BY <1>2, FreshLemma DEF Task, Location
    <2>4. \A n : Sound(x, n) => Sound(Failed(x), n)
      BY <2>2, <2>3 DEF Sound, Settled
    <2> QED BY <1>2, <2>2, <2>3, <2>4
  <1> QED BY <1>1, <1>2

\* A process that sets about emptying a directory has the list of its entries.
LEMMA ClearingLemma ==
  ASSUME TypeInv, NEW x \in Task, x.boot \in Bootstrap, NEW d \in Place,
         NEW then \in {"stage", "move", "unmark", "forget", "recreate"},
         x.loc.migration \in Migration
  PROVE  /\ Clearing(x, d, then) \in Task /\ Clearing(x, d, then).at = "clear"
         /\ Clearing(x, d, then).on = d /\ Clearing(x, d, then).then = then
         /\ Clearing(x, d, then).left = Entries(dirs[d]) \ (IF d = x.boot THEN {"location"} ELSE {})
         /\ Clearing(x, d, then).boot = x.boot /\ Clearing(x, d, then).loc = x.loc
         /\ Clearing(x, d, then).warned = x.warned
         /\ \A n : Sound(x, n) => Sound(Clearing(x, d, then), n)
  <1>1. PICK l : l = Entries(dirs[d]) \ (IF d = x.boot THEN {"location"} ELSE {})
    OBVIOUS
  <1>2. l \subseteq File \cup {"marker", "location"}
    BY <1>1, EntriesLemma DEF TypeInv, Typed
  <1>3. PICK y : y = [x EXCEPT !.at = "clear", !.on = d]
    OBVIOUS
  <1>4. y \in Task /\ y.at = "clear" /\ y.on = d /\ y.boot = x.boot /\ y.loc = x.loc /\ y.warned = x.warned
    BY <1>3 DEF Task, Moving
  <1>5. PICK w : w = [y EXCEPT !.then = then]
    OBVIOUS
  <1>6. w \in Task /\ w.at = "clear" /\ w.on = d /\ w.then = then /\ w.boot = x.boot
        /\ w.loc = x.loc /\ w.warned = x.warned
    BY <1>4, <1>5 DEF Task
  <1>9. PICK z : z = Clearing(x, d, then)
    OBVIOUS
  <1>10. z = [w EXCEPT !.left = l]
    BY <1>1, <1>3, <1>5, <1>9 DEF Clearing, Task
  <1>7. z \in Task /\ z.at = "clear" /\ z.on = d /\ z.then = then /\ z.left = l /\ z.boot = x.boot
        /\ z.loc = x.loc /\ z.warned = x.warned
    BY <1>2, <1>6, <1>10 DEF Task
  <1>8. \A n : Sound(x, n) => Sound(z, n)
    BY <1>7 DEF Sound, Settled
  <1> QED BY <1>1, <1>9, <1>7, <1>8
-----------------------------------------------------------------------------
(* Where no file is lost.  Three things must not come together: a process   *)
(* that moves files and another one; a rename of the old directory that     *)
(* fails and a move; a switch that may or may not be on the disk and a save. *)

Safe(s) ==
  \/ s.moves = 0 /\ "legacy" \notin s.homes
  \/ /\ \A p, q \in s.processes : p = q
     /\ "rename" \notin s.failing \/ s.moves = 0
     /\ "switch" \notin s.failing \/ s.saves = 0

-----------------------------------------------------------------------------
(* The inductive invariant, of directories D, stages T, what was saved V, a *)
(* scenario s and the state x of a process.                                 *)

\* What the default directory, as the bootstrap, records; which directory a
\* location then stands for.
Record(D) == IF D["default"].location = None THEN Fresh ELSE D["default"].location
ActiveOf(loc) == IF loc.active = None THEN "default" ELSE loc.active

\* What data_location.toml says: the active directory is the source of a copy
\* and the target of a cleanup, and a move leads elsewhere.
Movable == {"default"} \cup Chosen
Consistent(loc) ==
  LET m == loc.migration IN
  /\ loc.active \in Chosen \cup {None}
  /\ m.phase # "none" => m.source # m.target /\ m.source \in Movable /\ m.target \in Movable
  /\ m.phase = "copy" => m.source = ActiveOf(loc)
  /\ m.phase = "cleanup" => m.target = ActiveOf(loc)

\* Every file of one directory, or of a stage, is one of the other.
Within(d, e) == \A f \in File : d.data[f] # 0 => e.data[f] # 0

\* The directory of older releases has everything and nothing has been moved.
Old(D, V) ==
  /\ D["legacy"].there /\ D["legacy"].data = V /\ D["legacy"].location = None
  /\ D["default"] = Missing

\* The default directory is the bootstrap: what it says is consistent, the
\* active directory has everything, and a target that carries the marker of
\* the move has only files of the source.
New(D, V) ==
  LET m == Record(D).migration IN
  /\ D["legacy"] = Missing /\ D["default"].there
  /\ Consistent(Record(D)) /\ D[ActiveOf(Record(D))].data = V
  /\ m.phase = "copy" /\ D[m.target].marker = m.id => Within(D[m.target], D[m.source])

\* The places of a process that copies, and of one that cleans up.
Copying(x) ==
  \/ x.at \in {"prepare", "stage", "copy", "place", "move", "activate", "recheck", "switch",
               "drop", "recreate", "forget"}
  \/ x.at = "clear" /\ x.then # "unmark"
Cleaning(x) ==
  \/ x.at \in {"cleanup", "unmark", "done"}
  \/ x.at = "clear" /\ x.then = "unmark"

\* A directory that is being emptied: what is left of it is still to go.
Emptied(x, D) ==
  LET m == x.loc.migration IN
  x.at = "clear" =>
    /\ x.on = IF x.then = "unmark" THEN m.source ELSE m.target
    /\ x.on = "default" => "location" \notin x.left
    /\ x.then = "move" => \A f \in File : D[m.target].data[f] # 0 => f \in x.left

\* What has been copied so far, to the stage and the target, are files of the
\* source; when the switch is recorded they are all there.
Copied(x, D, T) ==
  LET m == x.loc.migration IN
  /\ \/ x.at \in {"copy", "place", "move", "activate"}
     \/ x.at = "clear" /\ x.then = "move"
     => Within(T[m.id], D[m.source])
  /\ x.at \in {"move", "recheck"} => Within(D[m.target], D[m.source])
  /\ x.at = "activate" => m.target # "default"
  /\ x.at = "switch" => D[m.target].data = D[m.source].data

\* A process that moves files has read what is on the disk.
Moves(x, D, T, V) ==
  /\ x.boot = "default" /\ New(D, V) /\ x.loc = Record(D)
  /\ Copying(x) => x.loc.migration.phase = "copy"
  /\ Cleaning(x) => x.loc.migration.phase = "cleanup"
  /\ Emptied(x, D) /\ Copied(x, D, T)

\* A process that has settled on a directory works with everything there is,
\* where the next start will find it.
Works(x, D, V, s) ==
  /\ D[x.active].data = V
  /\ \/ x.boot = "legacy" /\ Old(D, V) /\ s.moves = 0 /\ x.active = "legacy"
     \/ /\ x.boot = "default" /\ New(D, V) /\ x.active \in Movable
        /\ s.saves # 0 => x.active = ActiveOf(Record(D))

Fine(x, D, T, V, s) ==
  /\ x.at = "rename" => Old(D, V)
  /\ x.at = "read" => \/ x.boot = "legacy" /\ Old(D, V) /\ s.moves = 0
                      \/ x.boot = "default" /\ New(D, V)
  /\ x.at \in Moving => Moves(x, D, T, V)
  /\ x.at \in Settled => Works(x, D, V, s)

\* Processes leave each other alone: there is one, or nothing is moved.
Apart ==
  \/ \A p, q \in scene.processes : p = q
  \/ scene.moves = 0 /\ New(dirs, saved)

Inv ==
  /\ TypeInv /\ Safe(scene)
  /\ \A p \in Process \ scene.processes : At(p, "off")
  /\ Old(dirs, saved) \/ New(dirs, saved)
  /\ Apart
  /\ \A p \in Process : Fine(proc[p], dirs, stages, saved, scene)

-----------------------------------------------------------------------------
(* What is common to the steps.                                            *)

\* Every directory but the one of older releases may be moved to or from.
LEMMA PlacesLemma ==
  /\ Bootstrap \subseteq Place /\ Movable \subseteq Place /\ None \notin Place
  /\ "default" \in Bootstrap \cap Movable /\ "legacy" \in Bootstrap /\ "legacy" \notin Movable
  /\ \A d \in Place : d \notin Movable => d = "legacy"
  /\ "default" \notin Chosen
  BY DataDirectoryAssumption DEF Bootstrap, Movable, Place

\* A step of a process, of the directories and of the stages.
LEMMA GoLemma ==
  ASSUME TypeInv, NEW p \in Process, NEW x \in Task, Sound(x, used.moves), Become(p, x),
         Steady \/ \E s : Fault(s), Typed(dirs', used.moves), Staged(stages')
  PROVE  TypeInv' /\ UNCHANGED <<saved, wish, scene>>
  <1>1. Bounded(used') /\ used'.moves = used.moves /\ UNCHANGED <<saved, wish, scene>>
    <2>1. CASE Steady
      BY <2>1 DEF Steady, Quiet, TypeInv
    <2>2. CASE \E s : Fault(s)
      <3>1. used' = [used EXCEPT !.faults = @ + 1] /\ UNCHANGED <<saved, wish, scene>>
        BY <2>2 DEF Fault, Quiet
      <3>2. used \in [saves : Nat, moves : Nat, faults : Nat, crashes : Nat]
        BY DEF TypeInv, Bounded
      <3>3. PICK n \in Nat : used' = [used EXCEPT !.faults = n]
        BY <3>1, <3>2
      <3>4. used' \in [saves : Nat, moves : Nat, faults : Nat, crashes : Nat] /\ used'.moves = used.moves
        BY <3>2, <3>3
      <3> QED BY <3>1, <3>4 DEF TypeInv, Bounded
    <2> QED BY <2>1, <2>2
  <1>2. proc' \in [Process -> Task] /\ \A q \in Process : Sound(proc'[q], used.moves)
    BY DEF Become, TypeInv
  <1>3. Bounded(used)' /\ Staged(stages)'
    BY <1>1 DEF Bounded, Staged, Id
  <1> QED BY <1>1, <1>2, <1>3 DEF TypeInv, Typed

\* What a process that moves files has at hand.
LEMMA MovingLemma ==
  ASSUME TypeInv, NEW p \in Process, proc[p].at \in Moving
  PROVE  /\ proc[p] \in Task /\ Sound(proc[p], used.moves) /\ proc[p].boot \in Bootstrap
         /\ proc[p].boot \in Place /\ Move(p) \in Migration /\ Move(p) = proc[p].loc.migration
         /\ Move(p).id \in Id /\ Move(p).id # 0 /\ Move(p).target \in Place /\ Move(p).source \in Place
         /\ Source(p) = dirs[Move(p).source] /\ Target(p) = dirs[Move(p).target]
         /\ Stage(p) = stages[Move(p).id]
         /\ Source(p) \in Directory /\ Target(p) \in Directory /\ Stage(p) \in Directory
         /\ Stage(p).location = None
         /\ Typed(dirs, used.moves) /\ Staged(stages) /\ used.moves \in Nat /\ scene.moves # 0
  <1>1. /\ proc[p] \in Task /\ Sound(proc[p], used.moves) /\ Typed(dirs, used.moves) /\ Staged(stages)
        /\ used.moves \in Nat /\ used.moves <= scene.moves /\ scene.moves \in Nat
    BY DataDirectoryAssumption DEF TypeInv, Bounded
  <1>2. Move(p) \in Migration /\ proc[p].boot \in Bootstrap /\ Move(p).id <= used.moves
    BY <1>1 DEF Sound, Move
  <1>3. Move(p).id \in Nat \ {0} /\ Move(p).target \in Place /\ Move(p).source \in Place
    BY <1>2 DEF Migration
  <1>4. Move(p).id \in Id /\ scene.moves # 0
    BY <1>1, <1>2, <1>3 DEF Id
  <1> QED BY <1>1, <1>2, <1>3, <1>4, PlacesLemma DEF Typed, Staged, Source, Target, Stage, Move

\* It goes on to another of its places.
LEMMA ToLemma ==
  ASSUME TypeInv, NEW p \in Process, proc[p].at \in Moving, NEW at \in Moving \ {"clear", "copy"}
  PROVE  /\ To(p, at) \in Task /\ Sound(To(p, at), used.moves) /\ To(p, at).at = at
         /\ To(p, at).boot = proc[p].boot /\ To(p, at).loc = proc[p].loc
  <1>1. proc[p] \in Task /\ Sound(proc[p], used.moves)
    BY MovingLemma
  <1>2. PICK x : x = To(p, at)
    OBVIOUS
  <1>3. x \in Task /\ x.at = at /\ x.boot = proc[p].boot /\ x.loc = proc[p].loc
    BY <1>1, <1>2, AtLemma DEF To
  <1>4. Sound(x, used.moves)
    BY <1>1, <1>3 DEF Sound, Settled, Moving
  <1> QED BY <1>2, <1>3, <1>4

\* Several processes run only where nothing is moved; one of them takes a step
\* that leaves the others what they rely on.
LEMMA BesideLemma ==
  ASSUME Inv, TypeInv', NEW p \in scene.processes, NEW x, Become(p, x), scene' = scene,
         Old(dirs', saved') \/ New(dirs', saved'),
         Fine(x, dirs', stages', saved', scene),
         scene.moves = 0 /\ New(dirs, saved) =>
           /\ New(dirs', saved')
           /\ \A q \in Process \ {p} : Fine(proc[q], dirs', stages', saved', scene)
  PROVE  Inv'
  <1>1. p \in Process /\ proc \in [Process -> Task]
    BY DataDirectoryAssumption DEF Inv, TypeInv
  <1>2. proc'[p] = x /\ \A q \in Process \ {p} : proc'[q] = proc[q]
    BY <1>1 DEF Become
  <1>3. ASSUME NEW q \in Process \ {p}
        PROVE  Fine(proc[q], dirs', stages', saved', scene)
    <2>1. CASE \A a, b \in scene.processes : a = b
      <3>1. proc[q].at = "off"
        BY <2>1 DEF Inv, At
      <3> QED BY <3>1 DEF Fine, Moving, Settled
    <2>2. CASE scene.moves = 0 /\ New(dirs, saved)
      BY <2>2
    <2> QED BY <2>1, <2>2 DEF Inv, Apart
  <1>4. \A q \in Process \ scene.processes : At(q, "off")'
    BY <1>2 DEF Inv, At
  <1>5. Apart'
    BY DEF Inv, Apart
  <1>6. \A q \in Process : Fine(proc'[q], dirs', stages', saved', scene')
    BY <1>2, <1>3
  <1> QED BY <1>4, <1>5, <1>6 DEF Inv

\* So does a process that moves files: it is the only one.
LEMMA KeepLemma ==
  ASSUME Inv, TypeInv', NEW p \in Process, proc[p].at \in Moving, NEW x, Become(p, x),
         UNCHANGED <<saved, wish, scene>>, New(dirs', saved), Fine(x, dirs', stages', saved, scene)
  PROVE  Inv'
  <1>1. scene.moves # 0
    BY MovingLemma DEF Inv
  <1>2. p \in scene.processes
    BY DEF Inv, At, Moving
  <1> QED BY <1>1, <1>2, BesideLemma

\* What the invariant says of it.
LEMMA MovesLemma ==
  ASSUME Inv, NEW p \in Process, proc[p].at \in Moving
  PROVE  /\ TypeInv /\ Moves(proc[p], dirs, stages, saved) /\ New(dirs, saved)
         /\ proc[p].boot = "default" /\ proc[p].loc = Record(dirs)
         /\ Move(p).source # Move(p).target /\ Move(p).source \in Movable /\ Move(p).target \in Movable
         /\ Move(p).phase = "copy" => Move(p).source = ActiveOf(Record(dirs)) /\ Source(p).data = saved
         /\ Move(p).phase = "cleanup" => Move(p).target = ActiveOf(Record(dirs)) /\ Target(p).data = saved
         /\ Copying(proc[p]) => Move(p).phase = "copy"
         /\ Cleaning(proc[p]) => Move(p).phase = "cleanup"
         /\ Move(p).phase = "copy" /\ Target(p).marker = Move(p).id => Within(Target(p), Source(p))
  <1>1. TypeInv /\ Moves(proc[p], dirs, stages, saved)
    BY DEF Inv, Fine
  <1>2. /\ New(dirs, saved) /\ proc[p].boot = "default" /\ proc[p].loc = Record(dirs)
        /\ Copying(proc[p]) => proc[p].loc.migration.phase = "copy"
        /\ Cleaning(proc[p]) => proc[p].loc.migration.phase = "cleanup"
    BY <1>1 DEF Moves
  <1>3. /\ Move(p) = Record(dirs).migration /\ Source(p) = dirs[Move(p).source]
        /\ Target(p) = dirs[Move(p).target] /\ Move(p) \in Migration
    BY <1>1, <1>2, MovingLemma
  <1>4. Move(p).phase # "none"
    BY <1>3 DEF Migration
  <1>5. Consistent(Record(dirs)) /\ dirs[ActiveOf(Record(dirs))].data = saved
        /\ (Move(p).phase = "copy" /\ dirs[Move(p).target].marker = Move(p).id =>
              Within(dirs[Move(p).target], dirs[Move(p).source]))
    BY <1>2, <1>3 DEF New
  <1> QED BY <1>1, <1>2, <1>3, <1>4, <1>5 DEF Consistent

\* Something happens in a directory that is not the active one.
Changed(D, E, o) ==
  LET m == Record(D).migration IN
  /\ \A d \in Place \ {o} : E[d] = D[d]
  /\ o = "default" => E[o].there /\ E[o].location = D[o].location
  /\ m.phase = "copy" =>
       /\ o = m.target
       /\ E[o].marker = m.id => Within(E[o], D[m.source])

\* The record and the active directory are as they were.
LEMMA Elsewhere ==
  ASSUME NEW D, NEW V, New(D, V), NEW E, NEW o \in Movable, o # ActiveOf(Record(D)), Changed(D, E, o)
  PROVE  New(E, V) /\ Record(E) = Record(D)
  <1>0. /\ \A d \in Place \ {o} : E[d] = D[d]
        /\ o = "default" => E[o].there /\ E[o].location = D[o].location
        /\ Record(D).migration.phase = "copy" =>
             /\ o = Record(D).migration.target
             /\ E[o].marker = Record(D).migration.id => Within(E[o], D[Record(D).migration.source])
    BY DEF Changed
  <1>1. Consistent(Record(D)) /\ D["legacy"] = Missing /\ D["default"].there
        /\ D[ActiveOf(Record(D))].data = V
    BY DEF New
  <1>2. E["legacy"] = Missing
    BY <1>0, <1>1, PlacesLemma
  <1>3. E["default"].there /\ E["default"].location = D["default"].location
    BY <1>0, <1>1, PlacesLemma
  <1>4. Record(E) = Record(D)
    BY <1>3 DEF Record
  <1>5. ActiveOf(Record(D)) \in Movable
    BY <1>1 DEF Consistent, ActiveOf, Movable
  <1>6. E[ActiveOf(Record(D))].data = V
    BY <1>0, <1>1, <1>5, PlacesLemma
  <1>7. PICK m : m = Record(D).migration
    OBVIOUS
  <1>8. ASSUME m.phase = "copy", E[m.target].marker = m.id
        PROVE  Within(E[m.target], E[m.source])
    <2>1. o = m.target /\ Within(E[o], D[m.source]) /\ m.source # m.target /\ m.source \in Movable
      BY <1>0, <1>1, <1>7, <1>8 DEF Consistent
    <2>2. E[m.source] = D[m.source]
      BY <1>0, <2>1, PlacesLemma
    <2> QED BY <2>1, <2>2
  <1> QED BY <1>1, <1>2, <1>3, <1>4, <1>6, <1>7, <1>8 DEF New

\* After an error.
LEMMA FailedFine ==
  ASSUME NEW D, NEW T, NEW V, NEW s, NEW x \in Task, New(D, V), x.boot = "default", x.loc = Record(D)
  PROVE  Fine(Failed(x), D, T, V, s)
  <1>1. PICK y : y = Failed(x)
    OBVIOUS
  <1>2. /\ y \in Task /\ y.boot = "default" /\ y.loc = Record(D)
        /\ \/ /\ y.at = "enter"
              /\ y.active = IF x.loc.active = None THEN x.boot ELSE x.loc.active
           \/ y.loc.migration.phase = "copy" /\ y.at = "drop"
    BY <1>1, FailedLemma, PlacesLemma
  <1>3. CASE y.at = "enter" /\ y.active = IF x.loc.active = None THEN x.boot ELSE x.loc.active
    <2>1. y.active = ActiveOf(Record(D))
      BY <1>3 DEF ActiveOf
    <2>2. y.active \in Movable /\ D[y.active].data = V
      BY <2>1 DEF New, Consistent, ActiveOf, Movable
    <2> QED BY <1>1, <1>2, <1>3, <2>1, <2>2 DEF Fine, Works, Moving
  <1>4. CASE y.loc.migration.phase = "copy" /\ y.at = "drop"
    <2>1. Emptied(y, D) /\ Copied(y, D, T) /\ ~Cleaning(y)
      BY <1>4 DEF Emptied, Copied, Cleaning
    <2> QED BY <1>1, <1>2, <1>4, <2>1 DEF Fine, Moves, Moving, Settled
  <1> QED BY <1>2, <1>3, <1>4

\* A step of a process that moves files fails and has changed nothing.
LEMMA FailStep ==
  ASSUME TypeInv, NEW p \in Process, proc[p].at \in Moving, Become(p, Failed(proc[p])),
         UNCHANGED disk, Steady \/ \E s : Fault(s)
  PROVE  TypeInv' /\ (Inv => Inv')
  <1>1. PICK x : x = Failed(proc[p])
    OBVIOUS
  <1>2. x \in Task /\ Sound(x, used.moves) /\ dirs' = dirs /\ stages' = stages
    BY <1>1, MovingLemma, FailedLemma DEF disk
  <1>3. TypeInv' /\ UNCHANGED <<saved, wish, scene>>
    BY <1>1, <1>2, MovingLemma, GoLemma
  <1>4. ASSUME Inv
        PROVE  Inv'
    <2>1. proc[p] \in Task /\ New(dirs, saved) /\ proc[p].boot = "default" /\ proc[p].loc = Record(dirs)
      BY <1>4, MovesLemma, MovingLemma
    <2>2. Fine(x, dirs, stages, saved, scene)
      BY <1>1, <2>1, FailedFine
    <2> QED BY <1>1, <1>2, <1>3, <1>4, <2>1, <2>2, KeepLemma
  <1> QED BY <1>3, <1>4

\* A process that moves files goes on, and has changed nothing.
LEMMA StayStep ==
  ASSUME TypeInv, NEW p \in Process, proc[p].at \in Moving, NEW at \in Moving \ {"clear", "copy"},
         Become(p, To(p, at)), UNCHANGED disk, Steady \/ \E s : Fault(s),
         Inv => /\ (Copying([at |-> at]) => Move(p).phase = "copy")
                /\ (Cleaning([at |-> at]) => Move(p).phase = "cleanup")
                /\ Copied([at |-> at, loc |-> proc[p].loc], dirs, stages)
  PROVE  TypeInv' /\ (Inv => Inv')
  <1>1. PICK x : x = To(p, at)
    OBVIOUS
  <1>2. /\ x \in Task /\ Sound(x, used.moves) /\ x.at = at /\ x.boot = proc[p].boot /\ x.loc = proc[p].loc
        /\ dirs' = dirs /\ stages' = stages
    BY <1>1, ToLemma DEF disk
  <1>3. TypeInv' /\ UNCHANGED <<saved, wish, scene>>
    BY <1>1, <1>2, MovingLemma, GoLemma
  <1>4. ASSUME Inv
        PROVE  Inv'
    <2>1. New(dirs, saved) /\ proc[p].boot = "default" /\ proc[p].loc = Record(dirs)
          /\ Move(p) = proc[p].loc.migration
      BY <1>4, MovesLemma, MovingLemma
    <2>2. Emptied(x, dirs)
      BY <1>2 DEF Emptied
    <2>3. Copied(x, dirs, stages)
      BY <1>2, <1>4 DEF Copied
    <2>4. (Copying(x) => Move(p).phase = "copy") /\ (Cleaning(x) => Move(p).phase = "cleanup")
      BY <1>2, <1>4 DEF Copying, Cleaning
    <2>5. Fine(x, dirs, stages, saved, scene)
      BY <1>2, <2>1, <2>2, <2>3, <2>4 DEF Fine, Moves, Moving, Settled
    <2> QED BY <1>1, <1>2, <1>3, <1>4, <2>1, <2>5, KeepLemma
  <1> QED BY <1>3, <1>4

-----------------------------------------------------------------------------
(* Before and after the files are moved.                                   *)

\* Whatever a step counts, the types are kept.
LEMMA TypeLemma ==
  ASSUME TypeInv, NEW p \in Process, NEW x \in Task, Become(p, x), scene' = scene,
         Bounded(used'), used.moves <= used'.moves, Sound(x, used'.moves),
         Typed(dirs', used'.moves), Staged(stages'), saved' \in Files, wish' \in Place
  PROVE  TypeInv'
  <1>1. used.moves \in Nat /\ used'.moves \in Nat /\ proc \in [Process -> Task]
    BY DEF TypeInv, Bounded
  <1>2. proc' \in [Process -> Task] /\ proc'[p] = x /\ \A q \in Process \ {p} : proc'[q] = proc[q]
    BY <1>1 DEF Become
  <1>3. ASSUME NEW q \in Process
        PROVE  Sound(proc'[q], used'.moves)
    <2>1. CASE q = p
      BY <1>2, <2>1
    <2>2. CASE q # p
      <3>1. Sound(proc[q], used.moves) /\ proc[q].loc \in Location
        BY <1>1 DEF TypeInv, Task
      <3>2. proc[q].loc.migration.id \in Nat
        BY <3>1, FreshLemma DEF Location, Migration
      <3>3. proc[q].loc.migration.id <= used'.moves
        BY <1>1, <3>1, <3>2 DEF Sound
      <3>4. Sound(proc[q], used'.moves)
        BY <3>1, <3>3 DEF Sound
      <3> QED BY <1>2, <2>2, <3>4
    <2> QED BY <2>1, <2>2
  <1>4. Bounded(used)' /\ Staged(stages)'
    BY DEF Bounded, Staged, Id
  <1> QED BY <1>2, <1>3, <1>4 DEF TypeInv, Typed

\* A step that looks, and changes nothing but the state of its process.
LEMMA QuietStep ==
  ASSUME TypeInv, NEW p \in Process, NEW x \in Task, Sound(x, used.moves), Become(p, x),
         UNCHANGED disk, Steady \/ \E s : Fault(s),
         Inv => p \in scene.processes /\ Fine(x, dirs, stages, saved, scene)
  PROVE  TypeInv' /\ (Inv => Inv')
  <1>1. Typed(dirs, used.moves) /\ Staged(stages) /\ dirs' = dirs /\ stages' = stages
    BY DEF TypeInv, disk
  <1>2. TypeInv' /\ UNCHANGED <<saved, wish, scene>>
    BY <1>1, GoLemma
  <1>3. ASSUME Inv
        PROVE  Inv'
    <2>1. \A q \in Process : Fine(proc[q], dirs, stages, saved, scene)
      BY <1>3 DEF Inv
    <2>2. Old(dirs, saved) \/ New(dirs, saved)
      BY <1>3 DEF Inv
    <2> QED BY <1>1, <1>2, <1>3, <2>1, <2>2, BesideLemma
  <1> QED BY <1>2, <1>3

\* The state of a process that does not run.
LEMMA OffLemma ==
  /\ Off \in Task /\ Off.at = "off" /\ Off.loc = Fresh
  /\ \A n \in Nat, at \in {"off", "inspect"} :
       [Off EXCEPT !.at = at] \in Task /\ [Off EXCEPT !.at = at].at = at /\ Sound([Off EXCEPT !.at = at], n)
  /\ [Off EXCEPT !.at = "off"] = Off
  <1>1. Off \in Task /\ Off.at = "off" /\ Off.loc = Fresh /\ [Off EXCEPT !.at = "off"] = Off
    <2>1. Off.at = "off" /\ Off.loc = Fresh
      BY DEF Off
    <2>2. Off \in Task
      BY FreshLemma DEF Off, Task
    <2>3. \A x \in Task : [x EXCEPT !.at = x.at] = x
      BY DEF Task
    <2> QED BY <2>1, <2>2, <2>3
  <1>2. ASSUME NEW n \in Nat, NEW at \in {"off", "inspect"}
        PROVE  [Off EXCEPT !.at = at] \in Task /\ [Off EXCEPT !.at = at].at = at /\ Sound([Off EXCEPT !.at = at], n)
    <2>1. PICK x : x = [Off EXCEPT !.at = at]
      OBVIOUS
    <2>2. x \in Task /\ x.at = at /\ x.loc = Fresh
      BY <1>1, <2>1, AtLemma
    <2>3. Sound(x, n)
      BY <2>2, FreshLemma DEF Sound, Moving, Settled
    <2> QED BY <2>1, <2>2, <2>3
  <1> QED BY <1>1, <1>2

\* There is only one way to be there.
LEMMA MadeSame ==
  ASSUME NEW d \in Directory, d.there
  PROVE  Made(d) = d
  <1>1. d.there = TRUE
    BY DEF Directory
  <1> QED BY <1>1 DEF Made, Directory

\* Directories that differ in nothing the invariant looks at.
Alike(D, E) ==
  /\ E["legacy"] = D["legacy"] /\ (D["default"].there => E["default"].there)
  /\ \A d \in Place : E[d].data = D[d].data /\ E[d].marker = D[d].marker /\ E[d].location = D[d].location

\* ... so that the invariant holds of both.
LEMMA AlikeNew ==
  ASSUME NEW D, NEW E, NEW V, New(D, V), Alike(D, E)
  PROVE  New(E, V) /\ Record(E) = Record(D)
  <1>1. Record(E) = Record(D)
    BY PlacesLemma DEF Alike, Record
  <1>2. PICK m : m = Record(D).migration
    OBVIOUS
  <1>3. Consistent(Record(D)) /\ ActiveOf(Record(D)) \in Movable
    BY DEF New, Consistent, ActiveOf, Movable
  <1>4. m.phase = "copy" => m.source \in Place /\ m.target \in Place
    BY <1>2, <1>3, PlacesLemma DEF Consistent
  <1>5. m.phase = "copy" /\ E[m.target].marker = m.id => Within(E[m.target], E[m.source])
    BY <1>2, <1>4 DEF New, Alike, Within
  <1>6. E[ActiveOf(Record(D))].data = V
    BY <1>3, PlacesLemma DEF New, Alike
  <1> QED BY <1>1, <1>2, <1>3, <1>5, <1>6 DEF New, Alike

\* A process that does not move files relies on nothing else, either.
LEMMA FineLemma ==
  ASSUME NEW D, NEW E, NEW T, NEW V, NEW s, NEW x, x.at \notin Moving, Fine(x, D, T, V, s),
         New(D, V), New(E, V), Record(E) = Record(D), \A d \in Movable : E[d].data = D[d].data
  PROVE  Fine(x, E, T, V, s)
  <1>1. ~Old(D, V)
    BY MissingLemma DEF Old, New
  <1>2. x.at \in Settled => Works(x, E, V, s)
    BY <1>1 DEF Fine, Works
  <1> QED BY <1>1, <1>2 DEF Fine

\* A process starts: it has looked at nothing yet.
LEMMA LaunchStep ==
  ASSUME TypeInv, NEW p \in Process, Launch(p)
  PROVE  TypeInv' /\ (Inv => Inv')
  <1>1. PICK x : x = [Off EXCEPT !.at = "inspect"]
    OBVIOUS
  <1>2. used.moves \in Nat
    BY DEF TypeInv, Bounded
  <1>3. x \in Task /\ x.at = "inspect" /\ Sound(x, used.moves)
    BY <1>1, <1>2, OffLemma
  <1>4. Fine(x, dirs, stages, saved, scene)
    BY <1>3 DEF Fine, Moving, Settled
  <1> QED BY <1>1, <1>3, <1>4, QuietStep DEF Launch

\* A process that ends or crashes leaves the disk as it is.
LEMMA EndStep ==
  ASSUME TypeInv, NEW p \in Process, Quit(p) \/ Crash(p)
  PROVE  TypeInv' /\ (Inv => Inv')
  <1>1. used.moves \in Nat /\ Typed(dirs, used.moves) /\ Staged(stages)
        /\ used \in [saves : Nat, moves : Nat, faults : Nat, crashes : Nat]
    BY DEF TypeInv, Bounded
  <1>2. PICK x : x = Off
    OBVIOUS
  <1>3. x \in Task /\ x.at = "off" /\ Sound(x, used.moves)
    <2>1. Sound([Off EXCEPT !.at = "off"], used.moves)
      BY <1>1, OffLemma
    <2> QED BY <1>2, <2>1, OffLemma
  <1>4. PICK n \in Nat : used' = [used EXCEPT !.crashes = n]
    <2>1. CASE Quit(p)
      <3>1. used' = used /\ used.crashes \in Nat
        BY <1>1, <2>1 DEF Quit, Steady
      <3>2. used' = [used EXCEPT !.crashes = used.crashes]
        BY <1>1, <3>1
      <3> QED BY <3>1, <3>2
    <2>2. CASE Crash(p)
      <3>1. used' = [used EXCEPT !.crashes = @ + 1] /\ used.crashes + 1 \in Nat
        BY <1>1, <2>2 DEF Crash
      <3> QED BY <3>1
    <2> QED BY <2>1, <2>2
  <1>5. Bounded(used') /\ used'.moves = used.moves
    BY <1>1, <1>4 DEF TypeInv, Bounded
  <1>6. Become(p, x) /\ dirs' = dirs /\ stages' = stages /\ UNCHANGED <<saved, wish, scene>>
    BY <1>2 DEF Quit, Crash, Steady, Quiet, disk
  <1>7. TypeInv'
    BY <1>1, <1>3, <1>5, <1>6, TypeLemma DEF TypeInv
  <1>8. ASSUME Inv
        PROVE  Inv'
    <2>1. p \in scene.processes
      BY <1>8 DEF Inv, Quit, Crash, At
    <2>2. Fine(x, dirs, stages, saved, scene)
      BY <1>3 DEF Fine, Moving, Settled
    <2>3. \A q \in Process : Fine(proc[q], dirs, stages, saved, scene)
      BY <1>8 DEF Inv
    <2>4. Old(dirs, saved) \/ New(dirs, saved)
      BY <1>8 DEF Inv
    <2> QED BY <1>6, <1>7, <1>8, <2>1, <2>2, <2>3, <2>4, BesideLemma
  <1> QED BY <1>7, <1>8

\* There is one of the two directories at first, or the default one already.
LEMMA OldNew ==
  ASSUME Inv
  PROVE  /\ Old(dirs, saved) <=> ~New(dirs, saved)
         /\ Old(dirs, saved) <=> dirs["default"] = Missing /\ dirs["legacy"] # Missing
  <1>1. ~Missing.there
    BY MissingLemma
  <1>2. Old(dirs, saved) => dirs["default"] = Missing /\ dirs["legacy"] # Missing
    BY <1>1 DEF Old
  <1>3. New(dirs, saved) => dirs["default"] # Missing
    BY <1>1 DEF New
  <1> QED BY <1>2, <1>3 DEF Inv

\* With the default directory there, or neither, the default one is the bootstrap.
LEMMA InspectStep ==
  ASSUME TypeInv, NEW p \in Process, Inspect(p)
  PROVE  TypeInv' /\ (Inv => Inv')
  <1>1. proc[p] \in Task /\ Sound(proc[p], used.moves) /\ proc[p].at = "inspect"
    BY DEF TypeInv, Inspect, At
  <1>2. UNCHANGED disk /\ Steady
    BY DEF Inspect
  <1>3. Inv => p \in scene.processes
    BY <1>1 DEF Inv, At
  <1>4. CASE dirs["default"] # Missing \/ dirs["legacy"] = Missing
    <2>1. PICK y : y = [proc[p] EXCEPT !.at = "read", !.boot = "default"]
      OBVIOUS
    <2>2. y \in Task /\ y.at = "read" /\ y.boot = "default" /\ y.loc = proc[p].loc
      BY <1>1, <2>1 DEF Task, Bootstrap
    <2>3. Sound(y, used.moves)
      BY <1>1, <2>2 DEF Sound, Moving, Settled, Bootstrap
    <2>4. Inv => Fine(y, dirs, stages, saved, scene)
      BY <1>4, <2>2, OldNew DEF Inv, Fine, Moving, Settled
    <2>5. Become(p, y)
      BY <1>4, <2>1 DEF Inspect
    <2> QED BY <1>2, <1>3, <2>2, <2>3, <2>4, <2>5, QuietStep
  <1>5. CASE ~(dirs["default"] # Missing \/ dirs["legacy"] = Missing)
    <2>1. PICK y : y = To(p, "rename")
      OBVIOUS
    <2>2. y \in Task /\ y.at = "rename" /\ y.loc = proc[p].loc
      BY <1>1, <2>1, AtLemma DEF To
    <2>3. Sound(y, used.moves)
      BY <1>1, <2>2 DEF Sound, Moving, Settled
    <2>4. Inv => Fine(y, dirs, stages, saved, scene)
      BY <1>5, <2>2, OldNew DEF Fine, Moving, Settled
    <2>5. Become(p, y)
      BY <1>5, <2>1 DEF Inspect
    <2> QED BY <1>2, <1>3, <2>2, <2>3, <2>4, <2>5, QuietStep
  <1> QED BY <1>4, <1>5

\* The rename makes the directory of older releases the default one; when it fails that one stays
\* the bootstrap, which is safe where nothing is ever moved.
LEMMA RenameStep ==
  ASSUME TypeInv, NEW p \in Process, RenameLegacy(p)
  PROVE  TypeInv' /\ (Inv => Inv')
  <1>1. proc[p] \in Task /\ Sound(proc[p], used.moves) /\ proc[p].at = "rename"
        /\ Typed(dirs, used.moves) /\ Staged(stages)
    BY DEF TypeInv, RenameLegacy, At
  <1>2. Inv => p \in scene.processes /\ Old(dirs, saved)
    BY <1>1 DEF Inv, At, Fine
  <1>3. \A b \in Bootstrap : LET y == [proc[p] EXCEPT !.at = "read", !.boot = b] IN
          y \in Task /\ y.at = "read" /\ y.boot = b /\ Sound(y, used.moves)
    <2> SUFFICES ASSUME NEW b \in Bootstrap
                 PROVE  LET y == [proc[p] EXCEPT !.at = "read", !.boot = b] IN
                        y \in Task /\ y.at = "read" /\ y.boot = b /\ Sound(y, used.moves)
      OBVIOUS
    <2>1. PICK y : y = [proc[p] EXCEPT !.at = "read", !.boot = b]
      OBVIOUS
    <2>2. y \in Task /\ y.at = "read" /\ y.boot = b /\ y.loc = proc[p].loc
      BY <1>1, <2>1 DEF Task
    <2>3. Sound(y, used.moves)
      BY <1>1, <2>2 DEF Sound, Moving, Settled
    <2> QED BY <2>1, <2>2, <2>3
  <1>4. CASE /\ dirs' = [dirs EXCEPT !["default"] = dirs["legacy"], !["legacy"] = Missing]
             /\ Become(p, [proc[p] EXCEPT !.at = "read", !.boot = "default"])
             /\ UNCHANGED stages /\ Steady
    <2>1. PICK y : y = [proc[p] EXCEPT !.at = "read", !.boot = "default"]
      OBVIOUS
    <2>2. y \in Task /\ y.at = "read" /\ y.boot = "default" /\ Sound(y, used.moves)
      BY <1>3, <2>1, PlacesLemma
    <2>3. /\ dirs' \in [Place -> Directory] /\ dirs'["default"] = dirs["legacy"] /\ dirs'["legacy"] = Missing
          /\ \A d \in Place : d # "default" /\ d # "legacy" => dirs'[d] = dirs[d]
      BY <1>1, <1>4, PlacesLemma, MissingLemma DEF Typed
    <2>4. Typed(dirs', used.moves)
      BY <1>1, <2>3, PlacesLemma, MissingLemma DEF Typed
    <2>5. TypeInv' /\ UNCHANGED <<saved, wish, scene>>
      BY <1>1, <1>4, <2>1, <2>2, <2>4, GoLemma
    <2>6. ASSUME Inv
          PROVE  Inv'
      <3>1. Old(dirs, saved)
        BY <1>2, <2>6
      <3>2. Record(dirs') = Fresh
        BY <2>3, <3>1 DEF Record, Old
      <3>3. Consistent(Fresh) /\ ActiveOf(Fresh) = "default" /\ Fresh.migration.phase # "copy"
        BY FreshLemma DEF Consistent, ActiveOf
      <3>4. New(dirs', saved)
        BY <2>3, <3>1, <3>2, <3>3 DEF New, Old
      <3>5. Fine(y, dirs', stages', saved, scene)
        BY <2>2, <3>4 DEF Fine, Moving, Settled
      <3>6. ~New(dirs, saved)
        BY <2>6, <3>1, OldNew
      <3> QED BY <1>2, <1>4, <2>1, <2>5, <2>6, <3>4, <3>5, <3>6, BesideLemma
    <2> QED BY <2>5, <2>6
  <1>5. CASE /\ IF dirs["legacy"] = Missing \/ dirs["default"] # Missing
                  THEN Steady ELSE Fault("rename")
             /\ Become(p, [proc[p] EXCEPT !.at = "read", !.boot = "legacy"])
             /\ UNCHANGED disk
    <2>1. PICK y : y = [proc[p] EXCEPT !.at = "read", !.boot = "legacy"]
      OBVIOUS
    <2>2. y \in Task /\ y.at = "read" /\ y.boot = "legacy" /\ Sound(y, used.moves)
      BY <1>3, <2>1, PlacesLemma
    <2>3. ASSUME Inv
          PROVE  Fine(y, dirs, stages, saved, scene)
      <3>1. Old(dirs, saved) /\ Safe(scene)
        BY <1>2, <2>3 DEF Inv
      <3>2. Fault("rename")
        BY <1>5, <2>3, <3>1, OldNew
      <3>3. scene.moves = 0
        BY <3>1, <3>2 DEF Safe, Fault, MayFail
      <3> QED BY <2>2, <3>1, <3>3 DEF Fine, Moving, Settled
    <2>4. Steady \/ \E s : Fault(s)
      BY <1>5
    <2> QED BY <1>2, <1>5, <2>1, <2>2, <2>3, <2>4, QuietStep
  <1> QED BY <1>4, <1>5 DEF RenameLegacy

\* What the process reads is what the bootstrap records.
LEMMA ReadStep ==
  ASSUME TypeInv, NEW p \in Process, ReadLocation(p)
  PROVE  TypeInv' /\ (Inv => Inv')
  <1>1. /\ proc[p] \in Task /\ Sound(proc[p], used.moves) /\ proc[p].at = "read"
        /\ proc[p].boot \in Bootstrap /\ proc[p].boot \in Place
        /\ Typed(dirs, used.moves) /\ Staged(stages)
    BY PlacesLemma DEF TypeInv, ReadLocation, At, Sound
  <1>2. PICK b, loc : b \in Bootstrap /\ b = proc[p].boot /\ loc = Recorded(b)
    BY <1>1
  <1>3. /\ loc \in Location /\ loc.migration.id <= used.moves
        /\ loc.migration \in Migration <=> loc.migration.phase # "none"
    BY <1>1, <1>2, RecordedLemma
  <1>4. PICK x : x = [proc[p] EXCEPT !.loc = loc]
    OBVIOUS
  <1>5. x \in Task /\ x.at = "read" /\ x.boot = b /\ x.loc = loc /\ Sound(x, used.moves)
    <2>1. x \in Task /\ x.at = "read" /\ x.boot = b /\ x.loc = loc
      BY <1>1, <1>2, <1>3, <1>4 DEF Task
    <2> QED BY <1>2, <1>3, <2>1 DEF Sound, Moving, Settled
  <1>6. dirs' = [dirs EXCEPT ![b] = Made(@)] /\ stages' = stages /\ Steady
    BY <1>2 DEF ReadLocation
  <1>7. dirs[b] \in Directory /\ b \in Place
    BY <1>1, <1>2 DEF Typed
  <1>8. Typed(dirs', used.moves)
    <2>1. Made(dirs[b]) \in Directory /\ Made(dirs[b]).location = dirs[b].location
      BY <1>7, MadeLemma
    <2>2. dirs' = [dirs EXCEPT ![b] = Made(dirs[b])]
      BY <1>6
    <2>3. used.moves \in Nat /\ (dirs[b].location # None => dirs[b].location.migration.id <= used.moves)
      BY <1>1, <1>7 DEF TypeInv, Bounded, Typed
    <2> QED BY <1>1, <1>2, <1>7, <2>1, <2>2, <2>3, ReplaceLemma
  <1>9. PICK y : y = CASE loc.migration.phase = "none" -> Enter(x)
                       [] loc.migration.phase = "copy" -> [x EXCEPT !.at = "prepare"]
                       [] loc.migration.phase = "cleanup" -> [x EXCEPT !.at = "cleanup"]
    OBVIOUS
  <1>10. Become(p, y)
    BY <1>2, <1>4, <1>9 DEF ReadLocation
  <1>11. loc.migration.phase \in {"none", "copy", "cleanup"}
    BY <1>3, FreshLemma DEF Location, Migration
  <1>12. ASSUME Inv
         PROVE  dirs' = dirs /\ p \in scene.processes
    <2>1. Fine(proc[p], dirs, stages, saved, scene) /\ p \in scene.processes
      BY <1>1, <1>12 DEF Inv, At
    <2>2. dirs[b].there
      BY <1>1, <1>2, <2>1 DEF Fine, Old, New
    <2>3. dirs' = [dirs EXCEPT ![b] = dirs[b]]
      BY <1>6, <1>7, <2>2, MadeSame
    <2> QED BY <1>1, <2>1, <2>3 DEF Typed
  <1>13. CASE loc.migration.phase = "none"
    <2>1. y = Enter(x)
      BY <1>9, <1>13
    <2>2. /\ y \in Task /\ y.at = "enter" /\ y.boot = b /\ y.loc = loc /\ Sound(y, used.moves)
          /\ y.active = IF loc.active = None THEN b ELSE loc.active
      BY <1>2, <1>5, <2>1, EnterLemma
    <2>3. TypeInv' /\ UNCHANGED <<saved, wish, scene>>
      BY <1>1, <1>6, <1>8, <1>10, <2>2, GoLemma
    <2>4. ASSUME Inv
          PROVE  Fine(y, dirs, stages, saved, scene)
      <3>1. Fine(proc[p], dirs, stages, saved, scene)
        BY <2>4 DEF Inv
      <3>2. CASE b = "legacy" /\ Old(dirs, saved) /\ scene.moves = 0
        <4>1. loc = Fresh
          BY <1>2, <3>2 DEF Recorded, Old
        <4>2. y.active = "legacy"
          BY <2>2, <3>2, <4>1, FreshLemma
        <4> QED BY <2>2, <3>2, <4>2 DEF Fine, Works, Old, Moving
      <3>3. CASE b = "default" /\ New(dirs, saved)
        <4>1. loc = Record(dirs)
          BY <1>2, <3>3 DEF Recorded, Record
        <4>2. y.active = ActiveOf(Record(dirs))
          BY <2>2, <3>3, <4>1 DEF ActiveOf
        <4>3. y.active \in Movable /\ dirs[y.active].data = saved
          BY <3>3, <4>2 DEF New, Consistent, ActiveOf, Movable
        <4> QED BY <2>2, <3>3, <4>2, <4>3 DEF Fine, Works, Moving
      <3> QED BY <1>1, <1>2, <3>1, <3>2, <3>3 DEF Fine
    <2>5. ASSUME Inv
          PROVE  Inv'
      <3>1. \A q \in Process : Fine(proc[q], dirs, stages, saved, scene)
        BY <2>5 DEF Inv
      <3>2. Old(dirs, saved) \/ New(dirs, saved)
        BY <2>5 DEF Inv
      <3> QED BY <1>6, <1>10, <1>12, <2>3, <2>4, <2>5, <3>1, <3>2, BesideLemma
    <2> QED BY <2>3, <2>5
  <1>14. CASE loc.migration.phase # "none"
    <2>1. PICK at \in {"prepare", "cleanup"} :
            /\ y = [x EXCEPT !.at = at]
            /\ at = IF loc.migration.phase = "copy" THEN "prepare" ELSE "cleanup"
      BY <1>9, <1>11, <1>14
    <2>2. y \in Task /\ y.at = at /\ y.boot = b /\ y.loc = loc
      BY <1>5, <2>1 DEF Task, Moving
    <2>3. Sound(y, used.moves)
      BY <1>2, <1>3, <1>14, <2>2 DEF Sound, Settled
    <2>4. TypeInv' /\ UNCHANGED <<saved, wish, scene>>
      BY <1>1, <1>6, <1>8, <1>10, <2>2, <2>3, GoLemma
    <2>5. ASSUME Inv
          PROVE  Fine(y, dirs, stages, saved, scene)
      <3>1. Fine(proc[p], dirs, stages, saved, scene)
        BY <2>5 DEF Inv
      <3>2. CASE b = "legacy" /\ Old(dirs, saved)
        <4>1. loc = Fresh
          BY <1>2, <3>2 DEF Recorded, Old
        <4> QED BY <1>14, <4>1, FreshLemma
      <3>3. CASE b = "default" /\ New(dirs, saved)
        <4>1. loc = Record(dirs)
          BY <1>2, <3>3 DEF Recorded, Record
        <4>2. Emptied(y, dirs) /\ Copied(y, dirs, stages)
          BY <2>2 DEF Emptied, Copied
        <4>3. (Copying(y) => loc.migration.phase = "copy") /\ (Cleaning(y) => loc.migration.phase = "cleanup")
          BY <1>11, <1>14, <2>1, <2>2 DEF Copying, Cleaning
        <4> QED BY <2>2, <3>3, <4>1, <4>2, <4>3 DEF Fine, Moves, Moving, Settled
      <3> QED BY <1>1, <1>2, <3>1, <3>2, <3>3 DEF Fine
    <2>6. ASSUME Inv
          PROVE  Inv'
      <3>1. \A q \in Process : Fine(proc[q], dirs, stages, saved, scene)
        BY <2>6 DEF Inv
      <3>2. Old(dirs, saved) \/ New(dirs, saved)
        BY <2>6 DEF Inv
      <3> QED BY <1>6, <1>10, <1>12, <2>4, <2>5, <2>6, <3>1, <3>2, BesideLemma
    <2> QED BY <2>4, <2>6
  <1> QED BY <1>13, <1>14

\* Making sure that a directory is there.
LEMMA MadeTyped ==
  ASSUME TypeInv, NEW a \in Place
  PROVE  LET E == [dirs EXCEPT ![a] = Made(dirs[a])] IN
         Typed(E, used.moves) /\ E[a] = Made(dirs[a]) /\ \A d \in Place \ {a} : E[d] = dirs[d]
  <1>1. Typed(dirs, used.moves) /\ dirs[a] \in Directory /\ used.moves \in Nat
    BY DEF TypeInv, Typed, Bounded
  <1>2. PICK c : c = Made(dirs[a])
    OBVIOUS
  <1>3. c \in Directory /\ c.location = dirs[a].location
    BY <1>1, <1>2, MadeLemma
  <1>4. c.location # None => a \in Bootstrap /\ c.location.migration.id <= used.moves
    BY <1>1, <1>3 DEF Typed
  <1>5. /\ Typed([dirs EXCEPT ![a] = c], used.moves) /\ [dirs EXCEPT ![a] = c][a] = c
        /\ \A d \in Place \ {a} : [dirs EXCEPT ![a] = c][d] = dirs[d]
    BY <1>1, <1>3, <1>4, ReplaceLemma
  <1> QED BY <1>2, <1>5

\* Nothing else changes.
LEMMA MadeAlike ==
  ASSUME TypeInv, NEW a \in Place, a = "legacy" => dirs["legacy"].there,
         NEW E, E = [dirs EXCEPT ![a] = Made(@)]
  PROVE  Typed(E, used.moves) /\ Alike(dirs, E) /\ (a # "default" => E["default"] = dirs["default"])
  <1>1. Typed(dirs, used.moves) /\ dirs[a] \in Directory /\ used.moves \in Nat /\ dirs["legacy"] \in Directory
    BY PlacesLemma DEF TypeInv, Typed, Bounded
  <1>2. /\ Made(dirs[a]) \in Directory /\ Made(dirs[a]).location = dirs[a].location /\ Made(dirs[a]).there
        /\ Made(dirs[a]).data = dirs[a].data /\ Made(dirs[a]).marker = dirs[a].marker
    BY <1>1, MadeLemma
  <1>3. E = [dirs EXCEPT ![a] = Made(dirs[a])]
    OBVIOUS
  <1>4. Typed(E, used.moves) /\ E[a] = Made(dirs[a]) /\ \A d \in Place \ {a} : E[d] = dirs[d]
    <2>1. /\ Typed([dirs EXCEPT ![a] = Made(dirs[a])], used.moves)
          /\ [dirs EXCEPT ![a] = Made(dirs[a])][a] = Made(dirs[a])
      BY MadeTyped
    <2>2. \A d \in Place \ {a} : [dirs EXCEPT ![a] = Made(dirs[a])][d] = dirs[d]
      BY MadeTyped
    <2> QED BY <1>3, <2>1, <2>2
  <1>5. E["legacy"] = dirs["legacy"]
    <2>1. CASE a = "legacy"
      BY <1>1, <1>4, <2>1, MadeSame
    <2>2. CASE a # "legacy"
      BY <1>4, <2>2, PlacesLemma
    <2> QED BY <2>1, <2>2
  <1>6. a # "default" => E["default"] = dirs["default"]
    BY <1>4, PlacesLemma
  <1>7. Alike(dirs, E)
    <2>1. dirs["default"].there => E["default"].there
      BY <1>2, <1>4, <1>6
    <2> QED BY <1>2, <1>4, <1>5, <2>1 DEF Alike
  <1> QED BY <1>4, <1>6, <1>7

\* The process that gets the lock runs where the next start would; the other one ends.
LEMMA LockStep ==
  ASSUME TypeInv, NEW p \in Process, Lock(p)
  PROVE  TypeInv' /\ (Inv => Inv')
  <1>1. /\ proc[p] \in Task /\ Sound(proc[p], used.moves) /\ proc[p].at = "enter"
        /\ proc[p].active \in Place /\ Typed(dirs, used.moves) /\ Staged(stages) /\ used.moves \in Nat
    BY DEF TypeInv, Lock, At, Sound, Settled, Bounded
  <1>2. PICK a \in Place : a = proc[p].active
    BY <1>1
  <1>3. dirs' = [dirs EXCEPT ![a] = Made(@)] /\ stages' = stages /\ Steady
    BY <1>2 DEF Lock
  <1>4. PICK x : x \in {Off, To(p, "running")} /\ Become(p, x)
    BY DEF Lock
  <1>5. /\ x \in Task /\ Sound(x, used.moves)
        /\ x.at = "off" \/ (x.at = "running" /\ x.boot = proc[p].boot /\ x.active = a)
    <2>1. Off \in Task /\ Off.at = "off" /\ Sound(Off, used.moves)
      <3>1. PICK y : y = [Off EXCEPT !.at = "off"]
        OBVIOUS
      <3>2. Sound(y, used.moves) /\ y = Off /\ Off \in Task /\ Off.at = "off"
        BY <1>1, <3>1, OffLemma
      <3> QED BY <3>2
    <2>2. PICK y : y = To(p, "running")
      OBVIOUS
    <2>3. y \in Task /\ y.at = "running" /\ y.boot = proc[p].boot /\ y.active = a /\ y.loc = proc[p].loc
      BY <1>1, <1>2, <2>2, AtLemma DEF To, Settled
    <2>4. Sound(y, used.moves)
      BY <1>1, <2>3 DEF Sound, Moving, Settled
    <2>5. CASE x = Off
      BY <2>1, <2>5
    <2>6. CASE x = To(p, "running")
      BY <2>2, <2>3, <2>4, <2>6
    <2> QED BY <1>4, <2>5, <2>6
  <1>6. Typed(dirs', used.moves)
    BY <1>3, MadeTyped
  <1>7. TypeInv' /\ UNCHANGED <<saved, wish, scene>>
    BY <1>1, <1>3, <1>4, <1>5, <1>6, GoLemma
  <1>8. ASSUME Inv
        PROVE  Inv'
    <2>1. Works(proc[p], dirs, saved, scene) /\ p \in scene.processes
      BY <1>1, <1>8 DEF Inv, Fine, Settled, At
    <2>2. a # "legacy" \/ dirs["legacy"].there
      BY <1>2, <2>1, PlacesLemma DEF Works, Old
    <2>3. Alike(dirs, dirs') /\ (a # "default" => dirs'["default"] = dirs["default"])
      BY <1>3, <2>2, MadeAlike
    <2>4. dirs'[a].data = dirs[a].data /\ dirs'["legacy"] = dirs["legacy"]
      BY <2>3 DEF Alike
    <2>5. CASE New(dirs, saved)
      <3>1. New(dirs', saved) /\ Record(dirs') = Record(dirs)
        BY <2>3, <2>5, AlikeNew
      <3>2. \A d \in Movable : dirs'[d].data = dirs[d].data
        BY <2>3, PlacesLemma DEF Alike
      <3>3. ~Old(dirs, saved)
        BY <1>8, <2>5, OldNew
      <3>4. Fine(x, dirs', stages', saved, scene)
        BY <1>2, <1>5, <2>1, <2>4, <3>1, <3>3 DEF Fine, Works, Moving, Settled
      <3>5. ASSUME scene.moves = 0, NEW q \in Process
            PROVE  Fine(proc[q], dirs', stages', saved, scene)
        <4>1. proc[q].at \notin Moving
          BY <3>5, MovingLemma
        <4>2. Fine(proc[q], dirs, stages, saved, scene)
          BY <1>8 DEF Inv
        <4> QED BY <1>3, <2>5, <3>1, <3>2, <4>1, <4>2, FineLemma
      <3> QED BY <1>4, <1>7, <1>8, <2>1, <3>1, <3>4, <3>5, BesideLemma
    <2>6. CASE Old(dirs, saved)
      <3>1. ~New(dirs, saved)
        BY <1>8, <2>6, OldNew
      <3>2. proc[p].boot = "legacy" /\ scene.moves = 0 /\ a = "legacy"
        BY <1>2, <2>1, <3>1 DEF Works
      <3>3. Old(dirs', saved)
        BY <2>3, <2>4, <2>6, <3>2 DEF Old
      <3>4. Fine(x, dirs', stages', saved, scene)
        BY <1>5, <3>2, <3>3 DEF Fine, Works, Old, Moving, Settled
      <3> QED BY <1>4, <1>7, <1>8, <2>1, <3>1, <3>3, <3>4, BesideLemma
    <2> QED BY <1>8, <2>5, <2>6 DEF Inv
  <1> QED BY <1>7, <1>8

\* A file is saved in the directory every process and the next start work with.
LEMMA SaveStep ==
  ASSUME TypeInv, NEW p \in Process, NEW f \in File, Save(p, f)
  PROVE  TypeInv' /\ (Inv => Inv')
  <1>1. /\ proc[p] \in Task /\ Sound(proc[p], used.moves) /\ proc[p].at = "running"
        /\ proc[p].active \in Place /\ Typed(dirs, used.moves) /\ Staged(stages) /\ used.moves \in Nat
        /\ saved \in Files /\ used \in [saves : Nat, moves : Nat, faults : Nat, crashes : Nat]
        /\ proc \in [Process -> Task] /\ wish \in Place
    BY DEF TypeInv, Save, At, Sound, Settled, Bounded
  <1>2. PICK a \in Place : a = proc[p].active
    BY <1>1
  <1>3. PICK n \in Nat : n = saved[f] + 1
    BY <1>1 DEF Files
  <1>4. n # 0
    BY <1>1, <1>3 DEF Files
  <1>5. saved' = [saved EXCEPT ![f] = n] /\ UNCHANGED <<stages, proc, wish, scene>>
        /\ used' = [used EXCEPT !.saves = @ + 1] /\ scene.saves # 0
        /\ dirs' = [dirs EXCEPT ![a] = [Made(@) EXCEPT !.data[f] = n]]
    <2>1. scene.saves \in Nat /\ used.saves \in Nat /\ used.saves < scene.saves
      BY <1>1, DataDirectoryAssumption DEF TypeInv, Save
    <2> QED BY <1>2, <1>3, <2>1 DEF Save
  <1>6. PICK c : c = [Made(dirs[a]) EXCEPT !.data[f] = n]
    OBVIOUS
  <1>7. /\ c \in Directory /\ c.there /\ c.location = dirs[a].location /\ c.marker = dirs[a].marker
        /\ c.data = [dirs[a].data EXCEPT ![f] = n]
    <2>1. PICK m : m = Made(dirs[a])
      OBVIOUS
    <2>2. /\ m \in Directory /\ m.there /\ m.data = dirs[a].data /\ m.marker = dirs[a].marker
          /\ m.location = dirs[a].location
      BY <1>1, <2>1, MadeLemma DEF Typed
    <2>3. PICK k : k = [m.data EXCEPT ![f] = n]
      OBVIOUS
    <2>4. k \in Files
      BY <2>2, <2>3 DEF Directory, Files
    <2>5. c = [m EXCEPT !.data = k]
      BY <1>6, <2>1, <2>3
    <2> QED BY <2>2, <2>3, <2>4, <2>5 DEF Directory
  <1>8. dirs' = [dirs EXCEPT ![a] = c]
    BY <1>5, <1>6
  <1>9. Typed(dirs', used.moves) /\ dirs'[a] = c /\ \A d \in Place \ {a} : dirs'[d] = dirs[d]
    <2>1. dirs[a].location # None => a \in Bootstrap /\ dirs[a].location.migration.id <= used.moves
      BY <1>1 DEF Typed
    <2>2. c.location # None => a \in Bootstrap /\ c.location.migration.id <= used.moves
      BY <1>7, <2>1
    <2>3. c \in Directory
      BY <1>7
    <2>4. /\ Typed([dirs EXCEPT ![a] = c], used.moves) /\ [dirs EXCEPT ![a] = c][a] = c
          /\ \A d \in Place \ {a} : [dirs EXCEPT ![a] = c][d] = dirs[d]
      BY <1>1, <2>2, <2>3, ReplaceLemma
    <2> QED BY <1>8, <2>4
  <1>10. used' \in [saves : Nat, moves : Nat, faults : Nat, crashes : Nat] /\ used'.moves = used.moves
    <2>1. used.saves + 1 \in Nat
      BY <1>1
    <2> QED BY <1>1, <1>5, <2>1
  <1>11. Bounded(used') /\ saved' \in Files
    BY <1>1, <1>3, <1>5, <1>10 DEF TypeInv, Bounded, Files
  <1>12. PICK x : x = proc[p]
    OBVIOUS
  <1>13. Become(p, x)
    BY <1>1, <1>5, <1>12 DEF Become
  <1>14. TypeInv'
    <2>1. used.moves <= used'.moves /\ Sound(x, used'.moves) /\ Typed(dirs', used'.moves)
      BY <1>1, <1>9, <1>10, <1>12
    <2>2. Staged(stages') /\ wish' \in Place /\ scene' = scene /\ x \in Task
      BY <1>1, <1>5, <1>12
    <2> QED BY <1>11, <1>13, <2>1, <2>2, TypeLemma
  <1>15. ASSUME Inv
         PROVE  Inv'
    <2>1. Works(x, dirs, saved, scene) /\ p \in scene.processes
      BY <1>1, <1>12, <1>15 DEF Inv, Fine, Settled, At
    <2>2. dirs'[a].data = saved'
      BY <1>2, <1>5, <1>7, <1>9, <1>12, <2>1 DEF Works
    <2>3. CASE New(dirs, saved)
      <3>1. ~Old(dirs, saved)
        BY <1>15, <2>3, OldNew
      <3>2. a = ActiveOf(Record(dirs)) /\ a \in Movable
        BY <1>2, <1>5, <1>12, <2>1, <3>1 DEF Works
      <3>3. dirs'["legacy"] = Missing
        BY <1>9, <2>3, <3>2, PlacesLemma DEF New
      <3>4. dirs'["default"].there /\ dirs'["default"].location = dirs["default"].location
        BY <1>7, <1>9, <2>3, PlacesLemma DEF New
      <3>5. Record(dirs') = Record(dirs)
        BY <3>4 DEF Record
      <3>6. PICK m : m = Record(dirs).migration
        OBVIOUS
      <3>7. ASSUME m.phase = "copy", dirs'[m.target].marker = m.id
            PROVE  Within(dirs'[m.target], dirs'[m.source])
        <4>1. m.source = a /\ m.target # a /\ m.target \in Place
          BY <2>3, <3>2, <3>6, <3>7, PlacesLemma DEF New, Consistent
        <4>2. dirs'[m.target] = dirs[m.target] /\ dirs'[m.source] = c
          BY <1>9, <4>1
        <4>3. Within(dirs[m.target], dirs[m.source])
          BY <2>3, <3>6, <3>7, <4>2 DEF New
        <4>4. \A g \in File : dirs[a].data[g] # 0 => c.data[g] # 0
          <5>1. dirs[a].data \in [File -> Nat]
            BY <1>1 DEF Typed, Directory, Files
          <5> QED BY <1>4, <1>7, <5>1
        <4> QED BY <4>1, <4>2, <4>3, <4>4 DEF Within
      <3>8. New(dirs', saved')
        BY <2>2, <2>3, <3>2, <3>3, <3>4, <3>5, <3>6, <3>7 DEF New
      <3>9. ASSUME NEW q \in Process, proc[q].at \notin Moving
            PROVE  Fine(proc[q], dirs', stages', saved', scene)
        <4>1. Fine(proc[q], dirs, stages, saved, scene)
          BY <1>15 DEF Inv
        <4>2. proc[q].at \in Settled => proc[q].active = a /\ proc[q].boot = "default"
          BY <1>5, <3>1, <3>2, <4>1 DEF Fine, Works
        <4>3. proc[q].at \in Settled => Works(proc[q], dirs', saved', scene)
          BY <2>2, <3>2, <3>5, <3>8, <4>2 DEF Works
        <4> QED BY <3>1, <3>8, <3>9, <4>1, <4>3 DEF Fine
      <3>10. scene.moves = 0 => \A q \in Process : proc[q].at \notin Moving
        BY MovingLemma
      <3>11. x.at \notin Moving
        BY <1>1, <1>12 DEF Moving
      <3> QED BY <1>5, <1>12, <1>13, <1>14, <1>15, <2>1, <3>8, <3>9, <3>10, <3>11, BesideLemma
             DEF Inv
    <2>4. CASE Old(dirs, saved)
      <3>1. ~New(dirs, saved)
        BY <1>15, <2>4, OldNew
      <3>2. x.boot = "legacy" /\ scene.moves = 0 /\ a = "legacy"
        BY <1>2, <1>12, <2>1, <3>1 DEF Works
      <3>3. dirs'["default"] = dirs["default"] /\ dirs'["legacy"] = c
        BY <1>9, <3>2, PlacesLemma
      <3>4. Old(dirs', saved')
        BY <1>7, <2>2, <2>4, <3>2, <3>3 DEF Old
      <3>5. Fine(x, dirs', stages', saved', scene)
        BY <1>1, <1>2, <1>12, <2>2, <3>2, <3>4 DEF Fine, Works, Moving, Settled
      <3> QED BY <1>5, <1>13, <1>14, <1>15, <2>1, <3>1, <3>4, <3>5, BesideLemma
    <2> QED BY <1>15, <2>3, <2>4 DEF Inv
  <1> QED BY <1>14, <1>15


-----------------------------------------------------------------------------
(* A start that finds a move goes on with it.                              *)

\* A directory gets other files, and no other location file.
LEMMA RefillLemma ==
  ASSUME TypeInv, NEW d \in Place, NEW c \in Directory, c.location \in {None, dirs[d].location}
  PROVE  LET E == [dirs EXCEPT ![d] = c] IN
         Typed(E, used.moves) /\ E[d] = c /\ \A e \in Place \ {d} : E[e] = dirs[e]
  <1>1. Typed(dirs, used.moves) /\ used.moves \in Nat
    BY DEF TypeInv, Bounded
  <1>2. c.location # None => d \in Bootstrap /\ c.location.migration.id <= used.moves
    BY <1>1 DEF Typed
  <1>3. /\ Typed([dirs EXCEPT ![d] = c], used.moves) /\ [dirs EXCEPT ![d] = c][d] = c
        /\ \A e \in Place \ {d} : [dirs EXCEPT ![d] = c][e] = dirs[e]
    BY <1>1, <1>2, ReplaceLemma
  <1> QED BY <1>3

\* A verified copy that has only files of the source is the source.
LEMMA CoversLemma ==
  ASSUME NEW d \in Directory, NEW e \in Directory, Covers(d, e), Within(e, d)
  PROVE  e.data = d.data
  <1>1. d.data \in [File -> Nat] /\ e.data \in [File -> Nat]
    BY DEF Directory, Files
  <1>2. \A f \in File : e.data[f] = d.data[f]
    BY DEF Covers, Within
  <1> QED BY <1>1, <1>2

\* A step of a process that moves files.
LEMMA MoveStep ==
  ASSUME TypeInv, NEW p \in Process, proc[p].at \in Moving, NEW x \in Task, Sound(x, used.moves),
         Become(p, x), Steady \/ \E s : Fault(s), Typed(dirs', used.moves), Staged(stages'),
         Inv => New(dirs', saved) /\ Fine(x, dirs', stages', saved, scene)
  PROVE  TypeInv' /\ (Inv => Inv')
  <1>1. TypeInv' /\ UNCHANGED <<saved, wish, scene>>
    BY GoLemma
  <1> QED BY <1>1, KeepLemma

\* It goes on to another place, x, and has changed directories: the record is
\* what it was.
LEMMA GoOnFine ==
  ASSUME Inv, NEW p \in Process, proc[p].at \in Moving, NEW x, NEW E, NEW T,
         x.boot = proc[p].boot, x.loc = proc[p].loc, x.at \in Moving,
         New(E, saved), Record(E) = Record(dirs),
         Copying(x) => Move(p).phase = "copy", Cleaning(x) => Move(p).phase = "cleanup",
         Emptied(x, E), Copied(x, E, T)
  PROVE  Fine(x, E, T, saved, scene)
  <1>1. proc[p].boot = "default" /\ proc[p].loc = Record(dirs) /\ TypeInv
    BY MovesLemma
  <1>2. Move(p) = x.loc.migration
    BY DEF Move
  <1>3. x.at \notin {"rename", "read"} \cup Settled
    BY DEF Moving, Settled
  <1> QED BY <1>1, <1>2, <1>3 DEF Fine, Moves

\* It sets about emptying a directory.
LEMMA ClearStep ==
  ASSUME TypeInv, NEW p \in Process, proc[p].at \in Moving, NEW d \in Place,
         NEW then \in {"stage", "move", "unmark", "forget", "recreate"},
         Become(p, Clearing(proc[p], d, then)), dirs' = dirs, Staged(stages'), Steady,
         d = IF then = "unmark" THEN Move(p).source ELSE Move(p).target,
         Inv => /\ Move(p).phase = IF then = "unmark" THEN "cleanup" ELSE "copy"
                /\ then = "move" => Within(stages'[Move(p).id], Source(p))
  PROVE  TypeInv' /\ (Inv => Inv')
  <1>1. /\ proc[p] \in Task /\ Sound(proc[p], used.moves) /\ Typed(dirs, used.moves)
        /\ proc[p].loc.migration \in Migration /\ proc[p].boot \in Bootstrap
        /\ Move(p) = proc[p].loc.migration /\ Source(p) = dirs[Move(p).source]
    BY MovingLemma
  <1>2. PICK x : x = Clearing(proc[p], d, then)
    OBVIOUS
  <1>3. /\ x \in Task /\ x.at = "clear" /\ x.on = d /\ x.then = then
        /\ x.left = Entries(dirs[d]) \ (IF d = proc[p].boot THEN {"location"} ELSE {})
        /\ x.boot = proc[p].boot /\ x.loc = proc[p].loc /\ Sound(x, used.moves)
    BY <1>1, <1>2, ClearingLemma
  <1>4. ASSUME Inv
        PROVE  New(dirs, saved) /\ Fine(x, dirs, stages', saved, scene)
    <2>1. New(dirs, saved) /\ proc[p].boot = "default"
      BY <1>4, MovesLemma
    <2>2. dirs[d] \in Directory
      BY <1>1 DEF Typed
    <2>3. \A f \in File : dirs[d].data[f] # 0 => f \in x.left
      BY <1>3, <2>2, EntriesLemma, DataDirectoryAssumption
    <2>4. Emptied(x, dirs)
      BY <1>1, <1>3, <2>1, <2>3 DEF Emptied
    <2>5. Copied(x, dirs, stages')
      BY <1>1, <1>3, <1>4 DEF Copied
    <2>6. (Copying(x) => Move(p).phase = "copy") /\ (Cleaning(x) => Move(p).phase = "cleanup")
      BY <1>3, <1>4 DEF Copying, Cleaning
    <2>7. x.at \in Moving
      BY <1>3 DEF Moving
    <2> QED BY <1>3, <1>4, <2>1, <2>4, <2>5, <2>6, <2>7, GoOnFine
  <1>5. Become(p, x)
    BY <1>2
  <1> QED BY <1>1, <1>3, <1>4, <1>5, MoveStep

\* The copy in its place is compared with the source before the switch.
LEMMA RecheckStep ==
  ASSUME TypeInv, NEW p \in Process, Recheck(p)
  PROVE  TypeInv' /\ (Inv => Inv')
  <1>1. proc[p].at = "recheck" /\ proc[p].at \in Moving /\ UNCHANGED disk /\ Steady
    BY DEF Recheck, At, Moving
  <1>2. /\ Source(p) \in Directory /\ Target(p) \in Directory /\ Source(p) = dirs[Move(p).source]
        /\ Target(p) = dirs[Move(p).target] /\ Move(p) = proc[p].loc.migration
    BY <1>1, MovingLemma
  <1>3. CASE Source(p) # Missing /\ Covers(Source(p), Target(p))
    <2>1. Become(p, To(p, "switch"))
      BY <1>3 DEF Recheck
    <2>2. ASSUME Inv
          PROVE  /\ Move(p).phase = "copy"
                 /\ Copied([at |-> "switch", loc |-> proc[p].loc], dirs, stages)
      <3>1. Moves(proc[p], dirs, stages, saved) /\ (Copying(proc[p]) => Move(p).phase = "copy")
        BY <1>1, <2>2, MovesLemma
      <3>2. Move(p).phase = "copy"
        BY <1>1, <3>1 DEF Copying
      <3>3. Within(Target(p), Source(p))
        BY <1>1, <1>2, <3>1 DEF Moves, Copied
      <3>4. Target(p).data = Source(p).data
        BY <1>2, <1>3, <3>3, CoversLemma
      <3> QED BY <1>2, <3>2, <3>4 DEF Copied
    <2>3. ~Cleaning([at |-> "switch"]) /\ "switch" \in Moving \ {"clear", "copy"}
      BY DEF Cleaning, Moving
    <2> QED BY <1>1, <2>1, <2>2, <2>3, StayStep
  <1>4. CASE ~(Source(p) # Missing /\ Covers(Source(p), Target(p)))
    <2>1. Become(p, Failed(proc[p]))
      BY <1>4 DEF Recheck
    <2> QED BY <1>1, <2>1, FailStep
  <1> QED BY <1>3, <1>4

\* A target that carries the marker has only files of the source: covering it, it is complete.
LEMMA PrepareStep ==
  ASSUME TypeInv, NEW p \in Process, PrepareTarget(p)
  PROVE  TypeInv' /\ (Inv => Inv')
  <1>1. /\ proc[p].at = "prepare" /\ proc[p].at \in Moving /\ UNCHANGED disk
        /\ dirs' = dirs /\ stages' = stages /\ Staged(stages)
    BY DEF PrepareTarget, At, Moving, TypeInv, disk
  <1>2. /\ Source(p) \in Directory /\ Target(p) \in Directory /\ Source(p) = dirs[Move(p).source]
        /\ Target(p) = dirs[Move(p).target] /\ Move(p) = proc[p].loc.migration /\ Move(p).target \in Place
    BY <1>1, MovingLemma
  <1>3. ASSUME Inv
        PROVE  Move(p).phase = "copy" /\ (Target(p).marker = Move(p).id => Within(Target(p), Source(p)))
    <2>1. Copying(proc[p])
      BY <1>1 DEF Copying
    <2> QED BY <1>1, <1>3, <2>1, MovesLemma
  <1>4. CASE Become(p, Failed(proc[p])) /\ (Steady \/ \E s : Fault(s))
    BY <1>1, <1>4, FailStep
  <1>5. CASE Become(p, To(p, "switch")) /\ Steady /\ Target(p).marker = Move(p).id /\ Covers(Source(p), Target(p))
    <2>1. ASSUME Inv
          PROVE  Copied([at |-> "switch", loc |-> proc[p].loc], dirs, stages)
      <3>1. Target(p).data = Source(p).data
        BY <1>2, <1>3, <1>5, <2>1, CoversLemma
      <3> QED BY <1>2, <3>1 DEF Copied
    <2>2. ~Cleaning([at |-> "switch"]) /\ "switch" \in Moving \ {"clear", "copy"}
      BY DEF Cleaning, Moving
    <2> QED BY <1>1, <1>3, <1>5, <2>1, <2>2, StayStep
  <1>6. CASE Become(p, To(p, "stage")) /\ Steady
    <2>1. ~Cleaning([at |-> "stage"]) /\ "stage" \in Moving \ {"clear", "copy"}
      BY DEF Cleaning, Moving
    <2>2. Copied([at |-> "stage", loc |-> proc[p].loc], dirs, stages)
      BY DEF Copied
    <2> QED BY <1>1, <1>3, <1>6, <2>1, <2>2, StayStep
  <1>7. CASE Become(p, Clearing(proc[p], Move(p).target, "stage")) /\ Steady
    BY <1>1, <1>2, <1>3, <1>7, ClearStep
  <1>8. CASE Become(p, IF Source(p) = Missing THEN Failed(proc[p])
                     ELSE IF Target(p).marker = Move(p).id
                       THEN To(p, IF Covers(Source(p), Target(p)) THEN "switch" ELSE "stage")
                     ELSE IF Restores(p) THEN Clearing(proc[p], Move(p).target, "stage")
                     ELSE IF ~Vacant(Target(p), FALSE) THEN Failed(proc[p])
                     ELSE To(p, "stage")) /\ Steady
    BY <1>4, <1>5, <1>6, <1>7, <1>8
  <1>9. CASE Become(p, Failed(proc[p])) /\ Fault("prepare")
    BY <1>4, <1>9
  <1> QED BY <1>8, <1>9 DEF PrepareTarget

\* After the switch the source is what is cleared.
LEMMA CleanupStep ==
  ASSUME TypeInv, NEW p \in Process, Cleanup(p)
  PROVE  TypeInv' /\ (Inv => Inv')
  <1>1. /\ proc[p].at = "cleanup" /\ proc[p].at \in Moving /\ dirs' = dirs /\ stages' = stages
        /\ Become(p, Clearing(proc[p], Move(p).source, "unmark")) /\ Steady
    BY DEF Cleanup, At, Moving, disk
  <1>2. Move(p).source \in Place /\ Staged(stages)
    BY <1>1, MovingLemma
  <1>3. Inv => Move(p).phase = "cleanup"
    <2>1. Cleaning(proc[p])
      BY <1>1 DEF Cleaning
    <2> QED BY <1>1, <2>1, MovesLemma
  <1> QED BY <1>1, <1>2, <1>3, ClearStep

\* The target changes while files are copied, ...
Fits(p, c) ==
  /\ Move(p).target = "default" => c.there /\ c.location = Target(p).location
  /\ c.marker = Move(p).id => Within(c, Source(p))

\* Any way that adds no file the source does not have, ...
LEMMA TargetLemma ==
  ASSUME Inv, NEW p \in Process, proc[p].at \in Moving, Move(p).phase = "copy", NEW c \in Directory,
         Fits(p, c)
  PROVE  LET E == [dirs EXCEPT ![Move(p).target] = c] IN
         /\ New(E, saved) /\ Record(E) = Record(dirs) /\ E[Move(p).target] = c
         /\ E[Move(p).source] = Source(p)
  <1>0. PICK E : E = [dirs EXCEPT ![Move(p).target] = c]
    OBVIOUS
  <1>1. /\ New(dirs, saved) /\ Move(p) = Record(dirs).migration
        /\ Move(p).source # Move(p).target /\ Move(p).target \in Movable
        /\ Move(p).source = ActiveOf(Record(dirs)) /\ TypeInv
    BY MovesLemma DEF Move
  <1>2. /\ Move(p).target \in Place /\ Move(p).source \in Place /\ Typed(dirs, used.moves)
        /\ Source(p) = dirs[Move(p).source] /\ Target(p) = dirs[Move(p).target]
    BY <1>1, MovingLemma
  <1>3. E[Move(p).target] = c /\ \A d \in Place \ {Move(p).target} : E[d] = dirs[d]
    BY <1>0, <1>2 DEF Typed
  <1>4. PICK o \in Movable : o = Move(p).target
    BY <1>1
  <1>5. o = "default" => E[o].there /\ E[o].location = dirs[o].location
    BY <1>2, <1>3, <1>4 DEF Fits
  <1>6. New(E, saved) /\ Record(E) = Record(dirs)
    <2>1. Changed(dirs, E, o)
      BY <1>1, <1>2, <1>3, <1>4, <1>5 DEF Changed, Fits
    <2>2. o # ActiveOf(Record(dirs)) /\ New(dirs, saved)
      BY <1>1, <1>4
    <2> QED BY <2>1, <2>2, Elsewhere
  <1> QED BY <1>0, <1>1, <1>2, <1>3, <1>6

\* ... and the source when it is cleaned up.
LEMMA SourceLemma ==
  ASSUME Inv, NEW p \in Process, proc[p].at \in Moving, Move(p).phase = "cleanup", NEW c \in Directory,
         Move(p).source = "default" => c.there /\ c.location = Source(p).location,
         NEW E, E = [dirs EXCEPT ![Move(p).source] = c]
  PROVE  New(E, saved) /\ Record(E) = Record(dirs)
  <1>1. /\ New(dirs, saved) /\ Move(p) = Record(dirs).migration
        /\ Move(p).source # Move(p).target /\ Move(p).source \in Movable
        /\ Move(p).target = ActiveOf(Record(dirs)) /\ TypeInv
    BY MovesLemma DEF Move
  <1>2. /\ Move(p).source \in Place /\ Typed(dirs, used.moves) /\ Source(p) = dirs[Move(p).source]
    BY <1>1, MovingLemma
  <1>3. E[Move(p).source] = c /\ \A d \in Place \ {Move(p).source} : E[d] = dirs[d]
    BY <1>2 DEF Typed
  <1>4. PICK o \in Movable : o = Move(p).source
    BY <1>1
  <1>5. o = "default" => E[o].there /\ E[o].location = dirs[o].location
    BY <1>2, <1>3, <1>4
  <1>6. Changed(dirs, E, o)
    BY <1>1, <1>3, <1>4, <1>5 DEF Changed
  <1>7. o # ActiveOf(Record(dirs)) /\ New(dirs, saved)
    BY <1>1, <1>4
  <1> QED BY <1>6, <1>7, Elsewhere

\* What is cleared is what the move leaves: nobody's only copy.
LEMMA ClearingPlace ==
  ASSUME TypeInv, NEW p \in Process, proc[p].at = "clear"
  PROVE  /\ proc[p].at \in Moving /\ proc[p].on \in Place /\ proc[p].then \in Moving \ {"clear", "copy"}
         /\ proc[p].then \in {"stage", "move", "unmark", "forget", "recreate"}
         /\ proc[p].left \subseteq File \cup {"marker", "location"} /\ dirs[proc[p].on] \in Directory
         /\ Inv => /\ proc[p].on = (IF proc[p].then = "unmark" THEN Move(p).source ELSE Move(p).target)
                   /\ Move(p).phase = (IF proc[p].then = "unmark" THEN "cleanup" ELSE "copy")
                   /\ proc[p].on = "default" => "location" \notin proc[p].left
                   /\ proc[p].then = "move" =>
                        /\ \A f \in File : Target(p).data[f] # 0 => f \in proc[p].left
                        /\ Within(Stage(p), Source(p))
  <1>1. proc[p].at \in Moving
    BY DEF Moving
  <1>2. proc[p] \in Task /\ Sound(proc[p], used.moves) /\ Typed(dirs, used.moves)
        /\ Move(p) = proc[p].loc.migration /\ Target(p) = dirs[Move(p).target]
        /\ Source(p) = dirs[Move(p).source] /\ Stage(p) = stages[Move(p).id]
    BY <1>1, MovingLemma
  <1>3. proc[p].on \in Place /\ proc[p].then # "off"
    BY <1>2 DEF Sound
  <1>4. proc[p].then \in {"stage", "move", "unmark", "forget", "recreate"}
        /\ proc[p].left \subseteq File \cup {"marker", "location"}
    BY <1>2, <1>3 DEF Task
  <1>5. dirs[proc[p].on] \in Directory /\ proc[p].then \in Moving \ {"clear", "copy"}
    BY <1>2, <1>3, <1>4 DEF Typed, Moving
  <1>6. ASSUME Inv
        PROVE  /\ proc[p].on = (IF proc[p].then = "unmark" THEN Move(p).source ELSE Move(p).target)
               /\ Move(p).phase = (IF proc[p].then = "unmark" THEN "cleanup" ELSE "copy")
               /\ proc[p].on = "default" => "location" \notin proc[p].left
               /\ proc[p].then = "move" =>
                    /\ \A f \in File : Target(p).data[f] # 0 => f \in proc[p].left
                    /\ Within(Stage(p), Source(p))
    <2>1. Moves(proc[p], dirs, stages, saved)
      BY <1>1, <1>6, MovesLemma
    <2>2. Emptied(proc[p], dirs) /\ Copied(proc[p], dirs, stages)
      BY <2>1 DEF Moves
    <2>3. Move(p).phase = (IF proc[p].then = "unmark" THEN "cleanup" ELSE "copy")
      BY <1>2, <2>1 DEF Moves, Copying, Cleaning
    <2> QED BY <1>2, <2>2, <2>3 DEF Emptied, Copied
  <1> QED BY <1>1, <1>3, <1>4, <1>5, <1>6

\* An entry is removed from the target of a copy or the source of a cleanup, never from the active directory.
LEMMA RemoveStep ==
  ASSUME TypeInv, NEW p \in Process, RemoveEntry(p)
  PROVE  TypeInv' /\ (Inv => Inv')
  <1>1. /\ proc[p].at = "clear" /\ proc[p].at \in Moving /\ proc[p] \in Task /\ Sound(proc[p], used.moves)
        /\ Staged(stages)
    BY ClearingPlace, MovingLemma DEF RemoveEntry, At
  <1>2. CASE Become(p, Failed(proc[p])) /\ UNCHANGED disk /\ (Steady \/ \E s : Fault(s))
    BY <1>1, <1>2, FailStep
  <1>3. ASSUME NEW e \in proc[p].left, dirs' = [dirs EXCEPT ![proc[p].on] = Without(@, e)], UNCHANGED stages,
               Become(p, [proc[p] EXCEPT !.left = @ \ {e}]), Steady
        PROVE  TypeInv' /\ (Inv => Inv')
    <2>1. PICK o \in Place : o = proc[p].on
      BY <1>1, ClearingPlace
    <2>2. PICK c : c = Without(dirs[o], e)
      OBVIOUS
    <2>3. dirs' = [dirs EXCEPT ![o] = c]
      BY <1>3, <2>1, <2>2
    <2>4. e \in File \cup {"marker", "location"} /\ dirs[o] \in Directory
      BY <1>1, <2>1, ClearingPlace
    <2>5. /\ c \in Directory /\ c.there = dirs[o].there
          /\ \A f \in File : c.data[f] = IF f = e THEN 0 ELSE dirs[o].data[f]
          /\ c.marker = IF e = "marker" THEN 0 ELSE dirs[o].marker
          /\ c.location = IF e = "location" THEN None ELSE dirs[o].location
      BY <2>2, <2>4, WithoutLemma
    <2>6. Typed(dirs', used.moves) /\ dirs'[o] = c
      BY <2>3, <2>5, RefillLemma
    <2>7. PICK x : x = [proc[p] EXCEPT !.left = @ \ {e}]
      OBVIOUS
    <2>8. /\ x \in Task /\ x.at = "clear" /\ x.boot = proc[p].boot /\ x.loc = proc[p].loc
          /\ x.on = o /\ x.then = proc[p].then /\ x.left = proc[p].left \ {e}
      BY <1>1, <2>1, <2>7 DEF Task
    <2>9. Sound(x, used.moves)
      BY <1>1, <2>1, <2>8 DEF Sound, Moving, Settled
    <2>10. ASSUME Inv
           PROVE  New(dirs', saved) /\ Fine(x, dirs', stages', saved, scene)
      <3>1. /\ o = (IF x.then = "unmark" THEN Move(p).source ELSE Move(p).target)
            /\ Move(p).phase = (IF x.then = "unmark" THEN "cleanup" ELSE "copy")
            /\ o = "default" => "location" \notin proc[p].left
            /\ x.then = "move" =>
                 /\ \A f \in File : Target(p).data[f] # 0 => f \in proc[p].left
                 /\ Within(Stage(p), Source(p))
        BY <1>1, <2>1, <2>8, <2>10, ClearingPlace
      <3>2. /\ Source(p) = dirs[Move(p).source] /\ Target(p) = dirs[Move(p).target] /\ Move(p).id # 0
            /\ Stage(p) = stages[Move(p).id] /\ Move(p) = x.loc.migration
        BY <1>1, <2>8, MovingLemma
      <3>3. New(dirs, saved) /\ (Move(p).phase = "copy" /\ Target(p).marker = Move(p).id => Within(Target(p), Source(p)))
        BY <1>1, <2>10, MovesLemma
      <3>4. o = "default" => c.there /\ c.location = dirs[o].location
        BY <1>3, <2>5, <3>1, <3>3 DEF New
      <3>5. CASE x.then = "unmark"
        <4>0. /\ dirs' = [dirs EXCEPT ![Move(p).source] = c] /\ Move(p).phase = "cleanup"
              /\ Move(p).source = "default" => c.there /\ c.location = Source(p).location
          BY <2>3, <3>1, <3>2, <3>4, <3>5
        <4>1. New(dirs', saved) /\ Record(dirs') = Record(dirs)
          BY <1>1, <2>5, <2>10, <4>0, SourceLemma
        <4>2. Emptied(x, dirs')
          BY <2>8, <3>1, <3>2, <3>5 DEF Emptied
        <4>3. Copied(x, dirs', stages') /\ ~Copying(x)
          BY <2>8, <3>5 DEF Copied, Copying
        <4> QED BY <1>1, <2>8, <2>10, <3>1, <3>5, <4>1, <4>2, <4>3, GoOnFine DEF Moving
      <3>6. CASE x.then # "unmark"
        <4>1. c.marker = Move(p).id => Within(c, Source(p))
          <5>1. o = Move(p).target /\ dirs[o] = Target(p) /\ Move(p).phase = "copy"
            BY <3>1, <3>2, <3>6
          <5>2. c.marker = Move(p).id => Target(p).marker = Move(p).id
            BY <2>5, <3>2, <5>1
          <5>3. \A f \in File : c.data[f] # 0 => Target(p).data[f] # 0
            BY <2>5, <5>1
          <5> QED BY <3>3, <5>1, <5>2, <5>3 DEF Within
        <4>6. /\ dirs' = [dirs EXCEPT ![Move(p).target] = c] /\ Move(p).phase = "copy"
              /\ Fits(p, c)
          BY <2>3, <3>1, <3>2, <3>4, <3>6, <4>1 DEF Fits
        <4>2. /\ New(dirs', saved) /\ Record(dirs') = Record(dirs)
              /\ dirs'[Move(p).target] = c /\ dirs'[Move(p).source] = Source(p)
          BY <1>1, <2>5, <2>10, <4>6, TargetLemma
        <4>3. Emptied(x, dirs')
          <5>1. o = Move(p).target /\ dirs[o] = Target(p)
            BY <3>1, <3>2, <3>6
          <5>2. x.then = "move" => \A f \in File : c.data[f] # 0 => f \in x.left
            BY <2>5, <2>8, <3>1, <5>1
          <5>3. x.on = (IF x.then = "unmark" THEN Move(p).source ELSE Move(p).target)
                /\ (x.on = "default" => "location" \notin x.left)
            BY <2>8, <3>1
          <5> QED BY <3>2, <4>2, <5>2, <5>3 DEF Emptied
        <4>4. Copied(x, dirs', stages')
          BY <1>3, <2>8, <3>1, <3>2, <4>2 DEF Copied
        <4>5. ~Cleaning(x)
          BY <2>8, <3>6 DEF Cleaning
        <4> QED BY <1>1, <2>8, <2>10, <3>1, <3>6, <4>2, <4>3, <4>4, <4>5, GoOnFine DEF Moving
      <3> QED BY <3>5, <3>6
    <2>11. Become(p, x) /\ Staged(stages')
      BY <1>1, <1>3, <2>7
    <2> QED BY <1>1, <1>3, <2>6, <2>8, <2>9, <2>10, <2>11, MoveStep
  <1> QED BY <1>2, <1>3 DEF RemoveEntry

\* What has been cleared is gone: the target has no file left that the stage does not bring.
LEMMA ClearedStep ==
  ASSUME TypeInv, NEW p \in Process, Cleared(p)
  PROVE  TypeInv' /\ (Inv => Inv')
  <1>1. /\ proc[p].at = "clear" /\ proc[p].at \in Moving /\ proc[p].left = {} /\ Steady
        /\ proc[p].then \in Moving \ {"clear", "copy"} /\ proc[p].boot \in Place
        /\ proc[p].then \in {"stage", "move", "unmark", "forget", "recreate"} /\ Staged(stages)
    BY ClearingPlace, MovingLemma DEF Cleared, At
  <1>2. /\ Source(p) = dirs[Move(p).source] /\ Target(p) = dirs[Move(p).target]
        /\ Stage(p) = stages[Move(p).id] /\ Move(p) = proc[p].loc.migration
    BY <1>1, MovingLemma
  <1>3. PICK o \in Place : o = proc[p].on
    BY <1>1, ClearingPlace
  <1>4. ASSUME Inv
        PROVE  /\ o = (IF proc[p].then = "unmark" THEN Move(p).source ELSE Move(p).target)
               /\ Move(p).phase = (IF proc[p].then = "unmark" THEN "cleanup" ELSE "copy")
               /\ proc[p].then = "move" =>
                    /\ \A f \in File : Target(p).data[f] = 0
                    /\ Within(Stage(p), Source(p))
               /\ proc[p].boot = "default"
    BY <1>1, <1>3, <1>4, ClearingPlace, MovesLemma
  <1>5. ASSUME Inv
        PROVE  /\ Copying([at |-> proc[p].then]) => Move(p).phase = "copy"
               /\ Cleaning([at |-> proc[p].then]) => Move(p).phase = "cleanup"
    BY <1>1, <1>4, <1>5 DEF Copying, Cleaning
  <1>6. CASE Become(p, To(p, proc[p].then)) /\ UNCHANGED disk
    <2>1. ASSUME Inv
          PROVE  Copied([at |-> proc[p].then, loc |-> proc[p].loc], dirs, stages)
      <3>1. proc[p].then = "move" => Within(Target(p), Source(p)) /\ Within(Stage(p), Source(p))
        BY <1>4, <2>1 DEF Within
      <3> QED BY <1>1, <1>2, <3>1 DEF Copied
    <2> QED BY <1>1, <1>5, <1>6, <2>1, StayStep
  <1>7. CASE /\ o # proc[p].boot /\ Become(p, To(p, proc[p].then))
             /\ dirs' = [dirs EXCEPT ![o] = Missing] /\ UNCHANGED stages
    <2>1. Typed(dirs', used.moves) /\ Staged(stages')
      BY <1>1, <1>7, MissingLemma, RefillLemma
    <2>2. PICK x : x = To(p, proc[p].then)
      OBVIOUS
    <2>3. /\ x \in Task /\ Sound(x, used.moves) /\ x.at = proc[p].then /\ x.boot = proc[p].boot
          /\ x.loc = proc[p].loc
      BY <1>1, <2>2, ToLemma
    <2>4. ASSUME Inv
          PROVE  New(dirs', saved) /\ Fine(x, dirs', stages', saved, scene)
      <3>1. o # "default"
        BY <1>4, <1>7, <2>4
      <3>2. Emptied(x, dirs')
        BY <1>1, <2>3 DEF Emptied
      <3>3. CASE proc[p].then = "unmark"
        <4>1. New(dirs', saved) /\ Record(dirs') = Record(dirs)
          BY <1>1, <1>4, <1>7, <2>4, <3>1, <3>3, MissingLemma, SourceLemma
        <4>2. Copied(x, dirs', stages') /\ ~Copying(x)
          BY <2>3, <3>3 DEF Copied, Copying
        <4> QED BY <1>1, <1>4, <2>3, <2>4, <3>2, <3>3, <4>1, <4>2, GoOnFine
      <3>4. CASE proc[p].then # "unmark"
        <4>1. Move(p).id # 0 /\ TypeInv
          BY <1>1, MovingLemma
        <4>2. /\ New(dirs', saved) /\ Record(dirs') = Record(dirs)
              /\ dirs'[Move(p).target] = Missing /\ dirs'[Move(p).source] = Source(p)
          <5>1. /\ dirs' = [dirs EXCEPT ![Move(p).target] = Missing] /\ Move(p).phase = "copy"
                /\ Move(p).target # "default"
            BY <1>4, <1>7, <2>4, <3>1, <3>4
          <5>2. Missing \in Directory /\ Missing.marker = 0 /\ Missing.location = None
            BY MissingLemma
          <5>3. Fits(p, Missing)
            BY <4>1, <5>1, <5>2 DEF Fits
          <5> QED BY <1>1, <2>4, <5>1, <5>2, <5>3, TargetLemma
        <4>3. Within(Missing, Source(p))
          BY MissingLemma DEF Within
        <4>4. Copied(x, dirs', stages')
          BY <1>1, <1>2, <1>4, <1>7, <2>3, <2>4, <4>2, <4>3 DEF Copied
        <4>5. ~Cleaning(x)
          BY <1>1, <2>3, <3>4 DEF Cleaning
        <4> QED BY <1>1, <1>4, <2>3, <2>4, <3>2, <3>4, <4>2, <4>4, <4>5, GoOnFine
      <3> QED BY <3>3, <3>4
    <2>5. Become(p, x)
      BY <1>7, <2>2
    <2> QED BY <1>1, <2>1, <2>3, <2>4, <2>5, MoveStep
  <1>8. CASE Become(p, Failed(proc[p])) /\ UNCHANGED disk
    BY <1>1, <1>8, FailStep
  <1> QED BY <1>3, <1>6, <1>7, <1>8 DEF Cleared

\* A process that copies has what it needs: nothing but files of the source.
LEMMA CopyingLemma ==
  ASSUME Inv, NEW p \in Process, proc[p].at \in Moving \ {"clear"}, Copying(proc[p])
  PROVE  /\ TypeInv /\ New(dirs, saved) /\ Move(p).phase = "copy" /\ proc[p].boot = "default"
         /\ proc[p].at \in {"copy", "place", "move", "activate"} => Within(Stage(p), Source(p))
         /\ proc[p].at = "move" => Within(Target(p), Source(p))
         /\ proc[p].at = "activate" => Move(p).target # "default"
  <1>1. proc[p].at \in Moving
    OBVIOUS
  <1>2. TypeInv /\ Moves(proc[p], dirs, stages, saved) /\ New(dirs, saved) /\ Move(p).phase = "copy"
        /\ proc[p].boot = "default"
    BY <1>1, MovesLemma
  <1>3. Source(p) = dirs[Move(p).source] /\ Target(p) = dirs[Move(p).target]
        /\ Stage(p) = stages[Move(p).id] /\ Move(p) = proc[p].loc.migration
    BY <1>1, <1>2, MovingLemma
  <1>4. Copied(proc[p], dirs, stages)
    BY <1>2 DEF Moves
  <1> QED BY <1>2, <1>3, <1>4 DEF Copied

\* It changes its stage and goes on.
LEMMA StageStep ==
  ASSUME TypeInv, NEW p \in Process, proc[p].at \in Moving \ {"clear"}, Copying(proc[p]),
         NEW x \in Task, Sound(x, used.moves), x.boot = proc[p].boot, x.loc = proc[p].loc,
         x.at \in {"copy", "place", "recheck"}, Become(p, x), Steady,
         NEW c \in Directory, c.location = None,
         dirs' = dirs, stages' = [stages EXCEPT ![Move(p).id] = c],
         Inv => /\ x.at # "recheck" => Within(c, Source(p))
                /\ x.at = "recheck" => Within(Target(p), Source(p))
  PROVE  TypeInv' /\ (Inv => Inv')
  <1>1. /\ Typed(dirs, used.moves) /\ Staged(stages) /\ Move(p).id \in Id /\ Move(p) = x.loc.migration
        /\ Source(p) = dirs[Move(p).source] /\ Target(p) = dirs[Move(p).target]
    BY MovingLemma
  <1>2. Staged(stages') /\ stages'[Move(p).id] = c
    <2>1. /\ Staged([stages EXCEPT ![Move(p).id] = c]) /\ [stages EXCEPT ![Move(p).id] = c][Move(p).id] = c
      <3>1. Staged(stages) /\ Move(p).id \in Id /\ c \in Directory /\ c.location = None
        BY <1>1
      <3> QED BY <3>1 DEF Staged
    <2> QED BY <2>1
  <1>3. ASSUME Inv
        PROVE  New(dirs', saved) /\ Fine(x, dirs', stages', saved, scene)
    <2>1. New(dirs, saved) /\ Move(p).phase = "copy"
      BY <1>3, CopyingLemma
    <2>2. Emptied(x, dirs) /\ ~Cleaning(x) /\ x.at \in Moving
      BY DEF Emptied, Cleaning, Moving
    <2>3. Copied(x, dirs, stages')
      BY <1>1, <1>2, <1>3 DEF Copied
    <2> QED BY <1>3, <2>1, <2>2, <2>3, GoOnFine
  <1> QED BY <1>1, <1>2, <1>3, MoveStep

\* The stage is new and empty.
LEMMA MakeStageStep ==
  ASSUME TypeInv, NEW p \in Process, MakeStage(p)
  PROVE  TypeInv' /\ (Inv => Inv')
  <1>1. /\ proc[p].at = "stage" /\ proc[p].at \in Moving \ {"clear"} /\ Copying(proc[p])
        /\ proc[p].at \in Moving
    BY DEF MakeStage, At, Moving, Copying
  <1>2. proc[p] \in Task /\ Sound(proc[p], used.moves)
    BY <1>1, MovingLemma
  <1>3. CASE /\ stages' = [stages EXCEPT ![Move(p).id] = Empty] /\ UNCHANGED dirs
             /\ Become(p, [To(p, "copy") EXCEPT !.left = Entries(Source(p)) \cap File]) /\ Steady
    <2>1. PICK l \in SUBSET File : l = Entries(Source(p)) \cap File
      OBVIOUS
    <2>2. PICK y : y = To(p, "copy")
      OBVIOUS
    <2>3. y \in Task /\ y.at = "copy" /\ y.boot = proc[p].boot /\ y.loc = proc[p].loc
      BY <1>2, <2>2, AtLemma DEF To, Moving
    <2>4. PICK x : x = [y EXCEPT !.left = l]
      OBVIOUS
    <2>5. x \in Task /\ x.at = "copy" /\ x.boot = proc[p].boot /\ x.loc = proc[p].loc /\ x.left = l
      BY <2>3, <2>4 DEF Task
    <2>6. Sound(x, used.moves)
      BY <1>1, <1>2, <2>5 DEF Sound, Settled, Moving
    <2>7. Within(Empty, Source(p)) /\ Empty \in Directory /\ Empty.location = None
      BY MissingLemma DEF Within
    <2>8. Become(p, x)
      BY <1>3, <2>1, <2>2, <2>4
    <2> QED BY <1>1, <1>3, <2>5, <2>6, <2>7, <2>8, StageStep
  <1>4. CASE Become(p, Failed(proc[p])) /\ Fault("stage") /\ UNCHANGED disk
    BY <1>1, <1>4, FailStep
  <1> QED BY <1>3, <1>4 DEF MakeStage

\* One more file of the source is in the stage.
LEMMA CopyStep ==
  ASSUME TypeInv, NEW p \in Process, CopyFile(p)
  PROVE  TypeInv' /\ (Inv => Inv')
  <1>1. /\ proc[p].at = "copy" /\ proc[p].at \in Moving \ {"clear"} /\ Copying(proc[p])
        /\ proc[p].at \in Moving
    BY DEF CopyFile, At, Moving, Copying
  <1>2. /\ proc[p] \in Task /\ Sound(proc[p], used.moves) /\ Stage(p) \in Directory /\ Source(p) \in Directory
        /\ Stage(p).location = None /\ Stage(p) = stages[Move(p).id]
    BY <1>1, MovingLemma
  <1>3. CASE Become(p, Failed(proc[p])) /\ UNCHANGED disk /\ (Steady \/ \E s : Fault(s))
    BY <1>1, <1>3, FailStep
  <1>4. ASSUME NEW f \in proc[p].left, Source(p).data[f] # 0,
               stages' = [stages EXCEPT ![Move(p).id] = With(@, f, Source(p))], UNCHANGED dirs,
               Become(p, [proc[p] EXCEPT !.left = @ \ {f}]), Steady
        PROVE  TypeInv' /\ (Inv => Inv')
    <2>1. f \in File
      BY <1>1, <1>2 DEF Sound
    <2>2. PICK c : c = With(Stage(p), f, Source(p))
      OBVIOUS
    <2>3. /\ c \in Directory /\ c.location = None
          /\ \A g \in File : c.data[g] = IF g = f THEN Source(p).data[g] ELSE Stage(p).data[g]
      <3>1. f \in File \cup {"marker"}
        BY <2>1
      <3>2. /\ c \in Directory /\ c.location = Stage(p).location
            /\ \A g \in File : c.data[g] = IF g = f THEN Source(p).data[f] ELSE Stage(p).data[g]
        <4>1. PICK d \in Directory, s \in Directory : d = Stage(p) /\ s = Source(p)
          BY <1>2
        <4>2. /\ With(d, f, s) \in Directory /\ With(d, f, s).location = d.location
              /\ \A g \in File : With(d, f, s).data[g] = IF g = f THEN s.data[g] ELSE d.data[g]
          BY <3>1, WithLemma
        <4>3. c = With(d, f, s)
          BY <2>2, <4>1
        <4> QED BY <4>1, <4>2, <4>3
      <3> QED BY <1>2, <3>2
    <2>4. PICK x : x = [proc[p] EXCEPT !.left = @ \ {f}]
      OBVIOUS
    <2>5. x \in Task /\ x.at = "copy" /\ x.boot = proc[p].boot /\ x.loc = proc[p].loc /\ x.left = proc[p].left \ {f}
      BY <1>1, <1>2, <2>4 DEF Task
    <2>6. Sound(x, used.moves)
      BY <1>1, <1>2, <2>5 DEF Sound, Settled, Moving
    <2>7. Inv => Within(c, Source(p))
      <3>1. Inv => Within(Stage(p), Source(p))
        BY <1>1, CopyingLemma
      <3> QED BY <2>3, <3>1 DEF Within
    <2>8. stages' = [stages EXCEPT ![Move(p).id] = c] /\ Become(p, x)
      BY <1>2, <1>4, <2>2, <2>4
    <2> QED BY <1>1, <1>4, <2>3, <2>5, <2>6, <2>7, <2>8, StageStep
  <1> QED BY <1>3, <1>4 DEF CopyFile

\* The stage is marked when it covers the source; it never has another file.
LEMMA MarkStep ==
  ASSUME TypeInv, NEW p \in Process, MarkStage(p)
  PROVE  TypeInv' /\ (Inv => Inv')
  <1>1. /\ proc[p].at = "copy" /\ proc[p].at \in Moving \ {"clear"} /\ Copying(proc[p])
        /\ proc[p].at \in Moving
    BY DEF MarkStage, At, Moving, Copying
  <1>2. /\ proc[p] \in Task /\ Sound(proc[p], used.moves) /\ Stage(p) \in Directory /\ proc[p].boot \in Bootstrap
        /\ Stage(p).location = None /\ Stage(p) = stages[Move(p).id] /\ Move(p).id \in Id
        /\ Typed(dirs, used.moves) /\ Staged(stages) /\ Move(p).id \in Nat
    BY <1>1, MovingLemma DEF Id
  <1>3. PICK c : c = [Made(Stage(p)) EXCEPT !.marker = Move(p).id]
    OBVIOUS
  <1>4. c \in Directory /\ c.location = None /\ c.data = Stage(p).data
    <2>1. PICK m : m = Made(Stage(p))
      OBVIOUS
    <2>2. m \in Directory /\ m.location = None /\ m.data = Stage(p).data
      BY <1>2, <2>1, MadeLemma
    <2>3. c = [m EXCEPT !.marker = Move(p).id]
      BY <1>3, <2>1
    <2> QED BY <1>2, <2>2, <2>3 DEF Directory
  <1>5. WriteMarker(p) => dirs' = dirs /\ stages' = [stages EXCEPT ![Move(p).id] = c]
    BY <1>2, <1>3 DEF WriteMarker
  <1>6. CASE WriteMarker(p) /\ Become(p, To(p, "place")) /\ Steady
    <2>1. PICK x : x = To(p, "place")
      OBVIOUS
    <2>2. x \in Task /\ Sound(x, used.moves) /\ x.at = "place" /\ x.boot = proc[p].boot /\ x.loc = proc[p].loc
      <3>1. "place" \in Moving \ {"clear", "copy"}
        BY DEF Moving
      <3> QED BY <1>1, <2>1, <3>1, ToLemma
    <2>3. Inv => Within(c, Source(p))
      <3>1. Inv => Within(Stage(p), Source(p))
        BY <1>1, CopyingLemma
      <3> QED BY <1>4, <3>1 DEF Within
    <2>4. Become(p, x) /\ Steady
      BY <1>6, <2>1
    <2> QED BY <1>1, <1>4, <1>5, <1>6, <2>2, <2>3, <2>4, StageStep
  <1>7. CASE Become(p, Failed(proc[p])) /\ UNCHANGED disk /\ (Steady \/ \E s : Fault(s))
    BY <1>1, <1>7, FailStep
  <1>8. CASE WriteMarker(p) /\ Become(p, Failed(proc[p])) /\ Fault("mark")
    <2>1. Staged(stages') /\ Typed(dirs', used.moves)
      BY <1>2, <1>4, <1>5, <1>8, StageLemma
    <2>2. PICK x : x = Failed(proc[p])
      OBVIOUS
    <2>3. x \in Task /\ Sound(x, used.moves)
      BY <1>2, <2>2, FailedLemma
    <2>4. ASSUME Inv
          PROVE  New(dirs', saved) /\ Fine(x, dirs', stages', saved, scene)
      <3>1. New(dirs, saved) /\ proc[p].boot = "default" /\ proc[p].loc = Record(dirs)
        BY <1>1, <2>4, MovesLemma
      <3>2. Fine(x, dirs, stages', saved, scene)
        BY <1>2, <2>2, <3>1, FailedFine
      <3> QED BY <1>5, <1>8, <3>1, <3>2
    <2>5. Become(p, x) /\ \E s : Fault(s)
      BY <1>8, <2>2
    <2> QED BY <1>1, <2>1, <2>3, <2>4, <2>5, MoveStep
  <1> QED BY <1>6, <1>7, <1>8 DEF MarkStage

\* It changes the target, and perhaps its stage, and goes on.
LEMMA TargetStep ==
  ASSUME TypeInv, NEW p \in Process, proc[p].at \in Moving \ {"clear"}, Copying(proc[p]),
         NEW x \in Task, Sound(x, used.moves), x.boot = proc[p].boot, x.loc = proc[p].loc,
         x.at \in {"activate", "move", "recheck", "forget"}, Become(p, x), Steady,
         NEW c \in Directory, c.location \in {None, Target(p).location}, Inv => Fits(p, c),
         dirs' = [dirs EXCEPT ![Move(p).target] = c], Staged(stages'),
         Inv => /\ x.at = "activate" => Move(p).target # "default"
                /\ x.at \in {"activate", "move"} => Within(stages'[Move(p).id], Source(p))
                /\ x.at \in {"move", "recheck"} => Within(c, Source(p))
  PROVE  TypeInv' /\ (Inv => Inv')
  <1>0. proc[p].at \in Moving
    OBVIOUS
  <1>1. /\ Move(p).target \in Place /\ Move(p) = x.loc.migration
        /\ Source(p) = dirs[Move(p).source] /\ Target(p) = dirs[Move(p).target]
    BY <1>0, MovingLemma
  <1>2. Typed(dirs', used.moves)
    BY <1>1, RefillLemma
  <1>3. ASSUME Inv
        PROVE  New(dirs', saved) /\ Fine(x, dirs', stages', saved, scene)
    <2>1. Move(p).phase = "copy"
      BY <1>3, CopyingLemma
    <2>2. /\ New(dirs', saved) /\ Record(dirs') = Record(dirs)
          /\ dirs'[Move(p).target] = c /\ dirs'[Move(p).source] = Source(p)
      BY <1>0, <1>3, <2>1, TargetLemma
    <2>3. Emptied(x, dirs') /\ ~Cleaning(x) /\ x.at \in Moving
      BY DEF Emptied, Cleaning, Moving
    <2>4. Copied(x, dirs', stages')
      BY <1>1, <1>3, <2>2 DEF Copied
    <2> QED BY <1>0, <1>3, <2>1, <2>2, <2>3, <2>4, GoOnFine
  <1> QED BY <1>0, <1>2, <1>3, MoveStep

\* The default directory is emptied before it is filled; any other target is empty already.
LEMMA PlaceStep ==
  ASSUME TypeInv, NEW p \in Process, PlaceStage(p)
  PROVE  TypeInv' /\ (Inv => Inv')
  <1>1. /\ proc[p].at = "place" /\ proc[p].at \in Moving \ {"clear"} /\ Copying(proc[p])
        /\ proc[p].at \in Moving
    BY DEF PlaceStage, At, Moving, Copying
  <1>2. /\ Move(p).target \in Place /\ Staged(stages) /\ Stage(p) = stages[Move(p).id] /\ Move(p).id # 0
        /\ Restores(p) <=> Move(p).target = proc[p].boot
    BY <1>1, MovingLemma DEF Restores
  <1>3. ASSUME Inv
        PROVE  Move(p).phase = "copy" /\ Within(Stage(p), Source(p)) /\ proc[p].boot = "default"
    BY <1>1, <1>3, CopyingLemma
  <1>4. CASE Become(p, Failed(proc[p])) /\ UNCHANGED disk /\ (Steady \/ \E s : Fault(s))
    BY <1>1, <1>4, FailStep
  <1>5. CASE Become(p, Clearing(proc[p], Move(p).target, "move")) /\ UNCHANGED disk /\ Steady
    <2>1. dirs' = dirs /\ stages' = stages
      BY <1>5 DEF disk
    <2> QED BY <1>1, <1>2, <1>3, <1>5, <2>1, ClearStep
  <1>6. CASE /\ ~Restores(p) /\ dirs' = [dirs EXCEPT ![Move(p).target] = Missing] /\ UNCHANGED stages
             /\ Become(p, To(p, "activate")) /\ Steady
    <2>1. PICK x : x = To(p, "activate")
      OBVIOUS
    <2>2. x \in Task /\ Sound(x, used.moves) /\ x.at = "activate" /\ x.boot = proc[p].boot /\ x.loc = proc[p].loc
      <3>1. "activate" \in Moving \ {"clear", "copy"}
        BY DEF Moving
      <3> QED BY <1>1, <2>1, <3>1, ToLemma
    <2>3. Missing \in Directory /\ Missing.location \in {None, Target(p).location} /\ Missing.marker = 0
      BY MissingLemma
    <2>4. ASSUME Inv
          PROVE  Move(p).target # "default" /\ Fits(p, Missing)
      BY <1>2, <1>3, <1>6, <2>3, <2>4 DEF Fits
    <2>5. Become(p, x)
      BY <1>6, <2>1
    <2> QED BY <1>1, <1>2, <1>3, <1>6, <2>2, <2>3, <2>4, <2>5, TargetStep
  <1> QED BY <1>4, <1>5, <1>6 DEF PlaceStage

\* An entry moves from the stage to the default directory, where only files of the source come.
LEMMA MoveEntryStep ==
  ASSUME TypeInv, NEW p \in Process, MoveEntry(p)
  PROVE  TypeInv' /\ (Inv => Inv')
  <1>1. /\ proc[p].at = "move" /\ proc[p].at \in Moving \ {"clear"} /\ Copying(proc[p])
        /\ proc[p].at \in Moving
    BY DEF MoveEntry, At, Moving, Copying
  <1>2. /\ Move(p).target \in Place /\ Move(p).id \in Id /\ Staged(stages) /\ Stage(p) = stages[Move(p).id]
        /\ Stage(p) \in Directory /\ Target(p) \in Directory /\ Stage(p).location = None
        /\ proc[p] \in Task /\ Sound(proc[p], used.moves) /\ Target(p) = dirs[Move(p).target]
        /\ proc \in [Process -> Task]
    BY <1>1, MovingLemma DEF TypeInv
  <1>3. ASSUME Inv
        PROVE  /\ Within(Stage(p), Source(p)) /\ Within(Target(p), Source(p))
               /\ New(dirs, saved)
    BY <1>1, <1>3, CopyingLemma
  <1>4. CASE Become(p, Failed(proc[p])) /\ UNCHANGED disk /\ (Steady \/ \E s : Fault(s))
    BY <1>1, <1>4, FailStep
  <1>5. CASE /\ stages' = [stages EXCEPT ![Move(p).id] = Missing] /\ UNCHANGED dirs
             /\ Become(p, To(p, "recheck")) /\ Steady
    <2>1. PICK x : x = To(p, "recheck")
      OBVIOUS
    <2>2. x \in Task /\ Sound(x, used.moves) /\ x.at = "recheck" /\ x.boot = proc[p].boot /\ x.loc = proc[p].loc
      <3>1. "recheck" \in Moving \ {"clear", "copy"}
        BY DEF Moving
      <3> QED BY <1>1, <2>1, <3>1, ToLemma
    <2>3. Missing \in Directory /\ Missing.location = None /\ Become(p, x)
      BY <1>5, <2>1, MissingLemma
    <2> QED BY <1>1, <1>3, <1>5, <2>2, <2>3, StageStep
  <1>6. ASSUME NEW e \in Entries(Stage(p)), stages' = [stages EXCEPT ![Move(p).id] = Without(@, e)],
               dirs' = [dirs EXCEPT ![Move(p).target] = With(@, e, Stage(p))], UNCHANGED proc, Steady
        PROVE  TypeInv' /\ (Inv => Inv')
    <2>1. e \in File \cup {"marker"}
      BY <1>2, EntriesLemma
    <2>2. PICK d \in Directory, s \in Directory : d = Target(p) /\ s = Stage(p)
      BY <1>2
    <2>3. PICK c, t : c = With(d, e, s) /\ t = Without(s, e)
      OBVIOUS
    <2>4. /\ c \in Directory /\ c.there = d.there /\ c.location = d.location
          /\ \A f \in File : c.data[f] = IF f = e THEN s.data[f] ELSE d.data[f]
      <3>1. /\ With(d, e, s) \in Directory /\ With(d, e, s).there = d.there
            /\ With(d, e, s).location = d.location
            /\ \A f \in File : With(d, e, s).data[f] = IF f = e THEN s.data[f] ELSE d.data[f]
        BY <2>1, WithLemma
      <3> QED BY <2>3, <3>1
    <2>5. /\ t \in Directory /\ t.location = None
          /\ \A f \in File : t.data[f] = IF f = e THEN 0 ELSE s.data[f]
      <3>1. e \in File \cup {"marker", "location"} /\ s.location = None
        BY <1>2, <2>1, <2>2
      <3> QED BY <2>3, <3>1, WithoutLemma
    <2>6. dirs' = [dirs EXCEPT ![Move(p).target] = c]
      BY <1>2, <1>6, <2>2, <2>3
    <2>7. stages' = [stages EXCEPT ![Move(p).id] = t]
      BY <1>2, <1>6, <2>2, <2>3
    <2>8. Staged(stages') /\ stages'[Move(p).id] = t
      BY <1>2, <2>5, <2>7 DEF Staged
    <2>9. PICK x : x = proc[p]
      OBVIOUS
    <2>10. Become(p, x) /\ x \in Task /\ Sound(x, used.moves) /\ x.at = "move" /\ x.boot = proc[p].boot
           /\ x.loc = proc[p].loc
      BY <1>1, <1>2, <1>6, <2>9 DEF Become
    <2>11. ASSUME Inv
           PROVE  Within(t, Source(p)) /\ Within(c, Source(p)) /\ Fits(p, c)
      <3>1. Within(t, Source(p))
        BY <1>3, <2>2, <2>5, <2>11 DEF Within
      <3>2. Within(c, Source(p))
        BY <1>3, <2>2, <2>4, <2>11 DEF Within
      <3>3. Move(p).target = "default" => c.there /\ c.location = Target(p).location
        <4>1. dirs["default"].there
          BY <1>3, <2>11 DEF New
        <4> QED BY <1>2, <2>2, <2>4, <4>1
      <3> QED BY <3>1, <3>2, <3>3 DEF Fits
    <2>12. c.location \in {None, Target(p).location}
      BY <2>2, <2>4
    <2> QED BY <1>1, <1>6, <2>4, <2>6, <2>8, <2>10, <2>11, <2>12, TargetStep
  <1> QED BY <1>4, <1>5, <1>6 DEF MoveEntry

\* The stage takes the place of the target.
LEMMA ActivateStep ==
  ASSUME TypeInv, NEW p \in Process, Activate(p)
  PROVE  TypeInv' /\ (Inv => Inv')
  <1>1. /\ proc[p].at = "activate" /\ proc[p].at \in Moving \ {"clear"} /\ Copying(proc[p])
        /\ proc[p].at \in Moving
    BY DEF Activate, At, Moving, Copying
  <1>2. /\ Move(p).id \in Id /\ Staged(stages) /\ Stage(p) \in Directory /\ Stage(p).location = None
    BY <1>1, MovingLemma
  <1>3. CASE Become(p, Failed(proc[p])) /\ UNCHANGED disk /\ (Steady \/ \E s : Fault(s))
    BY <1>1, <1>3, FailStep
  <1>4. CASE /\ dirs' = [dirs EXCEPT ![Move(p).target] = Stage(p)]
             /\ stages' = [stages EXCEPT ![Move(p).id] = Missing]
             /\ Become(p, To(p, "recheck")) /\ Steady
    <2>1. PICK x : x = To(p, "recheck")
      OBVIOUS
    <2>2. x \in Task /\ Sound(x, used.moves) /\ x.at = "recheck" /\ x.boot = proc[p].boot /\ x.loc = proc[p].loc
      <3>1. "recheck" \in Moving \ {"clear", "copy"}
        BY DEF Moving
      <3> QED BY <1>1, <2>1, <3>1, ToLemma
    <2>3. Staged(stages')
      BY <1>2, <1>4, MissingLemma DEF Staged
    <2>4. ASSUME Inv
          PROVE  Within(Stage(p), Source(p)) /\ Fits(p, Stage(p))
      BY <1>1, <2>4, CopyingLemma DEF Fits
    <2>5. Become(p, x)
      BY <1>4, <2>1
    <2> QED BY <1>1, <1>2, <1>4, <2>2, <2>3, <2>4, <2>5, TargetStep
  <1> QED BY <1>3, <1>4 DEF Activate

\* The directory the user chose is there again, and empty.
LEMMA RecreateStep ==
  ASSUME TypeInv, NEW p \in Process, Recreate(p)
  PROVE  TypeInv' /\ (Inv => Inv')
  <1>1. /\ proc[p].at = "recreate" /\ proc[p].at \in Moving \ {"clear"} /\ Copying(proc[p])
        /\ proc[p].at \in Moving
    BY DEF Recreate, At, Moving, Copying
  <1>2. Staged(stages) /\ Move(p).id # 0 /\ Target(p) = dirs[Move(p).target]
    BY <1>1, MovingLemma
  <1>3. CASE Become(p, Failed(proc[p])) /\ UNCHANGED disk /\ (Steady \/ \E s : Fault(s))
    BY <1>1, <1>3, FailStep
  <1>4. CASE /\ Target(p) = Missing /\ dirs' = [dirs EXCEPT ![Move(p).target] = Empty] /\ UNCHANGED stages
             /\ Become(p, To(p, "forget")) /\ Steady
    <2>1. PICK x : x = To(p, "forget")
      OBVIOUS
    <2>2. x \in Task /\ Sound(x, used.moves) /\ x.at = "forget" /\ x.boot = proc[p].boot /\ x.loc = proc[p].loc
      <3>1. "forget" \in Moving \ {"clear", "copy"}
        BY DEF Moving
      <3> QED BY <1>1, <2>1, <3>1, ToLemma
    <2>3. Empty \in Directory /\ Empty.location \in {None, Target(p).location} /\ Empty.marker = 0
      BY MissingLemma
    <2>4. ASSUME Inv
          PROVE  Fits(p, Empty)
      <3>1. Move(p).target # "default"
        BY <1>1, <1>2, <1>4, <2>4, CopyingLemma, MissingLemma DEF New
      <3> QED BY <1>2, <2>3, <3>1 DEF Fits
    <2>5. Become(p, x) /\ Staged(stages')
      BY <1>2, <1>4, <2>1
    <2> QED BY <1>1, <1>4, <2>2, <2>3, <2>4, <2>5, TargetStep
  <1> QED BY <1>3, <1>4 DEF Recreate

\* The way back: the stage goes, and the target only if it carries the marker.
LEMMA DropStep ==
  ASSUME TypeInv, NEW p \in Process, DropStage(p)
  PROVE  TypeInv' /\ (Inv => Inv')
  <1>1. /\ proc[p].at = "drop" /\ proc[p].at \in Moving \ {"clear"} /\ Copying(proc[p])
        /\ proc[p].at \in Moving
    BY DEF DropStage, At, Moving, Copying
  <1>2. /\ Staged(stages) /\ Move(p).id \in Id /\ Move(p).target \in Place /\ Typed(dirs, used.moves)
    BY <1>1, MovingLemma
  <1>3. Inv => Move(p).phase = "copy" /\ New(dirs, saved)
    BY <1>1, CopyingLemma
  <1>4. CASE Become(p, Failed(proc[p])) /\ Fault("drop") /\ UNCHANGED disk
    BY <1>1, <1>4, FailStep
  <1>5. CASE /\ stages' = [stages EXCEPT ![Move(p).id] = Missing] /\ UNCHANGED dirs /\ Steady
             /\ Become(p, IF Target(p).marker # Move(p).id THEN To(p, "forget")
                          ELSE Clearing(proc[p], Move(p).target,
                                        IF Restores(p) THEN "forget" ELSE "recreate"))
    <2>1. Staged(stages') /\ dirs' = dirs
      BY <1>2, <1>5, MissingLemma DEF Staged
    <2>2. CASE Become(p, To(p, "forget"))
      <3>1. PICK x : x = To(p, "forget")
        OBVIOUS
      <3>2. x \in Task /\ Sound(x, used.moves) /\ x.at = "forget" /\ x.boot = proc[p].boot /\ x.loc = proc[p].loc
        <4>1. "forget" \in Moving \ {"clear", "copy"}
          BY DEF Moving
        <4> QED BY <1>1, <3>1, <4>1, ToLemma
      <3>3. ASSUME Inv
            PROVE  New(dirs', saved) /\ Fine(x, dirs', stages', saved, scene)
        <4>1. Emptied(x, dirs) /\ Copied(x, dirs, stages') /\ ~Cleaning(x) /\ x.at \in Moving
          BY <3>2 DEF Emptied, Copied, Cleaning, Moving
        <4> QED BY <1>1, <1>3, <2>1, <3>2, <3>3, <4>1, GoOnFine
      <3>4. Become(p, x) /\ Typed(dirs', used.moves)
        BY <1>2, <2>1, <2>2, <3>1
      <3> QED BY <1>1, <1>5, <2>1, <3>2, <3>3, <3>4, MoveStep
    <2>3. ASSUME NEW then \in {"forget", "recreate"}, Become(p, Clearing(proc[p], Move(p).target, then))
          PROVE  TypeInv' /\ (Inv => Inv')
      <3>1. then \in {"stage", "move", "unmark", "forget", "recreate"} /\ then # "unmark" /\ then # "move"
        OBVIOUS
      <3> QED BY <1>1, <1>2, <1>3, <1>5, <2>1, <2>3, <3>1, ClearStep
    <2>4. \/ Become(p, To(p, "forget"))
          \/ Become(p, Clearing(proc[p], Move(p).target, "forget"))
          \/ Become(p, Clearing(proc[p], Move(p).target, "recreate"))
      BY <1>5
    <2> QED BY <2>2, <2>3, <2>4
  <1> QED BY <1>4, <1>5 DEF DropStage

\* The marker goes from the new active directory, whose files stay.
LEMMA UnmarkStep ==
  ASSUME TypeInv, NEW p \in Process, Unmark(p)
  PROVE  TypeInv' /\ (Inv => Inv')
  <1>1. proc[p].at = "unmark" /\ proc[p].at \in Moving /\ Cleaning(proc[p])
    BY DEF Unmark, At, Moving, Cleaning
  <1>2. /\ Staged(stages) /\ Move(p).target \in Place /\ Typed(dirs, used.moves)
        /\ Target(p) \in Directory /\ Target(p) = dirs[Move(p).target]
    BY <1>1, MovingLemma
  <1>3. "done" \in Moving \ {"clear", "copy"} /\ ~Copying([at |-> "done"])
    BY DEF Moving, Copying
  <1>4. CASE UNCHANGED disk /\ Fault("unmark")
    <2>1. Inv => Move(p).phase = "cleanup"
      BY <1>1, MovesLemma
    <2>2. Copied([at |-> "done", loc |-> proc[p].loc], dirs, stages)
      BY DEF Copied
    <2> QED BY <1>1, <1>3, <1>4, <2>1, <2>2, StayStep DEF Unmark
  <1>5. CASE dirs' = [dirs EXCEPT ![Move(p).target].marker = 0] /\ UNCHANGED stages /\ Steady
    <2>1. PICK c : c = [Target(p) EXCEPT !.marker = 0]
      OBVIOUS
    <2>2. c \in Directory /\ c.there = Target(p).there /\ c.data = Target(p).data /\ c.location = Target(p).location
      BY <1>2, <2>1 DEF Directory
    <2>3. dirs' = [dirs EXCEPT ![Move(p).target] = c]
      BY <1>2, <1>5, <2>1
    <2>4. Typed(dirs', used.moves) /\ dirs'[Move(p).target] = c
          /\ \A d \in Place \ {Move(p).target} : dirs'[d] = dirs[d]
      <3>1. LET E == [dirs EXCEPT ![Move(p).target] = c] IN
            /\ Typed(E, used.moves) /\ E[Move(p).target] = c
            /\ \A d \in Place \ {Move(p).target} : E[d] = dirs[d]
        BY <1>2, <2>2, RefillLemma
      <3> QED BY <2>3, <3>1
    <2>5. PICK x : x = To(p, "done")
      OBVIOUS
    <2>6. x \in Task /\ Sound(x, used.moves) /\ x.at = "done" /\ x.boot = proc[p].boot /\ x.loc = proc[p].loc
      BY <1>1, <1>3, <2>5, ToLemma
    <2>7. ASSUME Inv
          PROVE  New(dirs', saved) /\ Fine(x, dirs', stages', saved, scene)
      <3>1. /\ New(dirs, saved) /\ Move(p).phase = "cleanup" /\ Move(p).target \in Movable
            /\ proc[p].loc = Record(dirs) /\ Move(p) = Record(dirs).migration
            /\ ActiveOf(Record(dirs)) = Move(p).target
        BY <1>1, <2>7, MovesLemma DEF Move
      <3>2. dirs'["default"].location = dirs["default"].location /\ dirs'["default"].there
        BY <1>2, <2>2, <2>4, <3>1, PlacesLemma DEF New
      <3>3. Record(dirs') = Record(dirs)
        BY <3>2 DEF Record
      <3>4. dirs'["legacy"] = Missing
        BY <2>4, <3>1, PlacesLemma DEF New
      <3>5. dirs'[Move(p).target].data = saved
        BY <1>2, <2>2, <2>4, <3>1 DEF New
      <3>6. New(dirs', saved)
        BY <3>1, <3>2, <3>3, <3>4, <3>5 DEF New
      <3>7. Emptied(x, dirs') /\ Copied(x, dirs', stages') /\ ~Copying(x) /\ x.at \in Moving
        BY <2>6 DEF Emptied, Copied, Copying, Moving
      <3> QED BY <1>1, <2>6, <2>7, <3>1, <3>3, <3>6, <3>7, GoOnFine
    <2>8. Become(p, x) /\ Staged(stages')
      BY <1>2, <1>5, <2>5 DEF Unmark
    <2> QED BY <1>1, <1>5, <2>4, <2>6, <2>7, <2>8, MoveStep
  <1> QED BY <1>4, <1>5 DEF Unmark

-----------------------------------------------------------------------------
(* data_location.toml is written.                                          *)

\* Writing data_location.toml changes nothing but the record.
LEMMA WriteLemma ==
  ASSUME TypeInv, NEW b \in Bootstrap, NEW loc \in Location, loc.migration.id <= used.moves
  PROVE  LET E == [dirs EXCEPT ![b] = [Made(dirs[b]) EXCEPT !.location = loc]] IN
         /\ Typed(E, used.moves) /\ E[b].there /\ E[b].location = loc
         /\ E[b].data = dirs[b].data /\ E[b].marker = dirs[b].marker
         /\ \A d \in Place \ {b} : E[d] = dirs[d]
  <1>1. b \in Place /\ Typed(dirs, used.moves) /\ dirs[b] \in Directory /\ used.moves \in Nat
    BY PlacesLemma DEF TypeInv, Typed, Bounded
  <1>2. PICK m : m = Made(dirs[b])
    OBVIOUS
  <1>3. /\ m \in Directory /\ m.there /\ m.data = dirs[b].data /\ m.marker = dirs[b].marker
    BY <1>1, <1>2, MadeLemma
  <1>4. PICK c : c = [m EXCEPT !.location = loc]
    OBVIOUS
  <1>5. /\ c \in Directory /\ c.there /\ c.data = dirs[b].data /\ c.marker = dirs[b].marker
        /\ c.location = loc
    BY <1>3, <1>4 DEF Directory
  <1>6. c.location # None => b \in Bootstrap /\ c.location.migration.id <= used.moves
    BY <1>5
  <1>7. /\ Typed([dirs EXCEPT ![b] = c], used.moves) /\ [dirs EXCEPT ![b] = c][b] = c
        /\ \A d \in Place \ {b} : [dirs EXCEPT ![b] = c][d] = dirs[d]
    BY <1>1, <1>5, <1>6, ReplaceLemma
  <1> QED BY <1>2, <1>4, <1>5, <1>7

\* Another location in the default directory.
Written(D, E, loc) ==
  /\ E["default"].there /\ E["default"].location = loc /\ E["default"].data = D["default"].data
  /\ E["default"].marker = D["default"].marker
  /\ \A d \in Place \ {"default"} : E[d] = D[d]

\* If it is consistent and its active directory has everything, the invariant holds again.
LEMMA WrittenLemma ==
  ASSUME NEW D, NEW V, New(D, V), NEW E, NEW loc \in Location, Written(D, E, loc), Consistent(loc),
         D[ActiveOf(loc)].data = V,
         loc.migration.phase = "copy" => D[loc.migration.target].marker # loc.migration.id
  PROVE  New(E, V) /\ Record(E) = loc
  <1>1. Record(E) = loc
    BY NoneAssumption DEF Written, Record
  <1>2. E["legacy"] = Missing /\ E["default"].there
    BY PlacesLemma DEF Written, New
  <1>3. ActiveOf(loc) \in Movable
    BY DEF Consistent, ActiveOf, Movable
  <1>4. \A d \in Movable : E[d].data = D[d].data /\ E[d].marker = D[d].marker
    BY PlacesLemma DEF Written
  <1>5. loc.migration.phase = "copy" => loc.migration.target \in Movable
    BY DEF Consistent
  <1> QED BY <1>1, <1>2, <1>3, <1>4, <1>5 DEF New

\* The move is over, done or given up: the record, if it is written, forgets it.
LEMMA SettleStep ==
  ASSUME TypeInv, NEW p \in Process, proc[p].at \in Moving, NEW y \in Task, y.at = "enter",
         y.boot = proc[p].boot, y.loc = [proc[p].loc EXCEPT !.migration = NoMove], y.active \in Place,
         Inv => y.active = ActiveOf(Record(dirs)), Become(p, y), Steady \/ \E s : Fault(s),
         WriteLocation(p, y.loc) \/ UNCHANGED disk
  PROVE  TypeInv' /\ (Inv => Inv')
  <1>1. /\ proc[p] \in Task /\ proc[p].boot \in Bootstrap /\ Staged(stages) /\ Typed(dirs, used.moves)
        /\ used.moves \in Nat /\ proc[p].loc \in Location
    BY MovingLemma DEF Task
  <1>2. PICK loc : loc = y.loc
    OBVIOUS
  <1>3. /\ loc \in Location /\ loc.active = proc[p].loc.active /\ loc.migration = NoMove
        /\ loc.migration.id = 0 /\ loc.migration.phase = "none"
    BY <1>1, <1>2, FreshLemma DEF Location
  <1>4. Sound(y, used.moves)
    BY <1>1, <1>2, <1>3 DEF Sound, Moving
  <1>5. ASSUME Inv
        PROVE  New(dirs, saved) /\ Consistent(loc) /\ ActiveOf(loc) = ActiveOf(Record(dirs))
               /\ y.active \in Movable /\ dirs[y.active].data = saved /\ y.boot = "default"
    <2>1. New(dirs, saved) /\ proc[p].loc = Record(dirs) /\ proc[p].boot = "default"
      BY <1>5, MovesLemma
    <2>2. Consistent(Record(dirs)) /\ dirs[ActiveOf(Record(dirs))].data = saved
      BY <2>1 DEF New
    <2>3. ActiveOf(loc) = ActiveOf(Record(dirs)) /\ Consistent(loc)
      BY <1>3, <2>1, <2>2 DEF ActiveOf, Consistent
    <2>4. ActiveOf(Record(dirs)) \in Movable
      BY <2>2 DEF Consistent, ActiveOf, Movable
    <2> QED BY <1>5, <2>1, <2>2, <2>3, <2>4
  <1>6. CASE UNCHANGED disk
    <2>1. dirs' = dirs /\ stages' = stages
      BY <1>6 DEF disk
    <2>2. Inv => Fine(y, dirs, stages, saved, scene)
      BY <1>5 DEF Fine, Works, Moving
    <2> QED BY <1>1, <1>4, <1>5, <2>1, <2>2, MoveStep
  <1>7. CASE WriteLocation(p, y.loc)
    <2>1. PICK b \in Bootstrap : b = proc[p].boot
      BY <1>1
    <2>2. dirs' = [dirs EXCEPT ![b] = [Made(dirs[b]) EXCEPT !.location = loc]] /\ stages' = stages
      BY <1>2, <1>7, <2>1 DEF WriteLocation
    <2>3. loc.migration.id <= used.moves
      BY <1>1, <1>3
    <2>4. LET E == [dirs EXCEPT ![b] = [Made(dirs[b]) EXCEPT !.location = loc]] IN
          /\ Typed(E, used.moves) /\ E[b].there /\ E[b].location = loc
          /\ E[b].data = dirs[b].data /\ E[b].marker = dirs[b].marker
          /\ \A d \in Place \ {b} : E[d] = dirs[d]
      BY <1>3, <2>3, WriteLemma
    <2>5. Typed(dirs', used.moves) /\ (b = "default" => Written(dirs, dirs', loc))
      BY <2>2, <2>4 DEF Written
    <2>6. ASSUME Inv
          PROVE  New(dirs', saved) /\ Fine(y, dirs', stages', saved, scene)
      <3>1. Written(dirs, dirs', loc) /\ dirs[ActiveOf(loc)].data = saved /\ loc.migration.phase # "copy"
        BY <1>3, <1>5, <2>1, <2>5, <2>6
      <3>2. New(dirs', saved) /\ Record(dirs') = loc
        BY <1>3, <1>5, <2>6, <3>1, WrittenLemma
      <3>3. y.active = ActiveOf(loc) /\ y.active \in Movable
        BY <1>5, <2>6
      <3>4. dirs'[y.active].data = saved
        BY <3>2, <3>3 DEF New
      <3> QED BY <1>5, <2>6, <3>2, <3>3, <3>4 DEF Fine, Works, Moving
    <2> QED BY <1>1, <1>4, <2>2, <2>5, <2>6, MoveStep
  <1> QED BY <1>6, <1>7

\* What it then knows.
LEMMA ClosedLemma ==
  ASSUME TypeInv, NEW p \in Process, proc[p].at \in Moving,
         NEW x, x = [proc[p] EXCEPT !.loc.migration = NoMove]
  PROVE  /\ x \in Task /\ x.boot = proc[p].boot /\ x.boot \in Bootstrap
         /\ x.loc = [proc[p].loc EXCEPT !.migration = NoMove] /\ x.loc.migration.phase = "none"
         /\ \A y \in Task : y \in {Enter(x), Failed(x)} =>
              /\ y.at = "enter" /\ y.boot = proc[p].boot /\ y.loc = x.loc /\ y.active \in Place
              /\ Inv => y.active = ActiveOf(Record(dirs))
         /\ Enter(x) \in Task /\ Failed(x) \in Task
  <1>1. proc[p] \in Task /\ proc[p].boot \in Bootstrap /\ proc[p].loc \in Location
    BY MovingLemma DEF Task
  <1>2. PICK loc : loc = [proc[p].loc EXCEPT !.migration = NoMove]
    OBVIOUS
  <1>3. loc \in Location /\ loc.migration.phase = "none" /\ loc.active = proc[p].loc.active
    BY <1>1, <1>2, FreshLemma DEF Location
  <1>4. x = [proc[p] EXCEPT !.loc = loc]
    BY <1>2
  <1>5. x \in Task /\ x.boot = proc[p].boot /\ x.loc = loc
    BY <1>1, <1>3, <1>4 DEF Task
  <1>6. PICK a : a = IF x.loc.active = None THEN x.boot ELSE x.loc.active
    OBVIOUS
  <1>7. Inv => a = ActiveOf(Record(dirs))
    BY <1>3, <1>5, <1>6, MovesLemma DEF ActiveOf
  <1>8. /\ Enter(x) \in Task /\ Enter(x).at = "enter" /\ Enter(x).boot = x.boot /\ Enter(x).loc = x.loc
        /\ Enter(x).active = a /\ Enter(x).active \in Place
    BY <1>1, <1>5, <1>6, EnterLemma
  <1>9. /\ Failed(x) \in Task /\ Failed(x).at = "enter" /\ Failed(x).boot = x.boot /\ Failed(x).loc = x.loc
        /\ Failed(x).active = a /\ Failed(x).active \in Place
    BY <1>1, <1>3, <1>5, <1>6, FailedLemma
  <1> QED BY <1>1, <1>2, <1>3, <1>5, <1>7, <1>8, <1>9

\* A failed copy is given up: the record says no more than where the files are.
LEMMA ForgetStep ==
  ASSUME TypeInv, NEW p \in Process, Forget(p)
  PROVE  TypeInv' /\ (Inv => Inv')
  <1>1. proc[p].at \in Moving
    BY DEF Forget, At, Moving
  <1>2. PICK x : x = [proc[p] EXCEPT !.loc.migration = NoMove]
    OBVIOUS
  <1>3. Become(p, Enter(x)) /\ (WriteLocation(p, x.loc) \/ UNCHANGED disk) /\ (Steady \/ \E s : Fault(s))
    BY <1>2 DEF Forget
  <1>4. PICK y : y = Enter(x)
    OBVIOUS
  <1>5. /\ y \in Task /\ y.at = "enter" /\ y.boot = proc[p].boot /\ y.loc = x.loc /\ y.active \in Place
        /\ Inv => y.active = ActiveOf(Record(dirs))
        /\ x.loc = [proc[p].loc EXCEPT !.migration = NoMove]
    BY <1>1, <1>2, <1>4, ClosedLemma
  <1>6. Become(p, y) /\ (WriteLocation(p, y.loc) \/ UNCHANGED disk)
    BY <1>3, <1>4, <1>5
  <1> QED BY <1>1, <1>3, <1>5, <1>6, SettleStep

\* A move that is done is forgotten: its target stays the active directory.
LEMMA DoneStep ==
  ASSUME TypeInv, NEW p \in Process, Done(p)
  PROVE  TypeInv' /\ (Inv => Inv')
  <1>1. proc[p].at \in Moving /\ Cleaning(proc[p])
    BY DEF Done, At, Moving, Cleaning
  <1>2. PICK x : x = [proc[p] EXCEPT !.loc.migration = NoMove]
    OBVIOUS
  <1>3. x \in Task /\ x.boot = proc[p].boot /\ x.loc = [proc[p].loc EXCEPT !.migration = NoMove]
    BY <1>1, <1>2, ClosedLemma
  <1>4. CASE /\ WriteLocation(p, x.loc) \/ UNCHANGED disk
             /\ Become(p, Failed(x)) /\ Fault("done")
    <2>1. PICK y : y = Failed(x)
      OBVIOUS
    <2>2. /\ y \in Task /\ y.at = "enter" /\ y.boot = proc[p].boot /\ y.loc = x.loc /\ y.active \in Place
          /\ Inv => y.active = ActiveOf(Record(dirs))
      BY <1>1, <1>2, <2>1, ClosedLemma
    <2>3. Become(p, y) /\ (WriteLocation(p, y.loc) \/ UNCHANGED disk) /\ \E s : Fault(s)
      BY <1>4, <2>1, <2>2
    <2> QED BY <1>1, <1>3, <2>2, <2>3, SettleStep
  <1>5. CASE /\ WriteLocation(p, x.loc) /\ Steady
             /\ Become(p, [x EXCEPT !.at = "enter", !.active = Move(p).target])
    <2>1. PICK y : y = [x EXCEPT !.at = "enter", !.active = Move(p).target]
      OBVIOUS
    <2>2. Move(p).target \in Place
      BY <1>1, MovingLemma
    <2>3. y \in Task /\ y.at = "enter" /\ y.boot = proc[p].boot /\ y.loc = x.loc /\ y.active = Move(p).target
      BY <1>3, <2>1, <2>2 DEF Task, Settled
    <2>4. Inv => y.active = ActiveOf(Record(dirs))
      BY <1>1, <2>3, MovesLemma
    <2>5. Become(p, y) /\ WriteLocation(p, y.loc)
      BY <1>5, <2>1, <2>3
    <2> QED BY <1>1, <1>3, <1>5, <2>2, <2>3, <2>4, <2>5, SettleStep
  <1> QED BY <1>2, <1>4, <1>5 DEF Done

\* The switch: the target, a copy of the source, becomes the active directory. When it fails the
\* process works in the target, whichever of the two the disk says, and they have the same files.
LEMMA SwitchStep ==
  ASSUME TypeInv, NEW p \in Process, Switch(p)
  PROVE  TypeInv' /\ (Inv => Inv')
  <1>1. proc[p].at = "switch" /\ proc[p].at \in Moving /\ Copying(proc[p])
    BY DEF Switch, At, Moving, Copying
  <1>2. /\ proc[p] \in Task /\ Sound(proc[p], used.moves) /\ proc[p].boot \in Bootstrap
        /\ Move(p) \in Migration /\ Move(p) = proc[p].loc.migration /\ Move(p).target \in Place
        /\ Source(p) = dirs[Move(p).source] /\ Target(p) = dirs[Move(p).target]
        /\ Typed(dirs, used.moves) /\ Staged(stages)
    BY <1>1, MovingLemma
  <1>3. PICK m : m = [Move(p) EXCEPT !.phase = "cleanup"]
    OBVIOUS
  <1>4. /\ m \in Migration /\ m.id = Move(p).id /\ m.source = Move(p).source /\ m.target = Move(p).target
        /\ m.phase = "cleanup"
    BY <1>2, <1>3 DEF Migration
  <1>5. PICK a \in Place \cup {None} : a = IF Move(p).target = "default" THEN None ELSE Move(p).target
    BY <1>2
  <1>6. PICK loc : loc = [active |-> a, migration |-> m]
    OBVIOUS
  <1>7. loc \in Location /\ loc.active = a /\ loc.migration = m
    BY <1>4, <1>6 DEF Location
  <1>8. PICK x : x = [proc[p] EXCEPT !.loc = loc]
    OBVIOUS
  <1>9. /\ x \in Task /\ x.at = "switch" /\ x.boot = proc[p].boot /\ x.loc = loc
        /\ loc.migration.id <= used.moves /\ Sound(x, used.moves)
    <2>1. x \in Task /\ x.at = "switch" /\ x.boot = proc[p].boot /\ x.loc = loc
      BY <1>1, <1>2, <1>7, <1>8 DEF Task
    <2>2. loc.migration.id <= used.moves
      BY <1>2, <1>4, <1>7 DEF Sound
    <2> QED BY <1>2, <1>4, <1>7, <2>1, <2>2 DEF Sound, Settled
  <1>10. ASSUME Inv
         PROVE  /\ New(dirs, saved) /\ proc[p].boot = "default" /\ Consistent(loc)
                /\ ActiveOf(loc) = Move(p).target /\ Move(p).target \in Movable
                /\ dirs[Move(p).target].data = saved
    <2>1. /\ New(dirs, saved) /\ proc[p].boot = "default" /\ Moves(proc[p], dirs, stages, saved)
          /\ Move(p).source # Move(p).target /\ Move(p).source \in Movable /\ Move(p).target \in Movable
          /\ Source(p).data = saved
      BY <1>1, <1>10, MovesLemma
    <2>2. dirs[Move(p).target].data = saved
      BY <1>1, <1>2, <2>1 DEF Moves, Copied
    <2>3. ActiveOf(loc) = Move(p).target
      BY <1>2, <1>5, <1>7, PlacesLemma DEF ActiveOf
    <2>4. a \in Chosen \cup {None}
      BY <1>5, <2>1 DEF Movable
    <2>5. Consistent(loc)
      BY <1>4, <1>7, <2>1, <2>3, <2>4 DEF Consistent
    <2> QED BY <2>1, <2>2, <2>3, <2>5
  <1>11. ASSUME WriteLocation(p, loc)
         PROVE  /\ Typed(dirs', used.moves) /\ stages' = stages
                /\ Inv => New(dirs', saved) /\ Record(dirs') = loc
    <2>1. PICK b \in Bootstrap : b = proc[p].boot
      BY <1>2
    <2>2. dirs' = [dirs EXCEPT ![b] = [Made(dirs[b]) EXCEPT !.location = loc]] /\ stages' = stages
      BY <1>11, <2>1 DEF WriteLocation
    <2>3. LET E == [dirs EXCEPT ![b] = [Made(dirs[b]) EXCEPT !.location = loc]] IN
          /\ Typed(E, used.moves) /\ E[b].there /\ E[b].location = loc
          /\ E[b].data = dirs[b].data /\ E[b].marker = dirs[b].marker
          /\ \A d \in Place \ {b} : E[d] = dirs[d]
      BY <1>7, <1>9, WriteLemma
    <2>4. Typed(dirs', used.moves) /\ (b = "default" => Written(dirs, dirs', loc))
      BY <2>2, <2>3 DEF Written
    <2>5. ASSUME Inv
          PROVE  New(dirs', saved) /\ Record(dirs') = loc
      <3>1. Written(dirs, dirs', loc) /\ dirs[ActiveOf(loc)].data = saved /\ loc.migration.phase # "copy"
        BY <1>4, <1>7, <1>10, <2>1, <2>4, <2>5
      <3> QED BY <1>7, <1>10, <2>5, <3>1, WrittenLemma
    <2> QED BY <2>2, <2>4, <2>5
  <1>12. CASE WriteLocation(p, loc) /\ Become(p, [x EXCEPT !.at = "cleanup"]) /\ Steady
    <2>1. PICK y : y = [x EXCEPT !.at = "cleanup"]
      OBVIOUS
    <2>2. y \in Task /\ y.at = "cleanup" /\ y.boot = proc[p].boot /\ y.loc = loc
      BY <1>9, <2>1 DEF Task, Moving
    <2>3. Sound(y, used.moves)
      BY <1>2, <1>4, <1>7, <1>9, <2>2 DEF Sound, Settled
    <2>4. ASSUME Inv
          PROVE  New(dirs', saved) /\ Fine(y, dirs', stages', saved, scene)
      <3>1. Emptied(y, dirs') /\ Copied(y, dirs', stages') /\ ~Copying(y)
        BY <2>2 DEF Emptied, Copied, Copying
      <3>2. New(dirs', saved) /\ Record(dirs') = loc /\ loc.migration.phase = "cleanup"
        BY <1>4, <1>7, <1>11, <1>12, <2>4
      <3> QED BY <1>10, <2>2, <2>4, <3>1, <3>2 DEF Fine, Moves, Settled
    <2>5. Become(p, y) /\ Typed(dirs', used.moves) /\ Staged(stages')
      BY <1>2, <1>11, <1>12, <2>1
    <2> QED BY <1>1, <1>12, <2>2, <2>3, <2>4, <2>5, MoveStep
  <1>13. CASE /\ WriteLocation(p, loc) \/ UNCHANGED disk
              /\ Become(p, Failed(x)) /\ Fault("switch")
    <2>1. PICK y : y = Failed(x)
      OBVIOUS
    <2>2. /\ y \in Task /\ y.at = "enter" /\ y.boot = proc[p].boot /\ y.loc = loc /\ y.active \in Place
          /\ y.active = IF loc.active = None THEN proc[p].boot ELSE loc.active
          /\ Sound(y, used.moves)
      BY <1>2, <1>4, <1>7, <1>9, <2>1, FailedLemma
    <2>3. Become(p, y) /\ \E s : Fault(s)
      BY <1>13, <2>1
    <2>4. Inv => y.active = Move(p).target /\ y.boot = "default"
      BY <1>10, <2>2 DEF ActiveOf
    <2>5. CASE WriteLocation(p, loc)
      <3>1. ASSUME Inv
            PROVE  New(dirs', saved) /\ Fine(y, dirs', stages', saved, scene)
        <4>1. New(dirs', saved) /\ Record(dirs') = loc
          BY <1>11, <2>5, <3>1
        <4>2. ActiveOf(loc) = y.active /\ y.active \in Movable
          BY <1>10, <2>4, <3>1
        <4>3. dirs'[y.active].data = saved
          BY <4>1, <4>2 DEF New
        <4> QED BY <2>2, <2>4, <3>1, <4>1, <4>2, <4>3 DEF Fine, Works, Moving
      <3>2. Typed(dirs', used.moves) /\ Staged(stages')
        BY <1>2, <1>11, <2>5
      <3> QED BY <1>1, <2>2, <2>3, <3>1, <3>2, MoveStep
    <2>6. CASE UNCHANGED disk
      <3>1. dirs' = dirs /\ stages' = stages
        BY <2>6 DEF disk
      <3>2. ASSUME Inv
            PROVE  Fine(y, dirs, stages, saved, scene)
        <4>1. scene.moves # 0 /\ Safe(scene) /\ "switch" \in scene.failing
          BY <1>1, <1>13, <3>2, MovingLemma DEF Inv, Fault, MayFail
        <4>2. scene.saves = 0
          BY <4>1 DEF Safe
        <4> QED BY <1>10, <2>2, <2>4, <3>2, <4>2 DEF Fine, Works, Moving
      <3>3. Inv => New(dirs, saved)
        BY <1>10
      <3> QED BY <1>1, <1>2, <2>2, <2>3, <3>1, <3>2, <3>3, MoveStep
    <2> QED BY <1>13, <2>5, <2>6
  <1> QED BY <1>3, <1>5, <1>6, <1>8, <1>12, <1>13 DEF Switch

-----------------------------------------------------------------------------
(* The user chooses another directory.                                     *)

\* The wish is recorded with the active directory as the source, and a target that is empty.
LEMMA ScheduleStep ==
  ASSUME TypeInv, NEW p \in Process, NEW target \in Place, Schedule(p, target)
  PROVE  TypeInv' /\ (Inv => Inv')
  <1>1. /\ proc[p] \in Task /\ Sound(proc[p], used.moves) /\ proc[p].at = "running"
        /\ proc[p].boot \in Bootstrap /\ proc[p].active \in Place
        /\ proc \in [Process -> Task] /\ wish \in Place /\ saved \in Files /\ Staged(stages)
        /\ used \in [saves : Nat, moves : Nat, faults : Nat, crashes : Nat] /\ scene.moves \in Nat
        /\ used.moves < scene.moves
    BY DataDirectoryAssumption DEF TypeInv, Bounded, Schedule, At, Sound, Settled
  <1>2. PICK n \in Nat : n = used.moves + 1
    BY <1>1
  <1>3. n # 0 /\ used.moves <= n /\ n <= scene.moves /\ used.moves \in Nat
    BY <1>1, <1>2
  <1>4. PICK b \in Bootstrap, active \in Place : b = proc[p].boot /\ active = proc[p].active
    BY <1>1
  <1>5. PICK folder \in {dirs[target], Made(dirs[target])} :
          folder = IF target \in Chosen THEN Made(dirs[target]) ELSE dirs[target]
    OBVIOUS
  <1>6. PICK m : m = [id |-> n, source |-> active, target |-> target, phase |-> "copy"]
    OBVIOUS
  <1>7. /\ m \in Migration /\ m.id = n /\ m.source = active /\ m.target = target /\ m.phase = "copy"
    BY <1>3, <1>6 DEF Migration
  <1>8. PICK a \in Place \cup {None} : a = IF active = "default" THEN None ELSE active
    OBVIOUS
  <1>9. PICK loc : loc = [Recorded(b) EXCEPT !.active = a, !.migration = m]
    OBVIOUS
  <1>10. loc \in Location /\ loc.active = a /\ loc.migration = m
    <2>1. Recorded(b) \in Location
      BY PlacesLemma, RecordedLemma
    <2> QED BY <1>7, <1>9, <2>1 DEF Location
  <1>11. PICK now : now = [dirs EXCEPT ![target] = folder]
    OBVIOUS
  <1>12. PICK E : E = [now EXCEPT ![b].location = loc]
    OBVIOUS
  <1>13. /\ Typed(now, n) /\ Typed(E, n)
         /\ \A e \in Place : /\ now[e].data = dirs[e].data /\ now[e].marker = dirs[e].marker
                             /\ now[e].location = dirs[e].location
                             /\ dirs[e].there => now[e].there
         /\ \A e \in Place \ {target} : now[e] = dirs[e]
         /\ \A e \in Place \ {b} : E[e] = now[e]
         /\ E[b].location = loc /\ E[b].data = now[b].data /\ E[b].marker = now[b].marker
         /\ E[b].there = now[b].there
    <2>1. /\ Typed(dirs, used.moves) /\ dirs[target] \in Directory /\ b \in Place
          /\ loc.migration.id <= n
      BY <1>3, <1>7, <1>10, PlacesLemma DEF TypeInv, Typed
    <2>2. /\ folder \in Directory /\ folder.location = dirs[target].location
          /\ folder.data = dirs[target].data /\ folder.marker = dirs[target].marker
          /\ dirs[target].there => folder.there
      BY <1>5, <2>1, MadeLemma
    <2>3. Typed(dirs, n)
      <3>1. \A l \in Location : l.migration.id \in Nat
        BY FreshLemma DEF Location, Migration
      <3>2. \A e \in Place : dirs[e].location # None => dirs[e].location.migration.id \in Nat
        BY <2>1, <3>1 DEF Typed, Directory
      <3> QED BY <1>3, <2>1, <3>2 DEF Typed
    <2>4. folder.location # None => target \in Bootstrap /\ folder.location.migration.id <= n
      BY <2>2, <2>3 DEF Typed
    <2>5. Typed(now, n) /\ now[target] = folder /\ \A e \in Place \ {target} : now[e] = dirs[e]
      <3>1. /\ Typed([dirs EXCEPT ![target] = folder], n)
            /\ [dirs EXCEPT ![target] = folder][target] = folder
            /\ \A e \in Place \ {target} : [dirs EXCEPT ![target] = folder][e] = dirs[e]
        BY <2>2, <2>3, <2>4, ReplaceLemma
      <3> QED BY <1>11, <3>1
    <2>6. PICK c : c = [now[b] EXCEPT !.location = loc]
      OBVIOUS
    <2>7. now[b] \in Directory
      BY <2>1, <2>5 DEF Typed
    <2>8. /\ c \in Directory /\ c.location = loc /\ c.data = now[b].data /\ c.marker = now[b].marker
          /\ c.there = now[b].there
      BY <1>10, <2>6, <2>7 DEF Directory
    <2>9. c.location # None => b \in Bootstrap /\ c.location.migration.id <= n
      BY <2>1, <2>8
    <2>10. /\ Typed([now EXCEPT ![b] = c], n) /\ [now EXCEPT ![b] = c][b] = c
           /\ \A e \in Place \ {b} : [now EXCEPT ![b] = c][e] = now[e]
      BY <2>1, <2>5, <2>8, <2>9, ReplaceLemma
    <2>11. E = [now EXCEPT ![b] = c]
      BY <1>12, <2>6
    <2>12. \A e \in Place : /\ now[e].data = dirs[e].data /\ now[e].marker = dirs[e].marker
                             /\ now[e].location = dirs[e].location /\ (dirs[e].there => now[e].there)
      BY <2>2, <2>5
    <2> QED BY <2>5, <2>8, <2>10, <2>11, <2>12
  <1>14. target # active /\ Vacant(folder, target = b) /\ UNCHANGED <<stages, saved, scene>>
    BY <1>4, <1>5 DEF Schedule
  <1>15. \/ /\ dirs' = E /\ wish' = target /\ used' = [used EXCEPT !.moves = n]
            /\ Become(p, To(p, "quitting"))
         \/ /\ dirs' \in {now, E} /\ UNCHANGED <<proc, wish>>
            /\ used' = [used EXCEPT !.moves = n, !.faults = @ + 1]
    BY <1>1, <1>2, <1>4, <1>5, <1>6, <1>8, <1>9, <1>11, <1>12 DEF Schedule
  <1>16. wish' \in Place /\ dirs' \in {now, E}
    BY <1>1, <1>15
  <1>17. used'.moves = n /\ Bounded(used')
    <2>1. CASE used' = [used EXCEPT !.moves = n]
      BY <1>1, <1>3, <1>14, <2>1 DEF Bounded
    <2>2. CASE used' = [used EXCEPT !.moves = n, !.faults = @ + 1]
      <3>1. PICK k \in Nat : k = used.faults + 1
        BY <1>1
      <3>2. used' = [used EXCEPT !.moves = n, !.faults = k]
        BY <2>2, <3>1
      <3> QED BY <1>1, <1>3, <1>14, <3>2 DEF Bounded
    <2> QED BY <1>15, <2>1, <2>2
  <1>18. PICK x : x \in {proc[p], To(p, "quitting")} /\ Become(p, x)
    BY <1>1, <1>15 DEF Become
  <1>19. /\ x \in Task /\ x.at \in {"running", "quitting"} /\ x.boot = b /\ x.active = active
         /\ x.loc = proc[p].loc
    <2>1. "quitting" \in {"off", "inspect", "rename", "read"} \cup Moving \cup Settled
      BY DEF Settled
    <2>2. PICK y : y = To(p, "quitting")
      OBVIOUS
    <2>3. /\ y \in Task /\ y.at = "quitting" /\ y.boot = b /\ y.active = active /\ y.loc = proc[p].loc
      BY <1>1, <1>4, <2>1, <2>2, AtLemma DEF To
    <2> QED BY <1>1, <1>4, <1>18, <2>2, <2>3
  <1>20. Sound(x, used'.moves)
    <2>1. proc[p].loc.migration.id \in Nat /\ proc[p].loc.migration.id <= used.moves
      BY <1>1, FreshLemma DEF Sound, Task, Location, Migration
    <2>2. x.loc.migration.id <= n
      BY <1>3, <1>19, <2>1
    <2>3. x.at \notin Moving /\ x.at # "clear" /\ x.at # "copy"
      BY <1>19 DEF Moving
    <2> QED BY <1>4, <1>17, <1>19, <2>2, <2>3 DEF Sound
  <1>21. TypeInv'
    <2>1. used.moves <= used'.moves /\ Typed(dirs', used'.moves)
      BY <1>3, <1>13, <1>16, <1>17
    <2>2. Staged(stages') /\ saved' \in Files /\ scene' = scene
      BY <1>1, <1>14
    <2> QED BY <1>16, <1>17, <1>18, <1>19, <1>20, <2>1, <2>2, TypeLemma
  <1>22. ASSUME Inv
         PROVE  Inv'
    <2>1. scene.moves # 0 /\ p \in scene.processes
      BY <1>1, <1>22 DEF Inv, At
    <2>2. Works(proc[p], dirs, saved, scene)
      BY <1>1, <1>22 DEF Inv, Fine, Settled
    <2>3. /\ b = "default" /\ New(dirs, saved) /\ active \in Movable /\ dirs[active].data = saved
          /\ (scene.saves # 0 => active = ActiveOf(Record(dirs)))
      BY <1>4, <2>1, <2>2 DEF Works
    <2>4. target # "legacy"
      <3>1. ASSUME target = "legacy"
            PROVE  FALSE
        <4>1. folder = Missing
          BY <1>5, <2>3, <3>1, DataDirectoryAssumption DEF New
        <4> QED BY <1>14, <4>1, MissingLemma DEF Vacant
      <3> QED BY <3>1
    <2>5. target \in Movable
      BY <2>4, PlacesLemma
    <2>6. now[target] = folder /\ folder.marker = 0
      <3>1. now[target] = folder /\ folder \in Directory
        BY <1>11, <1>13 DEF TypeInv, Typed
      <3>2. "marker" \notin Entries(folder)
        BY <1>14 DEF Vacant
      <3> QED BY <3>1, <3>2, EntriesLemma
    <2>7. New(now, saved) /\ Record(now) = Record(dirs)
      <3>1. now["legacy"] = dirs["legacy"]
        BY <1>13, <2>4, PlacesLemma
      <3>2. Alike(dirs, now)
        BY <1>13, <3>1, PlacesLemma DEF Alike
      <3> QED BY <2>3, <3>2, AlikeNew
    <2>8. ActiveOf(loc) = active
      BY <1>8, <1>10, DataDirectoryAssumption, PlacesLemma DEF ActiveOf
    <2>9. Consistent(loc)
      <3>1. a \in Chosen \cup {None}
        BY <1>8, <2>3 DEF Movable
      <3> QED BY <1>7, <1>10, <1>14, <2>3, <2>5, <2>8, <3>1 DEF Consistent
    <2>10. New(E, saved) /\ Record(E) = loc
      <3>1. Written(now, E, loc)
        <4>1. now["default"].there
          BY <2>7 DEF New
        <4> QED BY <1>13, <2>3, <4>1 DEF Written
      <3>2. now[ActiveOf(loc)].data = saved
        BY <1>13, <2>3, <2>8
      <3>3. now[loc.migration.target].marker # loc.migration.id
        BY <1>3, <1>7, <1>10, <2>6
      <3> QED BY <1>10, <2>7, <2>9, <3>1, <3>2, <3>3, WrittenLemma
    <2>11. ASSUME NEW D \in {now, E}
           PROVE  New(D, saved) /\ Fine(x, D, stages', saved, scene)
      <3>1. New(D, saved) /\ D[active].data = saved /\ (scene.saves # 0 => active = ActiveOf(Record(D)))
        <4>1. now[active].data = saved
          BY <1>13, <2>3
        <4>2. E[active].data = saved
          BY <2>8, <2>10 DEF New
        <4>3. CASE D = now
          BY <2>3, <2>7, <4>1, <4>3
        <4>4. CASE D = E
          BY <2>8, <2>10, <4>2, <4>4
        <4> QED BY <4>3, <4>4
      <3>2. Works(x, D, saved, scene)
        BY <1>19, <2>3, <3>1 DEF Works
      <3> QED BY <1>19, <3>1, <3>2 DEF Fine, Moving
    <2>12. New(dirs', saved') /\ Fine(x, dirs', stages', saved', scene)
      BY <1>14, <1>16, <2>11
    <2> QED BY <1>14, <1>18, <1>21, <1>22, <2>1, <2>12, BesideLemma
  <1> QED BY <1>21, <1>22
-----------------------------------------------------------------------------
(* The theorems.                                                           *)

\* At first everything is in one directory, and the bootstrap says which.
LEMMA InitLemma ==
  ASSUME Init
  PROVE  TypeInv /\ (Safe(scene) => Inv)
  <1>1. /\ scene \in Scenarios /\ saved \in [File -> {0, 1}] /\ scene.homes \subseteq Place
        /\ scene.moves \in Nat /\ proc = [p \in Process |-> Off]
    BY DataDirectoryAssumption DEF Init
  <1>2. PICK home \in scene.homes :
          LET full == [Empty EXCEPT !.data = saved]
          IN /\ wish = home
             /\ dirs = [d \in Place |->
                  IF d = home THEN full
                  ELSE IF d = "default" /\ home \in Chosen
                    THEN [Empty EXCEPT !.location = [Fresh EXCEPT !.active = home]]
                  ELSE IF d \in Chosen THEN Empty ELSE Missing]
    BY DEF Init
  <1>3. home \in Place /\ saved \in Files
    BY <1>1 DEF Files
  <1>4. PICK full : full = [Empty EXCEPT !.data = saved]
    OBVIOUS
  <1>5. full \in Directory /\ full.data = saved /\ full.location = None /\ full.marker = 0 /\ full.there
    BY <1>3, <1>4, MissingLemma DEF Directory
  <1>6. PICK at : at = [Fresh EXCEPT !.active = home]
    OBVIOUS
  <1>7. at \in Location /\ at.active = home /\ at.migration = NoMove
    BY <1>3, <1>6, FreshLemma DEF Location
  <1>8. PICK boot : boot = [Empty EXCEPT !.location = at]
    OBVIOUS
  <1>9. boot \in Directory /\ boot.location = at /\ boot.there
    BY <1>7, <1>8, MissingLemma DEF Directory
  <1>10. dirs = [d \in Place |->
                  IF d = home THEN full
                  ELSE IF d = "default" /\ home \in Chosen THEN boot
                  ELSE IF d \in Chosen THEN Empty ELSE Missing]
    BY <1>2, <1>4, <1>6, <1>8
  <1>11. Typed(dirs, 0)
    <2>1. dirs \in [Place -> Directory]
      BY <1>5, <1>9, <1>10, MissingLemma
    <2>2. \A d \in Place : d \notin Bootstrap => dirs[d].location = None
      BY <1>5, <1>10, PlacesLemma, MissingLemma
    <2>3. \A d \in Place : dirs[d].location # None => dirs[d].location.migration.id <= 0
      BY <1>5, <1>7, <1>9, <1>10, MissingLemma, FreshLemma
    <2> QED BY <2>1, <2>2, <2>3 DEF Typed
  <1>12. Staged(stages)
    BY MissingLemma DEF Init, Staged
  <1>13. used.moves = 0 /\ Bounded(used)
    BY <1>1 DEF Init, Bounded
  <1>14. proc \in [Process -> Task] /\ \A p \in Process : proc[p].at = "off" /\ Sound(proc[p], used.moves)
    <2>1. PICK y : y = [Off EXCEPT !.at = "off"]
      OBVIOUS
    <2>2. y = Off /\ Sound(y, 0) /\ Off \in Task /\ Off.at = "off"
      BY <2>1, OffLemma
    <2> QED BY <1>1, <1>13, <2>2
  <1>15. TypeInv
    BY <1>1, <1>2, <1>3, <1>11, <1>12, <1>13, <1>14 DEF TypeInv
  <1>16. ASSUME Safe(scene)
         PROVE  Inv
    <2>1. \A p \in Process : Fine(proc[p], dirs, stages, saved, scene)
      BY <1>14 DEF Fine, Moving, Settled
    <2>2. CASE home = "legacy"
      <3>1. dirs["legacy"] = full /\ dirs["default"] = Missing
        BY <1>10, <2>2, DataDirectoryAssumption, PlacesLemma
      <3>2. Old(dirs, saved)
        BY <1>5, <3>1 DEF Old
      <3>3. \A p, q \in scene.processes : p = q
        BY <1>16, <2>2 DEF Safe
      <3> QED BY <1>14, <1>15, <1>16, <2>1, <3>2, <3>3 DEF Inv, Apart, At
    <2>3. CASE home # "legacy"
      <3>1. home \in Movable /\ dirs["legacy"] = Missing /\ dirs[home] = full
        BY <1>3, <1>10, <2>3, DataDirectoryAssumption, PlacesLemma
      <3>2. Record(dirs).migration = NoMove /\ Record(dirs).active = (IF home = "default" THEN None ELSE home)
            /\ dirs["default"].there
        <4>1. CASE home = "default"
          BY <1>5, <3>1, <4>1, FreshLemma DEF Record
        <4>2. CASE home # "default"
          <5>1. dirs["default"] = boot
            BY <1>10, <3>1, <4>2, PlacesLemma DEF Movable
          <5> QED BY <1>7, <1>9, <4>2, <5>1, NoneAssumption DEF Record
        <4> QED BY <4>1, <4>2
      <3>3. ActiveOf(Record(dirs)) = home
        BY <3>1, <3>2, PlacesLemma DEF ActiveOf
      <3>4. Consistent(Record(dirs)) /\ Record(dirs).migration.phase # "copy"
        BY <3>1, <3>2, FreshLemma DEF Consistent, Movable
      <3>5. New(dirs, saved)
        BY <1>5, <3>1, <3>2, <3>3, <3>4 DEF New
      <3>6. Apart
        BY <1>16, <3>5 DEF Safe, Apart
      <3> QED BY <1>14, <1>15, <1>16, <2>1, <3>5, <3>6 DEF Inv, At
    <2> QED BY <2>2, <2>3
  <1> QED BY <1>15, <1>16

\* Every step keeps the types and, where it holds, the invariant.
LEMMA NextLemma ==
  ASSUME TypeInv, [Next]_vars
  PROVE  TypeInv' /\ (Inv => Inv')
  <1>1. CASE UNCHANGED vars
    <2>1. dirs' = dirs /\ stages' = stages /\ UNCHANGED <<proc, saved, wish, used, scene>>
      BY <1>1 DEF vars, disk
    <2>2. TypeInv'
      BY <2>1 DEF TypeInv, Typed, Staged, Id, Bounded
    <2> QED BY <2>1, <2>2 DEF Inv, Apart, At
  <1>2. ASSUME NEW p \in Process, Launch(p) \/ Quit(p) \/ Crash(p)
        PROVE  TypeInv' /\ (Inv => Inv')
    BY <1>2, LaunchStep, EndStep
  <1>3. ASSUME NEW p \in Process, Start(p)
        PROVE  TypeInv' /\ (Inv => Inv')
    <2>1. CASE Inspect(p) \/ RenameLegacy(p) \/ ReadLocation(p)
      BY <2>1, InspectStep, RenameStep, ReadStep
    <2>2. CASE PrepareTarget(p) \/ RemoveEntry(p) \/ Cleared(p)
      BY <2>2, PrepareStep, RemoveStep, ClearedStep
    <2>3. CASE MakeStage(p) \/ CopyFile(p) \/ MarkStage(p)
      BY <2>3, MakeStageStep, CopyStep, MarkStep
    <2>4. CASE PlaceStage(p) \/ MoveEntry(p) \/ Activate(p) \/ Recheck(p)
      BY <2>4, PlaceStep, MoveEntryStep, ActivateStep, RecheckStep
    <2>5. CASE Switch(p) \/ Cleanup(p) \/ Unmark(p) \/ Done(p)
      BY <2>5, SwitchStep, CleanupStep, UnmarkStep, DoneStep
    <2>6. CASE DropStage(p) \/ Recreate(p) \/ Forget(p) \/ Lock(p)
      BY <2>6, DropStep, RecreateStep, ForgetStep, LockStep
    <2> QED BY <1>3, <2>1, <2>2, <2>3, <2>4, <2>5, <2>6 DEF Start
  <1>4. ASSUME NEW p \in Process, NEW f \in File, Save(p, f)
        PROVE  TypeInv' /\ (Inv => Inv')
    BY <1>4, SaveStep
  <1>5. ASSUME NEW p \in Process, NEW d \in Place, Schedule(p, d)
        PROVE  TypeInv' /\ (Inv => Inv')
    BY <1>5, ScheduleStep
  <1> QED BY <1>1, <1>2, <1>3, <1>4, <1>5 DEF Next

\* The types are kept whatever fails, crashes or runs at the same time.
LEMMA TypeInvariant == Spec => []TypeInv
  <1>1. Init => TypeInv
    BY InitLemma
  <1>2. TypeInv /\ [Next]_vars => TypeInv'
    BY NextLemma
  <1> QED BY <1>1, <1>2, PTL DEF Spec

\* Whatever fails, crashes or runs at the same time: every directory, stage and process has a state
\* the code knows, data_location.toml is in a bootstrap only - copy_tree and the stage never take it
\* along -, and no process knows of a move that was not scheduled.
THEOREM TypeCorrect == Spec => []TypeOK
  <1>1. TypeInv => TypeOK
    <2>1. TypeInv => \A p \in Process :
            /\ proc[p].boot \in Bootstrap \cup {None}
            /\ proc[p].active \in Place \cup {None}
            /\ proc[p].loc \in Location
            /\ proc[p].loc.migration.id <= used.moves
            /\ proc[p].left \subseteq File \cup {"marker", "location"}
      BY DEF TypeInv, Sound, Task
    <2> QED BY <2>1 DEF TypeInv, TypeOK, Typed, Staged
  <1> QED BY <1>1, TypeInvariant, PTL

\* What the invariant says of the next start.
LEMMA HomeLemma ==
  ASSUME Inv
  PROVE  NothingLost
  <1>1. CASE Old(dirs, saved)
    <2>1. NextBoot = "legacy"
      BY <1>1, MissingLemma DEF Old, NextBoot
    <2>2. Recorded(NextBoot) = Fresh
      BY <1>1, <2>1 DEF Old, Recorded
    <2>3. Home = "legacy"
      BY <2>1, <2>2, FreshLemma DEF Home
    <2> QED BY <1>1, <2>3 DEF Old, NothingLost
  <1>2. CASE New(dirs, saved)
    <2>1. NextBoot = "default"
      BY <1>2 DEF New, NextBoot
    <2>2. PICK loc : loc = Recorded(NextBoot)
      OBVIOUS
    <2>3. loc = Record(dirs) /\ loc \in Location
      BY <2>1, <2>2, PlacesLemma, RecordedLemma DEF Inv, Recorded, Record
    <2>4. Consistent(loc) /\ dirs[ActiveOf(loc)].data = saved
      BY <1>2, <2>3 DEF New
    <2>5. loc.migration.phase \in {"none", "copy", "cleanup"}
      BY <2>3, FreshLemma DEF Location, Migration
    <2>6. Home = ActiveOf(loc)
      BY <2>1, <2>2, <2>4, <2>5 DEF Home, Consistent, ActiveOf
    <2> QED BY <2>4, <2>6 DEF NothingLost
  <1> QED BY <1>1, <1>2 DEF Inv

\* resume_data_migration loses no file: wherever a start was interrupted, and whichever of its
\* operations failed, the directory the next start would take for the active one, read from the
\* location file as initialize_standard_runtime reads it, has every file as it was saved last. Safe names
\* what must not come together: each of the three loses a file, as the small instances at the end of
\* MCDataDirectory show.
THEOREM FilesKept == Spec /\ Safe(scene) => []NothingLost
  <1>1. Init /\ Safe(scene) => Inv
    BY InitLemma
  <1>2. Inv /\ [Next]_vars => Inv'
    BY NextLemma DEF Inv
  <1> QED BY <1>1, <1>2, HomeLemma, PTL DEF Spec

=============================================================================
