--------------------- MODULE DataDirectoryMovesProofs ---------------------
(* Where nothing fails, every move of the data directory is settled before  *)
(* the application runs: for any number of processes, files, moves, crashes. *)
EXTENDS DataDirectoryProofs

-----------------------------------------------------------------------------
(* The invariant.  D and T are the directories and the stages, W is the      *)
(* directory the user chose last, c the number of crashes, m the move that   *)
(* is recorded, x the state of a process.                                    *)

\* Nothing is in a directory, or in a stage.
Bare(d) == d.marker = 0 /\ \A f \in File : d.data[f] = 0

\* The target of a move holds whatever the source holds, and its marker.
Complete(D, m) == D[m.target].marker = m.id /\ Covers(D[m.source], D[m.target])

\* The directories that may hold something.
InUse(loc) ==
  LET m == loc.migration IN
  IF m.phase = "none" THEN {ActiveOf(loc)} ELSE {m.source, m.target}

\* The user chose directory d; that of older releases has become the default one.
Wished(d, W) == d = W \/ (W = "legacy" /\ d = "default")

\* A move m that has been asked for: only the default directory, as a target, can
\* be half filled; with everything there, nothing is left in the stage.
Begun(D, T, W, m) ==
  /\ W = m.target
  /\ D[m.source].there /\ D[m.source].marker = 0
  /\ m.target # "default" => Bare(D[m.target]) \/ Complete(D, m)
  /\ Complete(D, m) => Bare(T[m.id])

\* What a start finds, the user having chosen W and starts having ended c times
\* too early.
Tidy(D, T, W, c) ==
  LET loc == Record(D)
      m == loc.migration
  IN /\ \A i \in Id : m.phase # "copy" \/ i # m.id => Bare(T[i])
     /\ \A d \in Movable \ InUse(loc) : Bare(D[d])
     /\ m.phase = "none" =>
          D[ActiveOf(loc)].marker = 0 /\ (c = 0 => Wished(ActiveOf(loc), W))
     /\ m.phase = "copy" => Begun(D, T, W, m)
     /\ m.phase = "cleanup" => W = m.target

\* Nothing chosen, nothing moved.
TidyOld(D, T, W) ==
  /\ W = "legacy" /\ D["legacy"].marker = 0
  /\ \A d \in Chosen : Bare(D[d])
  /\ \A i \in Id : Bare(T[i])

\* Where a process is on its way to the stage, with the stage filled, and with
\* the stage to be put in the target's place.
Filling(x) ==
  \/ x.at \in {"stage", "copy", "place"}
  \/ x.at = "clear" /\ x.then \in {"stage", "move"}
Filled(x) ==
  \/ x.at \in {"place", "activate"}
  \/ x.at = "clear" /\ x.then = "move"

\* How far a start has come with move m.
Sweeps(x, D, m) ==
  x.at = "clear" =>
    /\ x.left = Entries(D[x.on]) \ (IF x.on = "default" THEN {"location"} ELSE {})
    /\ x.then = "unmark" \/ (x.then \in {"stage", "move"} /\ m.target = "default")

Fills(x, D, T, m) ==
  /\ Filling(x) => IF m.target = "default" THEN ~Complete(D, m) ELSE D[m.target] = Empty
  /\ x.at = "copy" =>
       /\ T[m.id].there /\ x.left \subseteq Entries(D[m.source])
       /\ \A f \in File \ x.left : D[m.source].data[f] # 0 => T[m.id].data[f] = D[m.source].data[f]
  /\ Filled(x) => T[m.id].there /\ T[m.id].marker = m.id /\ Covers(D[m.source], T[m.id])
  /\ x.at = "activate" => D[m.target] = Missing

\* Entry by entry, everything is in the target or still in the stage.
Empties(x, D, T, m) ==
  x.at = "move" =>
    /\ m.target = "default" /\ T[m.id].there
    /\ \/ D[m.target].marker = m.id /\ T[m.id].marker = 0
       \/ D[m.target].marker = 0 /\ T[m.id].marker = m.id
    /\ \A f \in File : D[m.source].data[f] # 0 =>
         \/ D[m.target].data[f] = D[m.source].data[f] /\ T[m.id].data[f] = 0
         \/ D[m.target].data[f] = 0 /\ T[m.id].data[f] = D[m.source].data[f]

\* What is over; a move is given up only after a crash, with nothing in its target.
Ends(x, D, T, m, c) ==
  /\ x.at = "recheck" => Complete(D, m)
  /\ x.at = "switch" => Bare(T[m.id])
  /\ x.at \in {"unmark", "done"} => Bare(D[m.source])
  /\ x.at = "done" => D[m.target].marker = 0
  /\ x.at \in {"drop", "forget"} => c # 0 /\ Bare(D[m.target])
  /\ x.at = "forget" => Bare(T[m.id])
  /\ x.at # "recreate"

\* The directory the user chose is there, unless a start ended where it is not.
Stands(x, D, m, c) ==
  m.phase = "copy" /\ m.target # "default" /\ x.at # "activate" => D[m.target].there \/ c # 0

\* The place of a process and the disk fit.
Orderly(x, D, T, c) ==
  LET m == Record(D).migration IN
  /\ x.at \in {"inspect", "rename", "read", "prepare"} => ~x.warned
  /\ x.at \notin {"off", "inspect", "rename"} => x.boot = "default"
  /\ x.at \in {"enter", "running"} => m.phase = "none" /\ x.active = ActiveOf(Record(D))
  /\ x.at = "running" => D[x.active].there
  /\ Stands(x, D, m, c)
  /\ x.at \in Moving =>
       Sweeps(x, D, m) /\ Fills(x, D, T, m) /\ Empties(x, D, T, m) /\ Ends(x, D, T, m, c)

\* As long as nothing failed: the disk is as one of the two says, and every process has come as far
\* as its place says.
Settles ==
  used.faults = 0 =>
    /\ Old(dirs, saved) => TidyOld(dirs, stages, wish)
    /\ New(dirs, saved) => Tidy(dirs, stages, wish, used.crashes)
    /\ \A p \in scene.processes : Orderly(proc[p], dirs, stages, used.crashes)

-----------------------------------------------------------------------------
(* What is common to the steps.                                            *)

\* A step with which nothing has failed yet.
Calm == Inv /\ Inv' /\ Settles /\ used.faults = 0 /\ used'.faults = 0

\* A directory with nothing in it.
LEMMA BareLemma ==
  ASSUME NEW d \in Directory
  PROVE  /\ Bare(d) <=> Entries(d) \subseteq {"location"}
         /\ Bare(d) /\ d.location = None => d = IF d.there THEN Empty ELSE Missing
         /\ Bare(Missing) /\ Bare(Empty)
  <1>1. Bare(d) <=> Entries(d) \subseteq {"location"}
    <2>1. "marker" # "location" /\ "location" \notin File
      BY DataDirectoryAssumption
    <2> QED BY <2>1, EntriesLemma DEF Bare
  <1>2. ASSUME Bare(d), d.location = None
        PROVE  d = IF d.there THEN Empty ELSE Missing
    <2>1. ASSUME NEW e \in Directory, Bare(e), e.location = None, e.there <=> d.there
          PROVE  d = e
      <3>1. \A f \in File : d.data[f] = e.data[f]
        BY <1>2, <2>1 DEF Bare
      <3>2. d.data = e.data
        BY <3>1 DEF Directory, Files
      <3>3. d.marker = e.marker /\ d.location = e.location
        BY <1>2, <2>1 DEF Bare
      <3>4. d.there = e.there
        BY <2>1 DEF Directory
      <3> QED BY <3>2, <3>3, <3>4 DEF Directory
    <2> QED BY <2>1, MissingLemma DEF Bare
  <1>3. Bare(Missing) /\ Bare(Empty)
    BY MissingLemma DEF Bare
  <1> QED BY <1>1, <1>2, <1>3

\* Nothing fails, then.
LEMMA CalmLemma ==
  ASSUME Calm
  PROVE  /\ \A s : ~Fault(s)
         /\ used \in [saves : Nat, moves : Nat, faults : Nat, crashes : Nat] /\ used.crashes \in Nat
         /\ TypeInv /\ TypeInv'
  <1>1. used \in [saves : Nat, moves : Nat, faults : Nat, crashes : Nat] /\ TypeInv /\ TypeInv'
    BY DEF Calm, Inv, TypeInv, Bounded
  <1>2. ASSUME NEW s, Fault(s)
        PROVE  FALSE
    <2>1. used' = [used EXCEPT !.faults = @ + 1]
      BY <1>2 DEF Fault
    <2>2. used'.faults = used.faults + 1
      BY <1>1, <2>1
    <2> QED BY <2>2 DEF Calm
  <1> QED BY <1>1, <1>2

\* A process that moves files is alone.
LEMMA OnlyLemma ==
  ASSUME Inv, NEW p \in Process, proc[p].at \in Moving
  PROVE  scene.processes = {p}
  <1>1. scene.moves # 0 /\ p \in scene.processes
    BY MovingLemma DEF Inv, At, Moving
  <1> QED BY <1>1 DEF Inv, Apart

\* What the invariant says of it and its move.
LEMMA OrderLemma ==
  ASSUME Calm, NEW p \in Process, proc[p].at \in Moving
  PROVE  /\ Move(p) = Record(dirs).migration /\ New(dirs, saved) /\ proc[p].boot = "default"
         /\ Tidy(dirs, stages, wish, used.crashes)
         /\ Orderly(proc[p], dirs, stages, used.crashes)
         /\ Stands(proc[p], dirs, Move(p), used.crashes)
         /\ Sweeps(proc[p], dirs, Move(p)) /\ Fills(proc[p], dirs, stages, Move(p))
         /\ Empties(proc[p], dirs, stages, Move(p))
         /\ Ends(proc[p], dirs, stages, Move(p), used.crashes)
         /\ Move(p).phase = "copy" => Begun(dirs, stages, wish, Move(p))
         /\ Move(p).phase = "cleanup" => wish = Move(p).target
         /\ Move(p).phase \in {"copy", "cleanup"}
         /\ InUse(Record(dirs)) = {Move(p).source, Move(p).target}
  <1>1. /\ Move(p) = Record(dirs).migration /\ New(dirs, saved) /\ proc[p].boot = "default"
        /\ Move(p) \in Migration
    BY MovesLemma, MovingLemma DEF Calm, Inv, Move
  <1>2. Move(p).phase \in {"copy", "cleanup"}
    BY <1>1 DEF Migration
  <1>3. p \in scene.processes
    BY OnlyLemma DEF Calm
  <1>4. Tidy(dirs, stages, wish, used.crashes) /\ Orderly(proc[p], dirs, stages, used.crashes)
    BY <1>1, <1>3 DEF Calm, Settles
  <1> QED BY <1>1, <1>2, <1>4 DEF Tidy, Orderly, InUse

\* It goes on with its move.
LEMMA OnwardLemma ==
  ASSUME Calm, NEW p \in Process, proc[p].at \in Moving, Steady, NEW x, Become(p, x),
         x.at \in Moving \ {"prepare"}, x.boot = "default",
         Record(dirs') = Record(dirs),
         \A d \in Movable \ {Move(p).source, Move(p).target} : dirs'[d] = dirs[d],
         \A i \in Id : (Move(p).phase = "copy" => i # Move(p).id) => stages'[i] = stages[i],
         Move(p).phase = "copy" =>
           Begun(dirs', stages', wish, Move(p)) /\ Stands(x, dirs', Move(p), used.crashes),
         Sweeps(x, dirs', Move(p)), Fills(x, dirs', stages', Move(p)),
         Empties(x, dirs', stages', Move(p)), Ends(x, dirs', stages', Move(p), used.crashes)
  PROVE  Settles'
  <1>1. UNCHANGED <<used, saved, wish, scene>>
    BY DEF Steady, Quiet
  <1>2. proc'[p] = x /\ Id' = Id
    BY <1>1, CalmLemma DEF Become, TypeInv, Id
  <1>3. scene'.processes = {p}
    BY <1>1, OnlyLemma DEF Calm
  <1>4. ~Old(dirs', saved')
    <2>1. New(dirs', saved')
      BY <1>2, <1>3 DEF Calm, Inv, Fine, Moves
    <2> QED BY <2>1, MissingLemma DEF Old, New
  <1>5. Tidy(dirs', stages', wish, used.crashes)
    <2>1. /\ Move(p) = Record(dirs').migration /\ Tidy(dirs, stages, wish, used.crashes)
          /\ Move(p).phase = "cleanup" => wish = Move(p).target
          /\ Move(p).phase \in {"copy", "cleanup"}
          /\ InUse(Record(dirs)) = {Move(p).source, Move(p).target}
      BY OrderLemma
    <2>2. \A i \in Id : Move(p).phase # "copy" \/ i # Move(p).id => Bare(stages'[i])
      BY <2>1 DEF Tidy
    <2>3. \A d \in Movable \ InUse(Record(dirs')) : Bare(dirs'[d])
      BY <2>1 DEF Tidy
    <2> QED BY <2>1, <2>2, <2>3 DEF Tidy
  <1>6. Orderly(x, dirs', stages', used.crashes)
    <2>1. /\ Move(p) = Record(dirs').migration
          /\ Move(p).phase # "copy" => Stands(x, dirs', Move(p), used.crashes)
      BY OrderLemma DEF Stands
    <2>2. x.at \notin {"inspect", "rename", "read", "prepare", "enter", "running"}
      BY DEF Moving
    <2> QED BY <2>1, <2>2 DEF Orderly
  <1> QED BY <1>1, <1>2, <1>3, <1>4, <1>5, <1>6 DEF Settles, Tidy, Orderly, Fills, Empties, Ends, Begun

-----------------------------------------------------------------------------
(* A start before it moves files, and the application at work.             *)

\* A step that only looks.
LEMMA LookLemma ==
  ASSUME Calm, NEW p \in scene.processes, NEW x, Become(p, x), UNCHANGED <<disk, saved, wish, scene>>,
         used.crashes # 0 => used'.crashes # 0, used'.moves = used.moves,
         Orderly(x, dirs, stages, used'.crashes)
  PROVE  Settles'
  <1>1. /\ dirs' = dirs /\ stages' = stages /\ saved' = saved /\ wish' = wish /\ scene' = scene
        /\ proc \in [Process -> Task] /\ Id' = Id
    BY CalmLemma DEF disk, TypeInv, Id
  <1>2. /\ Old(dirs, saved) => TidyOld(dirs, stages, wish)
        /\ New(dirs, saved) => Tidy(dirs, stages, wish, used.crashes)
        /\ \A q \in scene.processes : Orderly(proc[q], dirs, stages, used.crashes)
    BY DEF Calm, Settles
  <1>3. New(dirs, saved) => Tidy(dirs, stages, wish, used'.crashes)
    BY <1>2 DEF Tidy
  <1>4. \A y : Orderly(y, dirs, stages, used.crashes) => Orderly(y, dirs, stages, used'.crashes)
    <2>1. \A y, m : Stands(y, dirs, m, used.crashes) => Stands(y, dirs, m, used'.crashes)
      BY DEF Stands
    <2>2. \A y, m : Ends(y, dirs, stages, m, used.crashes) => Ends(y, dirs, stages, m, used'.crashes)
      BY DEF Ends
    <2> QED BY <2>1, <2>2 DEF Orderly
  <1>5. \A q \in scene.processes : Orderly(proc'[q], dirs, stages, used'.crashes)
    BY <1>1, <1>2, <1>4 DEF Become
  <1>6. New(dirs, saved) => Tidy(dirs, stages, wish, used.crashes)'
    BY <1>1, <1>3 DEF Tidy
  <1>7. Old(dirs, saved) => TidyOld(dirs, stages, wish)'
    BY <1>1, <1>2 DEF TidyOld
  <1> QED BY <1>1, <1>5, <1>6, <1>7 DEF Settles

\* What is asked of a process that does not move files.
LEMMA ElsewhereOrderly ==
  ASSUME NEW x, NEW D, NEW T, NEW c, x.at \notin Moving \cup {"enter", "running"},
         x.at = "read" => x.boot = "default", x.at \in {"inspect", "rename", "read"} => ~x.warned,
         x.at \notin {"off", "inspect", "rename"} => x.boot = "default",
         Stands(x, D, Record(D).migration, c)
  PROVE  Orderly(x, D, T, c)
  BY DEF Orderly, Moving

\* A start begins, and the application or a start ends.
LEMMA LaunchSettles ==
  ASSUME Calm, NEW p \in Process, Launch(p) \/ Quit(p) \/ Crash(p)
  PROVE  Settles'
  <1>1. /\ proc[p] \in Task /\ p \in scene.processes /\ Orderly(proc[p], dirs, stages, used.crashes)
        /\ used \in [saves : Nat, moves : Nat, faults : Nat, crashes : Nat]
    <2>1. p \in scene.processes
      BY DEF Launch, Quit, Crash, At, Calm, Inv
    <2> QED BY <2>1, CalmLemma DEF TypeInv, Calm, Settles
  <1>2. UNCHANGED <<disk, saved, wish, scene>> /\ used'.moves = used.moves
    <2>1. CASE Launch(p) \/ Quit(p)
      BY <2>1 DEF Launch, Quit, Steady, Quiet
    <2>2. CASE Crash(p)
      BY <1>1, <2>2 DEF Crash, Quiet
    <2> QED BY <2>1, <2>2
  <1>3. PICK x : Become(p, x) /\ (x = Off \/ (x = [Off EXCEPT !.at = "inspect"] /\ At(p, "off")))
    BY DEF Launch, Quit, Crash
  <1>4. x.at \in {"off", "inspect"} /\ ~x.warned
    BY <1>3 DEF Off
  <1>5. /\ used.crashes # 0 => used'.crashes # 0
        /\ Stands(x, dirs, Record(dirs).migration, used'.crashes)
    <2>1. CASE Launch(p) \/ Quit(p)
      <3>1. used' = used /\ proc[p].at # "activate"
        BY <2>1 DEF Launch, Quit, Steady, At
      <3> QED BY <1>1, <1>4, <3>1 DEF Orderly, Stands
    <2>2. CASE Crash(p)
      <3>1. used' = [used EXCEPT !.crashes = @ + 1] /\ used.crashes \in Nat
        BY <1>1, <2>2 DEF Crash
      <3>2. used'.crashes = used.crashes + 1
        BY <1>1, <3>1
      <3>3. used'.crashes # 0
        BY <3>1, <3>2
      <3> QED BY <3>3 DEF Stands
    <2> QED BY <2>1, <2>2
  <1>6. Orderly(x, dirs, stages, used'.crashes)
    BY <1>4, <1>5, ElsewhereOrderly DEF Moving
  <1> QED BY <1>1, <1>2, <1>3, <1>5, <1>6, LookLemma

\* The bootstrap is found.
LEMMA InspectSettles ==
  ASSUME Calm, NEW p \in Process, Inspect(p)
  PROVE  Settles'
  <1>1. /\ proc[p] \in Task /\ p \in scene.processes /\ Orderly(proc[p], dirs, stages, used.crashes)
        /\ proc[p].at = "inspect"
    <2>1. p \in scene.processes /\ proc[p].at = "inspect"
      BY DEF Inspect, At, Calm, Inv
    <2> QED BY <2>1, CalmLemma DEF TypeInv, Calm, Settles
  <1>2. PICK x : Become(p, x) /\ x = IF dirs["default"] # Missing \/ dirs["legacy"] = Missing
                                       THEN [proc[p] EXCEPT !.at = "read", !.boot = "default"]
                                       ELSE To(p, "rename")
    BY DEF Inspect
  <1>3. /\ x.at \in {"read", "rename"} /\ (x.at = "read" => x.boot = "default")
        /\ x.warned = proc[p].warned
    BY <1>1, <1>2 DEF To, Task
  <1>4. ~x.warned /\ Stands(x, dirs, Record(dirs).migration, used.crashes)
    BY <1>1, <1>3 DEF Orderly, Stands
  <1>5. Orderly(x, dirs, stages, used.crashes)
    BY <1>3, <1>4, ElsewhereOrderly DEF Moving
  <1>6. UNCHANGED <<disk, saved, wish, scene, used>>
    BY DEF Inspect, Steady, Quiet
  <1> QED BY <1>1, <1>2, <1>5, <1>6, LookLemma

\* What the location says decides; with nothing to move the process knows where to work.
LEMMA ReadSettles ==
  ASSUME Calm, NEW p \in Process, ReadLocation(p)
  PROVE  Settles'
  <1>1. /\ proc[p] \in Task /\ p \in scene.processes /\ Orderly(proc[p], dirs, stages, used.crashes)
        /\ proc[p].at = "read" /\ Fine(proc[p], dirs, stages, saved, scene)
    <2>1. p \in scene.processes /\ proc[p].at = "read"
      BY DEF ReadLocation, At, Calm, Inv
    <2> QED BY <2>1, CalmLemma DEF TypeInv, Calm, Inv, Settles
  <1>2. proc[p].boot = "default" /\ ~proc[p].warned /\ New(dirs, saved)
    BY <1>1 DEF Orderly, Fine
  <1>3. /\ dirs["default"] \in Directory /\ dirs["default"].there /\ dirs = [d \in Place |-> dirs[d]]
        /\ "default" \in Place
    BY <1>2, CalmLemma, PlacesLemma DEF TypeInv, Typed, New
  <1>4. dirs' = dirs /\ stages' = stages
    <2>1. dirs' = [dirs EXCEPT !["default"] = Made(dirs["default"])] /\ stages' = stages
      BY <1>2 DEF ReadLocation
    <2> QED BY <1>3, <2>1, MadeSame
  <1>5. PICK loc : loc = Recorded("default")
    OBVIOUS
  <1>6. loc = Record(dirs) /\ loc \in Location
    BY <1>5, CalmLemma, PlacesLemma, RecordedLemma DEF Recorded, Record
  <1>7. PICK y : y = [proc[p] EXCEPT !.loc = loc]
    OBVIOUS
  <1>8. y \in Task /\ y.loc = loc /\ y.boot = "default" /\ ~y.warned
    BY <1>1, <1>2, <1>6, <1>7 DEF Task
  <1>9. PICK x : /\ Become(p, x)
                 /\ x = CASE loc.migration.phase = "none" -> Enter(y)
                          [] loc.migration.phase = "copy" -> [y EXCEPT !.at = "prepare"]
                          [] loc.migration.phase = "cleanup" -> [y EXCEPT !.at = "cleanup"]
    BY <1>2, <1>5, <1>7 DEF ReadLocation
  <1>10. loc.migration.phase \in {"none", "copy", "cleanup"}
    BY <1>6, FreshLemma DEF Location, Migration
  <1>11. Orderly(x, dirs, stages, used.crashes)
    <2>1. CASE loc.migration.phase = "none"
      <3>1. x = Enter(y)
        BY <1>9, <2>1
      <3>2. x.at = "enter" /\ x.boot = "default" /\ x.active = ActiveOf(loc)
        BY <1>8, <3>1, EnterLemma DEF ActiveOf, Bootstrap
      <3> QED BY <1>6, <2>1, <3>2 DEF Orderly, Stands, Moving
    <2>2. CASE loc.migration.phase # "none"
      <3>1. x.at \in {"prepare", "cleanup"} /\ x.boot = "default" /\ ~x.warned
        BY <1>8, <1>9, <1>10, <2>2 DEF Task
      <3>2. \A m : Sweeps(x, dirs, m) /\ Fills(x, dirs, stages, m) /\ Empties(x, dirs, stages, m)
                   /\ Ends(x, dirs, stages, m, used.crashes)
        BY <3>1 DEF Sweeps, Fills, Filling, Filled, Empties, Ends
      <3>3. Stands(x, dirs, Record(dirs).migration, used.crashes)
        BY <1>1, <3>1 DEF Orderly, Stands
      <3> QED BY <3>1, <3>2, <3>3 DEF Orderly
    <2> QED BY <2>1, <2>2
  <1>12. UNCHANGED <<disk, saved, wish, scene, used>>
    BY <1>4 DEF ReadLocation, Steady, Quiet, disk
  <1> QED BY <1>1, <1>9, <1>11, <1>12, LookLemma

\* The directory of older releases becomes the default one, which the user's wish for it now means.
LEMMA RenameSettles ==
  ASSUME Calm, NEW p \in Process, RenameLegacy(p)
  PROVE  Settles'
  <1>1. /\ proc[p] \in Task /\ p \in scene.processes /\ Orderly(proc[p], dirs, stages, used.crashes)
        /\ proc[p].at = "rename" /\ Old(dirs, saved)
    <2>1. p \in scene.processes /\ proc[p].at = "rename"
      BY DEF RenameLegacy, At, Calm, Inv
    <2> QED BY <2>1, CalmLemma DEF TypeInv, Calm, Inv, Fine, Settles
  <1>2. TidyOld(dirs, stages, wish) /\ scene.processes = {p}
    <2>1. ~New(dirs, saved)
      BY <1>1, OldNew DEF Calm
    <2> QED BY <1>1, <2>1 DEF Calm, Settles, Inv, Apart
  <1>3. dirs["legacy"] # Missing /\ dirs["default"] = Missing
    BY <1>1, MissingLemma DEF Old
  <1>4. /\ dirs' = [dirs EXCEPT !["default"] = dirs["legacy"], !["legacy"] = Missing]
        /\ Become(p, [proc[p] EXCEPT !.at = "read", !.boot = "default"])
        /\ UNCHANGED stages /\ Steady
    BY <1>3, CalmLemma DEF RenameLegacy
  <1>5. PICK x : x = [proc[p] EXCEPT !.at = "read", !.boot = "default"]
    OBVIOUS
  <1>6. x.at = "read" /\ x.boot = "default" /\ ~x.warned /\ proc'[p] = x
    BY <1>1, <1>4, <1>5, CalmLemma DEF Task, Orderly, Become, TypeInv
  <1>7. /\ dirs'["default"] = dirs["legacy"] /\ dirs'["legacy"] = Missing
        /\ \A d \in Chosen : dirs'[d] = dirs[d]
    <2>1. dirs \in [Place -> Directory] /\ "legacy" \notin Chosen /\ Chosen \subseteq Place
      BY CalmLemma, DataDirectoryAssumption DEF TypeInv, Typed, Place
    <2> QED BY <1>4, <2>1, PlacesLemma
  <1>8. Record(dirs') = Fresh /\ ~Old(dirs', saved')
    BY <1>1, <1>7, MissingLemma DEF Old, Record
  <1>9. UNCHANGED <<used, saved, wish, scene>> /\ Id' = Id
    BY <1>4 DEF Steady, Quiet, Id
  <1>10. Tidy(dirs', stages', wish, used.crashes)
    <2>1. Record(dirs').migration.phase = "none" /\ ActiveOf(Record(dirs')) = "default"
      BY <1>8, FreshLemma DEF ActiveOf
    <2>2. \A d \in Movable \ InUse(Record(dirs')) : Bare(dirs'[d])
      BY <1>2, <1>7, <2>1 DEF Movable, InUse, TidyOld
    <2>3. dirs'["default"].marker = 0 /\ Wished("default", wish)
      BY <1>2, <1>7 DEF TidyOld, Wished
    <2>4. \A i \in Id : Bare(stages'[i])
      BY <1>2, <1>4 DEF TidyOld
    <2> QED BY <2>1, <2>2, <2>3, <2>4 DEF Tidy
  <1>11. Orderly(x, dirs', stages', used.crashes)
    BY <1>6, <1>8, FreshLemma, ElsewhereOrderly DEF Stands, Moving
  <1>12. Tidy(dirs, stages, wish, used.crashes)'
    BY <1>9, <1>10 DEF Tidy
  <1> QED BY <1>2, <1>6, <1>8, <1>9, <1>11, <1>12 DEF Settles

\* Where a process is about to work, or works, nothing is moved.
LEMMA PeaceLemma ==
  ASSUME Calm, NEW p \in scene.processes, p \in Process, proc[p].at \in {"enter", "running"}
  PROVE  /\ New(dirs, saved) /\ Record(dirs).migration.phase = "none" /\ proc[p].boot = "default"
         /\ proc[p].active = ActiveOf(Record(dirs)) /\ proc[p].active \in Movable
         /\ Tidy(dirs, stages, wish, used.crashes)
         /\ \A q \in Process : proc[q].at \notin Moving
  <1>1. Orderly(proc[p], dirs, stages, used.crashes) /\ Fine(proc[p], dirs, stages, saved, scene)
    BY DEF Calm, Settles, Inv
  <1>2. proc[p].boot = "default" /\ Record(dirs).migration.phase = "none"
        /\ proc[p].active = ActiveOf(Record(dirs))
    BY <1>1 DEF Orderly
  <1>3. New(dirs, saved)
    BY <1>1, <1>2 DEF Fine, Works, Settled
  <1>4. Tidy(dirs, stages, wish, used.crashes)
    BY <1>3 DEF Calm, Settles
  <1>5. proc[p].active \in Movable
    BY <1>2, <1>3 DEF New, Consistent, ActiveOf, Movable
  <1>6. \A q \in Process : proc[q].at \notin Moving
    BY <1>2, OrderLemma
  <1> QED BY <1>2, <1>3, <1>4, <1>5, <1>6

\* The directory it works in is made, or gets a file.
LEMMA WorkLemma ==
  ASSUME Calm, NEW p \in scene.processes, p \in Process, proc[p].at \in {"enter", "running"},
         NEW c \in Directory, c.there, c.location = dirs[proc[p].active].location,
         c.marker = dirs[proc[p].active].marker, dirs' = [dirs EXCEPT ![proc[p].active] = c],
         stages' = stages, UNCHANGED <<wish, scene>>,
         used'.crashes = used.crashes,
         NEW x, proc' = [proc EXCEPT ![p] = x], x.at \in {"off", "running"},
         x.at = "running" => x.boot = "default" /\ x.active = proc[p].active
  PROVE  Settles'
  <1>1. PICK a : a = proc[p].active
    OBVIOUS
  <1>2. /\ New(dirs, saved) /\ Record(dirs).migration.phase = "none"
        /\ a = ActiveOf(Record(dirs)) /\ a \in Movable
        /\ Tidy(dirs, stages, wish, used.crashes)
        /\ \A q \in Process : proc[q].at \notin Moving
    BY <1>1, PeaceLemma
  <1>3. /\ dirs'[a] = c /\ \A d \in Place \ {a} : dirs'[d] = dirs[d]
    <2>1. dirs \in [Place -> Directory] /\ a \in Place
      BY <1>2, CalmLemma, PlacesLemma DEF TypeInv, Typed
    <2> QED BY <1>1, <2>1
  <1>4. \A d \in Place : /\ dirs'[d].location = dirs[d].location /\ dirs'[d].marker = dirs[d].marker
                         /\ dirs[d].there => dirs'[d].there
    BY <1>1, <1>3
  <1>5. Record(dirs') = Record(dirs)
    BY <1>4, PlacesLemma DEF Record
  <1>6. ~Old(dirs', saved')
    <2>1. dirs'["default"].there
      BY <1>2, <1>4, PlacesLemma DEF New
    <2> QED BY <2>1, MissingLemma DEF Old
  <1>7. Id' = Id
    BY DEF Id
  <1>8. Tidy(dirs', stages', wish, used.crashes)
    <2>1. \A d \in Movable \ InUse(Record(dirs)) : Bare(dirs'[d])
      BY <1>2, <1>3, PlacesLemma DEF Tidy, InUse
    <2>2. dirs'[a].marker = 0
      BY <1>1, <1>2, <1>3 DEF Tidy
    <2> QED BY <1>2, <1>5, <2>1, <2>2 DEF Tidy
  <1>9. ASSUME NEW q \in scene.processes
        PROVE  Orderly(proc'[q], dirs', stages', used.crashes)
    <2>1. proc \in [Process -> Task] /\ q \in Process /\ proc[q] \in Task
      <3>1. q \in Process
        BY CalmLemma, DataDirectoryAssumption DEF TypeInv
      <3> QED BY <3>1, CalmLemma DEF TypeInv
    <2>2. CASE q = p
      <3>1. proc'[q] = x
        BY <2>1, <2>2
      <3>2. x.at \notin Moving /\ x.at \notin {"enter", "inspect", "rename", "read", "prepare"}
        BY DEF Moving
      <3> QED BY <1>1, <1>2, <1>3, <1>5, <3>1, <3>2 DEF Orderly, Stands
    <2>3. CASE q # p
      <3>1. proc'[q] = proc[q] /\ proc[q].at \notin Moving
        BY <1>2, <2>1, <2>3
      <3>2. Orderly(proc[q], dirs, stages, used.crashes)
        BY DEF Calm, Settles
      <3>3. proc[q].at = "running" => proc[q].active = a
        BY <1>2, <3>2 DEF Orderly
      <3>4. proc[q].at = "running" => dirs'[proc[q].active].there
        BY <1>3, <3>3
      <3> QED BY <1>2, <1>5, <3>1, <3>2, <3>4 DEF Orderly, Stands
    <2> QED BY <2>2, <2>3
  <1>10. Tidy(dirs, stages, wish, used.crashes)'
    BY <1>7, <1>8 DEF Tidy
  <1> QED BY <1>6, <1>9, <1>10 DEF Settles

\* A process begins to work.
LEMMA LockSettles ==
  ASSUME Calm, NEW p \in Process, Lock(p)
  PROVE  Settles'
  <1>1. proc[p] \in Task /\ p \in scene.processes /\ proc[p].at = "enter"
    <2>1. p \in scene.processes /\ proc[p].at = "enter"
      BY DEF Lock, At, Calm, Inv
    <2> QED BY <2>1, CalmLemma DEF TypeInv
  <1>2. PICK a : a = proc[p].active
    OBVIOUS
  <1>3. a \in Place /\ proc[p].boot = "default" /\ dirs[a] \in Directory
    BY <1>1, <1>2, PeaceLemma, PlacesLemma, CalmLemma DEF TypeInv, Typed
  <1>4. PICK c : c = Made(dirs[a])
    OBVIOUS
  <1>5. c \in Directory /\ c.there /\ c.location = dirs[a].location /\ c.marker = dirs[a].marker
    BY <1>3, <1>4, MadeLemma
  <1>6. dirs' = [dirs EXCEPT ![a] = c] /\ stages' = stages /\ UNCHANGED <<wish, scene, used>>
    BY <1>2, <1>4 DEF Lock, Steady, Quiet
  <1>7. PICK x : x \in {Off, To(p, "running")} /\ proc' = [proc EXCEPT ![p] = x]
    BY DEF Lock, Become
  <1>8. x.at \in {"off", "running"} /\ (x.at = "running" => x.boot = "default" /\ x.active = a)
    <2>1. Off.at = "off"
      BY DEF Off
    <2>2. To(p, "running").at = "running" /\ To(p, "running").boot = "default" /\ To(p, "running").active = a
      BY <1>1, <1>2, <1>3 DEF To, Task
    <2> QED BY <1>7, <2>1, <2>2
  <1> QED BY <1>1, <1>2, <1>5, <1>6, <1>7, <1>8, WorkLemma

\* It saves a file.
LEMMA SaveSettles ==
  ASSUME Calm, NEW p \in Process, NEW f \in File, Save(p, f)
  PROVE  Settles'
  <1>1. /\ proc[p] \in Task /\ p \in scene.processes /\ proc[p].at = "running"
        /\ used \in [saves : Nat, moves : Nat, faults : Nat, crashes : Nat] /\ proc \in [Process -> Task]
    <2>1. p \in scene.processes /\ proc[p].at = "running"
      BY DEF Save, At, Calm, Inv
    <2> QED BY <2>1, CalmLemma DEF TypeInv
  <1>2. PICK a : a = proc[p].active
    OBVIOUS
  <1>3. a \in Place /\ proc[p].boot = "default" /\ dirs[a] \in Directory
    BY <1>1, <1>2, PeaceLemma, PlacesLemma, CalmLemma DEF TypeInv, Typed
  <1>4. PICK n \in Nat : n = saved[f] + 1
    BY CalmLemma DEF TypeInv, Files
  <1>5. PICK d : d = Made(dirs[a])
    OBVIOUS
  <1>6. d \in Directory /\ d.there /\ d.location = dirs[a].location /\ d.marker = dirs[a].marker
    BY <1>3, <1>5, MadeLemma
  <1>7. PICK k : k = [d.data EXCEPT ![f] = n]
    OBVIOUS
  <1>8. k \in Files
    BY <1>6, <1>7 DEF Directory, Files
  <1>9. PICK c : c = [d EXCEPT !.data = k]
    OBVIOUS
  <1>10. c \in Directory /\ c.there /\ c.location = dirs[a].location /\ c.marker = dirs[a].marker
    BY <1>6, <1>8, <1>9 DEF Directory
  <1>11. /\ dirs' = [dirs EXCEPT ![a] = c] /\ stages' = stages /\ UNCHANGED <<wish, scene>>
         /\ used' = [used EXCEPT !.saves = @ + 1] /\ proc' = proc
    BY <1>2, <1>4, <1>5, <1>7, <1>9 DEF Save
  <1>12. used'.crashes = used.crashes
    BY <1>1, <1>11
  <1>13. proc' = [proc EXCEPT ![p] = proc[p]]
    BY <1>1, <1>11
  <1> QED BY <1>1, <1>2, <1>3, <1>10, <1>11, <1>12, <1>13, WorkLemma

\* The user chooses an empty directory: nothing is in it, nor in a stage.
LEMMA ScheduleSettles ==
  ASSUME Calm, NEW p \in Process, NEW target \in Place, Schedule(p, target)
  PROVE  Settles'
  <1>1. /\ proc[p] \in Task /\ p \in scene.processes /\ proc[p].at = "running"
        /\ used \in [saves : Nat, moves : Nat, faults : Nat, crashes : Nat] /\ proc \in [Process -> Task]
        /\ scene.moves \in Nat /\ used.moves < scene.moves /\ dirs \in [Place -> Directory]
        /\ Orderly(proc[p], dirs, stages, used.crashes)
    <2>1. p \in scene.processes /\ proc[p].at = "running"
      BY DEF Schedule, At, Calm, Inv
    <2> QED BY <2>1, CalmLemma, DataDirectoryAssumption DEF TypeInv, Typed, Schedule, Calm, Settles
  <1>2. PICK a : a = proc[p].active
    OBVIOUS
  <1>3. /\ New(dirs, saved) /\ Record(dirs).migration.phase = "none" /\ proc[p].boot = "default"
        /\ a = ActiveOf(Record(dirs)) /\ a \in Movable /\ a \in Place
        /\ Tidy(dirs, stages, wish, used.crashes)
    BY <1>1, <1>2, PeaceLemma, PlacesLemma
  <1>4. scene.processes = {p}
    BY <1>1 DEF Calm, Inv, Apart
  <1>5. PICK n \in Nat : n = used.moves + 1
    BY <1>1
  <1>6. n \in Id /\ n # 0
    BY <1>1, <1>5 DEF Id
  <1>7. PICK folder : folder = IF target \in Chosen THEN Made(dirs[target]) ELSE dirs[target]
    OBVIOUS
  <1>8. target # a /\ Vacant(folder, target = "default") /\ UNCHANGED <<stages, saved, scene>>
    BY <1>2, <1>3, <1>7 DEF Schedule
  <1>9. /\ folder \in Directory /\ folder.location = dirs[target].location /\ folder.there /\ Bare(folder)
    <2>1. folder \in Directory /\ folder.location = dirs[target].location
      BY <1>1, <1>7, MadeLemma
    <2>2. folder.there /\ Entries(folder) \subseteq {"location"}
      BY <1>8 DEF Vacant
    <2> QED BY <2>1, <2>2, BareLemma
  <1>10. PICK m : m = [id |-> n, source |-> a, target |-> target, phase |-> "copy"]
    OBVIOUS
  <1>11. m \in Migration /\ m.id = n /\ m.source = a /\ m.target = target /\ m.phase = "copy"
    BY <1>3, <1>6, <1>10 DEF Migration
  <1>12. PICK o \in Place \cup {None} : o = IF a = "default" THEN None ELSE a
    BY <1>3
  <1>13. PICK loc : loc = [Recorded("default") EXCEPT !.active = o, !.migration = m]
    OBVIOUS
  <1>14. loc \in Location /\ loc.migration = m
    <2>1. Recorded("default") \in Location
      BY CalmLemma, PlacesLemma, RecordedLemma
    <2> QED BY <1>11, <1>13, <2>1 DEF Location
  <1>15. PICK now : now = [dirs EXCEPT ![target] = folder]
    OBVIOUS
  <1>16. PICK E : E = [now EXCEPT !["default"].location = loc]
    OBVIOUS
  <1>17. /\ dirs' = E /\ wish' = target /\ used' = [used EXCEPT !.moves = n]
         /\ Become(p, To(p, "quitting"))
    <2>1. \/ /\ dirs' = E /\ wish' = target /\ used' = [used EXCEPT !.moves = n]
             /\ Become(p, To(p, "quitting"))
          \/ used' = [used EXCEPT !.moves = n, !.faults = @ + 1]
      BY <1>2, <1>3, <1>5, <1>7, <1>10, <1>12, <1>13, <1>15, <1>16 DEF Schedule
    <2>2. ASSUME used' = [used EXCEPT !.moves = n, !.faults = @ + 1]
          PROVE  FALSE
      <3>1. used'.faults = used.faults + 1
        BY <1>1, <2>2
      <3> QED BY <3>1 DEF Calm
    <2> QED BY <2>1, <2>2
  <1>18. used'.crashes = used.crashes /\ Id' = Id
    BY <1>1, <1>8, <1>17 DEF Id
  <1>19. /\ now[target] = folder /\ \A d \in Place \ {target} : now[d] = dirs[d]
         /\ \A d \in Place : now[d] \in Directory
    BY <1>1, <1>9, <1>15
  <1>20. /\ \A d \in Place \ {"default"} : E[d] = now[d]
         /\ E["default"].location = loc /\ E["default"].data = now["default"].data
         /\ E["default"].marker = now["default"].marker /\ E["default"].there = now["default"].there
    <2>1. PICK d : d = [now["default"] EXCEPT !.location = loc]
      OBVIOUS
    <2>2. /\ d.location = loc /\ d.data = now["default"].data /\ d.marker = now["default"].marker
          /\ d.there = now["default"].there
      BY <1>19, <2>1, PlacesLemma DEF Directory
    <2>3. DOMAIN now = Place
      BY <1>1, <1>15
    <2>4. E = [now EXCEPT !["default"] = d]
      BY <1>16, <2>1
    <2> QED BY <2>2, <2>3, <2>4, PlacesLemma
  <1>21. /\ \A d \in Place : (Bare(E[d]) <=> Bare(now[d])) /\ E[d].marker = now[d].marker
                             /\ (E[d].there <=> now[d].there)
    BY <1>20 DEF Bare
  <1>22. Record(E) = loc /\ E["default"].there
    <2>1. dirs["default"].there
      BY <1>3 DEF New
    <2> QED BY <1>9, <1>14, <1>19, <1>20, <2>1, NoneAssumption, PlacesLemma DEF Record
  <1>23. ~Old(dirs', saved')
    BY <1>17, <1>22, MissingLemma DEF Old
  <1>24. Begun(E, stages, target, m)
    <2>1. E[a].there /\ E[a].marker = 0
      <3>1. dirs[a].there /\ dirs[a].marker = 0
        BY <1>1, <1>2, <1>3 DEF Orderly, Tidy
      <3> QED BY <1>3, <1>8, <1>19, <1>21, <3>1
    <2>2. Bare(E[target])
      BY <1>9, <1>19, <1>21
    <2>3. Bare(stages[n])
      BY <1>3, <1>6 DEF Tidy
    <2> QED BY <1>11, <2>1, <2>2, <2>3 DEF Begun
  <1>25. Tidy(E, stages, target, used.crashes)
    <2>1. \A i \in Id : Bare(stages[i])
      BY <1>3 DEF Tidy
    <2>2. ASSUME NEW d \in Movable \ {a, target}
          PROVE  Bare(E[d])
      <3>1. Bare(dirs[d])
        BY <1>3 DEF Tidy, InUse
      <3> QED BY <1>19, <1>21, <3>1, PlacesLemma
    <2>3. InUse(loc) = {a, target}
      BY <1>11, <1>14 DEF InUse
    <2> QED BY <1>11, <1>14, <1>22, <1>24, <2>1, <2>2, <2>3 DEF Tidy
  <1>26. PICK x : x = To(p, "quitting")
    OBVIOUS
  <1>27. x.at = "quitting" /\ x.boot = "default" /\ proc'[p] = x
    BY <1>1, <1>3, <1>17, <1>26 DEF To, Task, Become
  <1>28. Orderly(x, E, stages, used.crashes)
    <2>1. E[target].there
      BY <1>9, <1>19, <1>21
    <2>2. Stands(x, E, Record(E).migration, used.crashes)
      BY <1>11, <1>14, <1>22, <2>1 DEF Stands
    <2> QED BY <1>27, <2>2, ElsewhereOrderly DEF Moving
  <1>29. Tidy(dirs, stages, wish, used.crashes)'
    BY <1>8, <1>17, <1>18, <1>25 DEF Tidy
  <1>30. scene'.processes = {p} /\ stages' = stages
    BY <1>4, <1>8
  <1> QED BY <1>17, <1>18, <1>23, <1>27, <1>28, <1>29, <1>30 DEF Settles

-----------------------------------------------------------------------------
(* A start goes on with a move.                                            *)

\* What a process that moves files has at hand.
LEMMA HandLemma ==
  ASSUME Calm, NEW p \in Process, proc[p].at \in Moving
  PROVE  /\ TypeInv /\ proc[p] \in Task /\ proc[p].boot = "default" /\ New(dirs, saved)
         /\ Move(p) = Record(dirs).migration /\ Move(p) = proc[p].loc.migration /\ Move(p) \in Migration
         /\ Move(p).id \in Id /\ Move(p).id \in Nat /\ Move(p).id # 0
         /\ Move(p).source # Move(p).target /\ Move(p).source \in Movable /\ Move(p).target \in Movable
         /\ Move(p).source \in Place /\ Move(p).target \in Place
         /\ dirs \in [Place -> Directory] /\ stages \in [Id -> Directory]
         /\ Source(p) = dirs[Move(p).source] /\ Target(p) = dirs[Move(p).target]
         /\ Stage(p) = stages[Move(p).id] /\ Stage(p).location = None
         /\ Restores(p) <=> Move(p).target = "default"
         /\ \A d \in Movable : d # "default" => dirs[d].location = None
  <1>1. /\ TypeInv /\ proc[p].boot = "default" /\ New(dirs, saved) /\ proc[p].loc = Record(dirs)
        /\ Move(p).source # Move(p).target /\ Move(p).source \in Movable /\ Move(p).target \in Movable
    BY MovesLemma DEF Calm
  <1>2. /\ proc[p] \in Task /\ Move(p) = proc[p].loc.migration /\ Move(p) \in Migration
        /\ Move(p).id \in Id /\ Move(p).id # 0 /\ Move(p).source \in Place /\ Move(p).target \in Place
        /\ Source(p) = dirs[Move(p).source] /\ Target(p) = dirs[Move(p).target]
        /\ Stage(p) = stages[Move(p).id] /\ Stage(p).location = None
        /\ Typed(dirs, used.moves) /\ Staged(stages)
    BY <1>1, MovingLemma
  <1>3. dirs \in [Place -> Directory] /\ stages \in [Id -> Directory] /\ Move(p).id \in Nat
    BY <1>2 DEF Typed, Staged, Migration
  <1>4. Restores(p) <=> Move(p).target = "default"
    BY <1>1 DEF Restores
  <1>5. \A d \in Movable : d # "default" => dirs[d].location = None
    BY <1>2, PlacesLemma DEF Typed, Bootstrap
  <1> QED BY <1>1, <1>2, <1>3, <1>4, <1>5

\* It looks at the disk and goes on.
LEMMA SightLemma ==
  ASSUME Calm, NEW p \in Process, proc[p].at \in Moving \ {"activate"}, Steady, UNCHANGED disk,
         NEW x, Become(p, x), x.at \in Moving \ {"prepare"}, x.boot = "default",
         Sweeps(x, dirs, Move(p)), Fills(x, dirs, stages, Move(p)),
         Empties(x, dirs, stages, Move(p)), Ends(x, dirs, stages, Move(p), used.crashes)
  PROVE  Settles'
  <1>1. dirs' = dirs /\ stages' = stages /\ proc[p].at \in Moving
    BY DEF disk
  <1>2. /\ Stands(proc[p], dirs, Move(p), used.crashes)
        /\ Move(p).phase = "copy" => Begun(dirs, stages, wish, Move(p))
    BY <1>1, OrderLemma
  <1>3. Stands(x, dirs, Move(p), used.crashes)
    BY <1>2 DEF Stands
  <1> QED BY <1>1, <1>2, <1>3, OnwardLemma

\* The way a process goes that sets about emptying a directory.
LEMMA SweepLemma ==
  ASSUME Calm, NEW p \in Process, proc[p].at \in Moving, NEW d \in Place,
         NEW then \in {"stage", "move", "unmark"},
         then \in {"stage", "move"} => Move(p).target = "default"
  PROVE  LET x == Clearing(proc[p], d, then) IN
         /\ x.at = "clear" /\ x.then = then /\ x.boot = "default" /\ x.on = d
         /\ Sweeps(x, dirs, Move(p)) /\ Empties(x, dirs, stages, Move(p))
         /\ Ends(x, dirs, stages, Move(p), used.crashes)
  <1>1. PICK x : x = Clearing(proc[p], d, then)
    OBVIOUS
  <1>2. /\ x.at = "clear" /\ x.then = then /\ x.boot = "default" /\ x.on = d
        /\ x.left = Entries(dirs[d]) \ (IF d = "default" THEN {"location"} ELSE {})
    <2>1. /\ TypeInv /\ proc[p] \in Task /\ proc[p].boot = "default" /\ proc[p].boot \in Bootstrap
          /\ proc[p].loc.migration \in Migration
      BY HandLemma, PlacesLemma
    <2>2. then \in {"stage", "move", "unmark", "forget", "recreate"}
      OBVIOUS
    <2> QED BY <1>1, <2>1, <2>2, ClearingLemma
  <1>3. Sweeps(x, dirs, Move(p))
    BY <1>2 DEF Sweeps
  <1>4. Empties(x, dirs, stages, Move(p)) /\ Ends(x, dirs, stages, Move(p), used.crashes)
    BY <1>2 DEF Empties, Ends
  <1> QED BY <1>1, <1>2, <1>3, <1>4

\* On its way to the stage the target is not complete.
LEMMA FillingLemma ==
  ASSUME Calm, NEW p \in Process, proc[p].at \in Moving, Filling(proc[p])
  PROVE  ~Complete(dirs, Move(p))
  <1>1. Fills(proc[p], dirs, stages, Move(p)) /\ Move(p).id # 0
    BY OrderLemma, HandLemma
  <1> QED BY <1>1, MissingLemma DEF Fills, Complete

\* What the target of a copy is when the process looks at it first.
LEMMA FirstLemma ==
  ASSUME Calm, NEW p \in Process, proc[p].at = "prepare"
  PROVE  /\ Move(p).phase = "copy" /\ Source(p) # Missing /\ ~proc[p].warned
         /\ Target(p).marker = Move(p).id /\ Covers(Source(p), Target(p)) => Bare(Stage(p))
         /\ Target(p).marker = Move(p).id /\ ~Covers(Source(p), Target(p)) => Restores(p)
         /\ Target(p).marker # Move(p).id /\ ~Restores(p) =>
              /\ Bare(Target(p))
              /\ IF Vacant(Target(p), FALSE) THEN Target(p) = Empty ELSE used.crashes # 0
  <1>1. proc[p].at \in Moving /\ Copying(proc[p])
    BY DEF Moving, Copying
  <1>2. Move(p).phase = "copy"
    BY <1>1, MovesLemma DEF Calm
  <1>3. /\ Begun(dirs, stages, wish, Move(p)) /\ Stands(proc[p], dirs, Move(p), used.crashes)
        /\ Orderly(proc[p], dirs, stages, used.crashes)
    BY <1>1, <1>2, OrderLemma
  <1>4. /\ Source(p) = dirs[Move(p).source] /\ Target(p) = dirs[Move(p).target] /\ Target(p) \in Directory
        /\ Stage(p) = stages[Move(p).id] /\ (Restores(p) <=> Move(p).target = "default")
        /\ Move(p).id # 0 /\ (Move(p).target # "default" => Target(p).location = None)
    BY <1>1, HandLemma
  <1>5. Source(p) # Missing /\ ~proc[p].warned
    BY <1>3, <1>4, MissingLemma DEF Begun, Orderly
  <1>6. Target(p).marker = Move(p).id /\ Covers(Source(p), Target(p)) => Bare(Stage(p))
    BY <1>3, <1>4 DEF Begun, Complete
  <1>7. Target(p).marker = Move(p).id /\ ~Covers(Source(p), Target(p)) => Restores(p)
    BY <1>3, <1>4 DEF Begun, Complete, Bare
  <1>8. ASSUME Target(p).marker # Move(p).id, ~Restores(p)
        PROVE  /\ Bare(Target(p))
               /\ IF Vacant(Target(p), FALSE) THEN Target(p) = Empty ELSE used.crashes # 0
    <2>1. Bare(Target(p))
      BY <1>3, <1>4, <1>8 DEF Begun, Complete
    <2>2. Target(p) = IF Target(p).there THEN Empty ELSE Missing
      BY <1>4, <1>8, <2>1, BareLemma
    <2>3. Target(p).there \/ used.crashes # 0
      BY <1>1, <1>2, <1>3, <1>4, <1>8 DEF Stands
    <2>4. Vacant(Empty, FALSE)
      <3>1. \A f \in File \cup {"marker", "location"} : f \notin Entries(Empty)
        BY EntriesLemma, MissingLemma
      <3>2. Entries(Empty) = {}
        BY <3>1, EntriesLemma, MissingLemma
      <3> QED BY <3>2, MissingLemma DEF Vacant
    <2>5. Vacant(Target(p), FALSE) => Target(p).there
      BY DEF Vacant
    <2> QED BY <2>1, <2>2, <2>3, <2>4, <2>5
  <1> QED BY <1>2, <1>5, <1>6, <1>7, <1>8

\* Only a directory that has been taken away stops it, and a crash came before that.
LEMMA PrepareSettles ==
  ASSUME Calm, NEW p \in Process, PrepareTarget(p)
  PROVE  Settles'
  <1>1. /\ proc[p].at = "prepare" /\ proc[p].at \in Moving \ {"activate"} /\ UNCHANGED disk /\ Steady
        /\ proc[p].at \in Moving
    BY CalmLemma DEF PrepareTarget, At, Moving
  <1>2. PICK x : Become(p, x) /\
          x = IF Source(p) = Missing THEN Failed(proc[p])
              ELSE IF Target(p).marker = Move(p).id
                THEN To(p, IF Covers(Source(p), Target(p)) THEN "switch" ELSE "stage")
              ELSE IF Restores(p) THEN Clearing(proc[p], Move(p).target, "stage")
              ELSE IF ~Vacant(Target(p), FALSE) THEN Failed(proc[p])
              ELSE To(p, "stage")
    BY CalmLemma DEF PrepareTarget
  <1>3. /\ Source(p) = dirs[Move(p).source] /\ Target(p) = dirs[Move(p).target]
        /\ Stage(p) = stages[Move(p).id] /\ (Restores(p) <=> Move(p).target = "default")
        /\ proc[p] \in Task /\ proc[p].boot = "default" /\ TypeInv /\ Move(p).target \in Place
        /\ Move(p) = proc[p].loc.migration
    BY <1>1, HandLemma
  <1>4. Sweeps(x, dirs, Move(p)) /\ Fills(x, dirs, stages, Move(p)) /\ Empties(x, dirs, stages, Move(p))
        /\ Ends(x, dirs, stages, Move(p), used.crashes) /\ x.at \in Moving \ {"prepare"} /\ x.boot = "default"
    <2>0. /\ To(p, "switch").at = "switch" /\ To(p, "switch").boot = "default"
          /\ To(p, "stage").at = "stage" /\ To(p, "stage").boot = "default"
      BY <1>1, <1>3, ToLemma DEF Moving
    <2>1. CASE Target(p).marker = Move(p).id /\ Covers(Source(p), Target(p))
      <3>1. x = To(p, "switch")
        BY <1>1, <1>2, <2>1, FirstLemma
      <3>2. Bare(stages[Move(p).id])
        BY <1>1, <1>3, <2>1, FirstLemma
      <3> QED BY <2>0, <3>1, <3>2 DEF Sweeps, Fills, Filling, Filled, Empties, Ends, Moving
    <2>2. CASE Target(p).marker = Move(p).id /\ ~Covers(Source(p), Target(p))
      <3>1. x = To(p, "stage") /\ Move(p).target = "default"
        BY <1>1, <1>2, <1>3, <2>2, FirstLemma
      <3>2. ~Complete(dirs, Move(p))
        BY <1>3, <2>2 DEF Complete
      <3> QED BY <2>0, <3>1, <3>2 DEF Sweeps, Fills, Filling, Filled, Empties, Ends, Moving
    <2>3. CASE Target(p).marker # Move(p).id /\ Restores(p)
      <3>1. x = Clearing(proc[p], Move(p).target, "stage") /\ Move(p).target = "default"
        BY <1>1, <1>2, <1>3, <2>3, FirstLemma
      <3>2. /\ x.at = "clear" /\ x.then = "stage" /\ x.boot = "default"
            /\ Sweeps(x, dirs, Move(p)) /\ Empties(x, dirs, stages, Move(p))
            /\ Ends(x, dirs, stages, Move(p), used.crashes)
        BY <1>1, <1>3, <3>1, SweepLemma
      <3>3. ~Complete(dirs, Move(p))
        BY <1>3, <2>3 DEF Complete
      <3>4. Fills(x, dirs, stages, Move(p))
        BY <3>1, <3>2, <3>3 DEF Fills, Filling, Filled
      <3> QED BY <3>2, <3>4 DEF Moving
    <2>4. CASE Target(p).marker # Move(p).id /\ ~Restores(p) /\ Vacant(Target(p), FALSE)
      <3>1. x = To(p, "stage") /\ dirs[Move(p).target] = Empty
        BY <1>1, <1>2, <1>3, <2>4, FirstLemma
      <3> QED BY <1>3, <2>0, <2>4, <3>1 DEF Sweeps, Fills, Filling, Filled, Empties, Ends, Moving
    <2>5. CASE Target(p).marker # Move(p).id /\ ~Restores(p) /\ ~Vacant(Target(p), FALSE)
      <3>1. x = Failed(proc[p]) /\ Bare(dirs[Move(p).target]) /\ used.crashes # 0
        BY <1>1, <1>2, <1>3, <2>5, FirstLemma
      <3>2. ~proc[p].warned /\ proc[p].loc.migration.phase = "copy"
        BY <1>1, <1>3, FirstLemma
      <3>3. x.at = "drop" /\ x.boot = "default"
        BY <1>3, <3>1, <3>2 DEF Failed, Task
      <3> QED BY <3>1, <3>3 DEF Sweeps, Fills, Filling, Filled, Empties, Ends, Moving
    <2> QED BY <2>1, <2>2, <2>3, <2>4, <2>5
  <1> QED BY <1>1, <1>2, <1>4, SightLemma

\* What has been verified is switched to.
LEMMA RecheckSettles ==
  ASSUME Calm, NEW p \in Process, Recheck(p)
  PROVE  Settles'
  <1>1. /\ proc[p].at = "recheck" /\ proc[p].at \in Moving \ {"activate"} /\ UNCHANGED disk /\ Steady
        /\ proc[p].at \in Moving /\ Copying(proc[p])
    BY DEF Recheck, At, Moving, Copying
  <1>2. Move(p).phase = "copy"
    BY <1>1, MovesLemma DEF Calm
  <1>3. Complete(dirs, Move(p)) /\ Begun(dirs, stages, wish, Move(p))
    BY <1>1, <1>2, OrderLemma DEF Ends
  <1>4. Source(p) # Missing /\ Covers(Source(p), Target(p)) /\ Bare(stages[Move(p).id])
    BY <1>1, <1>3, HandLemma, MissingLemma DEF Begun, Complete
  <1>5. PICK x : x = To(p, "switch")
    OBVIOUS
  <1>6. x.at = "switch" /\ x.boot = "default" /\ Become(p, x)
    BY <1>1, <1>4, <1>5, HandLemma, ToLemma DEF Moving, Recheck
  <1>7. /\ Sweeps(x, dirs, Move(p)) /\ Fills(x, dirs, stages, Move(p)) /\ Empties(x, dirs, stages, Move(p))
        /\ Ends(x, dirs, stages, Move(p), used.crashes) /\ x.at \in Moving \ {"prepare"}
    BY <1>4, <1>6 DEF Sweeps, Fills, Filling, Filled, Empties, Ends, Moving
  <1> QED BY <1>1, <1>6, <1>7, SightLemma

\* The old files are to go.
LEMMA CleanupSettles ==
  ASSUME Calm, NEW p \in Process, Cleanup(p)
  PROVE  Settles'
  <1>1. /\ proc[p].at = "cleanup" /\ proc[p].at \in Moving \ {"activate"} /\ UNCHANGED disk /\ Steady
        /\ proc[p].at \in Moving
    BY DEF Cleanup, At, Moving
  <1>2. PICK x : x = Clearing(proc[p], Move(p).source, "unmark")
    OBVIOUS
  <1>3. /\ x.at = "clear" /\ x.then = "unmark" /\ x.boot = "default"
        /\ Sweeps(x, dirs, Move(p)) /\ Empties(x, dirs, stages, Move(p))
        /\ Ends(x, dirs, stages, Move(p), used.crashes)
    BY <1>1, <1>2, HandLemma, SweepLemma
  <1>4. Fills(x, dirs, stages, Move(p)) /\ x.at \in Moving \ {"prepare"}
    BY <1>3 DEF Fills, Filling, Filled, Moving
  <1> QED BY <1>1, <1>2, <1>3, <1>4, SightLemma DEF Cleanup

\* A step of a copy keeps what has begun as long as the source stays, and so does a target that is
\* not the default directory unless the stage takes its place.
LEMMA BegunLemma ==
  ASSUME Calm, NEW p \in Process, proc[p].at \in Moving, Move(p).phase = "copy",
         dirs'[Move(p).source] = Source(p),
         Move(p).target # "default" => Bare(dirs'[Move(p).target]) \/ Complete(dirs', Move(p)),
         Complete(dirs', Move(p)) => Bare(stages'[Move(p).id])
  PROVE  Begun(dirs', stages', wish, Move(p))
  <1>1. Begun(dirs, stages, wish, Move(p)) /\ Source(p) = dirs[Move(p).source]
    BY OrderLemma, HandLemma
  <1> QED BY <1>1 DEF Begun

\* One entry less is in the directory that is emptied.
LEMMA RemoveSettles ==
  ASSUME Calm, NEW p \in Process, RemoveEntry(p)
  PROVE  Settles'
  <1>1. /\ proc[p].at = "clear" /\ proc[p].at \in Moving /\ Inv /\ Steady
        /\ proc[p].boot = "default"
    BY CalmLemma, HandLemma DEF RemoveEntry, At, Moving, Calm
  <1>2. /\ Source(p) = dirs[Move(p).source] /\ Target(p) = dirs[Move(p).target] /\ proc[p] \in Task
        /\ Stage(p) = stages[Move(p).id] /\ Move(p).id # 0 /\ TypeInv /\ dirs \in [Place -> Directory]
        /\ Move(p).source # Move(p).target /\ Move(p).source \in Movable /\ Move(p).target \in Movable
        /\ Move(p).id \in Id /\ Move(p).source \in Place /\ Move(p).target \in Place
    BY <1>1, HandLemma
  <1>3. PICK o \in Place : o = proc[p].on
    BY <1>1, <1>2, ClearingPlace
  <1>4. /\ o = (IF proc[p].then = "unmark" THEN Move(p).source ELSE Move(p).target)
        /\ Move(p).phase = (IF proc[p].then = "unmark" THEN "cleanup" ELSE "copy")
    BY <1>1, <1>2, <1>3, ClearingPlace
  <1>5. /\ proc[p].left = Entries(dirs[o]) \ (IF o = "default" THEN {"location"} ELSE {})
        /\ proc[p].then = "unmark" \/ (proc[p].then \in {"stage", "move"} /\ Move(p).target = "default")
    BY <1>1, <1>3, OrderLemma DEF Sweeps
  <1>6. dirs[o] \in Directory
    BY <1>2
  <1>7. PICK e \in proc[p].left : /\ dirs' = [dirs EXCEPT ![o] = Without(@, e)] /\ UNCHANGED stages
                                  /\ Become(p, [proc[p] EXCEPT !.left = @ \ {e}])
    <2>1. PICK e \in proc[p].left :
            IF o = proc[p].boot /\ e \notin Entries(dirs[o])
              THEN TRUE
              ELSE /\ dirs' = [dirs EXCEPT ![o] = Without(@, e)] /\ UNCHANGED stages
                   /\ Become(p, [proc[p] EXCEPT !.left = @ \ {e}])
      BY <1>3, CalmLemma DEF RemoveEntry
    <2> QED BY <1>5, <2>1
  <1>8. e \in Entries(dirs[o]) /\ e \in File \cup {"marker", "location"} /\ e # "location"
    <2>1. e \in Entries(dirs[o]) /\ e \in File \cup {"marker", "location"}
      BY <1>5, <1>6, EntriesLemma
    <2>2. o # "default" => dirs[o].location = None
      <3>1. o \in Movable
        BY <1>2, <1>4
      <3> QED BY <1>1, <3>1, HandLemma
    <2>3. CASE o = "default"
      BY <1>5, <2>1, <2>3
    <2>4. CASE o # "default"
      BY <1>6, <2>1, <2>2, <2>4, EntriesLemma
    <2> QED BY <2>1, <2>3, <2>4
  <1>9. PICK c : c = Without(dirs[o], e)
    OBVIOUS
  <1>10. /\ c \in Directory /\ c.there = dirs[o].there /\ c.location = dirs[o].location
         /\ \A f \in File : c.data[f] = IF f = e THEN 0 ELSE dirs[o].data[f]
         /\ c.marker = IF e = "marker" THEN 0 ELSE dirs[o].marker
    BY <1>6, <1>8, <1>9, WithoutLemma
  <1>11. Entries(c) = Entries(dirs[o]) \ {e}
    <2>1. "marker" # "location" /\ "marker" \notin File /\ "location" \notin File
      BY DataDirectoryAssumption
    <2>2. \A f \in File : f \in Entries(c) <=> (f \in Entries(dirs[o]) /\ f # e)
      BY <1>6, <1>10, EntriesLemma
    <2>3. "marker" \in Entries(c) <=> ("marker" \in Entries(dirs[o]) /\ e # "marker")
      BY <1>6, <1>10, EntriesLemma
    <2>4. "location" \in Entries(c) <=> "location" \in Entries(dirs[o])
      BY <1>6, <1>10, EntriesLemma
    <2>5. /\ Entries(c) \subseteq File \cup {"marker", "location"}
          /\ Entries(dirs[o]) \subseteq File \cup {"marker", "location"}
      BY <1>6, <1>10, EntriesLemma
    <2> QED BY <1>8, <2>2, <2>3, <2>4, <2>5
  <1>12. dirs'[o] = c /\ \A d \in Place \ {o} : dirs'[d] = dirs[d]
    BY <1>2, <1>7, <1>9
  <1>13. Record(dirs') = Record(dirs)
    BY <1>10, <1>12, PlacesLemma DEF Record
  <1>14. PICK x : x = [proc[p] EXCEPT !.left = @ \ {e}]
    OBVIOUS
  <1>15. /\ x.at = "clear" /\ x.boot = "default" /\ x.on = o /\ x.then = proc[p].then
         /\ x.left = proc[p].left \ {e} /\ Become(p, x)
    BY <1>1, <1>2, <1>3, <1>7, <1>14 DEF Task
  <1>16. Sweeps(x, dirs', Move(p))
    BY <1>5, <1>8, <1>11, <1>12, <1>15 DEF Sweeps
  <1>17. Empties(x, dirs', stages', Move(p)) /\ Ends(x, dirs', stages', Move(p), used.crashes)
    BY <1>15 DEF Empties, Ends
  <1>18. \A d \in Movable \ {Move(p).source, Move(p).target} : dirs'[d] = dirs[d]
    BY <1>4, <1>12, PlacesLemma
  <1>19. x.at \in Moving \ {"prepare"} /\ stages' = stages
    BY <1>7, <1>15 DEF Moving
  <1>20. CASE proc[p].then = "unmark"
    <2>1. Fills(x, dirs', stages', Move(p))
      BY <1>15, <1>20 DEF Fills, Filling, Filled
    <2>2. Move(p).phase # "copy"
      BY <1>4, <1>20
    <2> QED BY <1>1, <1>13, <1>15, <1>16, <1>17, <1>18, <1>19, <2>1, <2>2, OnwardLemma
  <1>21. CASE proc[p].then \in {"stage", "move"} /\ Move(p).target = "default"
    <2>1. o = Move(p).target /\ Move(p).phase = "copy"
      BY <1>4, <1>21
    <2>2. dirs'[Move(p).source] = Source(p)
      BY <1>2, <1>12, <2>1
    <2>3. ~Complete(dirs', Move(p))
      <3>1. ~Complete(dirs, Move(p))
        BY <1>1, <1>21, FillingLemma DEF Filling
      <3>2. ASSUME Complete(dirs', Move(p))
            PROVE  Complete(dirs, Move(p))
        <4>1. c.marker = Move(p).id /\ Covers(Source(p), c)
          BY <1>12, <2>1, <2>2, <3>2 DEF Complete
        <4>2. dirs[o].marker = Move(p).id
          BY <1>2, <1>10, <4>1
        <4>3. Covers(Source(p), dirs[o])
          BY <1>10, <4>1 DEF Covers
        <4> QED BY <1>2, <2>1, <4>2, <4>3 DEF Complete
      <3> QED BY <3>1, <3>2
    <2>4. Begun(dirs', stages', wish, Move(p))
      BY <1>1, <1>21, <2>1, <2>2, <2>3, BegunLemma
    <2>5. Stands(x, dirs', Move(p), used.crashes)
      BY <1>21 DEF Stands
    <2>6. Fills(x, dirs', stages', Move(p))
      <3>1. Fills(proc[p], dirs, stages, Move(p)) /\ (Filled(x) <=> Filled(proc[p]))
        BY <1>1, <1>15, OrderLemma DEF Filled
      <3> QED BY <1>2, <1>15, <1>19, <1>21, <2>2, <2>3, <3>1 DEF Fills
    <2> QED BY <1>1, <1>13, <1>15, <1>16, <1>17, <1>18, <1>19, <2>4, <2>5, <2>6, OnwardLemma
  <1> QED BY <1>5, <1>20, <1>21

\* A directory that has been emptied: the target can be filled, or the source is gone.
LEMMA ClearedSettles ==
  ASSUME Calm, NEW p \in Process, Cleared(p)
  PROVE  Settles'
  <1>1. /\ proc[p].at = "clear" /\ proc[p].at \in Moving /\ Inv /\ Steady /\ proc[p].left = {}
        /\ proc[p].boot = "default" /\ proc[p].at \in Moving \ {"activate"}
    BY HandLemma DEF Cleared, At, Moving, Calm
  <1>2. /\ Source(p) = dirs[Move(p).source] /\ Target(p) = dirs[Move(p).target] /\ proc[p] \in Task
        /\ Stage(p) = stages[Move(p).id] /\ Move(p).id # 0 /\ TypeInv /\ dirs \in [Place -> Directory]
        /\ Move(p).source # Move(p).target /\ Move(p).source \in Movable /\ Move(p).target \in Movable
        /\ Move(p).id \in Id /\ Move(p).source \in Place /\ Move(p).target \in Place
    BY <1>1, HandLemma
  <1>3. PICK o \in Place : o = proc[p].on
    BY <1>1, <1>2, ClearingPlace
  <1>4. /\ o = (IF proc[p].then = "unmark" THEN Move(p).source ELSE Move(p).target)
        /\ Move(p).phase = (IF proc[p].then = "unmark" THEN "cleanup" ELSE "copy")
        /\ proc[p].then \in Moving \ {"clear", "copy"}
    BY <1>1, <1>2, <1>3, ClearingPlace
  <1>5. /\ Entries(dirs[o]) \ (IF o = "default" THEN {"location"} ELSE {}) = {}
        /\ proc[p].then = "unmark" \/ (proc[p].then \in {"stage", "move"} /\ Move(p).target = "default")
    BY <1>1, <1>3, OrderLemma DEF Sweeps
  <1>6. dirs[o] \in Directory
    BY <1>2
  <1>7. Bare(dirs[o])
    BY <1>5, <1>6, BareLemma
  <1>8. o # "default" => dirs[o] \in {Empty, Missing}
    <2>1. ASSUME o # "default"
          PROVE  dirs[o].location = None
      <3>1. o \in Movable
        BY <1>2, <1>4
      <3> QED BY <1>1, <2>1, <3>1, HandLemma
    <2> QED BY <1>6, <1>7, <2>1, BareLemma
  <1>9. PICK x : x = To(p, proc[p].then)
    OBVIOUS
  <1>10. /\ x.at = proc[p].then /\ x.boot = "default" /\ Become(p, x)
         /\ \/ UNCHANGED disk
            \/ o # "default" /\ dirs' = [dirs EXCEPT ![o] = Missing] /\ stages' = stages
    <2>1. x.at = proc[p].then /\ x.boot = "default"
      BY <1>1, <1>2, <1>4, <1>9, ToLemma
    <2>2. IF o = "default" \/ dirs[o] = Missing
            THEN /\ Become(p, x) \/ (proc[p].then = "recreate" /\ Become(p, Failed(proc[p])))
                 /\ UNCHANGED disk
          ELSE IF dirs[o] = Empty
            THEN /\ Become(p, x)
                 /\ dirs' = [dirs EXCEPT ![o] = Missing] /\ UNCHANGED stages
          ELSE Become(p, Failed(proc[p])) /\ UNCHANGED disk
      BY <1>1, <1>3, <1>9 DEF Cleared
    <2>3. proc[p].then # "recreate"
      BY <1>5
    <2> QED BY <1>8, <2>1, <2>2, <2>3
  <1>11. CASE proc[p].then = "unmark"
    <2>1. o = Move(p).source /\ Move(p).phase # "copy"
      BY <1>4, <1>11
    <2>2. x.at \in Moving \ {"prepare"}
      BY <1>10, <1>11 DEF Moving
    <2>3. /\ Sweeps(x, dirs', Move(p)) /\ Fills(x, dirs', stages', Move(p))
          /\ Empties(x, dirs', stages', Move(p))
      BY <1>10, <1>11 DEF Sweeps, Fills, Filling, Filled, Empties
    <2>4. ASSUME Bare(dirs'[Move(p).source])
          PROVE  Ends(x, dirs', stages', Move(p), used.crashes)
      BY <1>10, <1>11, <2>4 DEF Ends
    <2>5. CASE UNCHANGED disk
      <3>1. dirs' = dirs /\ stages' = stages
        BY <2>5 DEF disk
      <3> QED BY <1>1, <1>7, <1>10, <2>1, <2>2, <2>3, <2>4, <3>1, OnwardLemma
    <2>6. CASE o # "default" /\ dirs' = [dirs EXCEPT ![o] = Missing] /\ stages' = stages
      <3>1. dirs'[o] = Missing /\ \A d \in Place \ {o} : dirs'[d] = dirs[d]
        BY <1>2, <2>6
      <3>2. Record(dirs') = Record(dirs)
        BY <2>6, <3>1, PlacesLemma DEF Record
      <3>3. \A d \in Movable \ {Move(p).source, Move(p).target} : dirs'[d] = dirs[d]
        BY <2>1, <3>1, PlacesLemma
      <3>4. Ends(x, dirs', stages', Move(p), used.crashes)
        <4>1. Bare(Missing)
          BY MissingLemma, BareLemma
        <4>2. Bare(dirs'[Move(p).source])
          BY <2>1, <3>1, <4>1
        <4> QED BY <2>4, <4>2
      <3> QED BY <1>1, <1>10, <2>1, <2>2, <2>3, <2>6, <3>2, <3>3, <3>4, OnwardLemma
    <2> QED BY <1>10, <2>5, <2>6
  <1>12. CASE proc[p].then \in {"stage", "move"} /\ Move(p).target = "default"
    <2>1. o = "default" /\ UNCHANGED disk /\ x.at \in {"stage", "move"} /\ x.at \in Moving \ {"prepare"}
      BY <1>4, <1>10, <1>12 DEF Moving
    <2>2. Fills(proc[p], dirs, stages, Move(p)) /\ ~Complete(dirs, Move(p))
      BY <1>1, <1>12, OrderLemma, FillingLemma DEF Filling
    <2>3. Fills(x, dirs, stages, Move(p)) /\ Sweeps(x, dirs, Move(p))
      BY <1>12, <2>1, <2>2 DEF Fills, Filling, Filled, Sweeps
    <2>4. Ends(x, dirs, stages, Move(p), used.crashes)
      BY <2>1 DEF Ends
    <2>5. Empties(x, dirs, stages, Move(p))
      <3>1. ASSUME proc[p].then = "move"
            PROVE  /\ Stage(p).there /\ Stage(p).marker = Move(p).id /\ Covers(Source(p), Stage(p))
        BY <1>1, <1>2, <2>2, <3>1 DEF Fills, Filled
      <3>2. Target(p).marker = 0 /\ \A f \in File : Target(p).data[f] = 0
        BY <1>2, <1>7, <1>12, <2>1 DEF Bare
      <3> QED BY <1>2, <1>10, <1>12, <3>1, <3>2 DEF Empties, Covers
    <2> QED BY <1>1, <1>10, <2>1, <2>3, <2>4, <2>5, SightLemma
  <1> QED BY <1>5, <1>11, <1>12

\* A step of a copy that changes nothing but its stage.
LEMMA StageSettles ==
  ASSUME Calm, NEW p \in Process, proc[p].at \in Moving \ {"activate"}, Move(p).phase = "copy", Steady,
         NEW c, dirs' = dirs, stages' = [stages EXCEPT ![Move(p).id] = c],
         NEW x, Become(p, x), x.at \in Moving \ {"prepare", "clear", "move"}, x.boot = "default",
         Complete(dirs, Move(p)) => Bare(c), Fills(x, dirs, stages', Move(p)),
         Ends(x, dirs, stages', Move(p), used.crashes)
  PROVE  Settles'
  <1>1. /\ stages \in [Id -> Directory] /\ Move(p).id \in Id /\ Source(p) = dirs[Move(p).source]
        /\ proc[p].at \in Moving
    BY HandLemma
  <1>2. stages'[Move(p).id] = c /\ \A i \in Id \ {Move(p).id} : stages'[i] = stages[i]
    BY <1>1
  <1>3. /\ Begun(dirs, stages, wish, Move(p)) /\ Stands(proc[p], dirs, Move(p), used.crashes)
    BY <1>1, OrderLemma
  <1>4. Begun(dirs', stages', wish, Move(p)) /\ Stands(x, dirs', Move(p), used.crashes)
    BY <1>2, <1>3 DEF Begun, Stands
  <1>5. Sweeps(x, dirs', Move(p)) /\ Empties(x, dirs', stages', Move(p))
    BY DEF Sweeps, Empties
  <1> QED BY <1>1, <1>2, <1>4, <1>5, OnwardLemma

\* What a process finds on its way to the stage.
LEMMA WayLemma ==
  ASSUME Calm, NEW p \in Process, proc[p].at \in {"stage", "copy", "place"}
  PROVE  /\ proc[p].at \in Moving \ {"activate"} /\ proc[p].at \in Moving /\ Move(p).phase = "copy"
         /\ ~Complete(dirs, Move(p)) /\ Source(p).there /\ Source(p) # Missing
         /\ IF Restores(p) THEN Move(p).target = "default" ELSE Target(p) = Empty
         /\ proc[p].at = "copy" =>
              /\ Stage(p).there /\ proc[p].left \subseteq File \cap Entries(Source(p))
              /\ \A f \in File \ proc[p].left :
                   Source(p).data[f] # 0 => Stage(p).data[f] = Source(p).data[f]
         /\ proc[p].at = "place" =>
              Stage(p).there /\ Stage(p).marker = Move(p).id /\ Covers(Source(p), Stage(p))
  <1>1. proc[p].at \in Moving \ {"activate"} /\ proc[p].at \in Moving /\ Copying(proc[p]) /\ Filling(proc[p])
    BY DEF Moving, Copying, Filling
  <1>2. Move(p).phase = "copy"
    BY <1>1, MovesLemma DEF Calm
  <1>3. /\ Source(p) = dirs[Move(p).source] /\ Target(p) = dirs[Move(p).target]
        /\ Stage(p) = stages[Move(p).id] /\ (Restores(p) <=> Move(p).target = "default")
        /\ Sound(proc[p], used.moves)
    BY <1>1, HandLemma, MovingLemma
  <1>4. Begun(dirs, stages, wish, Move(p)) /\ Fills(proc[p], dirs, stages, Move(p))
    BY <1>1, <1>2, OrderLemma
  <1>5. ~Complete(dirs, Move(p))
    BY <1>1, FillingLemma
  <1>6. Source(p).there /\ Source(p) # Missing
    BY <1>3, <1>4, MissingLemma DEF Begun
  <1>7. IF Restores(p) THEN Move(p).target = "default" ELSE Target(p) = Empty
    BY <1>1, <1>3, <1>4 DEF Fills
  <1>8. proc[p].at = "copy" => proc[p].left \subseteq File
    BY <1>3 DEF Sound
  <1> QED BY <1>1, <1>2, <1>3, <1>4, <1>5, <1>6, <1>7, <1>8 DEF Fills, Filled

\* A new stage.
LEMMA MakeStageSettles ==
  ASSUME Calm, NEW p \in Process, MakeStage(p)
  PROVE  Settles'
  <1>1. proc[p].at = "stage" /\ proc[p].at \in {"stage", "copy", "place"} /\ Steady
    BY CalmLemma DEF MakeStage, At
  <1>2. /\ proc[p].at \in Moving \ {"activate"} /\ proc[p].at \in Moving /\ Move(p).phase = "copy"
        /\ ~Complete(dirs, Move(p)) /\ proc[p] \in Task /\ proc[p].boot = "default"
        /\ Source(p) = dirs[Move(p).source] /\ Source(p) \in Directory
        /\ stages \in [Id -> Directory] /\ Move(p).id \in Id
    BY <1>1, WayLemma, HandLemma
  <1>3. PICK l : l = Entries(Source(p)) \cap File
    OBVIOUS
  <1>4. PICK y : y = To(p, "copy")
    OBVIOUS
  <1>5. y \in Task /\ y.at = "copy" /\ y.boot = "default"
    BY <1>2, <1>4, AtLemma DEF To, Moving
  <1>6. PICK x : x = [y EXCEPT !.left = l]
    OBVIOUS
  <1>7. x.at = "copy" /\ x.boot = "default" /\ x.left = l
    BY <1>5, <1>6 DEF Task
  <1>8. dirs' = dirs /\ stages' = [stages EXCEPT ![Move(p).id] = Empty] /\ Become(p, x)
    BY <1>3, <1>4, <1>6, CalmLemma DEF MakeStage
  <1>9. stages'[Move(p).id] = Empty
    BY <1>2, <1>8
  <1>10. Fills(x, dirs, stages', Move(p))
    <2>1. Fills(proc[p], dirs, stages, Move(p)) /\ Filling(proc[p])
      BY <1>1, <1>2, OrderLemma DEF Filling
    <2>2. \A f \in File \ x.left : Source(p).data[f] = 0
      BY <1>2, <1>3, <1>7, EntriesLemma
    <2>3. Empty.there /\ x.left \subseteq Entries(dirs[Move(p).source])
      BY <1>2, <1>3, <1>7, MissingLemma
    <2> QED BY <1>2, <1>7, <1>9, <2>1, <2>2, <2>3 DEF Fills, Filled
  <1>11. Ends(x, dirs, stages', Move(p), used.crashes) /\ x.at \in Moving \ {"prepare", "clear", "move"}
    BY <1>7 DEF Ends, Moving
  <1> QED BY <1>1, <1>2, <1>7, <1>8, <1>10, <1>11, StageSettles

\* One more file is in it.
LEMMA CopySettles ==
  ASSUME Calm, NEW p \in Process, CopyFile(p)
  PROVE  Settles'
  <1>1. proc[p].at = "copy" /\ proc[p].at \in {"stage", "copy", "place"} /\ Steady
    BY CalmLemma DEF CopyFile, At
  <1>2. /\ proc[p].at \in Moving \ {"activate"} /\ proc[p].at \in Moving /\ Move(p).phase = "copy"
        /\ ~Complete(dirs, Move(p)) /\ proc[p] \in Task /\ proc[p].boot = "default"
        /\ Source(p) = dirs[Move(p).source] /\ Source(p) \in Directory /\ Stage(p) \in Directory
        /\ stages \in [Id -> Directory] /\ Move(p).id \in Id /\ Stage(p) = stages[Move(p).id]
        /\ Stage(p).there /\ proc[p].left \subseteq File \cap Entries(Source(p))
        /\ \A f \in File \ proc[p].left :
             Source(p).data[f] # 0 => Stage(p).data[f] = Source(p).data[f]
    BY <1>1, WayLemma, HandLemma, MovingLemma
  <1>3. PICK f \in proc[p].left :
          /\ stages' = [stages EXCEPT ![Move(p).id] = With(@, f, Source(p))] /\ dirs' = dirs
          /\ Become(p, [proc[p] EXCEPT !.left = @ \ {f}])
    <2>1. PICK f \in proc[p].left :
            IF Source(p).data[f] = 0 \/ Stage(p) = Missing
              THEN TRUE
              ELSE /\ stages' = [stages EXCEPT ![Move(p).id] = With(@, f, Source(p))] /\ dirs' = dirs
                   /\ Become(p, [proc[p] EXCEPT !.left = @ \ {f}])
      BY CalmLemma DEF CopyFile
    <2>2. Source(p).data[f] # 0 /\ Stage(p) # Missing
      BY <1>2, EntriesLemma, MissingLemma
    <2> QED BY <2>1, <2>2
  <1>4. PICK c : c = With(Stage(p), f, Source(p))
    OBVIOUS
  <1>5. PICK d \in Directory, s \in Directory : d = Stage(p) /\ s = Source(p)
    BY <1>2
  <1>6. /\ c.there = d.there
        /\ \A g \in File : c.data[g] = IF g = f THEN s.data[g] ELSE d.data[g]
    <2>1. PICK e \in File \cup {"marker"} : e = f
      BY <1>2
    <2>2. c = With(d, e, s)
      BY <1>4, <1>5, <2>1
    <2>3. /\ With(d, e, s).there = d.there
          /\ \A g \in File : With(d, e, s).data[g] = IF g = e THEN s.data[g] ELSE d.data[g]
      BY WithLemma
    <2> QED BY <2>1, <2>2, <2>3
  <1>7. PICK x : x = [proc[p] EXCEPT !.left = @ \ {f}]
    OBVIOUS
  <1>8. x.at = "copy" /\ x.boot = "default" /\ x.left = proc[p].left \ {f} /\ Become(p, x)
    BY <1>1, <1>2, <1>3, <1>7 DEF Task
  <1>9. stages' = [stages EXCEPT ![Move(p).id] = c] /\ stages'[Move(p).id] = c
    BY <1>2, <1>3, <1>4
  <1>10. Fills(x, dirs, stages', Move(p))
    <2>1. Fills(proc[p], dirs, stages, Move(p)) /\ Filling(proc[p])
      BY <1>1, <1>2, OrderLemma DEF Filling
    <2>2. \A g \in File \ x.left : Source(p).data[g] # 0 => c.data[g] = Source(p).data[g]
      BY <1>2, <1>5, <1>6, <1>8
    <2>3. c.there /\ x.left \subseteq Entries(Source(p))
      BY <1>2, <1>5, <1>6, <1>8
    <2> QED BY <1>2, <1>8, <1>9, <2>1, <2>2, <2>3 DEF Fills, Filled
  <1>11. Ends(x, dirs, stages', Move(p), used.crashes) /\ x.at \in Moving \ {"prepare", "clear", "move"}
    BY <1>8 DEF Ends, Moving
  <1> QED BY <1>1, <1>2, <1>3, <1>8, <1>9, <1>10, <1>11, StageSettles

\* It is found to be complete, and marked.
LEMMA MarkSettles ==
  ASSUME Calm, NEW p \in Process, MarkStage(p)
  PROVE  Settles'
  <1>1. proc[p].at = "copy" /\ proc[p].at \in {"stage", "copy", "place"} /\ proc[p].left = {}
    BY DEF MarkStage, At
  <1>2. /\ proc[p].at \in Moving \ {"activate"} /\ proc[p].at \in Moving /\ Move(p).phase = "copy"
        /\ ~Complete(dirs, Move(p)) /\ proc[p] \in Task /\ proc[p].boot = "default"
        /\ Source(p) = dirs[Move(p).source] /\ Source(p) # Missing /\ Stage(p) \in Directory
        /\ stages \in [Id -> Directory] /\ Move(p).id \in Id /\ Move(p).id \in Nat
        /\ Stage(p) = stages[Move(p).id]
        /\ \A f \in File \ proc[p].left :
             Source(p).data[f] # 0 => Stage(p).data[f] = Source(p).data[f]
    BY <1>1, WayLemma, HandLemma, MovingLemma
  <1>3. Covers(Source(p), Stage(p))
    BY <1>1, <1>2 DEF Covers
  <1>4. PICK x : x = To(p, "place")
    OBVIOUS
  <1>5. x.at = "place" /\ x.boot = "default"
    BY <1>2, <1>4, HandLemma, ToLemma DEF Moving
  <1>6. WriteMarker(p) /\ Become(p, x) /\ Steady
    BY <1>2, <1>3, <1>4, CalmLemma DEF MarkStage
  <1>7. PICK m : m = Made(Stage(p))
    OBVIOUS
  <1>8. m \in Directory /\ m.there /\ m.data = Stage(p).data
    BY <1>2, <1>7, MadeLemma
  <1>9. PICK c : c = [m EXCEPT !.marker = Move(p).id]
    OBVIOUS
  <1>10. c.there /\ c.data = Stage(p).data /\ c.marker = Move(p).id
    BY <1>8, <1>9 DEF Directory
  <1>11. dirs' = dirs /\ stages' = [stages EXCEPT ![Move(p).id] = c] /\ stages'[Move(p).id] = c
    <2>1. dirs' = dirs /\ stages' = [stages EXCEPT ![Move(p).id] = c]
      BY <1>2, <1>6, <1>7, <1>9 DEF WriteMarker
    <2> QED BY <1>2, <2>1
  <1>12. Fills(x, dirs, stages', Move(p))
    <2>1. Fills(proc[p], dirs, stages, Move(p)) /\ Filling(proc[p])
      BY <1>1, <1>2, OrderLemma DEF Filling
    <2>2. Covers(Source(p), c)
      BY <1>3, <1>10 DEF Covers
    <2> QED BY <1>2, <1>5, <1>10, <1>11, <2>1, <2>2 DEF Fills
  <1>13. Ends(x, dirs, stages', Move(p), used.crashes) /\ x.at \in Moving \ {"prepare", "clear", "move"}
    BY <1>5 DEF Ends, Moving
  <1> QED BY <1>2, <1>5, <1>6, <1>11, <1>12, <1>13, StageSettles

\* A step of a copy that changes its target, and perhaps its stage.
LEMMA TargetSettles ==
  ASSUME Calm, NEW p \in Process, proc[p].at \in Moving, Move(p).phase = "copy", Steady,
         NEW c, dirs' = [dirs EXCEPT ![Move(p).target] = c],
         Move(p).target = "default" => c.location = Target(p).location,
         \A i \in Id \ {Move(p).id} : stages'[i] = stages[i],
         NEW x, Become(p, x), x.at \in Moving \ {"prepare", "clear"}, x.boot = "default",
         Move(p).target # "default" => Bare(c) \/ Complete(dirs', Move(p)),
         Complete(dirs', Move(p)) => Bare(stages'[Move(p).id]),
         Move(p).target # "default" => c.there \/ x.at = "activate",
         Fills(x, dirs', stages', Move(p)), Empties(x, dirs', stages', Move(p)),
         Ends(x, dirs', stages', Move(p), used.crashes)
  PROVE  Settles'
  <1>1. /\ dirs \in [Place -> Directory] /\ Move(p).target \in Place /\ Move(p).source \in Place
        /\ Move(p).source # Move(p).target /\ Source(p) = dirs[Move(p).source]
        /\ Target(p) = dirs[Move(p).target]
    BY HandLemma
  <1>2. dirs'[Move(p).target] = c /\ \A d \in Place \ {Move(p).target} : dirs'[d] = dirs[d]
    BY <1>1
  <1>3. Record(dirs') = Record(dirs)
    BY <1>1, <1>2, PlacesLemma DEF Record
  <1>4. Begun(dirs', stages', wish, Move(p))
    BY <1>1, <1>2, BegunLemma
  <1>5. Stands(x, dirs', Move(p), used.crashes)
    BY <1>2 DEF Stands
  <1>6. Sweeps(x, dirs', Move(p))
    BY DEF Sweeps
  <1>7. \A d \in Movable \ {Move(p).source, Move(p).target} : dirs'[d] = dirs[d]
    BY <1>2, PlacesLemma
  <1>8. \A i \in Id : (Move(p).phase = "copy" => i # Move(p).id) => stages'[i] = stages[i]
    OBVIOUS
  <1> QED BY <1>3, <1>4, <1>5, <1>6, <1>7, <1>8, OnwardLemma

\* The default directory is to be emptied, or the target makes room.
LEMMA PlaceSettles ==
  ASSUME Calm, NEW p \in Process, PlaceStage(p)
  PROVE  Settles'
  <1>1. proc[p].at = "place" /\ proc[p].at \in {"stage", "copy", "place"} /\ Steady
    BY CalmLemma DEF PlaceStage, At
  <1>2. /\ proc[p].at \in Moving \ {"activate"} /\ proc[p].at \in Moving /\ Move(p).phase = "copy"
        /\ ~Complete(dirs, Move(p)) /\ proc[p].boot = "default" /\ Move(p).target \in Place
        /\ Source(p) = dirs[Move(p).source] /\ Stage(p) = stages[Move(p).id]
        /\ (Restores(p) <=> Move(p).target = "default") /\ dirs \in [Place -> Directory]
        /\ IF Restores(p) THEN Move(p).target = "default" ELSE Target(p) = Empty
        /\ Stage(p).there /\ Stage(p).marker = Move(p).id /\ Covers(Source(p), Stage(p))
        /\ Move(p).source # Move(p).target /\ Move(p).source \in Place /\ Move(p).id # 0
    BY <1>1, WayLemma, HandLemma
  <1>3. CASE Restores(p)
    <2>1. PICK x : x = Clearing(proc[p], Move(p).target, "move")
      OBVIOUS
    <2>2. Become(p, x) /\ UNCHANGED disk
      BY <1>3, <2>1, CalmLemma DEF PlaceStage
    <2>3. /\ x.at = "clear" /\ x.then = "move" /\ x.boot = "default"
          /\ Sweeps(x, dirs, Move(p)) /\ Empties(x, dirs, stages, Move(p))
          /\ Ends(x, dirs, stages, Move(p), used.crashes)
      BY <1>2, <1>3, <2>1, SweepLemma
    <2>4. Fills(x, dirs, stages, Move(p)) /\ x.at \in Moving \ {"prepare"}
      BY <1>2, <1>3, <2>3 DEF Fills, Filling, Filled, Moving
    <2> QED BY <1>1, <1>2, <2>2, <2>3, <2>4, SightLemma
  <1>4. CASE ~Restores(p)
    <2>1. PICK x : x = To(p, "activate")
      OBVIOUS
    <2>2. /\ Become(p, x) /\ dirs' = [dirs EXCEPT ![Move(p).target] = Missing] /\ stages' = stages
      BY <1>2, <1>4, <2>1, CalmLemma DEF PlaceStage
    <2>3. x.at = "activate" /\ x.boot = "default"
      BY <1>2, <2>1, HandLemma, ToLemma DEF Moving
    <2>4. dirs'[Move(p).target] = Missing /\ dirs'[Move(p).source] = Source(p)
      BY <1>2, <2>2
    <2>5. Bare(Missing) /\ ~Complete(dirs', Move(p))
      <3>1. Bare(Missing)
        BY MissingLemma, BareLemma
      <3> QED BY <1>2, <2>4, <3>1, MissingLemma DEF Complete
    <2>6. Fills(x, dirs', stages', Move(p))
      BY <1>2, <2>2, <2>3, <2>4 DEF Fills, Filling, Filled
    <2>7. /\ Empties(x, dirs', stages', Move(p)) /\ Ends(x, dirs', stages', Move(p), used.crashes)
          /\ x.at \in Moving \ {"prepare", "clear"}
      BY <2>3 DEF Empties, Ends, Moving
    <2>8. Move(p).target # "default"
      BY <1>2, <1>4
    <2>9. \A i \in Id \ {Move(p).id} : stages'[i] = stages[i]
      BY <2>2
    <2> QED BY <1>1, <1>2, <2>2, <2>3, <2>5, <2>6, <2>7, <2>8, <2>9, TargetSettles
  <1> QED BY <1>3, <1>4

\* An entry is in the stage or in the default directory, and in the end all are there.
LEMMA MoveEntrySettles ==
  ASSUME Calm, NEW p \in Process, MoveEntry(p)
  PROVE  Settles'
  <1>1. /\ proc[p].at = "move" /\ proc[p].at \in Moving \ {"clear"} /\ Copying(proc[p]) /\ Steady
        /\ proc[p].at \in Moving /\ proc[p].at \in Moving \ {"activate"}
    BY CalmLemma DEF MoveEntry, At, Moving, Copying
  <1>2. /\ Source(p) = dirs[Move(p).source] /\ Target(p) = dirs[Move(p).target] /\ proc[p] \in Task
        /\ Stage(p) = stages[Move(p).id] /\ Move(p).id # 0 /\ dirs \in [Place -> Directory]
        /\ Move(p).source # Move(p).target /\ Move(p).id \in Id /\ stages \in [Id -> Directory]
        /\ Move(p).source \in Place /\ Move(p).target \in Place /\ proc[p].boot = "default"
        /\ TypeInv /\ Stage(p).location = None
    BY <1>1, HandLemma
  <1>3. Move(p).phase = "copy" /\ Within(Stage(p), Source(p))
    BY <1>1, CopyingLemma DEF Calm
  <1>4. /\ Move(p).target = "default" /\ Stage(p).there
        /\ \/ Target(p).marker = Move(p).id /\ Stage(p).marker = 0
           \/ Target(p).marker = 0 /\ Stage(p).marker = Move(p).id
        /\ \A f \in File : Source(p).data[f] # 0 =>
             \/ Target(p).data[f] = Source(p).data[f] /\ Stage(p).data[f] = 0
             \/ Target(p).data[f] = 0 /\ Stage(p).data[f] = Source(p).data[f]
    BY <1>1, <1>2, OrderLemma DEF Empties
  <1>5. CASE Stage(p) = Empty
    <2>1. PICK x : x = To(p, "recheck")
      OBVIOUS
    <2>2. dirs' = dirs /\ stages' = [stages EXCEPT ![Move(p).id] = Missing] /\ Become(p, x)
      BY <1>4, <1>5, <2>1, CalmLemma, MissingLemma DEF MoveEntry
    <2>3. x.at = "recheck" /\ x.boot = "default"
      BY <1>1, <1>2, <2>1, ToLemma DEF Moving
    <2>4. Complete(dirs, Move(p))
      <3>1. Empty.marker = 0 /\ \A f \in File : Empty.data[f] = 0
        BY MissingLemma
      <3>2. Target(p).marker = Move(p).id /\ Covers(Source(p), Target(p))
        BY <1>2, <1>4, <1>5, <3>1 DEF Covers
      <3> QED BY <1>2, <3>2 DEF Complete
    <2>5. Bare(Missing)
      BY MissingLemma, BareLemma
    <2>6. Fills(x, dirs, stages', Move(p)) /\ Ends(x, dirs, stages', Move(p), used.crashes)
          /\ x.at \in Moving \ {"prepare", "clear", "move"}
      BY <2>3, <2>4 DEF Fills, Filling, Filled, Ends, Moving
    <2> QED BY <1>1, <1>3, <2>2, <2>3, <2>5, <2>6, StageSettles
  <1>6. CASE Stage(p) # Empty
    <2>1. PICK e \in Entries(Stage(p)) :
            /\ stages' = [stages EXCEPT ![Move(p).id] = Without(@, e)]
            /\ dirs' = [dirs EXCEPT ![Move(p).target] = With(@, e, Stage(p))] /\ UNCHANGED proc
      BY <1>4, <1>6, CalmLemma, MissingLemma DEF MoveEntry
    <2>2. PICK d \in Directory, s \in Directory : d = Target(p) /\ s = Stage(p)
      BY <1>2
    <2>3. PICK g \in File \cup {"marker"} : g = e
      <3>1. e \in File \cup {"marker"}
        BY <1>2, <2>2, EntriesLemma
      <3> QED BY <3>1
    <2>4. PICK c, t : c = With(d, g, s) /\ t = Without(s, g)
      OBVIOUS
    <2>5. /\ c.there = d.there /\ c.location = d.location
          /\ \A f \in File : c.data[f] = IF f = g THEN s.data[f] ELSE d.data[f]
          /\ c.marker = IF g = "marker" THEN s.marker ELSE d.marker
      <3>1. /\ With(d, g, s).there = d.there /\ With(d, g, s).location = d.location
            /\ \A f \in File : With(d, g, s).data[f] = IF f = g THEN s.data[f] ELSE d.data[f]
        BY WithLemma
      <3>2. With(d, g, s).marker = IF g = "marker" THEN s.marker ELSE d.marker
        BY WithLemma
      <3> QED BY <2>4, <3>1, <3>2
    <2>6. /\ t.there = s.there
          /\ \A f \in File : t.data[f] = IF f = g THEN 0 ELSE s.data[f]
          /\ t.marker = IF g = "marker" THEN 0 ELSE s.marker
      <3>1. g \in File \cup {"marker", "location"}
        OBVIOUS
      <3> QED BY <2>4, <3>1, WithoutLemma
    <2>7. /\ dirs' = [dirs EXCEPT ![Move(p).target] = c] /\ stages' = [stages EXCEPT ![Move(p).id] = t]
      BY <1>2, <2>1, <2>2, <2>3, <2>4
    <2>8. /\ dirs'[Move(p).target] = c /\ dirs'[Move(p).source] = Source(p) /\ stages'[Move(p).id] = t
          /\ \A i \in Id \ {Move(p).id} : stages'[i] = stages[i]
      BY <1>2, <2>7
    <2>9. \/ c.marker = Move(p).id /\ t.marker = 0
          \/ c.marker = 0 /\ t.marker = Move(p).id
      <3>1. CASE g = "marker"
        <4>1. s.marker # 0
          BY <2>2, <2>3, <3>1, EntriesLemma
        <4> QED BY <1>4, <2>2, <2>5, <2>6, <3>1, <4>1
      <3>2. CASE g # "marker"
        BY <1>4, <2>2, <2>5, <2>6, <3>2
      <3> QED BY <3>1, <3>2
    <2>10. ASSUME NEW f \in File, Source(p).data[f] # 0
           PROVE  \/ c.data[f] = Source(p).data[f] /\ t.data[f] = 0
                  \/ c.data[f] = 0 /\ t.data[f] = Source(p).data[f]
      <3>1. CASE f = g
        <4>1. s.data[f] # 0
          BY <2>2, <2>3, <3>1, EntriesLemma
        <4>2. s.data[f] = Source(p).data[f]
          BY <1>4, <2>2, <2>10, <4>1
        <4> QED BY <2>5, <2>6, <3>1, <4>2
      <3>2. CASE f # g
        BY <1>4, <2>2, <2>5, <2>6, <2>10, <3>2
      <3> QED BY <3>1, <3>2
    <2>11. ASSUME Complete(dirs', Move(p))
           PROVE  Bare(t)
      <3>1. c.marker = Move(p).id /\ Covers(Source(p), c)
        BY <2>8, <2>11 DEF Complete
      <3>2. t.marker = 0
        BY <1>2, <2>9, <3>1
      <3>3. ASSUME NEW f \in File
            PROVE  t.data[f] = 0
        <4>1. CASE Source(p).data[f] # 0
          BY <2>10, <3>1, <4>1 DEF Covers
        <4>2. CASE Source(p).data[f] = 0
          <5>1. s.data[f] = 0
            BY <1>3, <2>2, <4>2 DEF Within
          <5> QED BY <2>6, <5>1
        <4> QED BY <4>1, <4>2
      <3> QED BY <3>2, <3>3 DEF Bare
    <2>12. PICK x : x = proc[p]
      OBVIOUS
    <2>13. x.at = "move" /\ x.boot = "default" /\ Become(p, x)
      <3>1. proc \in [Process -> Task]
        BY <1>2 DEF TypeInv
      <3> QED BY <1>1, <1>2, <2>1, <2>12, <3>1 DEF Become
    <2>14. Empties(x, dirs', stages', Move(p))
      BY <1>4, <2>2, <2>6, <2>8, <2>9, <2>10 DEF Empties
    <2>15. /\ Fills(x, dirs', stages', Move(p)) /\ Ends(x, dirs', stages', Move(p), used.crashes)
           /\ x.at \in Moving \ {"prepare", "clear"}
      BY <2>13 DEF Fills, Filling, Filled, Ends, Moving
    <2>16. Complete(dirs', Move(p)) => Bare(stages'[Move(p).id])
      BY <2>8, <2>11
    <2>17. c.location = Target(p).location
      BY <2>2, <2>5
    <2> QED BY <1>1, <1>3, <1>4, <2>7, <2>8, <2>13, <2>14, <2>15, <2>16, <2>17, TargetSettles
  <1> QED BY <1>5, <1>6

\* The stage is the target.
LEMMA ActivateSettles ==
  ASSUME Calm, NEW p \in Process, Activate(p)
  PROVE  Settles'
  <1>1. /\ proc[p].at = "activate" /\ proc[p].at \in Moving \ {"clear"} /\ Copying(proc[p]) /\ Steady
        /\ proc[p].at \in Moving
    BY CalmLemma DEF Activate, At, Moving, Copying
  <1>2. /\ Source(p) = dirs[Move(p).source] /\ Target(p) = dirs[Move(p).target]
        /\ Stage(p) = stages[Move(p).id] /\ dirs \in [Place -> Directory]
        /\ Move(p).source # Move(p).target /\ Move(p).id \in Id /\ stages \in [Id -> Directory]
        /\ Move(p).source \in Place /\ Move(p).target \in Place /\ TypeInv /\ proc[p].boot = "default"
    BY <1>1, HandLemma
  <1>3. Move(p).phase = "copy" /\ Move(p).target # "default"
    BY <1>1, CopyingLemma DEF Calm
  <1>4. Target(p) = Missing /\ Stage(p).there /\ Stage(p).marker = Move(p).id /\ Covers(Source(p), Stage(p))
    BY <1>1, <1>2, OrderLemma DEF Fills, Filled
  <1>5. PICK x : x = To(p, "recheck")
    OBVIOUS
  <1>6. /\ dirs' = [dirs EXCEPT ![Move(p).target] = Stage(p)] /\ Become(p, x)
        /\ stages' = [stages EXCEPT ![Move(p).id] = Missing]
    BY <1>4, <1>5, CalmLemma, MissingLemma DEF Activate
  <1>7. x.at = "recheck" /\ x.boot = "default"
    BY <1>1, <1>2, <1>5, ToLemma DEF Moving
  <1>8. /\ dirs'[Move(p).target] = Stage(p) /\ dirs'[Move(p).source] = Source(p)
        /\ stages'[Move(p).id] = Missing /\ \A i \in Id \ {Move(p).id} : stages'[i] = stages[i]
    BY <1>2, <1>6
  <1>9. Complete(dirs', Move(p)) /\ Bare(stages'[Move(p).id])
    <2>1. Bare(Missing)
      BY MissingLemma, BareLemma
    <2> QED BY <1>4, <1>8, <2>1 DEF Complete
  <1>10. /\ Fills(x, dirs', stages', Move(p)) /\ Ends(x, dirs', stages', Move(p), used.crashes)
         /\ Empties(x, dirs', stages', Move(p)) /\ x.at \in Moving \ {"prepare", "clear"}
    BY <1>7, <1>9 DEF Fills, Filling, Filled, Ends, Empties, Moving
  <1> QED BY <1>1, <1>3, <1>4, <1>6, <1>7, <1>8, <1>9, <1>10, TargetSettles

\* The marker goes.
LEMMA UnmarkSettles ==
  ASSUME Calm, NEW p \in Process, Unmark(p)
  PROVE  Settles'
  <1>1. /\ proc[p].at = "unmark" /\ proc[p].at \in Moving /\ Cleaning(proc[p]) /\ Steady
        /\ dirs' = [dirs EXCEPT ![Move(p).target].marker = 0] /\ stages' = stages
    BY CalmLemma DEF Unmark, At, Moving, Cleaning
  <1>2. /\ Source(p) = dirs[Move(p).source] /\ Target(p) = dirs[Move(p).target] /\ Target(p) \in Directory
        /\ dirs \in [Place -> Directory] /\ Move(p).source # Move(p).target
        /\ Move(p).source \in Place /\ Move(p).target \in Place /\ TypeInv /\ proc[p].boot = "default"
    BY <1>1, HandLemma
  <1>3. Move(p).phase = "cleanup" /\ Bare(dirs[Move(p).source])
    BY <1>1, MovesLemma, OrderLemma DEF Calm, Ends
  <1>4. PICK c : c = [Target(p) EXCEPT !.marker = 0]
    OBVIOUS
  <1>5. c.marker = 0 /\ c.location = Target(p).location
    BY <1>2, <1>4 DEF Directory
  <1>6. dirs'[Move(p).target] = c /\ \A d \in Place \ {Move(p).target} : dirs'[d] = dirs[d]
    BY <1>1, <1>2, <1>4
  <1>7. Record(dirs') = Record(dirs)
    BY <1>2, <1>5, <1>6, PlacesLemma DEF Record
  <1>8. PICK x : x = To(p, "done")
    OBVIOUS
  <1>9. x.at = "done" /\ x.boot = "default" /\ Become(p, x)
    BY <1>1, <1>2, <1>8, ToLemma DEF Moving, Unmark
  <1>10. Bare(dirs'[Move(p).source])
    BY <1>2, <1>3, <1>6
  <1>11. /\ Fills(x, dirs', stages', Move(p)) /\ Ends(x, dirs', stages', Move(p), used.crashes)
         /\ Empties(x, dirs', stages', Move(p)) /\ Sweeps(x, dirs', Move(p))
         /\ x.at \in Moving \ {"prepare"}
    BY <1>5, <1>6, <1>9, <1>10 DEF Fills, Filling, Filled, Ends, Empties, Sweeps, Moving
  <1>12. \A d \in Movable \ {Move(p).source, Move(p).target} : dirs'[d] = dirs[d]
    BY <1>6, PlacesLemma
  <1>13. Move(p).phase # "copy" /\ \A i \in Id : stages'[i] = stages[i]
    BY <1>1, <1>3
  <1> QED BY <1>1, <1>7, <1>9, <1>11, <1>12, <1>13, OnwardLemma

\* A move whose target was taken away has nothing there to give back.
LEMMA DropSettles ==
  ASSUME Calm, NEW p \in Process, DropStage(p) \/ Recreate(p)
  PROVE  Settles'
  <1>1. DropStage(p)
    <2>1. ASSUME Recreate(p)
          PROVE  FALSE
      <3>1. proc[p].at = "recreate" /\ proc[p].at \in Moving
        BY <2>1 DEF Recreate, At, Moving
      <3> QED BY <3>1, OrderLemma DEF Ends
    <2> QED BY <2>1
  <1>2. /\ proc[p].at = "drop" /\ proc[p].at \in Moving /\ Copying(proc[p])
        /\ Steady /\ proc[p].at \in Moving \ {"activate"}
    BY <1>1, CalmLemma DEF DropStage, At, Moving, Copying
  <1>3. Move(p).phase = "copy"
    BY <1>2, MovesLemma DEF Calm
  <1>4. used.crashes # 0 /\ Bare(dirs[Move(p).target])
    BY <1>2, OrderLemma DEF Ends
  <1>5. /\ Target(p) = dirs[Move(p).target] /\ Move(p).id # 0 /\ TypeInv /\ proc[p].boot = "default"
        /\ stages \in [Id -> Directory] /\ Move(p).id \in Id
    BY <1>2, HandLemma
  <1>6. Target(p).marker # Move(p).id
    BY <1>4, <1>5 DEF Bare
  <1>7. PICK x : x = To(p, "forget")
    OBVIOUS
  <1>8. dirs' = dirs /\ stages' = [stages EXCEPT ![Move(p).id] = Missing] /\ Become(p, x)
    BY <1>1, <1>6, <1>7, CalmLemma DEF DropStage
  <1>9. x.at = "forget" /\ x.boot = "default"
    BY <1>2, <1>5, <1>7, ToLemma DEF Moving
  <1>10. Bare(Missing) /\ stages'[Move(p).id] = Missing
    <2>1. Bare(Missing)
      BY MissingLemma, BareLemma
    <2> QED BY <1>5, <1>8, <2>1
  <1>11. Bare(stages'[Move(p).id])
    BY <1>10
  <1>12. /\ Fills(x, dirs, stages', Move(p)) /\ Ends(x, dirs, stages', Move(p), used.crashes)
         /\ x.at \in Moving \ {"prepare", "clear", "move"}
    BY <1>4, <1>9, <1>11 DEF Fills, Filling, Filled, Ends, Moving
  <1> QED BY <1>2, <1>3, <1>8, <1>9, <1>10, <1>12, StageSettles

-----------------------------------------------------------------------------
(* The location is written.                                                *)

\* Nothing but the record changes.
LEMMA PutLemma ==
  ASSUME Calm, NEW p \in Process, proc[p].at \in Moving, NEW loc \in Location,
         loc.migration.id <= used.moves, WriteLocation(p, loc)
  PROVE  /\ Record(dirs') = loc /\ stages' = stages
         /\ \A d \in Movable : (Bare(dirs'[d]) <=> Bare(dirs[d])) /\ dirs'[d].marker = dirs[d].marker
         /\ ~Old(dirs', saved')
  <1>1. proc[p].boot = "default" /\ TypeInv
    BY HandLemma
  <1>2. dirs' = [dirs EXCEPT !["default"] = [Made(dirs["default"]) EXCEPT !.location = loc]]
        /\ stages' = stages
    BY <1>1 DEF WriteLocation
  <1>3. LET E == [dirs EXCEPT !["default"] = [Made(dirs["default"]) EXCEPT !.location = loc]] IN
        /\ Typed(E, used.moves) /\ E["default"].there /\ E["default"].location = loc
        /\ E["default"].data = dirs["default"].data /\ E["default"].marker = dirs["default"].marker
        /\ \A d \in Place \ {"default"} : E[d] = dirs[d]
    BY <1>1, WriteLemma, PlacesLemma
  <1>4. /\ dirs'["default"].there /\ dirs'["default"].location = loc
        /\ dirs'["default"].data = dirs["default"].data /\ dirs'["default"].marker = dirs["default"].marker
        /\ \A d \in Place \ {"default"} : dirs'[d] = dirs[d]
    BY <1>2, <1>3
  <1>5. Record(dirs') = loc
    BY <1>4, NoneAssumption DEF Record
  <1>6. ~Old(dirs', saved')
    BY <1>4, MissingLemma DEF Old
  <1>7. \A d \in Movable : (Bare(dirs'[d]) <=> Bare(dirs[d])) /\ dirs'[d].marker = dirs[d].marker
    BY <1>4, PlacesLemma DEF Bare
  <1> QED BY <1>2, <1>5, <1>6, <1>7

\* The directory of the move becomes the active one: its source is to be cleaned up.
LEMMA SwitchSettles ==
  ASSUME Calm, NEW p \in Process, Switch(p)
  PROVE  Settles'
  <1>1. proc[p].at = "switch" /\ proc[p].at \in Moving /\ Copying(proc[p])
    BY DEF Switch, At, Moving, Copying
  <1>2. /\ Move(p) = Record(dirs).migration /\ Move(p) \in Migration /\ proc[p] \in Task
        /\ Move(p).target \in Place /\ Move(p) = proc[p].loc.migration /\ proc[p].boot = "default"
        /\ Sound(proc[p], used.moves) /\ Move(p).source \in Movable /\ Move(p).target \in Movable
        /\ proc \in [Process -> Task]
    BY <1>1, HandLemma, MovingLemma DEF TypeInv
  <1>3. Move(p).phase = "copy"
    BY <1>1, MovesLemma DEF Calm
  <1>4. /\ Begun(dirs, stages, wish, Move(p)) /\ Bare(stages[Move(p).id])
        /\ Tidy(dirs, stages, wish, used.crashes)
    BY <1>1, <1>3, OrderLemma DEF Ends
  <1>5. PICK m : m = [Move(p) EXCEPT !.phase = "cleanup"]
    OBVIOUS
  <1>6. /\ m \in Migration /\ m.id = Move(p).id /\ m.source = Move(p).source /\ m.target = Move(p).target
        /\ m.phase = "cleanup"
    BY <1>2, <1>5 DEF Migration
  <1>7. PICK a \in Place \cup {None} : a = IF Move(p).target = "default" THEN None ELSE Move(p).target
    BY <1>2
  <1>8. PICK loc : loc = [active |-> a, migration |-> m]
    OBVIOUS
  <1>9. loc \in Location /\ loc.migration = m /\ loc.migration.id <= used.moves
    BY <1>2, <1>6, <1>8 DEF Location, Sound
  <1>10. PICK x : x = [[proc[p] EXCEPT !.loc = loc] EXCEPT !.at = "cleanup"]
    OBVIOUS
  <1>11. x.at = "cleanup" /\ x.boot = "default"
    BY <1>2, <1>10 DEF Task
  <1>12. WriteLocation(p, loc) /\ Become(p, x) /\ UNCHANGED <<used, saved, wish, scene>>
    BY <1>5, <1>7, <1>8, <1>10, CalmLemma DEF Switch, Steady, Quiet
  <1>13. /\ Record(dirs') = loc /\ stages' = stages /\ ~Old(dirs', saved')
         /\ \A d \in Movable : (Bare(dirs'[d]) <=> Bare(dirs[d])) /\ dirs'[d].marker = dirs[d].marker
    BY <1>1, <1>9, <1>12, PutLemma
  <1>14. Id' = Id /\ scene'.processes = {p} /\ proc'[p] = x
    BY <1>1, <1>2, <1>12, OnlyLemma DEF Calm, Id, Become
  <1>15. Tidy(dirs', stages', wish, used.crashes)
    <2>1. \A i \in Id : Bare(stages[i])
      BY <1>2, <1>4 DEF Tidy
    <2>2. InUse(loc) = InUse(Record(dirs))
      BY <1>2, <1>3, <1>6, <1>9 DEF InUse
    <2>3. \A d \in Movable \ InUse(loc) : Bare(dirs'[d])
      BY <1>4, <1>13, <2>2 DEF Tidy
    <2>4. wish = m.target
      BY <1>4, <1>6 DEF Begun
    <2> QED BY <1>6, <1>9, <1>13, <2>1, <2>3, <2>4 DEF Tidy
  <1>16. Orderly(x, dirs', stages', used.crashes)
    <2>1. Stands(x, dirs', m, used.crashes)
      BY <1>6 DEF Stands
    <2>2. /\ Sweeps(x, dirs', m) /\ Fills(x, dirs', stages', m) /\ Empties(x, dirs', stages', m)
          /\ Ends(x, dirs', stages', m, used.crashes)
      BY <1>11 DEF Sweeps, Fills, Filling, Filled, Empties, Ends
    <2> QED BY <1>9, <1>11, <1>13, <2>1, <2>2 DEF Orderly
  <1>17. Tidy(dirs, stages, wish, used.crashes)'
    BY <1>12, <1>14, <1>15 DEF Tidy
  <1>18. Orderly(proc'[p], dirs', stages', used'.crashes)
    BY <1>12, <1>14, <1>16
  <1> QED BY <1>13, <1>14, <1>17, <1>18 DEF Settles

\* A move ends: nothing is in another directory than the active one, or in a stage.
LEMMA CloseLemma ==
  ASSUME Calm, NEW p \in Process, proc[p].at \in Moving, Steady,
         NEW y \in Task, Become(p, y), y.at = "enter", y.boot = proc[p].boot,
         y.active = ActiveOf(Record(dirs)),
         y.loc = [proc[p].loc EXCEPT !.migration = NoMove], WriteLocation(p, y.loc),
         \A i \in Id : Bare(stages[i]),
         \A d \in Movable \ {ActiveOf(Record(dirs))} : Bare(dirs[d]),
         dirs[ActiveOf(Record(dirs))].marker = 0,
         used.crashes = 0 => Wished(ActiveOf(Record(dirs)), wish)
  PROVE  Settles'
  <1>1. /\ proc[p] \in Task /\ proc[p].boot = "default" /\ proc \in [Process -> Task]
        /\ used.moves \in Nat /\ TypeInv
    BY HandLemma, MovingLemma DEF TypeInv
  <1>2. proc[p].loc = Record(dirs) /\ ActiveOf(Record(dirs)) \in Movable
    <2>1. proc[p].loc = Record(dirs) /\ New(dirs, saved)
      BY MovesLemma DEF Calm
    <2> QED BY <2>1 DEF New, Consistent, ActiveOf, Movable
  <1>3. PICK loc : loc = y.loc
    OBVIOUS
  <1>4. /\ loc \in Location /\ loc.migration = NoMove /\ loc.active = Record(dirs).active
        /\ loc.migration.phase = "none" /\ loc.migration.id <= used.moves
    <2>1. proc[p].loc \in Location
      BY <1>1 DEF Task
    <2>2. loc \in Location /\ loc.migration = NoMove /\ loc.active = Record(dirs).active
      BY <1>2, <1>3, <2>1, FreshLemma DEF Location
    <2> QED BY <1>1, <2>2, FreshLemma
  <1>5. ActiveOf(loc) = ActiveOf(Record(dirs))
    BY <1>4 DEF ActiveOf
  <1>6. /\ Record(dirs') = loc /\ stages' = stages /\ ~Old(dirs', saved')
        /\ \A d \in Movable : (Bare(dirs'[d]) <=> Bare(dirs[d])) /\ dirs'[d].marker = dirs[d].marker
    BY <1>3, <1>4, PutLemma
  <1>7. UNCHANGED <<used, saved, wish, scene>>
    BY DEF Steady, Quiet
  <1>8. Id' = Id /\ scene'.processes = {p} /\ proc'[p] = y
    BY <1>1, <1>7, OnlyLemma DEF Calm, Id, Become
  <1>9. Tidy(dirs', stages', wish, used.crashes)
    <2>1. \A d \in Movable \ InUse(loc) : Bare(dirs'[d])
      BY <1>4, <1>5, <1>6 DEF InUse
    <2>2. dirs'[ActiveOf(loc)].marker = 0
      BY <1>2, <1>5, <1>6
    <2> QED BY <1>4, <1>5, <1>6, <2>1, <2>2 DEF Tidy
  <1>10. Orderly(y, dirs', stages', used.crashes)
    BY <1>1, <1>4, <1>5, <1>6 DEF Orderly, Stands, Moving
  <1>11. Tidy(dirs, stages, wish, used.crashes)'
    BY <1>7, <1>8, <1>9 DEF Tidy
  <1>12. Orderly(proc'[p], dirs', stages', used'.crashes)
    BY <1>7, <1>8, <1>10
  <1> QED BY <1>6, <1>8, <1>11, <1>12 DEF Settles

\* The source has been emptied.
LEMMA DoneSettles ==
  ASSUME Calm, NEW p \in Process, Done(p)
  PROVE  Settles'
  <1>1. proc[p].at = "done" /\ proc[p].at \in Moving /\ Cleaning(proc[p]) /\ Steady
    BY CalmLemma DEF Done, At, Moving, Cleaning
  <1>2. /\ Move(p).phase = "cleanup" /\ Move(p).target = ActiveOf(Record(dirs))
    BY <1>1, MovesLemma DEF Calm
  <1>3. /\ Bare(dirs[Move(p).source]) /\ dirs[Move(p).target].marker = 0 /\ wish = Move(p).target
        /\ Tidy(dirs, stages, wish, used.crashes)
        /\ InUse(Record(dirs)) = {Move(p).source, Move(p).target}
        /\ Move(p) = Record(dirs).migration
    BY <1>1, <1>2, OrderLemma DEF Ends
  <1>4. TypeInv /\ Move(p).target \in Place
    BY <1>1, HandLemma
  <1>5. PICK x : x = [proc[p] EXCEPT !.loc.migration = NoMove]
    OBVIOUS
  <1>6. x \in Task /\ x.boot = proc[p].boot /\ x.loc = [proc[p].loc EXCEPT !.migration = NoMove]
    BY <1>1, <1>4, <1>5, ClosedLemma
  <1>7. PICK y : y = [x EXCEPT !.at = "enter", !.active = Move(p).target]
    OBVIOUS
  <1>8. /\ y \in Task /\ y.at = "enter" /\ y.boot = proc[p].boot /\ y.loc = x.loc
        /\ y.active = Move(p).target
    BY <1>4, <1>6, <1>7 DEF Task, Settled
  <1>9. Become(p, y) /\ WriteLocation(p, y.loc)
    BY <1>5, <1>7, <1>8, CalmLemma DEF Done
  <1>10. \A i \in Id : Bare(stages[i])
    BY <1>2, <1>3 DEF Tidy
  <1>11. \A d \in Movable \ {ActiveOf(Record(dirs))} : Bare(dirs[d])
    BY <1>2, <1>3 DEF Tidy
  <1>12. Wished(ActiveOf(Record(dirs)), wish)
    BY <1>2, <1>3 DEF Wished
  <1> QED BY <1>1, <1>2, <1>3, <1>6, <1>8, <1>9, <1>10, <1>11, <1>12, CloseLemma

\* The target had been taken away.
LEMMA ForgetSettles ==
  ASSUME Calm, NEW p \in Process, Forget(p)
  PROVE  Settles'
  <1>1. proc[p].at = "forget" /\ proc[p].at \in Moving /\ Copying(proc[p]) /\ Steady
    BY CalmLemma DEF Forget, At, Moving, Copying
  <1>2. /\ Move(p).phase = "copy" /\ Move(p).source = ActiveOf(Record(dirs))
    BY <1>1, MovesLemma DEF Calm
  <1>3. /\ used.crashes # 0 /\ Bare(dirs[Move(p).target]) /\ Bare(stages[Move(p).id])
        /\ Begun(dirs, stages, wish, Move(p)) /\ Tidy(dirs, stages, wish, used.crashes)
        /\ InUse(Record(dirs)) = {Move(p).source, Move(p).target}
        /\ Move(p) = Record(dirs).migration
    BY <1>1, <1>2, OrderLemma DEF Ends
  <1>4. TypeInv /\ Inv
    BY CalmLemma DEF Calm
  <1>5. PICK x : x = [proc[p] EXCEPT !.loc.migration = NoMove]
    OBVIOUS
  <1>6. PICK y : y = Enter(x)
    OBVIOUS
  <1>7. /\ y \in Task /\ y.at = "enter" /\ y.boot = proc[p].boot /\ y.loc = x.loc
        /\ x.loc = [proc[p].loc EXCEPT !.migration = NoMove]
        /\ y.active = ActiveOf(Record(dirs))
    BY <1>1, <1>4, <1>5, <1>6, ClosedLemma
  <1>8. Become(p, y) /\ WriteLocation(p, y.loc)
    BY <1>5, <1>6, <1>7, CalmLemma DEF Forget
  <1>9. \A i \in Id : Bare(stages[i])
    BY <1>3 DEF Tidy
  <1>10. \A d \in Movable \ {ActiveOf(Record(dirs))} : Bare(dirs[d])
    BY <1>2, <1>3 DEF Tidy
  <1>11. dirs[ActiveOf(Record(dirs))].marker = 0
    BY <1>2, <1>3 DEF Begun
  <1> QED BY <1>1, <1>3, <1>7, <1>8, <1>9, <1>10, <1>11, CloseLemma

-----------------------------------------------------------------------------
(* Every step.                                                             *)

\* At first nothing is moved, and only one directory has files.
LEMMA InitSettles ==
  ASSUME Init
  PROVE  Settles
  <1>1. PICK home \in scene.homes :
          LET full == [Empty EXCEPT !.data = saved]
          IN /\ wish = home
             /\ dirs = [d \in Place |->
                  IF d = home THEN full
                  ELSE IF d = "default" /\ home \in Chosen
                    THEN [Empty EXCEPT !.location = [Fresh EXCEPT !.active = home]]
                  ELSE IF d \in Chosen THEN Empty ELSE Missing]
    BY DEF Init
  <1>2. /\ home \in Place /\ saved \in Files /\ stages = [i \in Id |-> Missing]
        /\ proc = [p \in Process |-> Off] /\ scene.processes \subseteq Process
    BY <1>1, DataDirectoryAssumption DEF Init, Files
  <1>3. PICK full : full = [Empty EXCEPT !.data = saved]
    OBVIOUS
  <1>4. full \in Directory /\ full.location = None /\ full.marker = 0 /\ full.there
    BY <1>2, <1>3, MissingLemma DEF Directory
  <1>5. PICK at : at = [Fresh EXCEPT !.active = home]
    OBVIOUS
  <1>6. at \in Location /\ at.active = home /\ at.migration = NoMove
    BY <1>2, <1>5, FreshLemma DEF Location
  <1>7. PICK boot : boot = [Empty EXCEPT !.location = at]
    OBVIOUS
  <1>8. /\ boot \in Directory /\ boot.location = at /\ boot.there /\ boot.marker = 0
        /\ boot.data = Empty.data
    BY <1>6, <1>7, MissingLemma DEF Directory
  <1>9. dirs = [d \in Place |->
                  IF d = home THEN full
                  ELSE IF d = "default" /\ home \in Chosen THEN boot
                  ELSE IF d \in Chosen THEN Empty ELSE Missing]
    BY <1>1, <1>3, <1>5, <1>7
  <1>10. \A d \in Place : d # home => Bare(dirs[d])
    <2>1. Bare(boot) /\ Bare(Empty) /\ Bare(Missing)
      BY <1>8, MissingLemma DEF Bare
    <2> QED BY <1>9, <2>1
  <1>11. \A i \in Id : Bare(stages[i])
    <2>1. Bare(Missing)
      BY MissingLemma DEF Bare
    <2> QED BY <1>2, <2>1
  <1>12. dirs[home] = full /\ wish = home
    BY <1>1, <1>2, <1>9
  <1>13. ASSUME Old(dirs, saved)
         PROVE  TidyOld(dirs, stages, wish)
    <2>1. home = "legacy"
      <3>1. CASE home # "legacy"
        <4>1. dirs["legacy"] = Missing
          BY <1>9, <3>1, PlacesLemma, DataDirectoryAssumption
        <4> QED BY <1>13, <4>1, MissingLemma DEF Old
      <3> QED BY <3>1
    <2>2. \A d \in Chosen : d \in Place /\ d # home
      BY <2>1, DataDirectoryAssumption DEF Place
    <2> QED BY <1>4, <1>10, <1>11, <1>12, <2>1, <2>2 DEF TidyOld
  <1>14. ASSUME New(dirs, saved)
         PROVE  Tidy(dirs, stages, wish, used.crashes)
    <2>1. home # "legacy"
      <3>1. dirs["legacy"] = Missing
        BY <1>14 DEF New
      <3> QED BY <1>4, <1>12, <3>1, MissingLemma
    <2>2. home \in Movable
      BY <1>2, <2>1, PlacesLemma
    <2>3. Record(dirs).migration = NoMove /\ Record(dirs).active = (IF home = "default" THEN None ELSE home)
      <3>1. CASE home = "default"
        BY <1>4, <1>12, <3>1, FreshLemma DEF Record
      <3>2. CASE home # "default"
        <4>1. dirs["default"] = boot
          BY <1>9, <2>2, <3>2, PlacesLemma DEF Movable
        <4> QED BY <1>6, <1>8, <3>2, <4>1, NoneAssumption DEF Record
      <3> QED BY <3>1, <3>2
    <2>4. ActiveOf(Record(dirs)) = home
      BY <1>2, <2>3, PlacesLemma DEF ActiveOf
    <2>5. Record(dirs).migration.phase = "none" /\ InUse(Record(dirs)) = {home}
      BY <2>3, <2>4, FreshLemma DEF InUse
    <2>6. \A d \in Movable \ {home} : Bare(dirs[d])
      BY <1>10, PlacesLemma
    <2>7. Wished(home, wish) /\ dirs[home].marker = 0
      BY <1>4, <1>12 DEF Wished
    <2> QED BY <1>11, <2>4, <2>5, <2>6, <2>7 DEF Tidy
  <1>15. ASSUME NEW p \in scene.processes
         PROVE  Orderly(proc[p], dirs, stages, used.crashes)
    <2>1. proc[p] = Off
      BY <1>2
    <2>2. Off.at = "off"
      BY DEF Off
    <2>3. Record(dirs).migration.phase # "copy"
      <3>1. dirs["default"].location \in {None, at}
        <4>1. dirs["default"] \in {full, boot, Missing, Empty}
          BY <1>9, PlacesLemma
        <4> QED BY <1>4, <1>8, <4>1, MissingLemma
      <3>2. at.migration.phase # "copy" /\ Fresh.migration.phase # "copy"
        BY <1>6, FreshLemma
      <3> QED BY <3>1, <3>2 DEF Record
    <2>4. Stands(Off, dirs, Record(dirs).migration, used.crashes)
      BY <2>3 DEF Stands
    <2> QED BY <2>1, <2>2, <2>4, ElsewhereOrderly DEF Moving
  <1> QED BY <1>13, <1>14, <1>15 DEF Settles

\* What has failed stays counted.
LEMMA FaultsLemma ==
  ASSUME TypeInv, [Next]_vars, used'.faults = 0
  PROVE  used.faults = 0
  <1>1. used \in [saves : Nat, moves : Nat, faults : Nat, crashes : Nat]
    BY DEF TypeInv, Bounded
  <1>2. ASSUME used' = used
        PROVE  used.faults = 0
    BY <1>2
  <1>3. ASSUME NEW s, Fault(s)
        PROVE  used.faults = 0
    <2>1. used' = [used EXCEPT !.faults = @ + 1]
      BY <1>3 DEF Fault
    <2>2. used'.faults = used.faults + 1 /\ used.faults \in Nat
      BY <1>1, <2>1
    <2> QED BY <2>2
  <1>4. ASSUME NEW p \in Process, Start(p)
        PROVE  used.faults = 0
    <2>1. CASE Inspect(p) \/ RenameLegacy(p) \/ ReadLocation(p)
      BY <1>2, <1>3, <2>1 DEF Inspect, RenameLegacy, ReadLocation, Steady
    <2>2. CASE PrepareTarget(p) \/ RemoveEntry(p) \/ Cleared(p)
      BY <1>2, <1>3, <2>2 DEF PrepareTarget, RemoveEntry, Cleared, Steady
    <2>3. CASE MakeStage(p) \/ CopyFile(p) \/ MarkStage(p)
      BY <1>2, <1>3, <2>3 DEF MakeStage, CopyFile, MarkStage, Steady
    <2>4. CASE PlaceStage(p) \/ MoveEntry(p) \/ Activate(p) \/ Recheck(p)
      BY <1>2, <1>3, <2>4 DEF PlaceStage, MoveEntry, Activate, Recheck, Steady
    <2>5. CASE Switch(p) \/ Cleanup(p) \/ Unmark(p) \/ Done(p)
      BY <1>2, <1>3, <2>5 DEF Switch, Cleanup, Unmark, Done, Steady
    <2>6. CASE DropStage(p) \/ Recreate(p) \/ Forget(p) \/ Lock(p)
      BY <1>2, <1>3, <2>6 DEF DropStage, Recreate, Forget, Lock, Steady
    <2> QED BY <1>4, <2>1, <2>2, <2>3, <2>4, <2>5, <2>6 DEF Start
  <1>5. ASSUME NEW p \in Process, Launch(p) \/ Quit(p)
        PROVE  used.faults = 0
    BY <1>2, <1>5 DEF Launch, Quit, Steady
  <1>6. ASSUME NEW p \in Process, Crash(p)
        PROVE  used.faults = 0
    <2>1. used' = [used EXCEPT !.crashes = @ + 1]
      BY <1>6 DEF Crash
    <2>2. used'.faults = used.faults
      BY <1>1, <2>1
    <2> QED BY <2>2
  <1>7. ASSUME NEW p \in Process, NEW f \in File, Save(p, f)
        PROVE  used.faults = 0
    <2>1. used' = [used EXCEPT !.saves = @ + 1]
      BY <1>7 DEF Save
    <2>2. used'.faults = used.faults
      BY <1>1, <2>1
    <2> QED BY <2>2
  <1>8. ASSUME NEW p \in Process, NEW d \in Place, Schedule(p, d)
        PROVE  used.faults = 0
    <2>1. used' = [used EXCEPT !.moves = @ + 1] \/ used' = [used EXCEPT !.moves = @ + 1, !.faults = @ + 1]
      BY <1>8 DEF Schedule
    <2>2. CASE used' = [used EXCEPT !.moves = @ + 1]
      <3>1. used'.faults = used.faults
        BY <1>1, <2>2
      <3> QED BY <3>1
    <2>3. CASE used' = [used EXCEPT !.moves = @ + 1, !.faults = @ + 1]
      <3>1. used'.faults = used.faults + 1 /\ used.faults \in Nat
        BY <1>1, <2>3
      <3> QED BY <3>1
    <2> QED BY <2>1, <2>2, <2>3
  <1> QED BY <1>2, <1>4, <1>5, <1>6, <1>7, <1>8 DEF Next, vars

\* Every step keeps what Settles says.
LEMMA NextSettles ==
  ASSUME Inv, Settles, [Next]_vars
  PROVE  Settles'
  <1>1. TypeInv /\ Inv'
    BY NextLemma DEF Inv
  <1>2. CASE used'.faults # 0
    BY <1>2 DEF Settles
  <1>3. CASE used'.faults = 0
    <2>1. Calm
      BY <1>1, <1>3, FaultsLemma DEF Calm
    <2>2. CASE UNCHANGED vars
      <3>1. dirs' = dirs /\ stages' = stages /\ UNCHANGED <<proc, saved, wish, used, scene>>
        BY <2>2 DEF vars, disk
      <3>2. Tidy(dirs, stages, wish, used.crashes) => Tidy(dirs, stages, wish, used.crashes)'
        BY <3>1 DEF Tidy, Id
      <3>3. TidyOld(dirs, stages, wish) => TidyOld(dirs, stages, wish)'
        BY <3>1 DEF TidyOld, Id
      <3> QED BY <3>1, <3>2, <3>3 DEF Settles
    <2>3. ASSUME NEW p \in Process, Start(p)
          PROVE  Settles'
      <3>1. CASE Inspect(p) \/ RenameLegacy(p) \/ ReadLocation(p)
        BY <2>1, <3>1, InspectSettles, RenameSettles, ReadSettles
      <3>2. CASE PrepareTarget(p) \/ RemoveEntry(p) \/ Cleared(p)
        BY <2>1, <3>2, PrepareSettles, RemoveSettles, ClearedSettles
      <3>3. CASE MakeStage(p) \/ CopyFile(p) \/ MarkStage(p)
        BY <2>1, <3>3, MakeStageSettles, CopySettles, MarkSettles
      <3>4. CASE PlaceStage(p) \/ MoveEntry(p) \/ Activate(p) \/ Recheck(p)
        BY <2>1, <3>4, PlaceSettles, MoveEntrySettles, ActivateSettles, RecheckSettles
      <3>5. CASE Switch(p) \/ Cleanup(p) \/ Unmark(p) \/ Done(p)
        BY <2>1, <3>5, SwitchSettles, CleanupSettles, UnmarkSettles, DoneSettles
      <3>6. CASE DropStage(p) \/ Recreate(p) \/ Forget(p) \/ Lock(p)
        BY <2>1, <3>6, DropSettles, ForgetSettles, LockSettles
      <3> QED BY <2>3, <3>1, <3>2, <3>3, <3>4, <3>5, <3>6 DEF Start
    <2>4. ASSUME NEW p \in Process, Launch(p) \/ Quit(p) \/ Crash(p)
          PROVE  Settles'
      BY <2>1, <2>4, LaunchSettles
    <2>5. ASSUME NEW p \in Process, NEW f \in File, Save(p, f)
          PROVE  Settles'
      BY <2>1, <2>5, SaveSettles
    <2>6. ASSUME NEW p \in Process, NEW d \in Place, Schedule(p, d)
          PROVE  Settles'
      BY <2>1, <2>6, ScheduleSettles
    <2> QED BY <2>2, <2>3, <2>4, <2>5, <2>6 DEF Next
  <1> QED BY <1>2, <1>3

\* What it says of a process that works.
LEMMA SettledLemma ==
  ASSUME Inv, Settles
  PROVE  MovesSettle
  <1>1. ASSUME used.faults = 0, NEW p \in Process, At(p, "running")
        PROVE  /\ proc[p].active = Home
               /\ used.crashes = 0 => Home = wish \/ (wish = "legacy" /\ Home = "default")
               /\ dirs[Home].marker = 0
               /\ \A d \in Place \ {Home} : Entries(dirs[d]) \subseteq {"location"}
               /\ \A i \in Id : Entries(stages[i]) = {}
    <2>1. p \in scene.processes /\ proc[p].at = "running" /\ TypeInv
      BY <1>1 DEF Inv, At
    <2>2. Orderly(proc[p], dirs, stages, used.crashes) /\ Fine(proc[p], dirs, stages, saved, scene)
      BY <1>1, <2>1 DEF Settles, Inv
    <2>3. /\ Record(dirs).migration.phase = "none" /\ proc[p].active = ActiveOf(Record(dirs))
          /\ proc[p].boot = "default"
      BY <2>1, <2>2 DEF Orderly
    <2>4. New(dirs, saved)
      BY <2>1, <2>2, <2>3 DEF Fine, Works, Settled
    <2>5. Tidy(dirs, stages, wish, used.crashes)
      BY <1>1, <2>4 DEF Settles
    <2>6. PICK h : h = ActiveOf(Record(dirs))
      OBVIOUS
    <2>7. Home = h
      <3>1. NextBoot = "default"
        BY <2>4 DEF New, NextBoot
      <3>2. Recorded(NextBoot) = Record(dirs)
        BY <3>1 DEF Recorded, Record
      <3> QED BY <2>3, <2>6, <3>1, <3>2 DEF Home, ActiveOf
    <2>8. dirs[h].marker = 0 /\ (used.crashes = 0 => Wished(h, wish))
          /\ \A d \in Movable \ {h} : Bare(dirs[d])
      BY <2>3, <2>5, <2>6 DEF Tidy, InUse
    <2>9. dirs \in [Place -> Directory] /\ stages \in [Id -> Directory]
          /\ \A i \in Id : stages[i].location = None /\ Bare(stages[i])
      BY <2>1, <2>3, <2>5 DEF TypeInv, Typed, Staged, Tidy
    <2>10. ASSUME NEW d \in Place \ {h}
           PROVE  Entries(dirs[d]) \subseteq {"location"}
      <3>1. d = "legacy" => dirs[d] = Missing
        BY <2>4 DEF New
      <3>2. Bare(Missing)
        BY MissingLemma, BareLemma
      <3>3. Bare(dirs[d])
        BY <2>8, <3>1, <3>2, PlacesLemma
      <3> QED BY <2>9, <3>3, BareLemma
    <2>11. ASSUME NEW i \in Id
           PROVE  Entries(stages[i]) = {}
      <3>1. Entries(stages[i]) \subseteq {"location"}
        BY <2>9, BareLemma
      <3>2. "location" \notin Entries(stages[i])
        BY <2>9, EntriesLemma
      <3> QED BY <3>1, <3>2
    <2> QED BY <2>3, <2>6, <2>7, <2>8, <2>10, <2>11 DEF Wished
  <1> QED BY <1>1 DEF MovesSettle

\* resume_data_migration settles every move where nothing fails, after any number of interrupted
\* starts: a process that works does so in the directory the location file names, with its marker
\* removed, and neither the other directories nor a stage keep a file; unless a start was
\* interrupted, that is the directory the user chose. Safe names what must not come together.
THEOREM MovesAreSettled == Spec /\ Safe(scene) => []MovesSettle
  <1>1. Init /\ Safe(scene) => Inv /\ Settles
    BY InitLemma, InitSettles
  <1>2. (Inv /\ Settles) /\ [Next]_vars => (Inv /\ Settles)'
    BY NextLemma, NextSettles DEF Inv
  <1>3. Inv /\ Settles => MovesSettle
    BY SettledLemma
  <1> QED BY <1>1, <1>2, <1>3, PTL DEF Spec

=============================================================================
