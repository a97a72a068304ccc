--------------------------- MODULE DataDirectory ---------------------------
(***************************************************************************)
(* Where the files of the application are kept, and how they are moved.    *)
(*                                                                         *)
(* They are in the default directory (or still in the one of older         *)
(* releases), unless the user chose another.  data_location.toml says      *)
(* which, and stays in the default directory: the bootstrap.  To move the  *)
(* files the user chooses an empty directory, the wish is recorded there,  *)
(* and the application quits.  Its next start copies the files to a stage  *)
(* beside the target, puts the stage in the target's place, records the    *)
(* switch and removes the old files; a start that finds a move half done   *)
(* goes on with it or gives it up.                                         *)
(*                                                                         *)
(* Every step below is one operation on the file system, with the reading  *)
(* that leads to it.  It may fail, the process may end after it, and       *)
(* another process may do the same at the same time: whoever is the only   *)
(* instance is decided after the files have been moved.                    *)
(*                                                                         *)
(* (crates/miaominal-paths/src/lib.rs, src/main.rs)                        *)
(***************************************************************************)
EXTENDS Naturals, FiniteSets

CONSTANTS
  Process,     \* processes of the application
  File,        \* the files in the data directory
  Chosen,      \* directories the user may choose
  None,        \* no directory, no location file
  Scenarios    \* processes; where the files are at first; steps that may fail;
               \* bounds: files saved, directories chosen, failures, crashes

Place == {"default", "legacy"} \cup Chosen

\* The steps that may fail.
Step == {"rename", "prepare", "clear", "stage", "copy", "mark", "place", "move",
         "activate", "switch", "unmark", "done", "drop", "recreate", "forget", "schedule"}

ASSUME DataDirectoryAssumption ==
  /\ None \notin Place
  /\ Chosen \cap {"default", "legacy"} = {} /\ File \cap {"marker", "location"} = {}
  /\ \A s \in Scenarios :
       /\ s.processes \subseteq Process
       /\ s.homes \subseteq Place
       /\ s.failing \subseteq Step
       /\ {s.saves, s.moves, s.faults, s.crashes} \subseteq Nat

VARIABLES
  dirs,   \* the directories
  stages, \* the stage of each move
  proc,   \* the processes
  saved,  \* the version of each file the user saved last (0: none)
  wish,   \* the directory the user chose last
  used,   \* saves, moves, failures and crashes so far
  scene   \* the scenario

disk == <<dirs, stages>>
vars == <<disk, proc, saved, wish, used, scene>>

Id == 1..scene.moves
Files == [File -> Nat]
NoMove == [id |-> 0, source |-> None, target |-> None, phase |-> "none"]
Migration == [id : Nat \ {0}, source : Place, target : Place, phase : {"copy", "cleanup"}]
Location == [active : Place \cup {None}, migration : Migration \cup {NoMove}]
Fresh == [active |-> None, migration |-> NoMove]
ASSUME NoneAssumption == None \notin Location

\* A directory: its files, the migration marker (0: none), data_location.toml.
Directory == [there : BOOLEAN, data : Files, marker : Nat, location : Location \cup {None}]
Missing == [there |-> FALSE, data |-> [f \in File |-> 0], marker |-> 0, location |-> None]
Empty == [Missing EXCEPT !.there = TRUE]
Made(d) == [d EXCEPT !.there = TRUE]

Entries(d) ==
  {f \in File : d.data[f] # 0} \cup (IF d.marker # 0 THEN {"marker"} ELSE {})
    \cup (IF d.location # None THEN {"location"} ELSE {})

Without(d, e) ==
  IF e = "marker" THEN [d EXCEPT !.marker = 0]
  ELSE IF e = "location" THEN [d EXCEPT !.location = None]
  ELSE [d EXCEPT !.data[e] = 0]

With(d, e, s) ==
  IF e = "marker" THEN [d EXCEPT !.marker = s.marker] ELSE [d EXCEPT !.data[e] = s.data[e]]

\* A directory files may be moved to: there, and empty but for the bootstrap's
\* own file.
Vacant(d, isBoot) == d.there /\ Entries(d) \subseteq IF isBoot THEN {"location"} ELSE {}

Recorded(boot) == IF dirs[boot].location = None THEN Fresh ELSE dirs[boot].location

\* Whatever is in the source is in the copy.
Covers(source, copy) ==
  \A f \in File : source.data[f] # 0 => copy.data[f] = source.data[f]

At(p, at) == proc[p].at = at
Off == [at |-> "off", boot |-> None, loc |-> Fresh, active |-> None,
        on |-> None, left |-> {}, then |-> "off", warned |-> FALSE]

Init ==
  /\ scene \in Scenarios
  /\ saved \in [File -> {0, 1}]
  /\ \E home \in scene.homes :
       LET full == [Empty EXCEPT !.data = saved]
       IN /\ wish = home
          /\ dirs = [d \in Place |->
               IF d = home THEN full
               ELSE IF d = "default" /\ home \in Chosen
                 THEN [Empty EXCEPT !.location = [Fresh EXCEPT !.active = home]]
               ELSE IF d \in Chosen THEN Empty ELSE Missing]
  /\ stages = [i \in Id |-> Missing]
  /\ proc = [p \in Process |-> Off]
  /\ used = [saves |-> 0, moves |-> 0, faults |-> 0, crashes |-> 0]

-----------------------------------------------------------------------------
\* How a step ends: with the next one, ...
To(p, at) == [proc[p] EXCEPT !.at = at]
Become(p, x) == proc' = [proc EXCEPT ![p] = x]
Quiet == UNCHANGED <<saved, wish, scene>>
Steady == UNCHANGED used /\ Quiet

\* ... with the application running in the active directory, ...
Enter(x) == [x EXCEPT !.at = "enter",
                      !.active = IF x.loc.active = None THEN x.boot ELSE x.loc.active]

\* Mutant of Failed: a move is rolled back after its switch, too.
FailedAnyPhase(x) ==
  IF x.warned THEN Enter(x) ELSE [x EXCEPT !.at = "drop", !.warned = TRUE]

\* ... or with an error: the move is rolled back if nothing was switched yet;
\* an error on the way back is only logged.
Failed(x) ==
  IF x.warned \/ x.loc.migration.phase # "copy"
    THEN [Enter(x) EXCEPT !.warned = TRUE]
    ELSE [x EXCEPT !.at = "drop", !.warned = TRUE]

MayFail(step) == step \in scene.failing /\ used.faults < scene.faults
Fault(step) ==
  /\ MayFail(step)
  /\ used' = [used EXCEPT !.faults = @ + 1]
  /\ Quiet

\* The entries of a directory are removed one after the other, then, unless it
\* holds data_location.toml, the directory.
Clearing(x, d, then) ==
  [x EXCEPT !.at = "clear", !.on = d, !.then = then,
            !.left = Entries(dirs[d]) \ (IF d = x.boot THEN {"location"} ELSE {})]

Move(p) == proc[p].loc.migration
Source(p) == dirs[Move(p).source]
Target(p) == dirs[Move(p).target]
Stage(p) == stages[Move(p).id]
Restores(p) == Move(p).target = proc[p].boot
-----------------------------------------------------------------------------
\* initialize_config_dir_paths: the directory of older releases is renamed.

Launch(p) ==
  /\ At(p, "off") /\ p \in scene.processes
  /\ Become(p, [Off EXCEPT !.at = "inspect"])
  /\ UNCHANGED disk /\ Steady

Inspect(p) ==
  /\ At(p, "inspect")
  /\ Become(p, IF dirs["default"] # Missing \/ dirs["legacy"] = Missing
                 THEN [proc[p] EXCEPT !.at = "read", !.boot = "default"]
                 ELSE To(p, "rename"))
  /\ UNCHANGED disk /\ Steady

RenameLegacy(p) ==
  /\ At(p, "rename")
  /\ \/ /\ dirs["legacy"] # Missing /\ dirs["default"] = Missing
        /\ dirs' = [dirs EXCEPT !["default"] = dirs["legacy"], !["legacy"] = Missing]
        /\ Become(p, [proc[p] EXCEPT !.at = "read", !.boot = "default"])
        /\ UNCHANGED stages /\ Steady
     \/ /\ IF dirs["legacy"] = Missing \/ dirs["default"] # Missing
             THEN Steady ELSE Fault("rename")
        /\ Become(p, [proc[p] EXCEPT !.at = "read", !.boot = "legacy"])
        /\ UNCHANGED disk

\* Mutant of ReadLocation: after the switch nothing is left to be done.
ReadLocationCopyOnly(p) ==
  /\ At(p, "read")
  /\ LET boot == proc[p].boot
         loc == Recorded(boot)
         x == [proc[p] EXCEPT !.loc = loc]
     IN /\ dirs' = [dirs EXCEPT ![boot] = Made(@)]
        /\ Become(p, IF loc.migration.phase = "copy" THEN [x EXCEPT !.at = "prepare"]
                     ELSE Enter(x))
  /\ UNCHANGED stages /\ Steady

\* initialize_standard_runtime: the location file decides.
ReadLocation(p) ==
  /\ At(p, "read")
  /\ LET boot == proc[p].boot
         loc == Recorded(boot)
         x == [proc[p] EXCEPT !.loc = loc]
     IN /\ dirs' = [dirs EXCEPT ![boot] = Made(@)]
        /\ Become(p, CASE loc.migration.phase = "none" -> Enter(x)
                       [] loc.migration.phase = "copy" -> [x EXCEPT !.at = "prepare"]
                       [] loc.migration.phase = "cleanup" -> [x EXCEPT !.at = "cleanup"])
  /\ UNCHANGED stages /\ Steady
-----------------------------------------------------------------------------
\* resume_data_migration, up to the switch.

\* The target is as a crash left it, or must be as the user chose it.
PrepareTarget(p) ==
  /\ At(p, "prepare")
  /\ UNCHANGED disk
  /\ \/ /\ Become(p, IF Source(p) = Missing THEN Failed(proc[p])
                     ELSE IF Target(p).marker = Move(p).id
                       THEN To(p, IF Covers(Source(p), Target(p)) THEN "switch" ELSE "stage")
                     ELSE IF Restores(p) THEN Clearing(proc[p], Move(p).target, "stage")
                     ELSE IF ~Vacant(Target(p), FALSE) THEN Failed(proc[p])
                     ELSE To(p, "stage"))
        /\ Steady
     \/ Become(p, Failed(proc[p])) /\ Fault("prepare")

RemoveEntry(p) ==
  /\ At(p, "clear") /\ proc[p].left # {}
  /\ \/ \E e \in proc[p].left :
          /\ IF proc[p].on = proc[p].boot /\ e \notin Entries(dirs[proc[p].on])
               THEN Become(p, Failed(proc[p])) /\ UNCHANGED disk
               ELSE /\ dirs' = [dirs EXCEPT ![proc[p].on] = Without(@, e)]
                    /\ UNCHANGED stages
                    /\ Become(p, [proc[p] EXCEPT !.left = @ \ {e}])
          /\ Steady
     \/ Become(p, Failed(proc[p])) /\ Fault("clear") /\ UNCHANGED disk

\* Then the directory.  For the clean-up one that is gone is as good as removed; a
\* rollback fails if its target was gone before it was opened.
Cleared(p) ==
  /\ At(p, "clear") /\ proc[p].left = {}
  /\ LET d == proc[p].on
     IN IF d = proc[p].boot \/ dirs[d] = Missing
          THEN /\ \/ Become(p, To(p, proc[p].then))
                  \/ proc[p].then = "recreate" /\ Become(p, Failed(proc[p]))
               /\ UNCHANGED disk
        ELSE IF dirs[d] = Empty
          THEN /\ Become(p, To(p, proc[p].then))
               /\ dirs' = [dirs EXCEPT ![d] = Missing] /\ UNCHANGED stages
        ELSE Become(p, Failed(proc[p])) /\ UNCHANGED disk
  /\ Steady

\* Mutant of MakeStage: data_location.toml is copied as well.
MakeStageOfAll(p) ==
  /\ At(p, "stage")
  /\ \/ /\ stages' = [stages EXCEPT ![Move(p).id] =
                        [Empty EXCEPT !.location = Source(p).location]]
        /\ UNCHANGED dirs
        /\ Become(p, [To(p, "copy") EXCEPT !.left = Entries(Source(p)) \cap File])
        /\ Steady
     \/ Become(p, Failed(proc[p])) /\ Fault("stage") /\ UNCHANGED disk

\* copy_tree, file by file, to a stage that is new.
MakeStage(p) ==
  /\ At(p, "stage")
  /\ \/ /\ stages' = [stages EXCEPT ![Move(p).id] = Empty] /\ UNCHANGED dirs
        /\ Become(p, [To(p, "copy") EXCEPT !.left = Entries(Source(p)) \cap File])
        /\ Steady
     \/ Become(p, Failed(proc[p])) /\ Fault("stage") /\ UNCHANGED disk

CopyFile(p) ==
  /\ At(p, "copy") /\ proc[p].left # {}
  /\ \/ \E f \in proc[p].left :
          /\ IF Source(p).data[f] = 0 \/ Stage(p) = Missing
               THEN Become(p, Failed(proc[p])) /\ UNCHANGED disk
               ELSE /\ stages' = [stages EXCEPT ![Move(p).id] = With(@, f, Source(p))]
                    /\ UNCHANGED dirs
                    /\ Become(p, [proc[p] EXCEPT !.left = @ \ {f}])
          /\ Steady
     \/ Become(p, Failed(proc[p])) /\ Fault("copy") /\ UNCHANGED disk

\* The copy is compared with the source, and marked as this migration's.
WriteMarker(p) ==
  /\ stages' = [stages EXCEPT ![Move(p).id] = [Made(@) EXCEPT !.marker = Move(p).id]]
  /\ UNCHANGED dirs

MarkStage(p) ==
  /\ At(p, "copy") /\ proc[p].left = {}
  /\ LET verified == Covers(Source(p), Stage(p)) /\ Source(p) # Missing
     IN \/ verified /\ WriteMarker(p) /\ Become(p, To(p, "place")) /\ Steady
        \/ ~verified /\ UNCHANGED disk /\ Become(p, Failed(proc[p])) /\ Steady
        \/ /\ verified /\ (WriteMarker(p) \/ UNCHANGED disk)
           /\ Become(p, Failed(proc[p])) /\ Fault("mark")

\* materialize_migration_target: the bootstrap is emptied and filled entry by
\* entry, ...
PlaceStage(p) ==
  /\ At(p, "place")
  /\ \/ /\ IF Restores(p)
             THEN Become(p, Clearing(proc[p], Move(p).target, "move")) /\ UNCHANGED disk
           ELSE IF Target(p) = Empty
             THEN /\ dirs' = [dirs EXCEPT ![Move(p).target] = Missing] /\ UNCHANGED stages
                  /\ Become(p, To(p, "activate"))
           ELSE Become(p, Failed(proc[p])) /\ UNCHANGED disk
        /\ Steady
     \/ Become(p, Failed(proc[p])) /\ Fault("place") /\ UNCHANGED disk

MoveEntry(p) ==
  /\ At(p, "move")
  /\ \/ /\ IF Stage(p) = Missing
             THEN Become(p, Failed(proc[p])) /\ UNCHANGED disk
           ELSE IF Stage(p) = Empty
             THEN /\ stages' = [stages EXCEPT ![Move(p).id] = Missing] /\ UNCHANGED dirs
                  /\ Become(p, To(p, "recheck"))
           ELSE \E e \in Entries(Stage(p)) :
                  /\ stages' = [stages EXCEPT ![Move(p).id] = Without(@, e)]
                  /\ dirs' = [dirs EXCEPT ![Move(p).target] = With(@, e, Stage(p))]
                  /\ UNCHANGED proc
        /\ Steady
     \/ Become(p, Failed(proc[p])) /\ Fault("move") /\ UNCHANGED disk

\* ... any other target is replaced by the stage.
Activate(p) ==
  /\ At(p, "activate")
  /\ \/ /\ IF Stage(p) = Missing \/ Target(p) \notin {Missing, Empty}
             THEN Become(p, Failed(proc[p])) /\ UNCHANGED disk
             ELSE /\ dirs' = [dirs EXCEPT ![Move(p).target] = Stage(p)]
                  /\ stages' = [stages EXCEPT ![Move(p).id] = Missing]
                  /\ Become(p, To(p, "recheck"))
        /\ Steady
     \/ Become(p, Failed(proc[p])) /\ Fault("activate") /\ UNCHANGED disk

Recheck(p) ==
  /\ At(p, "recheck")
  /\ Become(p, IF Source(p) # Missing /\ Covers(Source(p), Target(p))
                 THEN To(p, "switch") ELSE Failed(proc[p]))
  /\ UNCHANGED disk /\ Steady
-----------------------------------------------------------------------------
\* The switch and what follows it.

\* The file is replaced and its directory synchronised: when this fails the file
\* may have been replaced or not.
WriteLocation(p, loc) ==
  /\ dirs' = [dirs EXCEPT ![proc[p].boot] = [Made(@) EXCEPT !.location = loc]]
  /\ UNCHANGED stages

Switch(p) ==
  /\ At(p, "switch")
  /\ LET loc == [active |-> IF Move(p).target = "default" THEN None ELSE Move(p).target,
                 migration |-> [Move(p) EXCEPT !.phase = "cleanup"]]
         x == [proc[p] EXCEPT !.loc = loc]
     IN \/ WriteLocation(p, loc) /\ Become(p, [x EXCEPT !.at = "cleanup"]) /\ Steady
        \/ /\ WriteLocation(p, loc) \/ UNCHANGED disk
           /\ Become(p, Failed(x)) /\ Fault("switch")

Cleanup(p) ==
  /\ At(p, "cleanup")
  /\ Become(p, Clearing(proc[p], Move(p).source, "unmark"))
  /\ UNCHANGED disk /\ Steady

Unmark(p) ==
  /\ At(p, "unmark")
  /\ \/ dirs' = [dirs EXCEPT ![Move(p).target].marker = 0] /\ UNCHANGED stages /\ Steady
     \/ UNCHANGED disk /\ Fault("unmark")
  /\ Become(p, To(p, "done"))

Done(p) ==
  /\ At(p, "done")
  /\ LET x == [proc[p] EXCEPT !.loc.migration = NoMove]
     IN \/ /\ WriteLocation(p, x.loc)
           /\ Become(p, [x EXCEPT !.at = "enter", !.active = Move(p).target])
           /\ Steady
        \/ /\ WriteLocation(p, x.loc) \/ UNCHANGED disk
           /\ Become(p, Failed(x)) /\ Fault("done")
-----------------------------------------------------------------------------
\* rollback_failed_copy_migration: the stage goes, and the target if it is
\* this migration's; then the wish is forgotten.

DropStage(p) ==
  /\ At(p, "drop")
  /\ \/ /\ stages' = [stages EXCEPT ![Move(p).id] = Missing] /\ UNCHANGED dirs
        /\ Become(p, IF Target(p).marker # Move(p).id THEN To(p, "forget")
                     ELSE Clearing(proc[p], Move(p).target,
                                   IF Restores(p) THEN "forget" ELSE "recreate"))
        /\ Steady
     \/ Become(p, Failed(proc[p])) /\ Fault("drop") /\ UNCHANGED disk

Recreate(p) ==
  /\ At(p, "recreate")
  /\ \/ /\ IF Target(p) = Missing
             THEN /\ dirs' = [dirs EXCEPT ![Move(p).target] = Empty] /\ UNCHANGED stages
                  /\ Become(p, To(p, "forget"))
             ELSE Become(p, Failed(proc[p])) /\ UNCHANGED disk
        /\ Steady
     \/ Become(p, Failed(proc[p])) /\ Fault("recreate") /\ UNCHANGED disk

Forget(p) ==
  /\ At(p, "forget")
  /\ LET x == [proc[p] EXCEPT !.loc.migration = NoMove]
     IN /\ Become(p, Enter(x))
        /\ \/ WriteLocation(p, x.loc) /\ Steady
           \/ (WriteLocation(p, x.loc) \/ UNCHANGED disk) /\ Fault("forget")
-----------------------------------------------------------------------------
\* The application runs: only now the instances exclude each other, by a lock
\* on a file in the active directory.

Running(p, d) == proc[p].at \in {"running", "quitting"} /\ proc[p].active = d

Lock(p) ==
  /\ At(p, "enter")
  /\ LET d == proc[p].active
     IN /\ dirs' = [dirs EXCEPT ![d] = Made(@)]
        /\ Become(p, IF \E q \in Process : Running(q, d) THEN Off ELSE To(p, "running"))
  /\ UNCHANGED stages /\ Steady

Save(p, f) ==
  /\ At(p, "running")
  /\ used.saves < scene.saves
  /\ used' = [used EXCEPT !.saves = @ + 1]
  /\ saved' = [saved EXCEPT ![f] = @ + 1]
  /\ dirs' = [dirs EXCEPT ![proc[p].active] =
                [Made(@) EXCEPT !.data[f] = saved[f] + 1]]
  /\ UNCHANGED <<stages, proc, wish, scene>>

\* The user chooses an empty directory, perhaps a new one, or the default one;
\* the application quits when the wish is recorded.
Schedule(p, target) ==
  LET active == proc[p].active
      boot == proc[p].boot
      folder == IF target \in Chosen THEN Made(dirs[target]) ELSE dirs[target]
      loc == [Recorded(boot) EXCEPT
                !.active = IF active = "default" THEN None ELSE active,
                !.migration = [id |-> used.moves + 1, source |-> active,
                               target |-> target, phase |-> "copy"]]
      now == [dirs EXCEPT ![target] = folder]
  IN /\ At(p, "running")
     /\ used.moves < scene.moves
     /\ target # active
     /\ Vacant(folder, target = boot)
     /\ \/ /\ dirs' = [now EXCEPT ![boot].location = loc]
           /\ wish' = target
           /\ used' = [used EXCEPT !.moves = @ + 1]
           /\ Become(p, To(p, "quitting"))
        \/ /\ MayFail("schedule")
           /\ dirs' \in {now, [now EXCEPT ![boot].location = loc]}
           /\ used' = [used EXCEPT !.moves = @ + 1, !.faults = @ + 1]
           /\ UNCHANGED <<proc, wish>>
     /\ UNCHANGED <<stages, saved, scene>>

Quit(p) ==
  /\ proc[p].at \in {"running", "quitting"}
  /\ Become(p, Off)
  /\ UNCHANGED disk /\ Steady

Crash(p) ==
  /\ ~At(p, "off")
  /\ used.crashes < scene.crashes
  /\ used' = [used EXCEPT !.crashes = @ + 1]
  /\ Become(p, Off)
  /\ UNCHANGED disk /\ Quiet

Start(p) ==
  \/ Inspect(p) \/ RenameLegacy(p) \/ ReadLocation(p)
  \/ PrepareTarget(p) \/ RemoveEntry(p) \/ Cleared(p)
  \/ MakeStage(p) \/ CopyFile(p) \/ MarkStage(p)
  \/ PlaceStage(p) \/ MoveEntry(p) \/ Activate(p) \/ Recheck(p)
  \/ Switch(p) \/ Cleanup(p) \/ Unmark(p) \/ Done(p)
  \/ DropStage(p) \/ Recreate(p) \/ Forget(p) \/ Lock(p)

Next ==
  \E p \in Process :
    \/ Launch(p) \/ Start(p) \/ Quit(p) \/ Crash(p)
    \/ \E f \in File : Save(p, f)
    \/ \E d \in Place : Schedule(p, d)

Spec == Init /\ [][Next]_vars
-----------------------------------------------------------------------------
(* Correctness.                                                            *)

Bootstrap == {"default", "legacy"}

\* data_location.toml is found in a bootstrap only: it is not copied along.
TypeOK ==
  /\ scene \in Scenarios
  /\ dirs \in [Place -> Directory] /\ stages \in [Id -> Directory]
  /\ \A d \in Place \ Bootstrap : dirs[d].location = None
  /\ \A i \in Id : stages[i].location = None
  /\ \A p \in Process :
       /\ proc[p].boot \in Bootstrap \cup {None}
       /\ proc[p].active \in Place \cup {None}
       /\ proc[p].loc \in Location
       /\ proc[p].loc.migration.id <= used.moves
       /\ proc[p].left \subseteq File \cup {"marker", "location"}
  /\ saved \in Files /\ wish \in Place

\* What the next start would take for the data directory, and for the source
\* or the target of the move it finds.
NextBoot ==
  IF dirs["default"] # Missing \/ dirs["legacy"] = Missing THEN "default" ELSE "legacy"
Home ==
  LET loc == Recorded(NextBoot)
  IN CASE loc.migration.phase = "copy" -> loc.migration.source
       [] loc.migration.phase = "cleanup" -> loc.migration.target
       [] OTHER -> IF loc.active = None THEN NextBoot ELSE loc.active

\* Whichever step failed, or was the last one of its process: the next start
\* finds every file as the user saved it last.
NothingLost == dirs[Home].data = saved

\* A process that runs after any number of interrupted starts has settled the
\* move: it works where the next start will, where the user wanted unless a
\* start was interrupted, and no marker, old file or file in a stage is left.
MovesSettle ==
  used.faults = 0 =>
    \A p \in Process : At(p, "running") =>
      /\ proc[p].active = Home
      /\ used.crashes = 0 => Home = wish \/ (wish = "legacy" /\ Home = "default")
      /\ dirs[Home].marker = 0
      /\ \A d \in Place \ {Home} : Entries(dirs[d]) \subseteq {"location"}
      /\ \A i \in Id : Entries(stages[i]) = {}
=============================================================================
