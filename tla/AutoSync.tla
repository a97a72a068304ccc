------------------------------ MODULE AutoSync ------------------------------
(***************************************************************************)
(* The automatic synchronisation scheduler of crates/miaominal-services    *)
(* (services/auto_sync.rs) and the parts of the desktop application that   *)
(* command it.                                                             *)
(*                                                                         *)
(* The scheduler is one task.  It takes commands from a queue, and when    *)
(* the queue is empty it serves its timers (retry, debounce, tick) and the *)
(* file watcher.  A handler runs until it awaits: a capability probe, the  *)
(* local revision, or an operation of the sync engine.  While it waits the *)
(* user edits, presses buttons and locks the vault, and other devices      *)
(* write.  The task decides with its own copy of the configuration, the    *)
(* application has another, and the file on disk is a third.               *)
(*                                                                         *)
(* The engine's operations are atomic here: SyncEngine models what happens *)
(* inside of them.  The process-wide sync lock serialises them.            *)
(***************************************************************************)
EXTENDS Naturals, Sequences, FiniteSets

CONSTANTS
  Data,        \* contents of the local stores and of the remote
  None,        \* no remote, no baseline
  Scenarios    \* what may happen in a behaviour: a set of records of
               \*   providers: "WebDav" and/or "GithubGist";
               \*   servers: what WebDAV servers do with write preconditions,
               \*     "conditional" (honour them), "plain" (ignore them);
               \*   watcher: the file watcher works;
               \*   commands: what the user does, "switch", "recheck", "lock",
               \*     "manual", "setting";
               \*   and bounds on edits (here or by other devices), asks (user
               \*   commands) and faults (failing probes and operations)

ASSUME AutoSyncAssumption ==
  /\ Data # {} /\ None \notin Data
  /\ \A s \in Scenarios :
       /\ s.providers \subseteq {"WebDav", "GithubGist"}
       /\ s.servers \subseteq {"conditional", "plain"}
       /\ s.watcher \in BOOLEAN
       /\ {s.edits, s.asks, s.faults} \subseteq Nat

VARIABLES
  world,   \* provider and server; local and remote content
  disk,    \* the persisted sync configuration
  app,     \* the application's copy of it, and what the user did last
  gen,     \* the cancellation generation shared by user interface and task
  slot,    \* CheckRequests: the pending token (0: none), and cancelled
  queue,   \* commands to the task
  pub,     \* the snapshot the task published last; new: not yet received
  t,       \* the task
  event,   \* the watcher saw a tracked file change
  spent    \* edits, asks and faults so far, and the scenario

otherVars == <<world, app, gen, event>>
vars == <<otherVars, disk, slot, queue, pub, t, spent>>

Content == Data \cup {None}
Phase == {"CheckingCapability", "PausedCapability", "Disabled", "Watching",
          "Debouncing", "Pushing", "Pulling", "PullRequired",
          "PausedVaultLocked", "RetryBackoff"}
Capability == {"Unknown", "Checking", "Supported", "Precondition", "Network",
               "Cancelled", "Other"}

\* base is last_synced_local_revision, exempt is legacy_auto_sync_compat.
Config == [enabled : BOOLEAN, consent : BOOLEAN, exempt : BOOLEAN,
           base : Content, rev : Nat]

World == [provider : {"WebDav", "GithubGist"},
          server : {"conditional", "plain"}, local : Data, remote : Content]

App == [cfg : Config, locked : BOOLEAN,
        shown : Phase,               \* the phase the settings page displays
        ui : {"idle", "turningOff"}, \* between cancel_check and the config write
        off : BOOLEAN]               \* history: turned off, and not on again since

\* Where the task waits, and what it does when the probe has passed.
Await == {"start", "idle", "enable", "probe", "enabling", "refresh", "push",
          "after", "poll", "pollRefresh", "compare", "pull", "pullRefresh",
          "engineRefresh", "reconcileRefresh"}
Continuation == {"none", "enable", "recheck", "tick", "push", "poll", "verdict"}

Task == [enabled : BOOLEAN, locked : BOOLEAN, phase : Phase, dirty : BOOLEAN,
         missing : BOOLEAN, conflict : BOOLEAN,
         retry : {"none", "Poll", "Push"}, debounce : BOOLEAN,
         cap : Capability, cfg : Config,
         at : Await, then : Continuation,
         inTick : BOOLEAN,    \* on_tick: poll_remote follows push_if_dirty
         attempt : {0, 1},
         began : Nat,         \* disk revision when the operation or probe began
         holds : Nat,         \* token of the check request being served
         token : Nat,         \* generation an enable request must still have
         probe : Nat,         \* generation of the probe in flight
         seen : Content,      \* remote content a poll reported
         expected : Content,  \* local content a pull must find
         consent : BOOLEAN]   \* consent carried by the enable request

\* status, cfg, ... are only meaningful for the commands that carry them.
Command == [cmd : {"EnableChecked", "RecheckCapability", "CancelCheck",
                   "SetEngine", "ReconcileManualSync", "SetVaultLocked"},
            token : Nat, consent : BOOLEAN, cfg : Config, locked : BOOLEAN,
            status : {"none", "Pushed", "Pulled", "UpToDate", "PullRequired"}]

Spent == [edits : Nat, asks : Nat, faults : Nat, scenario : Scenarios]
May == spent.scenario

TypeOK ==
  /\ world \in World
  /\ disk \in Config
  /\ app \in App
  /\ gen \in Nat \ {0}
  /\ slot \in [pending : Nat, cancelled : BOOLEAN]
  /\ queue \in Seq(Command)
  /\ pub \in [phase : Phase, cap : Capability, cfg : Config, new : BOOLEAN]
  /\ t \in Task
  /\ event \in BOOLEAN
  /\ spent \in Spent

Snapshot(x) == [phase |-> x.phase, cap |-> x.cap, cfg |-> x.cfg, new |-> TRUE]

\* The application starts on the configuration of an earlier run.
Init ==
  /\ spent \in {[edits |-> 0, asks |-> 0, faults |-> 0, scenario |-> s] :
                 s \in Scenarios}
  /\ world \in {[provider |-> p, server |-> s, local |-> l, remote |-> r] :
                  p \in May.providers, s \in May.servers, l \in Data, r \in Content}
  /\ world.provider = "GithubGist" => world.server = "conditional"
  /\ disk \in {[enabled |-> e, consent |-> c, exempt |-> x, base |-> b, rev |-> 0] :
                 e, c, x \in BOOLEAN, b \in Content}
  /\ disk.consent \/ disk.exempt => disk.enabled /\ world.provider = "WebDav"
  /\ disk.base # None => world.remote # None
  /\ app \in {[cfg |-> disk, locked |-> k, shown |-> "Disabled", ui |-> "idle",
              off |-> FALSE] :
                k \in BOOLEAN}
  /\ gen = 1
  /\ slot = [pending |-> 0, cancelled |-> FALSE]
  /\ queue = <<>>
  /\ t = [enabled |-> disk.enabled, locked |-> app.locked,
          phase |-> IF ~disk.enabled THEN "Disabled"
                    ELSE IF app.locked THEN "PausedVaultLocked" ELSE "Watching",
          dirty |-> FALSE, missing |-> FALSE, conflict |-> FALSE,
          retry |-> "none", debounce |-> FALSE, cap |-> "Unknown", cfg |-> disk,
          at |-> "start", then |-> "none", inTick |-> FALSE, attempt |-> 0,
          began |-> 0, holds |-> 0, token |-> 0, probe |-> 0, seen |-> None,
          expected |-> None, consent |-> FALSE]
  /\ pub = Snapshot(t)
  /\ event = FALSE
-----------------------------------------------------------------------------
(* Fragments of the task's handlers, as functions of its state.            *)

Gist == world.provider = "GithubGist"

\* capability_blocks
Blocks(x) ==
  /\ ~Gist /\ x.cap # "Supported" /\ ~x.cfg.exempt
  /\ ~(x.cap = "Precondition" /\ x.cfg.consent)

Active(x) == x.enabled /\ ~x.locked

\* Where a handler leaves the phase when nothing is wrong.
RestingPhase(x) ==
  IF ~x.enabled THEN "Disabled"
  ELSE IF x.locked THEN "PausedVaultLocked"
  ELSE IF Blocks(x) THEN "PausedCapability"
  ELSE IF x.conflict THEN "PullRequired" ELSE "Watching"

EnabledPhase(x) == IF x.enabled THEN "Watching" ELSE "Disabled"

ResetBackoff(x) == [x EXCEPT !.retry = "none"]

ScheduleRetry(x, action) ==
  [x EXCEPT !.retry = action, !.phase = "RetryBackoff"]

RecordCapability(x, c) ==
  [x EXCEPT !.cap = c,
            !.phase = IF x.enabled THEN "PausedCapability" ELSE "Disabled"]

EnterIntervention(x) ==
  [x EXCEPT !.dirty = TRUE, !.conflict = TRUE, !.phase = "PullRequired"]

\* The handler returns.
Stop(x) ==
  [x EXCEPT !.at = "idle", !.then = "none", !.inTick = FALSE, !.attempt = 0,
            !.began = 0, !.holds = 0, !.token = 0, !.probe = 0, !.seen = None,
            !.expected = None, !.consent = FALSE]

Probe(x, then) ==
  [x EXCEPT !.at = "probe", !.then = then, !.cap = "Checking",
            !.phase = "CheckingCapability", !.began = x.cfg.rev, !.probe = gen]

\* ensure_capability(false): passes at once, ...
Passes(x) == Gist \/ (~x.locked /\ ~Blocks(x))

\* ... fails at once, or probes first.
EnsureCapability(x, then) ==
  IF x.locked THEN Stop([x EXCEPT !.phase = "PausedVaultLocked"])
  ELSE IF \/ x.cap \in {"Precondition", "Cancelled", "Other"}
          \/ x.cap = "Network" /\ x.retry # "none"
  THEN Stop([x EXCEPT !.phase = IF x.retry # "none" THEN "RetryBackoff"
                                ELSE "PausedCapability"])
  ELSE Probe(x, then)

\* The revision on disk once this step, which may have written it, is done.
DiskRevision(x) == IF x.cfg.rev > disk.rev THEN x.cfg.rev ELSE disk.rev

AskRemote(x) ==
  [x EXCEPT !.at = "poll", !.phase = "Pulling", !.inTick = FALSE,
            !.then = "none", !.began = DiskRevision(x)]

PollRemote(x) ==
  IF Passes(x) THEN AskRemote(x)
  ELSE EnsureCapability([x EXCEPT !.inTick = FALSE], "poll")

\* Mutant of LeavePush: a failed push does not keep the tick from polling.
LeavePushAlwaysPolls(x) ==
  IF x.inTick /\ ~x.conflict /\ x.phase # "Pushing"
  THEN PollRemote(x) ELSE Stop(x)

\* Mutant of LeavePush: a phase left by the debounce counts as a push.
LeavePushDebouncing(x) ==
  IF x.inTick /\ ~x.conflict
     /\ x.phase \notin {"Pushing", "RetryBackoff", "Debouncing"}
  THEN PollRemote(x) ELSE Stop(x)

\* push_if_dirty returns; on_tick may go on to poll.
LeavePush(x) ==
  IF x.inTick /\ ~x.conflict /\ x.phase \notin {"Pushing", "RetryBackoff"}
  THEN PollRemote(x) ELSE Stop(x)

\* An attempt of push_if_dirty.
PushAttempt(x, n) ==
  IF x.conflict
  THEN LeavePush([x EXCEPT !.dirty = TRUE, !.phase = "PullRequired"])
  ELSE [x EXCEPT !.at = "refresh", !.then = "none", !.attempt = n]

PushIfDirty(x) ==
  IF Passes(x) THEN PushAttempt(x, 0) ELSE EnsureCapability(x, "push")

\* on_tick; the check of capability in push_if_dirty passes when this one does.
OnTick(x) ==
  IF ~Active(x) \/ x.retry # "none" THEN Stop(x)
  ELSE IF Passes(x) THEN PushAttempt([x EXCEPT !.inTick = TRUE], 0)
  ELSE EnsureCapability(x, "tick")

\* Mutant of Revised: a missing remote is forgotten.
RevisedByContent(x) == [x EXCEPT !.dirty = x.cfg.base # world.local]

\* refresh_dirty_from_revision
Revised(x) == [x EXCEPT !.dirty = x.missing \/ x.cfg.base # world.local]
-----------------------------------------------------------------------------
(* The task's steps.                                                       *)

\* Mutant of Freed: whoever finishes frees the slot.
FreedByAnyone(token) ==
  IF token # 0 THEN [slot EXCEPT !.pending = 0] ELSE slot

\* CheckRequests::finish: only the owner of the slot frees it.
Freed(token) ==
  IF slot.pending = token THEN [slot EXCEPT !.pending = 0] ELSE slot

\* The task goes on as x, serving a check request or done with it; set_phase
\* and record_capability publish.
Serve(token, x) ==
  /\ t' = x
  /\ slot' = IF x.holds = 0 THEN Freed(token) ELSE slot
  /\ pub' = IF <<x.phase, x.enabled, x.cap>> # <<t.phase, t.enabled, t.cap>>
            THEN Snapshot(x) ELSE pub

Become(x) == Serve(t.holds, x)

Fault ==
  spent.faults < May.faults /\ spent' = [spent EXCEPT !.faults = @ + 1]

\* A write of the configuration; one that changes nothing keeps its revision.
Written(c) == IF c = disk THEN disk ELSE [c EXCEPT !.rev = disk.rev + 1]

Start ==
  /\ t.at = "start"
  /\ Become(IF ~Active(t) THEN Stop(t)
            ELSE IF t.cfg.base = None THEN PollRemote(t) ELSE OnTick(t))
  /\ UNCHANGED <<otherVars, disk, queue, spent>>
-----------------------------------------------------------------------------
(* The capability probe and enable_checked.                                *)

\* What the probe reports about this server, or about the connection.
ProbeReport(r) ==
  \/ /\ r = IF world.server = "conditional" THEN "Supported" ELSE "Precondition"
     /\ UNCHANGED spent
  \/ r \in {"Network", "Other"} /\ Fault

\* A report that was cancelled, or overtaken by a settings change, is void.
Believed(r) ==
  IF t.probe # gen \/ disk.rev # t.began THEN "Cancelled" ELSE r

\* Consent recorded before the probe accepts a failure of preconditions.
Accepted(r) == r = "Supported" \/ (r = "Precondition" /\ t.cfg.consent)

Judged(x, r) ==
  IF r = "Supported"
  THEN [ResetBackoff(x) EXCEPT !.cap = r, !.phase = EnabledPhase(x)]
  ELSE IF r = "Network" /\ x.enabled
  THEN ScheduleRetry(RecordCapability(x, r), "Poll")
  ELSE IF Accepted(r)
  THEN [RecordCapability(x, r) EXCEPT !.phase = EnabledPhase(x)]
  ELSE RecordCapability(x, r)

\* What the caller of check_capability does with the answer.
AfterProbe(x, passed) ==
  CASE x.then = "verdict" ->
         LeavePush(IF passed THEN RecordCapability(x, "Precondition") ELSE x)
    [] x.then = "enable" /\ passed /\ x.token = gen ->
         [x EXCEPT !.at = "enabling", !.then = "none"]
    [] x.then = "recheck" /\ passed /\ x.enabled -> OnTick(x)
    [] x.then = "tick" /\ passed -> PushAttempt([x EXCEPT !.inTick = TRUE], 0)
    [] x.then = "push" /\ passed -> PushAttempt(x, 0)
    [] x.then = "poll" /\ passed -> AskRemote(x)
    [] OTHER -> Stop(x)

ProbeAnswered ==
  /\ t.at = "probe"
  /\ \E r \in Capability :
       /\ ProbeReport(r)
       /\ Become(AfterProbe(Judged([t EXCEPT !.cfg = disk], Believed(r)),
                            Accepted(Believed(r))))
  /\ UNCHANGED <<otherVars, disk, queue>>

\* The token was good; the passphrase is read, consent stored, a probe begun.
BeginEnable ==
  LET wanted == [disk EXCEPT !.consent = t.consent]
      changes == t.cfg.consent # t.consent
  IN /\ t.at = "enable"
     /\ IF t.locked
        THEN /\ Become(Stop([t EXCEPT !.phase = "PausedVaultLocked"]))
             /\ UNCHANGED disk
        ELSE IF changes /\ disk.rev # t.cfg.rev
        THEN /\ Become(Stop(RecordCapability([t EXCEPT !.cfg = disk], "Other")))
             /\ UNCHANGED disk
        ELSE /\ disk' = IF changes THEN Written(wanted) ELSE disk
             /\ Become(Probe([t EXCEPT !.token = gen,
                                !.cfg = IF changes THEN Written(wanted) ELSE @],
                             "enable"))
     /\ UNCHANGED <<otherVars, queue, spent>>

\* Mutant of EndEnable: the preference is stored, the task not told.
EndEnableUntold ==
  LET on == Written([disk EXCEPT !.enabled = TRUE])
  IN /\ t.at = "enabling" /\ disk.rev = t.cfg.rev
     /\ disk' = on
     /\ Become(OnTick([t EXCEPT !.cfg = on]))
     /\ UNCHANGED <<otherVars, queue, spent>>

\* update_if_revision writes only over the revision the probe looked at.
EndEnable ==
  LET on == Written([disk EXCEPT !.enabled = TRUE])
  IN /\ t.at = "enabling"
     /\ IF disk.rev = t.cfg.rev
        THEN /\ disk' = on
             /\ Become(OnTick([t EXCEPT !.enabled = TRUE, !.cfg = on]))
        ELSE /\ Become(Stop(RecordCapability([t EXCEPT !.cfg = disk], "Other")))
             /\ UNCHANGED disk
     /\ UNCHANGED <<otherVars, queue, spent>>
-----------------------------------------------------------------------------
(* The local revision is awaited before every decision.                    *)

RefreshBeforePush ==
  LET x == Revised(t) IN
  /\ t.at = "refresh"
  /\ Become(IF x.dirty
            THEN [x EXCEPT !.at = "push", !.phase = "Pushing", !.began = disk.rev]
            ELSE LeavePush(x))
  /\ UNCHANGED <<otherVars, disk, queue, spent>>

\* After a push: edits made during it are pushed at once, but only once.
RefreshAfterPush ==
  LET x == Revised(t) IN
  /\ t.at = "after"
  /\ Become(IF x.dirty /\ x.attempt = 0
            THEN PushAttempt(x, 1)
            ELSE LeavePush([x EXCEPT !.phase = "Watching"]))
  /\ UNCHANGED <<otherVars, disk, queue, spent>>

RefreshAfterPoll ==
  LET x == Revised(t) IN
  /\ t.at = "pollRefresh"
  /\ Become(Stop([x EXCEPT !.phase =
                    IF x.conflict THEN "PullRequired" ELSE "Watching"]))
  /\ UNCHANGED <<otherVars, disk, queue, spent>>

RefreshAfterPull ==
  /\ t.at = "pullRefresh"
  /\ Become(Stop([Revised(t) EXCEPT !.phase = "Watching"]))
  /\ UNCHANGED <<otherVars, disk, queue, spent>>

\* classify_content_revisions
Relation(l, r, b) ==
  IF l = r THEN "Identical"
  ELSE IF b = None THEN "MissingBaseline"
  ELSE IF l = b THEN "RemoteChanged"
  ELSE IF r = b THEN "LocalChanged" ELSE "Diverged"

\* The remote was updated: what that means for what is here.
CompareWithRemote ==
  LET x == Revised(t)
      relation == Relation(world.local, t.seen, t.cfg.base)
  IN /\ t.at = "compare"
     /\ Become(
          CASE relation = "LocalChanged" -> PushIfDirty(x)
            [] relation \in {"Diverged", "MissingBaseline"} ->
                 Stop(EnterIntervention(x))
            [] OTHER -> [x EXCEPT !.at = "pull", !.phase = "Pulling",
                                  !.began = disk.rev, !.expected = world.local])
     /\ UNCHANGED <<otherVars, disk, queue, spent>>

RefreshForEngine ==
  LET x == Revised(t) IN
  /\ t.at = "engineRefresh"
  /\ Become(OnTick([x EXCEPT !.phase = RestingPhase(x)]))
  /\ UNCHANGED <<otherVars, disk, queue, spent>>

RefreshAfterManual ==
  LET x == Revised(t) IN
  /\ t.at = "reconcileRefresh"
  /\ Become(Stop([x EXCEPT !.phase = RestingPhase(x)]))
  /\ UNCHANGED <<otherVars, disk, queue, spent>>

RefreshFails ==
  LET x == [t EXCEPT !.dirty = TRUE] IN
  /\ \/ /\ t.at \in {"refresh", "after"}
        /\ Become(LeavePush(ScheduleRetry(x, "Push")))
     \/ /\ t.at \in {"pollRefresh", "compare", "pullRefresh", "reconcileRefresh"}
        /\ Become(Stop(ScheduleRetry(x, "Poll")))
     \/ /\ t.at = "engineRefresh"
        /\ Become(OnTick(ScheduleRetry(x, "Poll")))
  /\ Fault
  /\ UNCHANGED <<otherVars, disk, queue>>
-----------------------------------------------------------------------------
(* Operations of the engine, and their answers.                            *)

Outcome(s, l, r, b) == [status |-> s, local |-> l, remote |-> r, base |-> b]

PushOutcome(l, r, b) ==
  IF r = None \/ Relation(l, r, b) = "LocalChanged" THEN Outcome("Pushed", l, l, l)
  ELSE IF l = r THEN Outcome("UpToDate", l, r, l)
  ELSE Outcome("PullRequired", l, r, b)

\* Mutant of PullOutcome: a remote without payload is pulled like any other.
PullOutcomeOfNothing(l, r, b, automatic) ==
  IF l = r THEN Outcome("UpToDate", l, r, l)
  ELSE IF b = None \/ (automatic /\ Relation(l, r, b) # "RemoteChanged")
  THEN Outcome("PullRequired", l, r, b)
  ELSE Outcome("Pulled", r, r, r)

PullOutcome(l, r, b, automatic) ==
  IF r = None THEN Outcome("UpToDate", l, r, b)
  ELSE IF l = r THEN Outcome("UpToDate", l, r, l)
  ELSE IF b = None \/ (automatic /\ Relation(l, r, b) # "RemoteChanged")
  THEN Outcome("PullRequired", l, r, b)
  ELSE Outcome("Pulled", r, r, r)

\* A new payload always enters the configuration, whatever it contains.
Recorded(o) ==
  IF o.status \in {"Pushed", "Pulled"}
  THEN [disk EXCEPT !.base = o.base, !.rev = @ + 1]
  ELSE Written([disk EXCEPT !.base = o.base])

\* The engine does what o says; an applied pull rewrites the tracked files.
Perform(o) ==
  /\ world' = [world EXCEPT !.local = o.local, !.remote = o.remote]
  /\ disk' = Recorded(o)
  /\ event' = (event \/ (May.watcher /\ o.status = "Pulled"))

Synchronised(x) ==
  ResetBackoff([x EXCEPT !.missing = FALSE, !.conflict = FALSE])

PushAnswered ==
  LET o == PushOutcome(world.local, world.remote, disk.base)
      x == [t EXCEPT !.cfg = Recorded(o)]
  IN /\ t.at = "push" /\ disk.rev = t.began
     /\ Perform(o)
     /\ Become(
          CASE o.status = "Pushed" -> [Synchronised(x) EXCEPT !.at = "after"]
            [] o.status = "PullRequired" -> LeavePush(EnterIntervention(x))
            [] OTHER -> LeavePush([ResetBackoff(x) EXCEPT !.phase = "Watching"]))
     /\ UNCHANGED <<app, gen, queue, spent>>

\* The configuration changed under the push: an upload, if any, is not recorded.
PushOvertaken ==
  LET x == [t EXCEPT !.dirty = TRUE] IN
  /\ t.at = "push" /\ disk.rev # t.began
  /\ \/ UNCHANGED world
     \/ /\ PushOutcome(world.local, world.remote, disk.base).status = "Pushed"
        /\ world' = [world EXCEPT !.remote = world.local]
  /\ \/ Become(LeavePush(EnterIntervention([x EXCEPT !.cfg = disk])))
     \/ Become(LeavePush(ScheduleRetry(x, "Push")))
  /\ UNCHANGED <<app, gen, event, disk, queue, spent>>

\* No connection, no usable version, or a refusal of an unchanged remote: the
\* last is followed by a probe, whose success does not excuse it.
PushFails ==
  LET x == [t EXCEPT !.dirty = TRUE]
      incapable == RecordCapability(ResetBackoff(x), "Precondition")
  IN /\ t.at = "push"
     /\ \/ Become(LeavePush(ScheduleRetry(x, "Push")))
        \/ ~Gist /\ Become(LeavePush(incapable))
        \/ ~Gist /\ Become(Probe(incapable, "verdict"))
     /\ Fault
     /\ UNCHANGED <<otherVars, disk, queue>>

\* The remote is gone, or a Gist was never created: create it.
PollMissing ==
  /\ t.at = "poll" /\ disk.rev = t.began /\ world.remote = None
  /\ Become(PushIfDirty([Synchronised(t) EXCEPT !.missing = TRUE, !.dirty = TRUE]))
  /\ UNCHANGED <<otherVars, disk, queue, spent>>

\* UpToDate and 304: the payload is the one the configuration names.
PollUnchanged ==
  LET x == ResetBackoff(t) IN
  /\ t.at = "poll" /\ disk.rev = t.began
  /\ disk.base # None /\ world.remote = disk.base
  /\ Become(IF x.cfg.base = None THEN Stop(EnterIntervention(x))
            ELSE [x EXCEPT !.at = "pollRefresh", !.began = 0])
  /\ UNCHANGED <<otherVars, disk, queue, spent>>

\* Another payload, perhaps of the same content.
PollUpdated ==
  /\ t.at = "poll" /\ disk.rev = t.began /\ world.remote # None
  /\ Become([t EXCEPT !.at = "compare", !.seen = world.remote, !.began = 0])
  /\ UNCHANGED <<otherVars, disk, queue, spent>>

PollFails ==
  /\ t.at = "poll"
  /\ \/ disk.rev # t.began /\ UNCHANGED spent
     \/ disk.rev = t.began /\ Fault
  /\ \/ Become(Stop(ScheduleRetry(t, "Poll")))
     \/ /\ ~Gist /\ disk.rev = t.began
        /\ Become(Stop(RecordCapability(ResetBackoff(t), "Precondition")))
  /\ UNCHANGED <<otherVars, disk, queue>>

\* pull_if_unchanged
PullAnswered ==
  LET o == IF world.local # t.expected
           THEN Outcome("PullRequired", world.local, world.remote, disk.base)
           ELSE PullOutcome(world.local, world.remote, disk.base, TRUE)
      x == [t EXCEPT !.cfg = Recorded(o)]
  IN /\ t.at = "pull" /\ disk.rev = t.began
     /\ Perform(o)
     /\ Become(IF o.status = "PullRequired" THEN Stop(EnterIntervention(x))
               ELSE [Synchronised(x) EXCEPT !.at = "pullRefresh"])
     /\ UNCHANGED <<app, gen, queue, spent>>

PullFails ==
  /\ t.at = "pull"
  /\ \/ disk.rev # t.began /\ UNCHANGED spent
     \/ disk.rev = t.began /\ Fault
  /\ \/ Become(Stop(ScheduleRetry(t, "Poll")))
     \/ /\ disk.rev # t.began
        /\ Become(Stop(EnterIntervention([t EXCEPT !.cfg = disk])))
  /\ UNCHANGED <<otherVars, disk, queue>>
-----------------------------------------------------------------------------
(* Commands, in the order they were sent.                                  *)

Received == Head(queue)
Take(cmd) ==
  /\ t.at = "idle" /\ queue # <<>> /\ Received.cmd = cmd
  /\ queue' = Tail(queue)

\* A request whose token was cancelled is dropped.
TakeEnable ==
  /\ Take("EnableChecked")
  /\ Serve(Received.token,
           IF Received.token # gen THEN t
           ELSE [t EXCEPT !.at = "enable", !.holds = Received.token,
                          !.consent = Received.consent])
  /\ UNCHANGED <<otherVars, disk, spent>>

TakeRecheck ==
  /\ Take("RecheckCapability")
  /\ Serve(Received.token,
           IF Received.token # gen THEN t
           ELSE IF t.locked THEN [t EXCEPT !.phase = "PausedVaultLocked"]
           ELSE Probe([t EXCEPT !.holds = Received.token], "recheck"))
  /\ UNCHANGED <<otherVars, disk, spent>>

TakeCancel ==
  /\ Take("CancelCheck")
  /\ Become(RecordCapability(ResetBackoff(t), "Cancelled"))
  /\ UNCHANGED <<otherVars, disk, spent>>

\* clear_consent_when_disabled: withdrawn only from the configuration it read.
Withdraws(c) == ~c.enabled /\ (c.consent \/ c.exempt)
Withdrawn(c) ==
  IF Withdraws(c) /\ disk.rev = c.rev
  THEN Written([disk EXCEPT !.consent = FALSE, !.exempt = FALSE]) ELSE disk

\* The task adopts the engine a command carries.
Adopt(c) ==
  ResetBackoff([t EXCEPT !.enabled = c.enabled,
                         !.cfg = IF Withdraws(c) THEN Withdrawn(c) ELSE c])

TakeEngine ==
  LET c == Received.cfg
      x == [Adopt(c) EXCEPT !.missing = FALSE, !.conflict = FALSE]
      asleep == [x EXCEPT !.dirty = FALSE]
  IN /\ Take("SetEngine")
     /\ disk' = Withdrawn(c)
     /\ Become(IF Active(x) THEN [x EXCEPT !.at = "engineRefresh"]
               ELSE [asleep EXCEPT !.phase = RestingPhase(asleep)])
     /\ UNCHANGED <<otherVars, spent>>

\* What a manual operation's status means for a pending intervention.
Reconciled(x, status) ==
  IF status \in {"Pushed", "Pulled"} THEN Synchronised(x)
  ELSE IF status = "UpToDate" THEN [x EXCEPT !.conflict = FALSE]
  ELSE EnterIntervention(x)

TakeManualSync ==
  LET x == Reconciled(Adopt(Received.cfg), Received.status) IN
  /\ Take("ReconcileManualSync")
  /\ disk' = Withdrawn(Received.cfg)
  /\ Become(IF x.conflict THEN [x EXCEPT !.phase = RestingPhase(x)]
            ELSE [x EXCEPT !.at = "reconcileRefresh"])
  /\ UNCHANGED <<otherVars, spent>>

TakeLock ==
  LET x == [t EXCEPT !.locked = FALSE, !.retry = "none", !.phase = "Watching",
                     !.cap = IF @ = "Cancelled" THEN "Unknown" ELSE @]
  IN /\ Take("SetVaultLocked")
     /\ Become(IF Received.locked
               THEN [t EXCEPT !.locked = TRUE, !.phase = "PausedVaultLocked"]
               ELSE IF t.enabled THEN OnTick(x) ELSE [t EXCEPT !.locked = FALSE])
     /\ UNCHANGED <<otherVars, disk, spent>>

TakeCommand ==
  \/ TakeEnable \/ TakeRecheck \/ TakeCancel \/ TakeEngine
  \/ TakeManualSync \/ TakeLock
-----------------------------------------------------------------------------
(* Timers and the watcher, when no command waits.                          *)

Waiting == t.at = "idle" /\ queue = <<>>

Tick ==
  /\ Waiting /\ Active(t)
  /\ Become(OnTick(t))
  /\ UNCHANGED <<otherVars, disk, queue, spent>>

RetryFires ==
  LET x == ResetBackoff(t) IN
  /\ Waiting /\ Active(t) /\ t.retry # "none"
  /\ Become(IF t.retry = "Poll" THEN PollRemote(x) ELSE PushIfDirty(x))
  /\ UNCHANGED <<otherVars, disk, queue, spent>>

DebounceFires ==
  LET x == [t EXCEPT !.debounce = FALSE] IN
  /\ Waiting /\ Active(t) /\ t.debounce
  /\ Become(IF t.retry = "none" THEN PushIfDirty(x) ELSE x)
  /\ UNCHANGED <<otherVars, disk, queue, spent>>

\* schedule_debounced_push
WatcherEvent ==
  /\ Waiting /\ event
  /\ event' = FALSE
  /\ Become(IF ~Active(t) \/ t.retry # "none" \/ Blocks(t) THEN t
            ELSE [t EXCEPT !.debounce = TRUE, !.phase = "Debouncing"])
  /\ UNCHANGED <<world, app, gen, disk, queue, spent>>
-----------------------------------------------------------------------------
(* The user and the application.                                           *)

\* One user interface thread, and a bound on what the user does.
Asks(kind) ==
  /\ app.ui = "idle" /\ kind \in May.commands
  /\ spent.asks < May.asks /\ spent' = [spent EXCEPT !.asks = @ + 1]

NoConfig == [enabled |-> FALSE, consent |-> FALSE, exempt |-> FALSE,
             base |-> None, rev |-> 0]
Plain(cmd) == [cmd |-> cmd, token |-> 0, consent |-> FALSE, cfg |-> NoConfig,
               locked |-> FALSE, status |-> "none"]
SetEngine(c) == [Plain("SetEngine") EXCEPT !.cfg = c]

\* request_check: one check at a time, unless it was cancelled.
AcceptsCheck ==
  /\ slot.pending # gen
  /\ slot.pending # 0 \/ slot.cancelled \/ pub.phase # "CheckingCapability"

AskCheck(command) ==
  /\ ~app.locked /\ ~Gist /\ AcceptsCheck
  /\ queue' = Append(queue, [command EXCEPT !.token = gen])
  /\ slot' = [pending |-> gen, cancelled |-> FALSE]
  /\ UNCHANGED <<world, gen, event, disk, pub, t>>

\* The position of the switch on the settings page.
ShownOn == app.cfg.enabled \/ app.shown = "CheckingCapability"

\* The switch is turned on; consent is offered after a precondition failure.
SwitchOn ==
  /\ Asks("switch") /\ ~ShownOn
  /\ \E c \in BOOLEAN :
       /\ c => pub.cap = "Precondition"
       /\ AskCheck([Plain("EnableChecked") EXCEPT !.consent = c])
  /\ app' = [app EXCEPT !.off = FALSE, !.shown = "CheckingCapability"]

\* A Gist needs no check.
SwitchOnGist ==
  LET c == Written([disk EXCEPT !.enabled = TRUE]) IN
  /\ Asks("switch") /\ ~ShownOn /\ Gist
  /\ disk' = c
  /\ app' = [app EXCEPT !.off = FALSE, !.cfg = c]
  /\ gen' = gen + 1
  /\ queue' = Append(queue, SetEngine(c))
  /\ UNCHANGED <<world, event, slot, pub, t>>

\* The switch is turned off: first the check is cancelled ...
SwitchOff ==
  /\ Asks("switch") /\ ShownOn
  /\ app' = [app EXCEPT !.ui = "turningOff"]
  /\ gen' = gen + 1
  /\ slot' = [slot EXCEPT !.cancelled = TRUE]
  /\ queue' = Append(queue, Plain("CancelCheck"))
  /\ UNCHANGED <<world, event, disk, pub, t>>

\* ... and then the preference written, unless it already says so.
StoreOff ==
  LET c == Written([disk EXCEPT !.enabled = FALSE, !.consent = FALSE,
                                !.exempt = FALSE])
  IN /\ app.ui = "turningOff"
     /\ disk' = c
     /\ app' = [app EXCEPT !.ui = "idle", !.off = TRUE, !.cfg = c]
     /\ IF c = app.cfg THEN UNCHANGED <<gen, queue>>
        ELSE gen' = gen + 1 /\ queue' = Append(queue, SetEngine(c))
     /\ UNCHANGED <<world, event, slot, pub, t, spent>>

Recheck ==
  /\ Asks("recheck")
  /\ AskCheck(Plain("RecheckCapability"))
  /\ app' = [app EXCEPT !.shown = "CheckingCapability"]

\* Any other synchronisation setting.
ChangeSetting ==
  LET c == [disk EXCEPT !.rev = @ + 1] IN
  /\ Asks("setting")
  /\ disk' = c
  /\ app' = [app EXCEPT !.cfg = c]
  /\ gen' = gen + 1
  /\ queue' = Append(queue, SetEngine(c))
  /\ UNCHANGED <<world, event, slot, pub, t>>

\* commit_local_vault_transition sends the application's copy of the engine.
LockOrUnlock ==
  /\ Asks("lock")
  /\ app' = [app EXCEPT !.locked = ~@]
  /\ gen' = gen + 1
  /\ queue' = queue \o <<SetEngine(app.cfg),
                         [Plain("SetVaultLocked") EXCEPT !.locked = ~app.locked]>>
  /\ UNCHANGED <<world, event, slot, disk, pub, t>>

\* The four buttons, when the sync lock is free.
ManualOutcome(o) ==
  LET l == world.local
      r == world.remote
  IN \/ o = PushOutcome(l, r, disk.base)
     \/ o = Outcome("Pushed", l, l, l)
     \/ (r # None \/ ~Gist) /\ o = PullOutcome(l, r, disk.base, FALSE)
     \/ r # None /\ l # r /\ o = Outcome("Pulled", r, r, r)

ManualSync ==
  /\ Asks("manual") /\ ~app.locked
  /\ t.at \notin {"push", "poll", "pull"}
  /\ \E s \in {"Pushed", "Pulled", "UpToDate", "PullRequired"},
        l \in Data, r, b \in Content :
       LET o == Outcome(s, l, r, b)
           c == Recorded(o)
       IN /\ ManualOutcome(o)
          /\ Perform(o)
          /\ app' = [app EXCEPT !.cfg = c]
          /\ queue' = Append(queue, [Plain("ReconcileManualSync") EXCEPT
                                       !.cfg = c, !.status = s])
  /\ UNCHANGED <<gen, slot, pub, t>>

\* The application receives a snapshot; its configuration only if newer.
Observe ==
  /\ pub.new
  /\ pub' = [pub EXCEPT !.new = FALSE]
  /\ app' = [app EXCEPT !.shown = pub.phase,
                        !.cfg = IF pub.cfg.rev >= @.rev THEN pub.cfg ELSE @]
  /\ UNCHANGED <<world, event, gen, disk, slot, queue, t, spent>>

Edits == spent.edits < May.edits /\ spent' = [spent EXCEPT !.edits = @ + 1]

EditLocally ==
  /\ Edits
  /\ \E c \in Data \ {world.local} : world' = [world EXCEPT !.local = c]
  /\ event' = (event \/ May.watcher)
  /\ UNCHANGED <<app, gen, disk, slot, queue, pub, t>>

\* Another device pushes, or someone deletes the WebDAV file.
EditRemotely ==
  /\ Edits
  /\ \E c \in Content \ {world.remote} :
       /\ Gist => c # None /\ world.remote # None
       /\ world' = [world EXCEPT !.remote = c]
  /\ UNCHANGED <<app, gen, event, disk, slot, queue, pub, t>>
-----------------------------------------------------------------------------
HandlerStep ==
  \/ Start \/ BeginEnable \/ ProbeAnswered \/ EndEnable
  \/ RefreshBeforePush \/ RefreshAfterPush \/ RefreshAfterPoll
  \/ RefreshAfterPull \/ CompareWithRemote \/ RefreshForEngine
  \/ RefreshAfterManual \/ RefreshFails
  \/ PushAnswered \/ PushOvertaken \/ PushFails
  \/ PollMissing \/ PollUnchanged \/ PollUpdated \/ PollFails
  \/ PullAnswered \/ PullFails

UserStep ==
  \/ SwitchOn \/ SwitchOnGist \/ SwitchOff \/ StoreOff \/ Recheck
  \/ ChangeSetting \/ LockOrUnlock \/ ManualSync
  \/ EditLocally \/ EditRemotely

Next ==
  \/ HandlerStep \/ TakeCommand
  \/ Tick \/ RetryFires \/ DebounceFires \/ WatcherEvent
  \/ UserStep \/ Observe

Spec == Init /\ [][Next]_vars

\* Requests and probes carry timeouts, commands are taken and the application
\* finishes what it began.  Between two ticks lies a minute in which the other
\* timers expire and the watcher is heard, so ticks cannot starve them.
FairSpec ==
  /\ Spec
  /\ WF_vars(HandlerStep) /\ WF_vars(TakeCommand) /\ WF_vars(Tick)
  /\ SF_vars(RetryFires) /\ SF_vars(DebounceFires) /\ SF_vars(WatcherEvent)
  /\ WF_vars(StoreOff) /\ WF_vars(Observe)
-----------------------------------------------------------------------------
(* Correctness.                                                            *)

\* No automatic request starts while automatic sync is off, the vault is locked,
\* a backoff is running or (for uploads) an intervention is pending, whichever
\* way the handlers led there.
WorkIsPermitted ==
  t.at \in {"push", "poll", "pull"} =>
    /\ Active(t) /\ t.retry = "none"
    /\ t.at = "push" => ~t.conflict

\* At most one check request that no cancellation has reached is queued or
\* served, although a cancelled one may finish after its replacement was
\* accepted (CheckRequests, request_check).
OneLiveCheck ==
  LET queued == {i \in DOMAIN queue : queue[i].token = gen}
      served == {h \in {t.holds} : h = gen}
  IN Cardinality(queued) + Cardinality(served) <= 1

Excused == ~Active(t) \/ t.conflict \/ Blocks(t)

\* Once edits and failures stop, local and remote content become the same,
\* unless the user must act.
Converges == <>[](Excused \/ world.local = world.remote)

\* "Once enabled, ... remote updates are checked periodically."
KeepsPolling == []<>(Excused \/ t.at = "poll")

\* The task follows the switch: what the configuration says is what it does.
FollowsSwitch == <>[](t.enabled = disk.enabled)

\* Turning the switch off must not be undone by a check that was completing:
\* "its late snapshot must not ... enable automatic sync after the switch was
\* turned off".
StaysOff == app.off => ~disk.enabled
=============================================================================
