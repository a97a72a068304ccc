---------------------------- MODULE PortForward ----------------------------
(***************************************************************************)
(* The port-forward manager of the desktop application, for one rule of   *)
(* one profile: the sessions of two rules share nothing but the lock.     *)
(*                                                                         *)
(* Four kinds of actors share the manager's state.  The user interface    *)
(* (UI) starts and stops the rule, edits and deletes it, and observes the *)
(* snapshots the manager publishes, from which it stores the rule's       *)
(* enabled flag and hands the catalog back to the manager.  Every start   *)
(* launches a connection of its own, a generation: a worker thread that   *)
(* connects, reconnects and ends, and a handler task that applies the     *)
(* worker's events to the session and restarts the rule when a start was  *)
(* asked for while it was stopping.  The lock is released between the     *)
(* steps of a start, of a stop and of a catalog replacement: every step   *)
(* under the lock is an action here.                                       *)
(*                                                                         *)
(* What a connection forwards is left out.  A rule that was edited is     *)
(* sent to the live connection, which goes on with it or fails (Fail).    *)
(*                                                                         *)
(* Bounds: MaxStarts and MaxAsks count what the user does, MaxFaults the  *)
(* catalog saves that fail; MaxReconnects stands for                      *)
(* PORT_FORWARD_MAX_RECONNECT_ATTEMPTS (10), Capacity for                 *)
(* SESSION_EVENT_QUEUE_CAPACITY (64).                                      *)
(***************************************************************************)
EXTENDS Naturals, Sequences, FiniteSets

CONSTANTS
  Rule,           \* what a rule may say: its addresses and ports
  None,           \* no session, no rule, no command
  MaxStarts, MaxAsks, MaxFaults, MaxReconnects, Capacity

ASSUME BoundsAssumption ==
  /\ MaxStarts \in Nat \ {0}
  /\ {MaxAsks, MaxFaults, MaxReconnects} \subseteq Nat
  /\ Capacity \in Nat \ {0}

VARIABLES
  session,    \* ManagerState.sessions at the rule's key
  profiles,   \* the manager's catalog: what it says of the rule
  published,  \* the snapshot in the watch channel
  generation, \* ManagerState.next_generation
  pc,         \* where each process stands in a start, stop or replacement
  held,       \* what each process carries across the unlocked gaps
  worker,     \* the worker thread of each generation
  events,     \* its event channel
  cleanups,   \* the generations whose delayed removal is scheduled
  stored,     \* the rule in the application's catalog and on disk
  seen,       \* the state the application last observed
  news,       \* the watch channel holds a snapshot it has not observed
  pending,    \* a save of the enabled flag failed and is to be retried
  used        \* how many of each bounded user action and fault happened

manager == <<session, published, generation>>
application == <<stored, seen, pending>>
vars == <<manager, profiles, pc, held, worker, events, cleanups,
          application, news, used>>

---------------------------------------------------------------------------
(* Types. *)

Generation == 1..MaxStarts
UI == 0
Process == {UI} \union Generation
State == {"starting", "running", "reconnecting", "stopping", "stopped",
          "failed"}
Session == [gen : Generation, state : State, restart : BOOLEAN,
            commands : BOOLEAN, rule : Rule]
Snapshot == [gen : Generation, state : State, rule : Rule]

(* A handler is "unborn" until it is spawned.                             *)
Step == {"unborn", "idle", "read", "reserve", "launch", "attach", "close",
         "publish", "replace", "write", "discard", "evict", "stop",
         "hangup"}

(* rule: the rule read from the catalog, or to be written to it; gen: the *)
(* generation whose commands are used next; ends: the new catalog has no  *)
(* use for the session; last: a stop follows the catalog change.          *)
Local == [rule : Rule \union {None}, gen : Generation \union {0},
          ends : BOOLEAN, last : BOOLEAN]
Nothing == [rule |-> None, gen |-> 0, ends |-> FALSE, last |-> FALSE]

(* "failing" has an Error to send, "closing" a Closed; the channel of a   *)
(* worker that is "gone" has been read to its end.                        *)
Phase == {"none", "connecting", "ready", "waiting", "failing", "closing",
          "ended", "gone"}
Worker == [phase : Phase, told : BOOLEAN, once : BOOLEAN,
           attempt : 0..MaxReconnects]
Idle(phase, told) == [phase |-> phase, told |-> told, once |-> FALSE,
                      attempt |-> 0]
Event == {"Connected", "Reconnecting", "Error", "Closed"}
Stored == [rule : Rule, enabled : BOOLEAN]

ASSUME NoneAssumption == None \notin Rule \union Session \union Snapshot \union Stored

(* is_active, and should_preserve_catalog_rule, which is also when the    *)
(* application stores the rule as enabled.                                 *)
Preserved == {"starting", "running", "reconnecting"}
Active(state) == state \in Preserved \union {"stopping"}

(* The worker has a connection, or is after one.                          *)
Connection(g) == worker[g].phase \in {"connecting", "ready", "waiting"}

Init ==
  /\ session = None /\ published = None /\ generation = 0
  /\ stored \in Stored
  /\ profiles = stored.rule
  /\ pc = [p \in Process |-> IF p = UI THEN "idle" ELSE "unborn"]
  /\ held = [p \in Process |-> Nothing]
  /\ worker = [g \in Generation |-> Idle("none", FALSE)]
  /\ events = [g \in Generation |-> << >>]
  /\ cleanups = {}
  /\ seen = "none" /\ news = FALSE /\ pending = FALSE
  /\ used = [starts |-> 0, asks |-> 0, faults |-> 0]

---------------------------------------------------------------------------
(* What a critical section leaves behind.  Publish replaces the snapshot   *)
(* in the watch channel, even by an equal one: the receiver is woken.     *)

Shown(s) == IF s = None THEN None
            ELSE [gen |-> s.gen, state |-> s.state, rule |-> s.rule]

Publish == published' = Shown(session') /\ news' = TRUE
Unpublished == UNCHANGED <<published, news>>

\* Mutant of Live: a stopping session does not count as active.
LiveUnlessStopping == session # None /\ session.state \in Preserved

Live == session # None /\ Active(session.state)

Goto(p, step) == pc' = [pc EXCEPT ![p] = step]

Use(what, max) ==
  used[what] < max /\ used' = [used EXCEPT ![what] = @ + 1]

---------------------------------------------------------------------------
(* start, by the user interface or by the handler of a session that was   *)
(* asked to restart.  The catalog is read before the session is reserved. *)

AskStart ==
  /\ pc[UI] = "idle" /\ stored # None /\ Use("starts", MaxStarts)
  /\ Goto(UI, "read")
  /\ UNCHANGED <<manager, profiles, held, worker, events, cleanups,
                 application, news>>

ReadCatalog(p) ==
  /\ pc[p] = "read"
  /\ IF profiles = None
     THEN Goto(p, IF p = UI THEN "idle" ELSE "publish")
     ELSE Goto(p, "reserve")
  /\ held' = [held EXCEPT ![p].rule = profiles]
  /\ UNCHANGED <<manager, profiles, worker, events, cleanups, application,
                 news, used>>

(* A session that is active is not started again; one that is stopping    *)
(* remembers to restart.                                                   *)
ReserveExisting(p) ==
  /\ pc[p] = "reserve" /\ Live
  /\ IF session.state = "stopping" /\ ~session.restart
     THEN session' = [session EXCEPT !.restart = TRUE] /\ Publish
     ELSE UNCHANGED session /\ Unpublished
  /\ Goto(p, "idle")
  /\ held' = [held EXCEPT ![p] = Nothing]
  /\ UNCHANGED <<profiles, generation, worker, events, cleanups, application,
                 used>>

ReserveNew(p) ==
  /\ pc[p] = "reserve" /\ ~Live
  /\ generation' = generation + 1
  /\ session' = [gen |-> generation', state |-> "starting",
                 restart |-> FALSE, commands |-> FALSE,
                 rule |-> held[p].rule]
  /\ Publish
  /\ held' = [held EXCEPT ![p].gen = generation']
  /\ Goto(p, "launch")
  /\ UNCHANGED <<profiles, worker, events, cleanups, application, used>>

Launch(p) ==
  /\ pc[p] = "launch"
  /\ worker' = [worker EXCEPT ![held[p].gen].phase = "connecting"]
  /\ Goto(p, "attach")
  /\ UNCHANGED <<manager, profiles, held, events, cleanups, application,
                 news, used>>

(* The session keeps the connection's commands unless it was stopped in   *)
(* the meantime; the handler is spawned once the commands are settled.    *)
Reserved(g) == session # None /\ session.gen = g

Attach(p) ==
  LET g == held[p].gen
      keep == Reserved(g) /\ session.state # "stopping"
  IN /\ pc[p] = "attach"
     /\ session' = IF keep THEN [session EXCEPT !.commands = TRUE] ELSE session
     /\ pc' = IF keep THEN [pc EXCEPT ![p] = "idle", ![g] = "idle"]
                      ELSE [pc EXCEPT ![p] = "close"]
     /\ held' = IF keep THEN [held EXCEPT ![p] = Nothing] ELSE held
     /\ UNCHANGED <<profiles, published, generation, worker, events, cleanups,
                    application, news, used>>

\* Mutant of CloseUnattached: the connection of a start that was stopped is
\* let go without being told to close.
LeaveUnattached(p) ==
  /\ pc[p] = "close"
  /\ pc' = [pc EXCEPT ![p] = "idle", ![held[p].gen] = "idle"]
  /\ held' = [held EXCEPT ![p] = Nothing]
  /\ UNCHANGED <<manager, profiles, worker, events, cleanups, application,
                 news, used>>

CloseUnattached(p) ==
  /\ pc[p] = "close"
  /\ worker' = [worker EXCEPT ![held[p].gen].told = TRUE]
  /\ pc' = [pc EXCEPT ![p] = "idle", ![held[p].gen] = "idle"]
  /\ held' = [held EXCEPT ![p] = Nothing]
  /\ UNCHANGED <<manager, profiles, events, cleanups, application, news,
                 used>>

\* Mutant of PublishGeneration: the end is not published.
PublishNoGeneration(g) ==
  /\ pc[g] = "publish"
  /\ cleanups' = cleanups \union {g}
  /\ Goto(g, "idle")
  /\ UNCHANGED <<manager, profiles, held, worker, events, application, news,
                 used>>

(* A handler whose restart found no rule publishes the end of its session *)
(* after all, unless a newer one took its place.                          *)
PublishGeneration(g) ==
  /\ pc[g] = "publish"
  /\ UNCHANGED session
  /\ IF Reserved(g) THEN Publish ELSE Unpublished
  /\ cleanups' = cleanups \union {g}
  /\ Goto(g, "idle")
  /\ UNCHANGED <<profiles, generation, held, worker, events,
                 application, used>>

---------------------------------------------------------------------------
(* stop.  The connection is told to close after the lock is released.     *)

Attached == IF session # None /\ session.commands THEN session.gen ELSE 0
Finished == IF held[UI].last THEN "stop" ELSE "idle"

StopSession ==
  /\ session' = IF session = None THEN None ELSE
       [session EXCEPT !.restart = FALSE,
                       !.state = IF Live THEN "stopping" ELSE @]
  /\ IF Live THEN Publish ELSE Unpublished

(* A dialog of the connection was cancelled.                              *)
AskStop ==
  /\ pc[UI] = "idle" /\ Use("asks", MaxAsks)
  /\ Goto(UI, "stop")
  /\ UNCHANGED <<manager, profiles, held, worker, events, cleanups,
                 application, news>>

Stop ==
  /\ pc[UI] = "stop"
  /\ StopSession
  /\ held' = [held EXCEPT ![UI].gen = IF Live THEN Attached ELSE 0,
                          ![UI].last = FALSE]
  /\ Goto(UI, IF Live THEN "hangup" ELSE "idle")
  /\ UNCHANGED <<profiles, generation, worker, events, cleanups, application,
                 used>>

Hangup ==
  /\ pc[UI] = "hangup"
  /\ worker' = [g \in Generation |->
       IF g = held[UI].gen THEN [worker[g] EXCEPT !.told = TRUE]
                             ELSE worker[g]]
  /\ Goto(UI, Finished)
  /\ held' = [held EXCEPT ![UI].gen = 0]
  /\ UNCHANGED <<manager, profiles, events, cleanups, application, news,
                 used>>

---------------------------------------------------------------------------
(* What the user does to the catalog.  It is stored, handed to the        *)
(* manager, and the rule then stopped where that was the point.           *)

Commit(new, last) ==
  /\ pc[UI] = "idle" /\ stored # None /\ Use("asks", MaxAsks)
  /\ stored' = new
  /\ held' = [held EXCEPT ![UI].last = last]
  /\ UNCHANGED <<manager, profiles, worker, events, cleanups, seen, pending,
                 news>>

EditRule(r) ==
  /\ Commit([rule |-> r, enabled |-> stored.enabled], FALSE)
  /\ Goto(UI, IF r = stored.rule THEN "idle" ELSE "replace")

(* Another host or snippet changed: the catalog is handed over again.     *)
Refresh == Commit(stored, FALSE) /\ Goto(UI, "replace")

DeleteRule == Commit(None, TRUE) /\ Goto(UI, "replace")

Disconnect ==
  /\ Commit([rule |-> stored.rule, enabled |-> FALSE], TRUE)
  /\ Goto(UI, IF stored.enabled THEN "replace" ELSE "stop")

---------------------------------------------------------------------------
(* replace_catalogs, with the application's catalog.                       *)

(* Under the lock: the rule of a live session is updated and its enabled  *)
(* flag overruled; a session without a rule, or ending with its rule      *)
(* disabled, is to be stopped.                                             *)
ReplaceCatalog ==
  LET kept == /\ session # None /\ stored # None
              /\ session.state \in Preserved
      ends == /\ session # None
              /\ stored = None \/ (~kept /\ ~stored.enabled)
  IN /\ pc[UI] = "replace"
     /\ IF kept /\ (session.rule # stored.rule \/ ~stored.enabled)
        THEN session' = [session EXCEPT !.rule = stored.rule] /\ Publish
        ELSE UNCHANGED session /\ Unpublished
     /\ held' = [held EXCEPT
          ![UI].rule = IF stored = None THEN None ELSE stored.rule,
          ![UI].ends = ends]
     /\ Goto(UI, "write")
     /\ UNCHANGED <<profiles, generation, worker, events, cleanups,
                    application, used>>

WriteCatalog ==
  /\ pc[UI] = "write"
  /\ profiles' = held[UI].rule
  /\ Goto(UI, IF held[UI].ends THEN "discard" ELSE Finished)
  /\ held' = [held EXCEPT ![UI] = [Nothing EXCEPT !.last = held[UI].last]]
  /\ UNCHANGED <<manager, worker, events, cleanups, application, news, used>>

Discard ==
  /\ pc[UI] = "discard"
  /\ StopSession
  /\ held' = [held EXCEPT ![UI].gen = IF Live THEN Attached ELSE 0]
  /\ Goto(UI, IF Live THEN "hangup" ELSE "evict")
  /\ UNCHANGED <<profiles, generation, worker, events, cleanups, application,
                 used>>

(* A session that had already ended is removed, unless a restart got      *)
(* there first.                                                            *)
Remove == session' = None /\ Publish
Evict ==
  /\ pc[UI] = "evict"
  /\ IF session # None /\ ~Live THEN Remove ELSE UNCHANGED session /\ Unpublished
  /\ Goto(UI, Finished)
  /\ UNCHANGED <<profiles, generation, held, worker, events, cleanups,
                 application, used>>

---------------------------------------------------------------------------
(* The application observes the published snapshots and stores whether    *)
(* the rule is running; what it stored it hands back to the manager.      *)

FlagDiffers(enabled) == stored # None /\ stored.enabled # enabled

\* Mutant of Reconcile: a save that failed is not retried.
ReconcileOnce(state) ==
  LET enabled == state \in Preserved IN
  /\ pending' = FALSE
  /\ \/ /\ Use("faults", MaxFaults)
        /\ Goto(UI, "idle") /\ UNCHANGED stored
     \/ /\ FlagDiffers(enabled)
        /\ stored' = [stored EXCEPT !.enabled = enabled]
        /\ Goto(UI, "replace") /\ UNCHANGED used
     \/ /\ ~FlagDiffers(enabled)
        /\ Goto(UI, "idle") /\ UNCHANGED <<stored, used>>

(* The catalog cannot be loaded or saved, or the flag is brought up to    *)
(* date, or it is already.                                                 *)
Reconcile(state) ==
  LET enabled == state \in Preserved IN
  \/ /\ Use("faults", MaxFaults)
     /\ pending' = TRUE
     /\ Goto(UI, "idle") /\ UNCHANGED stored
  \/ /\ FlagDiffers(enabled)
     /\ stored' = [stored EXCEPT !.enabled = enabled]
     /\ pending' = FALSE
     /\ Goto(UI, "replace") /\ UNCHANGED used
  \/ /\ ~FlagDiffers(enabled)
     /\ pending' = FALSE
     /\ Goto(UI, "idle") /\ UNCHANGED <<stored, used>>

Observe ==
  /\ pc[UI] = "idle" /\ news
  /\ news' = FALSE
  /\ seen' = IF published = None THEN "none" ELSE published.state
  /\ Reconcile(seen')
  /\ UNCHANGED <<manager, profiles, held, worker, events, cleanups>>

Retry ==
  /\ pc[UI] = "idle" /\ pending
  /\ Reconcile(seen)
  /\ UNCHANGED <<manager, profiles, held, worker, events, cleanups, seen, news>>

---------------------------------------------------------------------------
(* handle_event, by the handler of a generation.                          *)

\* Mutant of Ends: an error is not an end, the Closed that follows is.
EndsWhenClosed(event) == event = "Closed"
Ends(event) == event \in {"Error", "Closed"}

After(s, event) ==
  LET state == CASE event = "Connected" -> "running"
                 [] event = "Reconnecting" -> "reconnecting"
                 [] event = "Error" -> "failed"
                 [] event = "Closed" ->
                      IF s.state = "failed" THEN "failed" ELSE "stopped"
  IN [s EXCEPT !.state = state,
               !.commands = @ /\ event # "Closed",
               !.restart = @ /\ ~Ends(event)]

(* An event of a generation that was replaced changes nothing.  The end   *)
(* of a session that is to restart is not published: the restart is.      *)
Handle(g, event) ==
  IF ~Reserved(g)
  THEN UNCHANGED <<session, cleanups>> /\ Unpublished /\ Goto(g, "idle")
  ELSE /\ session' = After(session, event)
       /\ IF Ends(event) /\ session.restart
          THEN Unpublished /\ UNCHANGED cleanups /\ Goto(g, "read")
          ELSE /\ Publish /\ Goto(g, "idle")
               /\ cleanups' = cleanups \union IF Ends(event) THEN {g} ELSE {}

HandleEvent(g) ==
  /\ pc[g] = "idle" /\ events[g] # << >>
  /\ Handle(g, Head(events[g]))
  /\ events' = [events EXCEPT ![g] = Tail(@)]
  /\ UNCHANGED <<profiles, generation, held, worker, application, used>>

(* The channel has ended: one more Closed, then the handler is gone.      *)
ChannelEnds(g) ==
  /\ pc[g] = "idle" /\ events[g] = << >> /\ worker[g].phase = "ended"
  /\ worker' = [worker EXCEPT ![g].phase = "gone"]
  /\ Handle(g, "Closed")
  /\ UNCHANGED <<profiles, generation, held, events, application, used>>

Cleanup(g) ==
  /\ g \in cleanups
  /\ cleanups' = cleanups \ {g}
  /\ IF Reserved(g) /\ ~Live THEN Remove ELSE UNCHANGED session /\ Unpublished
  /\ UNCHANGED <<profiles, generation, pc, held, worker, events, application,
                 used>>

---------------------------------------------------------------------------
(* The worker thread of a generation.  Its event channel is bounded, and  *)
(* a full one holds it back.                                               *)

Send(g, event) ==
  /\ Len(events[g]) < Capacity
  /\ events' = [events EXCEPT ![g] = Append(@, event)]

Work(g, phases, next) ==
  /\ worker[g].phase \in phases
  /\ worker' = [worker EXCEPT ![g] = next]
  /\ UNCHANGED <<manager, profiles, pc, held, cleanups, application, news, used>>

Connect(g) ==
  /\ Send(g, "Connected")
  /\ Work(g, {"connecting"},
          [worker[g] EXCEPT !.phase = "ready", !.once = TRUE, !.attempt = 0])

(* The transport of a connection that once worked is lost, or cannot be   *)
(* restored: it is tried again after a delay, a bounded number of times.  *)
NextAttempt(g) == worker[g].attempt + 1

\* Mutant of Lose: one attempt too many.
LoseOnceMore(g) ==
  /\ worker[g].once /\ worker[g].attempt <= MaxReconnects
  /\ Send(g, "Reconnecting")
  /\ Work(g, {"connecting", "ready"},
          [worker[g] EXCEPT !.phase = "waiting", !.attempt = NextAttempt(g)])

Lose(g) ==
  /\ worker[g].once /\ NextAttempt(g) <= MaxReconnects
  /\ Send(g, "Reconnecting")
  /\ Work(g, {"connecting", "ready"},
          [worker[g] EXCEPT !.phase = "waiting", !.attempt = NextAttempt(g)])

RetryConnection(g) ==
  /\ Work(g, {"waiting"}, [worker[g] EXCEPT !.phase = "connecting"])
  /\ UNCHANGED events

(* The first connection fails, the attempts are used up, or the rule      *)
(* cannot be put into effect.                                              *)
Fail(g) ==
  /\ Work(g, {"connecting", "ready"}, Idle("failing", worker[g].told))
  /\ UNCHANGED events

(* The cancellation of close drops the connection wherever it stands.     *)
Cancel(g) ==
  /\ worker[g].told
  /\ Work(g, {"connecting", "ready", "waiting"},
          Idle("closing", TRUE))
  /\ UNCHANGED events

SendError(g) ==
  /\ Send(g, "Error")
  /\ Work(g, {"failing"}, Idle("closing", worker[g].told))

SendClosed(g) ==
  /\ Send(g, "Closed")
  /\ Work(g, {"closing"}, Idle("ended", worker[g].told))

---------------------------------------------------------------------------
(* The specification. *)

StartStep(p) ==
  \/ ReadCatalog(p) \/ ReserveExisting(p) \/ ReserveNew(p)
  \/ Launch(p) \/ Attach(p) \/ CloseUnattached(p)

Handler(g) ==
  \/ StartStep(g) \/ PublishGeneration(g)
  \/ HandleEvent(g) \/ ChannelEnds(g)

Interface ==
  \/ StartStep(UI) \/ Stop \/ Hangup
  \/ ReplaceCatalog \/ WriteCatalog \/ Discard \/ Evict
  \/ Observe \/ Retry

Ask ==
  \/ AskStart \/ AskStop \/ Refresh \/ DeleteRule \/ Disconnect
  \/ \E r \in Rule : EditRule(r)

Thread(g) ==
  \/ Connect(g) \/ Lose(g) \/ RetryConnection(g) \/ Fail(g)
  \/ Cancel(g) \/ SendError(g) \/ SendClosed(g)

Next ==
  \/ Ask \/ Interface
  \/ \E g \in Generation : Handler(g) \/ Cleanup(g) \/ Thread(g)

Spec == Init /\ [][Next]_vars

---------------------------------------------------------------------------
(* Properties. *)

(* Types: every field the actors keep, and no more attempts, events or    *)
(* generations than the bounds of the code's counters and channel allow.  *)
TypeOK ==
  /\ session \in Session \union {None}
  /\ profiles \in Rule \union {None}
  /\ published \in Snapshot \union {None}
  /\ generation \in 0..MaxStarts
  /\ pc \in [Process -> Step]
  /\ held \in [Process -> Local]
  /\ worker \in [Generation -> Worker]
  /\ events \in [Generation -> Seq(Event)]
  /\ \A g \in Generation : Len(events[g]) <= Capacity
  /\ cleanups \subseteq Generation
  /\ stored \in Stored \union {None}
  /\ seen \in State \union {"none"}
  /\ news \in BOOLEAN /\ pending \in BOOLEAN
  /\ used \in [starts : 0..MaxStarts, asks : 0..MaxAsks, faults : 0..MaxFaults]

(* A rule never has two connections at once, whoever starts, stops and    *)
(* restarts it and however late the events of an earlier one arrive: the  *)
(* two would contend for the same listening port.                          *)
OneConnection ==
  \A g, h \in Generation : Connection(g) /\ Connection(h) => g = h

(* Somebody is on the way to tell the connection to close. *)
BeingTold(g) ==
  \/ pc[UI] = "hangup" /\ held[UI].gen = g
  \/ \E p \in Process : pc[p] \in {"attach", "close"} /\ held[p].gen = g

(* A connection that was not told to close is the one the user sees and   *)
(* can stop: it is the live session's, whose commands are attached, or    *)
(* about to be.  No stop, deletion, restart or removal leaves a tunnel    *)
(* running behind a session that is gone or stopping.                      *)
NoOrphan ==
  \A g \in Generation : Connection(g) /\ ~worker[g].told =>
    /\ Reserved(g) /\ Live
    /\ session.commands \/ BeingTold(g)
    /\ session.state = "stopping" => BeingTold(g)

(* The published snapshot shows the session as it is, but for an end that *)
(* a restart is about to replace; a restart that fails makes up for it.   *)
PublishedFresh ==
  published = Shown(session)
    \/ \E g \in Generation : pc[g] \in {"read", "reserve", "publish"}

(* A session that has ended is scheduled for removal or its handler is    *)
(* still restarting it: none stays in the manager for good.               *)
FinishedIsRemoved ==
  session # None /\ ~Live =>
    \/ session.gen \in cleanups
    \/ pc[session.gen] \in {"read", "reserve", "publish"}

(* Once every snapshot is observed and every save went through, the       *)
(* stored flag says whether the rule is running, whatever was edited,     *)
(* stopped or retried in between.  A flag left over by an earlier run of  *)
(* the application stays until the first snapshot.                         *)
FlagFollowsRuntime ==
  generation > 0 /\ pc[UI] = "idle" /\ ~news /\ ~pending =>
    \/ stored = None
    \/ stored.enabled = (published # None /\ published.state \in Preserved)
=============================================================================
