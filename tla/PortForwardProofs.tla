------------------------- MODULE PortForwardProofs -------------------------
(* Theorems about PortForward, for every value of its constants. *)
EXTENDS PortForward, FiniteSetTheorems, TLAPS

USE DEF manager, application

---------------------------------------------------------------------------
(* The inductive invariant. *)

(* Every generation stands for a start the user asked for: what is not    *)
(* yet one is a process on its way to reserve one, or a restart that the  *)
(* stopping session remembers.                                             *)
Wanting == {p \in Process : pc[p] \in {"read", "reserve"}}
Restarts == IF session # None /\ session.restart THEN 1 ELSE 0
Counted == generation + Cardinality(Wanting) + Restarts <= used.starts

(* A handler only starts, restarts and handles events; whoever reserves   *)
(* has read a rule.                                                        *)
Steps ==
  /\ \A g \in Generation :
       pc[g] \in {"unborn", "idle", "read", "reserve", "launch", "attach", "close", "publish"}
  /\ pc[UI] \notin {"unborn", "publish"}
  /\ \A p \in Process : pc[p] = "reserve" => held[p].rule \in Rule

(* A generation that is not reserved yet has no worker and no handler.    *)
Unborn(g) == pc[g] = "unborn" /\ worker[g].phase = "none" /\ events[g] = << >>
Later ==
  /\ \A g \in Generation : g > generation => Unborn(g) /\ g \notin cleanups
  /\ session # None => session.gen <= generation

(* A start that is under way is that of the session, which cannot end     *)
(* before its handler is there.                                            *)
Starting(p) == pc[p] \in {"launch", "attach", "close"}
StartsAlone ==
  /\ \A p, q \in Process : Starting(p) /\ Starting(q) => p = q
  /\ \A p \in Process : Starting(p) =>
       /\ Reserved(held[p].gen) /\ Live
       /\ pc[session.gen] = "unborn"
       /\ ~session.commands
       /\ pc[p] = "launch" => worker[session.gen].phase = "none"
       /\ pc[p] = "close" => session.state = "stopping"

(* An end that is on its way to the handler is that of a connection that  *)
(* has ended.                                                              *)
EndsAreLast ==
  \A g \in Generation : \A i \in 1..Len(events[g]) :
    Ends(events[g][i]) => worker[g].phase \in {"closing", "ended", "gone"}

ConnectionIsLive == \A g \in Generation : Connection(g) => Reserved(g) /\ Live

(* The handler of the session is about to publish its end, or to restart. *)
EndIsHandled == pc[session.gen] \in {"read", "reserve", "publish"}
FreshInv == published # Shown(session) => session # None /\ ~Live /\ EndIsHandled

(* The flag may disagree with the snapshot on the way of a disconnection  *)
(* that will publish another one.                                          *)
Agrees == stored = None \/ stored.enabled = (published # None /\ published.state \in Preserved)
FlagInv ==
  /\ ~news => seen = (IF published = None THEN "none" ELSE published.state)
  /\ generation > 0 /\ ~news /\ ~pending /\ ~Agrees =>
       /\ pc[UI] \in {"replace", "write", "discard", "evict"}
       /\ ~stored.enabled
       /\ pc[UI] = "write" => held[UI].ends
       /\ pc[UI] # "replace" => session # None /\ session.state \notin Preserved
       /\ pc[UI] = "evict" => ~Live

Inv ==
  /\ TypeOK
  /\ Counted
  /\ Steps
  /\ Later
  /\ StartsAlone
  /\ EndsAreLast
  /\ ConnectionIsLive
  /\ NoOrphan
  /\ FreshInv
  /\ FinishedIsRemoved
  /\ FlagInv

---------------------------------------------------------------------------
(* Typing. *)

\* The actions of the specification, each by its name.
LEMMA NextActions ==
  ASSUME [Next]_vars
  PROVE  \/ AskStart \/ AskStop \/ Refresh \/ DeleteRule \/ Disconnect \/ \E r \in Rule : EditRule(r)
         \/ \E p \in Process : StartStep(p)
         \/ Stop \/ Hangup \/ ReplaceCatalog \/ WriteCatalog \/ Discard \/ Evict \/ Observe \/ Retry
         \/ \E g \in Generation : PublishGeneration(g) \/ HandleEvent(g) \/ ChannelEnds(g)
                                  \/ Cleanup(g) \/ Thread(g)
         \/ UNCHANGED vars
  BY DEF Next, Ask, Interface, Handler, Process

\* The interface is no generation; processes are numbers.
LEMMA ProcessType ==
  /\ UI \in Process /\ UI \notin Generation /\ Generation \subseteq Process
  /\ Generation \subseteq Nat /\ Process \subseteq Nat
  BY DEF Process, Generation, UI

\* A process at rest carries nothing.
LEMMA NothingType == Nothing \in Local
  BY DEF Nothing, Local

\* The snapshot of no session is none.
LEMMA ShownType ==
  /\ Shown(None) = None
  /\ \A s \in Session : s # None /\ Shown(s) \in Snapshot /\ Shown(s) # None
                        /\ Shown(s).state = s.state
  BY NoneAssumption DEF Shown, Session, Snapshot

\* One field of a record changes.
LEMMA LocalUpdates ==
  ASSUME NEW l \in Local
  PROVE  /\ \A r \in Rule \union {None} : [l EXCEPT !.rule = r] \in Local
         /\ \A g \in Generation \union {0} : [l EXCEPT !.gen = g] \in Local
         /\ \A b \in BOOLEAN : [l EXCEPT !.last = b] \in Local
  BY DEF Local

\* A session whose flags, rule or state change.
LEMMA SessionUpdates ==
  ASSUME NEW s \in Session
  PROVE  /\ \A b \in BOOLEAN : [s EXCEPT !.restart = b] \in Session /\ [s EXCEPT !.commands = b] \in Session
         /\ \A r \in Rule : [s EXCEPT !.rule = r] \in Session
         /\ \A state \in State, b \in BOOLEAN : [s EXCEPT !.restart = b, !.state = state] \in Session
  BY DEF Session

\* A worker whose phase, attempts or orders change.
LEMMA WorkerUpdates ==
  ASSUME NEW w \in Worker
  PROVE  /\ \A phase \in Phase : [w EXCEPT !.phase = phase] \in Worker
         /\ [w EXCEPT !.told = TRUE] \in Worker
         /\ \A phase \in Phase, once \in BOOLEAN, attempt \in 0..MaxReconnects :
              /\ [w EXCEPT !.phase = phase, !.once = once, !.attempt = attempt] \in Worker
              /\ [w EXCEPT !.phase = phase, !.attempt = attempt] \in Worker
         /\ w.told \in BOOLEAN /\ w.attempt \in Nat
  <1>1. w.told \in BOOLEAN /\ w.attempt \in 0..MaxReconnects /\ MaxReconnects \in Nat
    BY BoundsAssumption DEF Worker
  <1>2. w.attempt \in Nat
    BY <1>1
  <1>3. /\ \A phase \in Phase : [w EXCEPT !.phase = phase] \in Worker
        /\ [w EXCEPT !.told = TRUE] \in Worker
    BY DEF Worker
  <1>4. \A phase \in Phase, once \in BOOLEAN, attempt \in 0..MaxReconnects :
          [w EXCEPT !.phase = phase, !.once = once, !.attempt = attempt] \in Worker
    BY DEF Worker
  <1>5. \A phase \in Phase, attempt \in 0..MaxReconnects :
          [w EXCEPT !.phase = phase, !.attempt = attempt] \in Worker
    BY DEF Worker
  <1> QED BY <1>1, <1>2, <1>3, <1>4, <1>5

\* What is published is a snapshot of the session, or what was.
LEMMA PublishType ==
  ASSUME session' \in Session \union {None}, Publish \/ Unpublished, TypeOK
  PROVE  published' \in Snapshot \union {None} /\ news' \in BOOLEAN
  BY ShownType DEF Publish, Unpublished, TypeOK

\* stop leaves a session, or none.
LEMMA StopType ==
  ASSUME TypeOK, StopSession
  PROVE  /\ session' \in Session \union {None}
         /\ published' \in Snapshot \union {None} /\ news' \in BOOLEAN
  <1>1. session' \in Session \union {None}
    BY DEF StopSession, TypeOK, Session, State
  <1> QED BY <1>1, PublishType DEF StopSession

\* What a bounded action counts stays within its bound.
LEMMA UseType ==
  ASSUME TypeOK
  PROVE  /\ Use("starts", MaxStarts) =>
              /\ used' \in [starts : 0..MaxStarts, asks : 0..MaxAsks, faults : 0..MaxFaults]
              /\ used'.starts = used.starts + 1
         /\ Use("asks", MaxAsks) \/ Use("faults", MaxFaults) =>
              /\ used' \in [starts : 0..MaxStarts, asks : 0..MaxAsks, faults : 0..MaxFaults]
              /\ used'.starts = used.starts
  <1>1. MaxStarts \in Nat /\ MaxAsks \in Nat /\ MaxFaults \in Nat
    BY BoundsAssumption
  <1> QED BY <1>1 DEF TypeOK, Use

\* A change to the catalog keeps the types of all it changes.
LEMMA CommitType ==
  ASSUME TypeOK, NEW new \in Stored \union {None}, NEW last \in BOOLEAN, Commit(new, last)
  PROVE  /\ stored' \in Stored \union {None}
         /\ held' \in [Process -> Local]
         /\ used' \in [starts : 0..MaxStarts, asks : 0..MaxAsks, faults : 0..MaxFaults]
         /\ used'.starts = used.starts
         /\ UNCHANGED <<session, published, generation, profiles, worker, events, cleanups, seen, pending, news>>
  <1>1. held' \in [Process -> Local]
    BY LocalUpdates DEF Commit, TypeOK
  <1> QED BY <1>1, UseType DEF Commit

\* The user's requests keep the types.
LEMMA TypeAsk ==
  ASSUME TypeOK, AskStart \/ AskStop \/ Refresh \/ DeleteRule \/ Disconnect \/ \E r \in Rule : EditRule(r)
  PROVE  TypeOK'
  <1>1. CASE AskStart
    BY <1>1, UseType DEF AskStart, TypeOK, Goto, Step
  <1>2. CASE AskStop
    BY <1>2, UseType DEF AskStop, TypeOK, Goto, Step
  <1>3. CASE Refresh
    BY <1>3, CommitType DEF Refresh, TypeOK, Goto, Step
  <1>4. CASE DeleteRule
    BY <1>4, CommitType DEF DeleteRule, TypeOK, Goto, Step
  <1>5. CASE Disconnect
    <2>1. stored \in Stored
      BY <1>5 DEF Disconnect, Commit, TypeOK
    <2>2. [rule |-> stored.rule, enabled |-> FALSE] \in Stored
      BY <2>1 DEF Stored
    <2> QED BY <1>5, <2>2, CommitType DEF Disconnect, TypeOK, Goto, Step
  <1>6. ASSUME NEW r \in Rule, EditRule(r)
        PROVE  TypeOK'
    <2>1. stored \in Stored
      BY <1>6 DEF EditRule, Commit, TypeOK
    <2>2. [rule |-> r, enabled |-> stored.enabled] \in Stored
      BY <2>1 DEF Stored
    <2> QED BY <1>6, <2>2, CommitType DEF EditRule, TypeOK, Goto, Step
  <1> QED BY <1>1, <1>2, <1>3, <1>4, <1>5, <1>6

\* What the types need of the other invariants.
ReservesRule == \A p \in Process : pc[p] = "reserve" => held[p].rule \in Rule
Counts == \A p \in Process : pc[p] = "reserve" => generation < MaxStarts

\* A step of a start keeps the types: a generation is left to reserve.
LEMMA TypeStart ==
  ASSUME TypeOK, ReservesRule, Counts, NEW p \in Process, StartStep(p)
  PROVE  TypeOK'
  <1>1. CASE ReadCatalog(p)
    <2>1. held' \in [Process -> Local]
      BY <1>1, LocalUpdates DEF ReadCatalog, TypeOK
    <2> QED BY <1>1, <2>1 DEF ReadCatalog, TypeOK, Goto, Step
  <1>2. CASE ReserveExisting(p)
    <2>1. session' \in Session \union {None}
      BY <1>2, SessionUpdates DEF ReserveExisting, TypeOK, Live
    <2>2. published' \in Snapshot \union {None} /\ news' \in BOOLEAN
      BY <1>2, <2>1, PublishType DEF ReserveExisting
    <2> QED BY <1>2, <2>1, <2>2, NothingType DEF ReserveExisting, TypeOK, Goto, Step
  <1>3. CASE ReserveNew(p)
    <2>1. generation' \in Generation
      BY <1>3, BoundsAssumption DEF ReserveNew, TypeOK, Counts, Generation
    <2>2. session' \in Session
      BY <1>3, <2>1 DEF ReserveNew, ReservesRule, Session, State
    <2>3. published' \in Snapshot \union {None} /\ news' \in BOOLEAN
      BY <1>3, <2>2, PublishType DEF ReserveNew
    <2>4. held' \in [Process -> Local]
      BY <1>3, <2>1, LocalUpdates DEF ReserveNew, TypeOK
    <2> QED BY <1>3, <2>1, <2>2, <2>3, <2>4 DEF ReserveNew, TypeOK, Goto, Step, Generation
  <1>4. CASE Launch(p)
    <2>1. worker' \in [Generation -> Worker]
      BY <1>4, WorkerUpdates DEF Launch, TypeOK, Phase
    <2> QED BY <1>4, <2>1 DEF Launch, TypeOK, Goto, Step
  <1>5. CASE Attach(p)
    <2>1. session' \in Session \union {None}
      BY <1>5 DEF Attach, Reserved, TypeOK, Session
    <2> QED BY <1>5, <2>1, NothingType DEF Attach, TypeOK, Step
  <1>6. CASE CloseUnattached(p)
    <2>1. worker' \in [Generation -> Worker]
      BY <1>6, WorkerUpdates DEF CloseUnattached, TypeOK
    <2> QED BY <1>6, <2>1, NothingType DEF CloseUnattached, TypeOK, Step
  <1> QED BY <1>1, <1>2, <1>3, <1>4, <1>5, <1>6 DEF StartStep

\* The steps of a stop and of a catalog replacement keep the types.
LEMMA TypeManager ==
  ASSUME TypeOK, Stop \/ Hangup \/ ReplaceCatalog \/ WriteCatalog \/ Discard \/ Evict
  PROVE  TypeOK'
  <1>0. UI \in Process
    BY ProcessType
  <1>1. Attached \in Generation \union {0}
    BY DEF Attached, TypeOK, Session
  <1>2. CASE Stop
    <2>1. held' \in [Process -> Local]
      <3>1. [held[UI] EXCEPT !.gen = IF Live THEN Attached ELSE 0, !.last = FALSE] \in Local
        BY <1>0, <1>1 DEF TypeOK, Local
      <3> QED BY <1>2, <3>1 DEF Stop, TypeOK
    <2> QED BY <1>2, <2>1, StopType DEF Stop, TypeOK, Goto, Step
  <1>3. CASE Hangup
    <2>1. held' \in [Process -> Local]
      BY <1>0, <1>3, LocalUpdates DEF Hangup, TypeOK
    <2>2. worker' \in [Generation -> Worker]
      BY <1>3, WorkerUpdates DEF Hangup, TypeOK
    <2> QED BY <1>3, <2>1, <2>2 DEF Hangup, TypeOK, Goto, Step, Finished
  <1>4. CASE ReplaceCatalog
    <2>1. session' \in Session \union {None} /\ (Publish \/ Unpublished)
      BY <1>4, SessionUpdates DEF ReplaceCatalog, TypeOK, Stored
    <2>2. held' \in [Process -> Local]
      <3> DEFINE ends == /\ session # None
                         /\ stored = None \/ (~(/\ session # None /\ stored # None
                                                /\ session.state \in Preserved) /\ ~stored.enabled)
                 l == [held[UI] EXCEPT !.rule = IF stored = None THEN None ELSE stored.rule, !.ends = ends]
      <3>1. l \in Local
        BY <1>0 DEF TypeOK, Stored, Local
      <3>2. held' = [held EXCEPT ![UI] = l]
        BY <1>4 DEF ReplaceCatalog
      <3> HIDE DEF l
      <3> QED BY <3>1, <3>2 DEF TypeOK
    <2>3. published' \in Snapshot \union {None} /\ news' \in BOOLEAN
      BY <2>1, PublishType
    <2> QED BY <1>4, <2>1, <2>2, <2>3 DEF ReplaceCatalog, TypeOK, Goto, Step
  <1>5. CASE WriteCatalog
    <2>1. [Nothing EXCEPT !.last = held[UI].last] \in Local /\ held[UI].rule \in Rule \union {None}
      BY <1>0, NothingType, LocalUpdates DEF TypeOK, Local
    <2>2. held' \in [Process -> Local]
      BY <1>5, <2>1 DEF WriteCatalog, TypeOK
    <2> QED BY <1>5, <2>1, <2>2 DEF WriteCatalog, TypeOK, Goto, Step, Finished
  <1>6. CASE Discard
    <2>1. held' \in [Process -> Local]
      BY <1>0, <1>1, <1>6, LocalUpdates DEF Discard, TypeOK
    <2> QED BY <1>6, <2>1, StopType DEF Discard, TypeOK, Goto, Step
  <1>7. CASE Evict
    <2>1. session' \in Session \union {None} /\ (Publish \/ Unpublished)
      BY <1>7 DEF Evict, Remove, TypeOK
    <2>2. published' \in Snapshot \union {None} /\ news' \in BOOLEAN
      BY <2>1, PublishType
    <2> QED BY <1>7, <2>1, <2>2 DEF Evict, TypeOK, Goto, Step, Finished
  <1> QED BY <1>2, <1>3, <1>4, <1>5, <1>6, <1>7

\* The application's observations keep the types.
LEMMA TypeObserve ==
  ASSUME TypeOK, Observe \/ Retry
  PROVE  TypeOK'
  <1>1. ASSUME NEW state, Reconcile(state)
        PROVE  /\ stored' \in Stored \union {None} /\ pending' \in BOOLEAN
               /\ pc' \in [Process -> Step]
               /\ used' \in [starts : 0..MaxStarts, asks : 0..MaxAsks, faults : 0..MaxFaults]
    <2>1. stored' \in Stored \union {None}
      <3>1. FlagDiffers(state \in Preserved) => stored \in Stored
        BY DEF FlagDiffers, TypeOK
      <3>2. \A s \in Stored, b \in BOOLEAN : [s EXCEPT !.enabled = b] \in Stored
        BY DEF Stored
      <3>3. \E b \in BOOLEAN : b = (state \in Preserved)
        <4>1. CASE state \in Preserved
          <5>1. (state \in Preserved) = TRUE
            BY <4>1
          <5> QED BY <5>1
        <4>2. CASE state \notin Preserved
          <5>1. (state \in Preserved) = FALSE
            BY <4>2
          <5> QED BY <5>1
        <4> QED BY <4>1, <4>2
      <3>4. PICK b \in BOOLEAN : b = (state \in Preserved)
        BY <3>3
      <3>5. stored' = stored \/ (FlagDiffers(state \in Preserved) /\ stored' = [stored EXCEPT !.enabled = b])
        BY <1>1, <3>4 DEF Reconcile
      <3> QED BY <3>1, <3>2, <3>5 DEF TypeOK
    <2>2. pc' \in [Process -> Step]
      BY <1>1 DEF Reconcile, Goto, TypeOK, Step
    <2>3. used' \in [starts : 0..MaxStarts, asks : 0..MaxAsks, faults : 0..MaxFaults]
      BY <1>1, UseType DEF Reconcile, TypeOK
    <2> QED BY <1>1, <2>1, <2>2, <2>3 DEF Reconcile
  <1>2. CASE Observe
    <2>1. seen' \in State \union {"none"}
      BY <1>2 DEF Observe, TypeOK, Snapshot
    <2> QED BY <1>1, <1>2, <2>1 DEF Observe, TypeOK
  <1>3. CASE Retry
    BY <1>1, <1>3 DEF Retry, TypeOK
  <1> QED BY <1>2, <1>3

\* What an event makes of a session.
LEMMA AfterType ==
  ASSUME NEW s \in Session, NEW event \in Event
  PROVE  /\ After(s, event) \in Session
         /\ After(s, event).gen = s.gen /\ After(s, event).rule = s.rule
         /\ event = "Connected" => After(s, event).state = "running"
         /\ event = "Reconnecting" => After(s, event).state = "reconnecting"
         /\ Ends(event) => After(s, event).state \in {"stopped", "failed"}
         /\ After(s, event).commands = (s.commands /\ event # "Closed")
         /\ After(s, event).restart = (s.restart /\ ~Ends(event))
  BY DEF After, Session, State, Event, Ends

\* Handling an event keeps the types.
LEMMA HandleType ==
  ASSUME TypeOK, NEW g \in Generation, NEW event \in Event, Handle(g, event)
  PROVE  /\ session' \in Session \union {None} /\ cleanups' \subseteq Generation
         /\ published' \in Snapshot \union {None} /\ news' \in BOOLEAN
         /\ pc' \in [Process -> Step]
  <1>1. session' \in Session \union {None}
    BY AfterType DEF Handle, Reserved, TypeOK
  <1>2. published' \in Snapshot \union {None} /\ news' \in BOOLEAN
    BY <1>1, PublishType DEF Handle
  <1>3. cleanups' \subseteq Generation
    BY DEF Handle, TypeOK
  <1>4. pc' \in [Process -> Step]
    BY DEF Handle, TypeOK, Goto, Step
  <1> QED BY <1>1, <1>2, <1>3, <1>4

\* The steps of a handler keep the types.
LEMMA TypeHandler ==
  ASSUME TypeOK, NEW g \in Generation, PublishGeneration(g) \/ HandleEvent(g) \/ ChannelEnds(g) \/ Cleanup(g)
  PROVE  TypeOK'
  <1>1. CASE PublishGeneration(g)
    <2>1. published' \in Snapshot \union {None} /\ news' \in BOOLEAN
      BY <1>1, PublishType DEF PublishGeneration, TypeOK
    <2> QED BY <1>1, <2>1 DEF PublishGeneration, TypeOK, Goto, Step
  <1>2. CASE HandleEvent(g)
    <2>1. Head(events[g]) \in Event /\ Tail(events[g]) \in Seq(Event) /\ Len(Tail(events[g])) <= Capacity
      BY <1>2, BoundsAssumption DEF HandleEvent, TypeOK
    <2> QED BY <1>2, <2>1, HandleType DEF HandleEvent, TypeOK
  <1>3. CASE ChannelEnds(g)
    <2>1. worker' \in [Generation -> Worker]
      BY <1>3, WorkerUpdates DEF ChannelEnds, TypeOK, Phase
    <2>2. "Closed" \in Event
      BY DEF Event
    <2> QED BY <1>3, <2>1, <2>2, HandleType DEF ChannelEnds, TypeOK
  <1>4. CASE Cleanup(g)
    <2>1. session' \in Session \union {None} /\ (Publish \/ Unpublished)
      BY <1>4 DEF Cleanup, Remove, TypeOK
    <2>2. published' \in Snapshot \union {None} /\ news' \in BOOLEAN
      BY <2>1, PublishType
    <2> QED BY <1>4, <2>1, <2>2 DEF Cleanup, TypeOK
  <1> QED BY <1>1, <1>2, <1>3, <1>4

\* The steps of a worker thread keep the types: its channel is bounded, and so are its attempts.
LEMMA TypeThread ==
  ASSUME TypeOK, NEW g \in Generation, Thread(g)
  PROVE  TypeOK'
  <1>1. worker[g] \in Worker
    BY DEF TypeOK
  <1>2. worker' \in [Generation -> Worker]
    <2>1. MaxReconnects \in Nat
      BY BoundsAssumption
    <2>2. \A phase \in Phase, told \in BOOLEAN : Idle(phase, told) \in Worker
      BY <2>1 DEF Idle, Worker
    <2>3. \A phase \in Phase : [worker[g] EXCEPT !.phase = phase] \in Worker
      BY <1>1, WorkerUpdates
    <2>4. [worker[g] EXCEPT !.phase = "ready", !.once = TRUE, !.attempt = 0] \in Worker
      <3>1. "ready" \in Phase /\ 0 \in 0..MaxReconnects /\ TRUE \in BOOLEAN
        BY <2>1 DEF Phase
      <3> QED BY <1>1, <3>1, WorkerUpdates
    <2>5. NextAttempt(g) <= MaxReconnects =>
            [worker[g] EXCEPT !.phase = "waiting", !.attempt = NextAttempt(g)] \in Worker
      <3>1. worker[g].attempt \in Nat
        BY <1>1, WorkerUpdates
      <3>2. worker[g].attempt + 1 <= MaxReconnects => worker[g].attempt + 1 \in 0..MaxReconnects
        BY <2>1, <3>1
      <3>3. "waiting" \in Phase
        BY DEF Phase
      <3> QED BY <1>1, <3>2, <3>3, WorkerUpdates DEF NextAttempt
    <2>6. worker[g].told \in BOOLEAN
      BY <1>1, WorkerUpdates
    <2>7. PICK w \in Worker : worker' = [worker EXCEPT ![g] = w]
      BY <2>2, <2>3, <2>4, <2>5, <2>6 DEF Thread, Work, Connect, Lose, RetryConnection, Fail, Cancel,
                                          SendError, SendClosed, Phase
    <2> QED BY <2>7 DEF TypeOK
  <1>3. events' \in [Generation -> Seq(Event)] /\ \A h \in Generation : Len(events'[h]) <= Capacity
    <2>1. ASSUME NEW event \in Event, Send(g, event)
          PROVE  events' \in [Generation -> Seq(Event)] /\ \A h \in Generation : Len(events'[h]) <= Capacity
      BY <2>1, BoundsAssumption DEF Send, TypeOK
    <2> QED BY <2>1 DEF TypeOK, Thread, Connect, Lose, RetryConnection, Fail, Cancel, SendError, SendClosed, Event
  <1> QED BY <1>2, <1>3 DEF TypeOK, Thread, Work, Connect, Lose, RetryConnection, Fail, Cancel, SendError, SendClosed

\* Every step keeps the types.
LEMMA TypeNext == TypeOK /\ ReservesRule /\ Counts /\ [Next]_vars => TypeOK'
  <1> SUFFICES ASSUME TypeOK, ReservesRule, Counts, [Next]_vars PROVE TypeOK'
    OBVIOUS
  <1>1. CASE UNCHANGED vars
    BY <1>1 DEF vars, TypeOK
  <1> QED BY <1>1, NextActions, TypeAsk, TypeStart, TypeManager, TypeObserve, TypeHandler, TypeThread

---------------------------------------------------------------------------
(* Counting the starts. *)

\* Sets of processes are finite: one element more or less counts for one.
LEMMA WantingFinite ==
  ASSUME NEW S, S \subseteq Process
  PROVE  /\ IsFiniteSet(S) /\ Cardinality(S) \in Nat
         /\ \A T : T \subseteq S => Cardinality(T) <= Cardinality(S)
         /\ \A T, p : T \subseteq S \union {p} => Cardinality(T) <= Cardinality(S) + 1
         /\ \A T, p : p \in S /\ T \subseteq S \ {p} => Cardinality(T) + 1 <= Cardinality(S)
  <1>1. IsFiniteSet(1..MaxStarts)
    BY FS_Interval, BoundsAssumption
  <1>2. IsFiniteSet(Process)
    <2>1. IsFiniteSet((1..MaxStarts) \union {UI})
      BY <1>1, FS_AddElement
    <2>2. Process = (1..MaxStarts) \union {UI}
      BY DEF Process, Generation
    <2> QED BY <2>1, <2>2
  <1>3. IsFiniteSet(S) /\ Cardinality(S) \in Nat
    BY <1>2, FS_Subset, FS_CardinalityType
  <1>4. \A T : T \subseteq S => Cardinality(T) <= Cardinality(S)
    BY <1>3, FS_Subset
  <1>5. ASSUME NEW T, NEW p, T \subseteq S \union {p}
        PROVE  Cardinality(T) <= Cardinality(S) + 1
    <2>1. IsFiniteSet(S \union {p}) /\ Cardinality(S \union {p}) <= Cardinality(S) + 1
      <3>1. IsFiniteSet(S \union {p})
            /\ Cardinality(S \union {p}) = IF p \in S THEN Cardinality(S) ELSE Cardinality(S) + 1
        BY <1>3, FS_AddElement
      <3> QED BY <1>3, <3>1
    <2>2. Cardinality(T) <= Cardinality(S \union {p}) /\ Cardinality(T) \in Nat /\ Cardinality(S \union {p}) \in Nat
      BY <1>5, <2>1, FS_Subset, FS_CardinalityType
    <2> QED BY <1>3, <2>1, <2>2
  <1>6. ASSUME NEW T, NEW p \in S, T \subseteq S \ {p}
        PROVE  Cardinality(T) + 1 <= Cardinality(S)
    <2>1. IsFiniteSet(S \ {p}) /\ Cardinality(S \ {p}) = Cardinality(S) - 1
      BY <1>3, FS_RemoveElement
    <2>2. Cardinality(T) <= Cardinality(S \ {p}) /\ Cardinality(T) \in Nat
      BY <1>6, <2>1, FS_Subset, FS_CardinalityType
    <2> QED BY <1>3, <2>1, <2>2
  <1> QED BY <1>3, <1>4, <1>5, <1>6

\* Whoever is about to reserve has a generation left.
LEMMA CountsLemma ==
  ASSUME TypeOK, Counted
  PROVE  Counts
  <1> SUFFICES ASSUME NEW p \in Process, pc[p] = "reserve" PROVE generation < MaxStarts
    BY DEF Counts
  <1>1. Wanting \subseteq Process /\ p \in Wanting /\ {} \subseteq Wanting \ {p}
    BY DEF Wanting
  <1>2. Cardinality({}) + 1 <= Cardinality(Wanting) /\ Cardinality(Wanting) \in Nat
    BY <1>1, WantingFinite
  <1>3. Cardinality({}) = 0
    BY FS_EmptySet
  <1>4. generation \in Nat /\ Restarts \in Nat /\ used.starts \in 0..MaxStarts /\ MaxStarts \in Nat
    BY BoundsAssumption DEF TypeOK, Restarts
  <1> QED BY <1>2, <1>3, <1>4 DEF Counted

\* Arithmetic: a sum that does not grow stays bounded.
LEMMA Bounded ==
  ASSUME NEW g \in Nat, NEW c \in Nat, NEW r \in Nat, NEW u \in Nat, g + c + r <= u
  PROVE  \A h, d, s \in Nat : d <= c /\ h + s <= g + r => h + d + s <= u
  OBVIOUS

\* Arithmetic: what one term loses another may gain.
LEMMA BoundedByOneLess ==
  ASSUME NEW g \in Nat, NEW c \in Nat, NEW r \in Nat, NEW u \in Nat, g + c + r <= u
  PROVE  \A h, d, s \in Nat : d + 1 <= c /\ h + s <= g + r + 1 => h + d + s <= u
  OBVIOUS

\* A step keeps the count when every start it adds was asked for.
LEMMA CountLemma ==
  ASSUME TypeOK, TypeOK', Counted,
         \/ /\ Wanting' \subseteq Wanting
            /\ generation' + Restarts' <= generation + Restarts
            /\ used'.starts = used.starts
         \/ /\ \E p \in Wanting : Wanting' \subseteq Wanting \ {p}
            /\ generation' + Restarts' <= generation + Restarts + 1
            /\ used'.starts = used.starts
         \/ /\ \E p \in Process : Wanting' \subseteq Wanting \union {p}
            /\ generation' + Restarts' + 1 + used.starts <= generation + Restarts + used'.starts
  PROVE  Counted'
  <1>1. Wanting \subseteq Process /\ Wanting' \subseteq Process
    BY DEF Wanting
  <1>2. Cardinality(Wanting) \in Nat /\ Cardinality(Wanting') \in Nat
    BY <1>1, WantingFinite
  <1>3. generation \in Nat /\ generation' \in Nat /\ Restarts \in Nat /\ Restarts' \in Nat
        /\ used.starts \in Nat /\ used'.starts \in Nat
    BY BoundsAssumption DEF TypeOK, Restarts
  <1>4. /\ Counted' <=> generation' + Cardinality(Wanting') + Restarts' <= used'.starts
        /\ generation + Cardinality(Wanting) + Restarts <= used.starts
    BY DEF Counted
  <1>5. CASE /\ Wanting' \subseteq Wanting
             /\ generation' + Restarts' <= generation + Restarts
             /\ used'.starts = used.starts
    <2>1. Cardinality(Wanting') <= Cardinality(Wanting)
      BY <1>1, <1>5, WantingFinite
    <2>2. generation' + Restarts' <= generation + Restarts
      BY <1>5
    <2>3. generation' + Cardinality(Wanting') + Restarts' <= used.starts
      BY <1>2, <1>3, <1>4, <2>1, <2>2, Bounded
    <2> QED BY <1>4, <1>5, <2>3
  <1>6. CASE /\ \E p \in Wanting : Wanting' \subseteq Wanting \ {p}
             /\ generation' + Restarts' <= generation + Restarts + 1
             /\ used'.starts = used.starts
    <2>1. Cardinality(Wanting') + 1 <= Cardinality(Wanting)
      BY <1>1, <1>6, WantingFinite
    <2>2. generation' + Restarts' <= generation + Restarts + 1
      BY <1>6
    <2>3. generation' + Cardinality(Wanting') + Restarts' <= used.starts
      BY <1>2, <1>3, <1>4, <2>1, <2>2, BoundedByOneLess
    <2> QED BY <1>4, <1>6, <2>3
  <1>7. CASE /\ \E p \in Process : Wanting' \subseteq Wanting \union {p}
             /\ generation' + Restarts' + 1 + used.starts <= generation + Restarts + used'.starts
    <2>1. Cardinality(Wanting') <= Cardinality(Wanting) + 1
      BY <1>1, <1>7, WantingFinite
    <2> QED BY <1>2, <1>3, <1>4, <1>7, <2>1
  <1> QED BY <1>5, <1>6, <1>7

\* What a step does to the restart the session remembers.
LEMMA RestartsLemma ==
  ASSUME TypeOK
  PROVE  /\ Restarts \in {0, 1}
         /\ UNCHANGED session => Restarts' = Restarts
         /\ session' = None => Restarts' = 0
         /\ session' # None => (Restarts' = IF session'.restart THEN 1 ELSE 0)
         /\ StopSession => Restarts' = 0
  <1>1. StopSession => session' = None \/ (session' # None /\ session'.restart = FALSE)
    <2>1. session \in Session => [session EXCEPT !.restart = FALSE,
                                    !.state = IF Live THEN "stopping" ELSE @].restart = FALSE
      BY DEF Session
    <2> QED BY <2>1 DEF StopSession, TypeOK
  <1> QED BY <1>1 DEF Restarts

\* No step makes a generation that was not asked for.
LEMMA CountNext ==
  ASSUME TypeOK, TypeOK', Counted, [Next]_vars
  PROVE  Counted'
  <1>1. /\ pc \in [Process -> Step] /\ used.starts \in Nat /\ generation \in Nat
        /\ UI \in Process /\ Generation \subseteq Process
    BY BoundsAssumption, ProcessType DEF TypeOK
  <1>2. ASSUME UNCHANGED generation, used'.starts = used.starts, Wanting' \subseteq Wanting, Restarts' <= Restarts
        PROVE  Counted'
    BY <1>1, <1>2, RestartsLemma, CountLemma
  <1>3. CASE AskStart
    <2>1. Wanting' \subseteq Wanting \union {UI} /\ Restarts' = Restarts
      BY <1>1, <1>3, RestartsLemma DEF AskStart, Wanting, Goto
    <2>2. used'.starts = used.starts + 1
      BY <1>3, UseType DEF AskStart
    <2> QED BY <1>1, <1>3, <2>1, <2>2, RestartsLemma, CountLemma DEF AskStart
  <1>4. CASE AskStop
    <2>1. Wanting' \subseteq Wanting
      BY <1>1, <1>4 DEF AskStop, Wanting, Goto
    <2> QED BY <1>1, <1>2, <1>4, <2>1, UseType, RestartsLemma DEF AskStop
  <1>5. CASE Refresh \/ DeleteRule \/ Disconnect \/ \E r \in Rule : EditRule(r)
    <2>1. PICK new, last : Commit(new, last)
      BY <1>5 DEF Refresh, DeleteRule, Disconnect, EditRule
    <2>2. UNCHANGED <<session, generation>> /\ used'.starts = used.starts
      BY <2>1, UseType DEF Commit
    <2>3. Wanting' \subseteq Wanting
      BY <1>1, <1>5 DEF Refresh, DeleteRule, Disconnect, EditRule, Wanting, Goto
    <2> QED BY <1>1, <1>2, <2>2, <2>3, RestartsLemma
  <1>6. ASSUME NEW p \in Process, StartStep(p)
        PROVE  Counted'
    <2>1. CASE ReadCatalog(p) \/ Launch(p)
      <3>1. Wanting' \subseteq Wanting
        BY <1>1, <2>1 DEF ReadCatalog, Launch, Wanting, Goto
      <3> QED BY <1>1, <1>2, <2>1, <3>1, RestartsLemma DEF ReadCatalog, Launch
    <2>2. CASE ReserveExisting(p)
      <3>1. p \in Wanting /\ Wanting' \subseteq Wanting \ {p}
        BY <1>1, <2>2 DEF ReserveExisting, Wanting, Goto
      <3> QED BY <1>1, <2>2, <3>1, RestartsLemma, CountLemma DEF ReserveExisting
    <2>3. CASE ReserveNew(p)
      <3>1. p \in Wanting /\ Wanting' \subseteq Wanting \ {p}
        BY <1>1, <2>3 DEF ReserveNew, Wanting, Goto
      <3>2. Restarts' = 0
        BY <2>3 DEF ReserveNew, Restarts
      <3> QED BY <1>1, <2>3, <3>1, <3>2, RestartsLemma, CountLemma DEF ReserveNew
    <2>4. CASE Attach(p) \/ CloseUnattached(p)
      <3>1. Wanting' \subseteq Wanting
        BY <1>1, <2>4 DEF Attach, CloseUnattached, Wanting
      <3>2. Restarts' = Restarts
        <4>1. session \in Session => [session EXCEPT !.commands = TRUE].restart = session.restart
          BY DEF Session
        <4>2. session \in Session => [session EXCEPT !.commands = TRUE] # None
          BY SessionUpdates, ShownType
        <4> QED BY <2>4, <4>1, <4>2 DEF Attach, CloseUnattached, Reserved, Restarts, TypeOK
      <3> QED BY <1>1, <1>2, <2>4, <3>1, <3>2, RestartsLemma DEF Attach, CloseUnattached
    <2> QED BY <1>6, <2>1, <2>2, <2>3, <2>4 DEF StartStep
  <1>7. CASE Stop \/ Hangup \/ ReplaceCatalog \/ WriteCatalog \/ Discard \/ Evict
    <2>1. Wanting' \subseteq Wanting
      BY <1>1, <1>7 DEF Stop, Hangup, ReplaceCatalog, WriteCatalog, Discard, Evict, Finished, Wanting, Goto
    <2>2. Restarts' <= Restarts
      <3>1. CASE Stop \/ Discard
        BY <3>1, RestartsLemma DEF Stop, Discard
      <3>2. CASE Hangup \/ WriteCatalog
        BY <3>2, RestartsLemma DEF Hangup, WriteCatalog
      <3>3. CASE ReplaceCatalog
        <4>1. session \in Session => \A r \in Rule : [session EXCEPT !.rule = r].restart = session.restart
          BY DEF Session
        <4>2. stored # None => stored.rule \in Rule
          BY DEF TypeOK, Stored
        <4>3. \/ UNCHANGED session
              \/ session \in Session /\ stored # None /\ session' = [session EXCEPT !.rule = stored.rule]
          BY <3>3 DEF ReplaceCatalog, TypeOK
        <4>4. session # None /\ session \in Session /\ stored # None =>
                [session EXCEPT !.rule = stored.rule] # None
          BY <4>2, SessionUpdates, ShownType
        <4>5. CASE UNCHANGED session
          BY <4>5, RestartsLemma
        <4>6. CASE session # None /\ session \in Session /\ stored # None
                   /\ session' = [session EXCEPT !.rule = stored.rule]
          BY <4>1, <4>2, <4>4, <4>6 DEF Restarts
        <4> QED BY <4>3, <4>5, <4>6, ShownType
      <3>4. CASE Evict
        BY <3>4, RestartsLemma DEF Evict, Remove
      <3> QED BY <1>7, <3>1, <3>2, <3>3, <3>4
    <2> QED BY <1>1, <1>2, <1>7, <2>1, <2>2 DEF Stop, Hangup, ReplaceCatalog, WriteCatalog, Discard, Evict
  <1>8. CASE Observe \/ Retry
    <2>1. UNCHANGED <<session, generation>> /\ \E state : Reconcile(state)
      BY <1>8 DEF Observe, Retry
    <2>2. Wanting' \subseteq Wanting
      BY <1>1, <2>1 DEF Reconcile, Wanting, Goto
    <2>3. used'.starts = used.starts
      BY <2>1, UseType DEF Reconcile
    <2> QED BY <1>1, <1>2, <2>1, <2>2, <2>3, RestartsLemma
  <1>9. ASSUME NEW g \in Generation, NEW event \in Event, Handle(g, event), UNCHANGED <<generation, used>>
        PROVE  Counted'
    <2>1. CASE ~Reserved(g)
      <3>1. Wanting' \subseteq Wanting
        BY <1>1, <1>9, <2>1 DEF Handle, Wanting, Goto
      <3> QED BY <1>1, <1>2, <1>9, <2>1, <3>1, RestartsLemma DEF Handle
    <2>2. CASE Reserved(g)
      <3>1. session \in Session /\ session # None /\ session' = After(session, event) /\ session' # None
        BY <1>9, <2>2, AfterType, ShownType DEF Handle, Reserved, TypeOK
      <3>2. session.restart \in BOOLEAN /\ session'.restart = (session.restart /\ ~Ends(event))
        BY <1>9, <3>1, AfterType DEF Session
      <3>3. CASE Ends(event) /\ session.restart
        <4>1. Wanting' \subseteq Wanting \union {g} /\ g \in Process
          BY <1>1, <1>9, <2>2, <3>3 DEF Handle, Wanting, Goto
        <4>2. Restarts' = 0 /\ Restarts = 1
          BY <3>1, <3>2, <3>3, RestartsLemma DEF Restarts
        <4> QED BY <1>1, <1>9, <4>1, <4>2, CountLemma
      <3>4. CASE ~(Ends(event) /\ session.restart)
        <4>1. Wanting' \subseteq Wanting
          BY <1>1, <1>9, <2>2, <3>4 DEF Handle, Wanting, Goto
        <4>2. Restarts' <= Restarts
          BY <3>1, <3>2, RestartsLemma DEF Restarts
        <4> QED BY <1>1, <1>2, <1>9, <4>1, <4>2
      <3> QED BY <3>3, <3>4
    <2> QED BY <2>1, <2>2
  <1>10. ASSUME NEW g \in Generation, HandleEvent(g) \/ ChannelEnds(g)
         PROVE  Counted'
    <2>1. HandleEvent(g) => Head(events[g]) \in Event
      BY <1>10 DEF HandleEvent, TypeOK
    <2>2. "Closed" \in Event
      BY DEF Event
    <2> QED BY <1>9, <1>10, <2>1, <2>2 DEF HandleEvent, ChannelEnds
  <1>11. ASSUME NEW g \in Generation, PublishGeneration(g) \/ Cleanup(g) \/ Thread(g)
         PROVE  Counted'
    <2>1. Wanting' \subseteq Wanting
      BY <1>1, <1>11 DEF PublishGeneration, Cleanup, Thread, Work, Connect, Lose, RetryConnection, Fail, Cancel,
                         SendError, SendClosed, Wanting, Goto
    <2>2. Restarts' <= Restarts
      <3>1. session' = session \/ session' = None
        BY <1>11 DEF PublishGeneration, Cleanup, Remove, Thread, Work, Connect, Lose, RetryConnection, Fail,
                     Cancel, SendError, SendClosed
      <3> QED BY <3>1, RestartsLemma
    <2>3. UNCHANGED <<generation, used>>
      BY <1>11 DEF PublishGeneration, Cleanup, Thread, Work, Connect, Lose, RetryConnection, Fail, Cancel,
                   SendError, SendClosed
    <2> QED BY <1>1, <1>2, <2>1, <2>2, <2>3
  <1>12. CASE UNCHANGED vars
    BY <1>1, <1>2, <1>12, RestartsLemma DEF vars, Wanting
  <1> QED BY <1>3, <1>4, <1>5, <1>6, <1>7, <1>8, <1>10, <1>11, <1>12, NextActions

---------------------------------------------------------------------------
(* What the steps do to the processes and to the session. *)

\* The user and the application between two starts.
AtInterface == {"idle", "replace", "write", "discard", "evict", "stop", "hangup"}

\* What the interface does apart from a start moves itself alone, and makes
\* no generation.
LEMMA InterfaceMoves ==
  ASSUME TypeOK,
         \/ AskStart \/ AskStop \/ Refresh \/ DeleteRule \/ Disconnect \/ \E r \in Rule : EditRule(r)
         \/ Stop \/ Hangup \/ ReplaceCatalog \/ WriteCatalog \/ Discard \/ Evict \/ Observe \/ Retry
  PROVE  /\ pc[UI] \in AtInterface /\ pc'[UI] \in AtInterface \union {"read"}
         /\ \A p \in Process : p # UI => pc'[p] = pc[p] /\ held'[p] = held[p]
         /\ UNCHANGED <<generation, events, cleanups>>
  <1>1. UI \in Process /\ pc \in [Process -> Step] /\ held \in [Process -> Local]
    BY ProcessType DEF TypeOK
  <1>2. CASE AskStart \/ AskStop
    BY <1>1, <1>2 DEF AskStart, AskStop, Goto, AtInterface
  <1>3. CASE Refresh \/ DeleteRule \/ Disconnect \/ \E r \in Rule : EditRule(r)
    BY <1>1, <1>3 DEF Refresh, DeleteRule, Disconnect, EditRule, Commit, Goto, AtInterface
  <1>4. CASE Stop \/ Hangup \/ ReplaceCatalog \/ WriteCatalog \/ Discard \/ Evict
    BY <1>1, <1>4 DEF Stop, Hangup, ReplaceCatalog, WriteCatalog, Discard, Evict, Finished, Goto, AtInterface
  <1>5. CASE Observe \/ Retry
    BY <1>1, <1>5 DEF Observe, Retry, Reconcile, Goto, AtInterface
  <1> QED BY <1>2, <1>3, <1>4, <1>5

\* The user's requests and the application's observations leave the session
\* and the workers alone, and so do some steps of a start or replacement.
LEMMA LeftAlone ==
  ASSUME \/ AskStart \/ AskStop \/ Refresh \/ DeleteRule \/ Disconnect \/ \E r \in Rule : EditRule(r)
         \/ WriteCatalog \/ Observe \/ Retry
  PROVE  UNCHANGED <<session, published, worker>>
  BY DEF AskStart, AskStop, Refresh, DeleteRule, Disconnect, EditRule, Commit, WriteCatalog, Observe, Retry

\* The same session, as live as it was.
SameSession ==
  /\ session # None /\ session' # None
  /\ session'.gen = session.gen
  /\ Live' <=> Live

\* A session that has ended is removed.
Removed == session # None /\ ~Live /\ session' = None /\ Publish

\* stop keeps the session and its commands, and marks it as stopping if it is live.
LEMMA StopKeeps ==
  ASSUME TypeOK, StopSession
  PROVE  /\ session' = None <=> session = None
         /\ session # None =>
              /\ SameSession /\ session'.commands = session.commands
              /\ session'.state = IF Live THEN "stopping" ELSE session.state
              /\ session'.rule = session.rule
  <1>1. CASE session = None
    BY <1>1 DEF StopSession
  <1>2. CASE session # None
    <2>1. session \in Session /\ session'\in Session /\ session' # None
      BY <1>2, StopType, ShownType DEF TypeOK, StopSession, Session, State
    <2>2. /\ session'.gen = session.gen /\ session'.commands = session.commands
          /\ session'.rule = session.rule
          /\ session'.state = IF Live THEN "stopping" ELSE session.state
      BY <1>2, <2>1 DEF StopSession, Session
    <2> QED BY <1>2, <2>1, <2>2 DEF SameSession, Live, Active
  <1> QED BY <1>1, <1>2

\* Attaching the commands and replacing the rule keep the session's state.
LEMMA FieldsKeep ==
  ASSUME TypeOK, session # None
  PROVE  /\ session' = [session EXCEPT !.commands = TRUE] =>
              /\ SameSession /\ session'.state = session.state /\ session'.commands
              /\ Shown(session') = Shown(session)
         /\ session' = [session EXCEPT !.restart = TRUE] =>
              SameSession /\ session'.state = session.state /\ session'.commands = session.commands
         /\ \A r \in Rule : session' = [session EXCEPT !.rule = r] =>
              SameSession /\ session'.state = session.state /\ session'.commands = session.commands
  <1>1. session \in Session
    BY DEF TypeOK
  <1>2. /\ [session EXCEPT !.commands = TRUE] # None /\ [session EXCEPT !.restart = TRUE] # None
        /\ \A r \in Rule : [session EXCEPT !.rule = r] # None
    BY <1>1, SessionUpdates, ShownType
  <1> QED BY <1>1, <1>2 DEF SameSession, Live, Session, Shown

\* What neither reserves a session nor handles an event keeps the session
\* or removes one that has ended.
LEMMA SessionFate ==
  ASSUME TypeOK,
         \/ \E p \in Process : ReadCatalog(p) \/ ReserveExisting(p) \/ Launch(p) \/ Attach(p) \/ CloseUnattached(p)
         \/ AskStart \/ AskStop \/ Refresh \/ DeleteRule \/ Disconnect \/ \E r \in Rule : EditRule(r)
         \/ Stop \/ Hangup \/ ReplaceCatalog \/ WriteCatalog \/ Discard \/ Evict \/ Observe \/ Retry
         \/ \E g \in Generation : PublishGeneration(g) \/ Cleanup(g) \/ Thread(g)
         \/ UNCHANGED vars
  PROVE  UNCHANGED session \/ SameSession \/ Removed
  <1>1. CASE \E p \in Process : ReadCatalog(p) \/ Launch(p) \/ CloseUnattached(p)
    BY <1>1 DEF ReadCatalog, Launch, CloseUnattached
  <1>2. CASE \E p \in Process : ReserveExisting(p)
    BY <1>2, FieldsKeep DEF ReserveExisting, Live
  <1>3. CASE \E p \in Process : Attach(p)
    BY <1>3, FieldsKeep DEF Attach, Reserved
  <1>4. CASE \/ AskStart \/ AskStop \/ Refresh \/ DeleteRule \/ Disconnect \/ \E r \in Rule : EditRule(r)
             \/ WriteCatalog \/ Observe \/ Retry
    BY <1>4, LeftAlone
  <1>5. CASE Stop \/ Discard
    BY <1>5, StopKeeps DEF Stop, Discard
  <1>6. CASE ReplaceCatalog
    <2>1. stored # None => stored.rule \in Rule
      BY DEF TypeOK, Stored
    <2> QED BY <1>6, <2>1, FieldsKeep DEF ReplaceCatalog
  <1>7. CASE Evict
    BY <1>7 DEF Evict, Remove, Removed
  <1>8. CASE Hangup
    BY <1>8 DEF Hangup
  <1>9. CASE \E g \in Generation : PublishGeneration(g)
    BY <1>9 DEF PublishGeneration
  <1>10. CASE \E g \in Generation : Cleanup(g)
    BY <1>10 DEF Cleanup, Remove, Removed, Reserved
  <1>11. CASE \E g \in Generation : Thread(g)
    BY <1>11 DEF Thread, Work, Connect, Lose, RetryConnection, Fail, Cancel, SendError, SendClosed
  <1>12. CASE UNCHANGED vars
    BY <1>12 DEF vars
  <1> QED BY <1>1, <1>2, <1>3, <1>4, <1>5, <1>6, <1>7, <1>8, <1>9, <1>10, <1>11, <1>12

\* What a worker thread does to its phase and its channel.
LEMMA ThreadMoves ==
  ASSUME TypeOK, NEW g \in Generation, Thread(g)
  PROVE  /\ UNCHANGED <<session, published, generation, profiles, pc, held, cleanups, stored, seen, pending,
                        news, used>>
         /\ \A h \in Generation : h # g => worker'[h] = worker[h] /\ events'[h] = events[h]
         /\ worker'[g].told = worker[g].told
         /\ worker[g].phase # "none" /\ worker'[g].phase # "none"
         /\ Connection(g)' => Connection(g)
         /\ \/ events'[g] = events[g] /\ (worker[g].phase \notin {"closing", "ended", "gone"})
            \/ \E event \in Event :
                 /\ events'[g] = Append(events[g], event)
                 /\ Ends(event) => worker'[g].phase \in {"closing", "ended"}
                 /\ worker[g].phase \in {"closing", "ended", "gone"} => worker'[g].phase \in {"closing", "ended"}
  <1>1. worker \in [Generation -> Worker] /\ events \in [Generation -> Seq(Event)] /\ worker[g] \in Worker
    BY DEF TypeOK
  <1>2. /\ \A phase, once, attempt :
             LET w == [worker[g] EXCEPT !.phase = phase, !.once = once, !.attempt = attempt]
             IN  w.phase = phase /\ w.told = worker[g].told
        /\ \A phase, attempt :
             LET w == [worker[g] EXCEPT !.phase = phase, !.attempt = attempt]
             IN  w.phase = phase /\ w.told = worker[g].told
        /\ \A phase :
             LET w == [worker[g] EXCEPT !.phase = phase]
             IN  w.phase = phase /\ w.told = worker[g].told
        /\ \A phase, told : Idle(phase, told).phase = phase /\ Idle(phase, told).told = told
    BY <1>1 DEF Worker, Idle
  <1> HIDE DEF manager, application
  <1>3. CASE Connect(g) \/ Lose(g)
    <2>1. PICK event \in {"Connected", "Reconnecting"} : Send(g, event)
      BY <1>3 DEF Connect, Lose
    <2>2. PICK next : /\ Work(g, {"connecting", "ready"}, next)
                      /\ next.phase \in {"ready", "waiting"} /\ next.told = worker[g].told
      <3>1. CASE Connect(g)
        <4> DEFINE next == [worker[g] EXCEPT !.phase = "ready", !.once = TRUE, !.attempt = 0]
        <4>1. worker[g].phase \in {"connecting", "ready"} /\ worker' = [worker EXCEPT ![g] = next]
              /\ UNCHANGED <<manager, profiles, pc, held, cleanups, application, news, used>>
          BY <3>1 DEF Connect, Work
        <4>2. next.told = worker[g].told /\ next.phase \in {"ready", "waiting"}
          BY <1>2, <3>1 DEF Connect
        <4> HIDE DEF next
        <4> QED BY <4>1, <4>2 DEF Work
      <3>2. CASE Lose(g)
        <4> DEFINE next == [worker[g] EXCEPT !.phase = "waiting", !.attempt = NextAttempt(g)]
        <4>1. worker[g].phase \in {"connecting", "ready"} /\ worker' = [worker EXCEPT ![g] = next]
              /\ UNCHANGED <<manager, profiles, pc, held, cleanups, application, news, used>>
          BY <3>2 DEF Lose, Work
        <4>2. next.told = worker[g].told /\ next.phase \in {"ready", "waiting"}
          BY <1>2, <3>2 DEF Lose
        <4> HIDE DEF next
        <4> QED BY <4>1, <4>2 DEF Work
      <3> QED BY <1>3, <3>1, <3>2
    <2> QED BY <1>1, <2>1, <2>2 DEF Work, Send, Connection, Ends, Event, manager, application
  <1>4. CASE RetryConnection(g) \/ Fail(g) \/ Cancel(g)
    <2>1. PICK next : /\ Work(g, {"connecting", "ready", "waiting"}, next)
                      /\ next.phase \in {"connecting", "failing", "closing"} /\ next.told = worker[g].told
      <3>1. CASE RetryConnection(g)
        <4> DEFINE next == [worker[g] EXCEPT !.phase = "connecting"]
        <4>1. worker[g].phase \in {"connecting", "ready", "waiting"} /\ worker' = [worker EXCEPT ![g] = next]
              /\ UNCHANGED <<manager, profiles, pc, held, cleanups, application, news, used>>
          BY <3>1 DEF RetryConnection, Work
        <4>2. next.told = worker[g].told /\ next.phase \in {"connecting", "failing", "closing"}
          BY <1>2, <3>1 DEF RetryConnection
        <4> HIDE DEF next
        <4> QED BY <4>1, <4>2 DEF Work
      <3>2. CASE Fail(g)
        <4> DEFINE next == Idle("failing", worker[g].told)
        <4>1. worker[g].phase \in {"connecting", "ready", "waiting"} /\ worker' = [worker EXCEPT ![g] = next]
              /\ UNCHANGED <<manager, profiles, pc, held, cleanups, application, news, used>>
          BY <3>2 DEF Fail, Work
        <4>2. next.told = worker[g].told /\ next.phase \in {"connecting", "failing", "closing"}
          BY <1>2, <3>2 DEF Fail
        <4> HIDE DEF next
        <4> QED BY <4>1, <4>2 DEF Work
      <3>3. CASE Cancel(g)
        <4> DEFINE next == Idle("closing", TRUE)
        <4>1. worker[g].phase \in {"connecting", "ready", "waiting"} /\ worker' = [worker EXCEPT ![g] = next]
              /\ UNCHANGED <<manager, profiles, pc, held, cleanups, application, news, used>>
          BY <3>3 DEF Cancel, Work
        <4>2. next.told = worker[g].told /\ next.phase \in {"connecting", "failing", "closing"}
          <5>1. worker[g].told = TRUE
            <6>1. worker[g].told \in BOOLEAN /\ worker[g].told
              BY <1>1, <3>3, WorkerUpdates DEF Cancel
            <6> QED BY <6>1
          <5>2. "closing" \in {"connecting", "failing", "closing"}
            OBVIOUS
          <5>3. next.phase = "closing" /\ next.told = TRUE
            BY <1>2
          <5> HIDE DEF next
          <5> QED BY <5>1, <5>2, <5>3
        <4> HIDE DEF next
        <4> QED BY <4>1, <4>2 DEF Work
      <3> QED BY <1>4, <3>1, <3>2, <3>3
    <2>2. UNCHANGED events
      BY <1>4 DEF RetryConnection, Fail, Cancel
    <2> QED BY <1>1, <2>1, <2>2 DEF Work, Connection, manager, application
  <1>5. CASE SendError(g) \/ SendClosed(g)
    <2>1. PICK event \in {"Error", "Closed"} : Send(g, event)
      BY <1>5 DEF SendError, SendClosed
    <2>2. PICK next : /\ Work(g, {"failing", "closing"}, next)
                      /\ next.phase \in {"closing", "ended"} /\ next.told = worker[g].told
      BY <1>1, <1>2, <1>5 DEF SendError, SendClosed, Work, Idle
    <2> QED BY <1>1, <2>1, <2>2 DEF Work, Send, Connection, Ends, Event, manager, application
  <1> QED BY <1>3, <1>4, <1>5 DEF Thread

\* What the handler of a generation does with one event.
LEMMA HandleMoves ==
  ASSUME TypeOK, NEW g \in Generation, NEW event \in Event, Handle(g, event), pc[g] = "idle"
  PROVE  /\ \A p \in Process : p # g => pc'[p] = pc[p]
         /\ pc'[g] \in {"idle", "read"}
         /\ ~Reserved(g) => /\ UNCHANGED <<session, published, news, cleanups>>
                            /\ pc'[g] = "idle"
         /\ Reserved(g) => /\ session # None /\ session' # None /\ session'.gen = g
                           /\ session'.commands = (session.commands /\ event # "Closed")
         /\ Reserved(g) /\ ~Ends(event) => /\ session'.state \in Preserved /\ Live'
                                           /\ Publish /\ UNCHANGED cleanups /\ pc'[g] = "idle"
         /\ Reserved(g) /\ Ends(event) =>
              /\ session'.state \notin Preserved /\ ~Live'
              /\ \/ Unpublished /\ UNCHANGED cleanups /\ pc'[g] = "read"
                 \/ Publish /\ cleanups' = cleanups \union {g} /\ pc'[g] = "idle"
  <1>1. g \in Process /\ pc \in [Process -> Step]
    BY ProcessType DEF TypeOK
  <1>2. CASE ~Reserved(g)
    BY <1>1, <1>2 DEF Handle, Goto, Unpublished
  <1>3. CASE Reserved(g)
    <2>1. /\ session \in Session /\ session # None /\ session.gen = g
          /\ session' = After(session, event) /\ session' \in Session /\ session' # None
      BY <1>3, AfterType, ShownType DEF Handle, Reserved, TypeOK
    <2>2. session'.gen = g /\ session'.commands = (session.commands /\ event # "Closed")
      BY <2>1, AfterType
    <2>3. ~Ends(event) => session'.state \in Preserved /\ Live'
      BY <2>1, AfterType DEF Event, Ends, Preserved, Live, Active
    <2>4. Ends(event) => session'.state \notin Preserved /\ ~Live'
      BY <2>1, AfterType DEF Preserved, Live, Active
    <2>5. CASE Ends(event) /\ session.restart
      BY <1>1, <1>3, <2>1, <2>2, <2>4, <2>5 DEF Handle, Goto
    <2>6. CASE ~(Ends(event) /\ session.restart)
      <3>1. Publish /\ pc' = [pc EXCEPT ![g] = "idle"]
            /\ cleanups' = cleanups \union IF Ends(event) THEN {g} ELSE {}
        BY <1>3, <2>6 DEF Handle, Goto
      <3> QED BY <1>1, <1>3, <2>1, <2>2, <2>3, <2>4, <3>1
    <2> QED BY <2>5, <2>6
  <1> QED BY <1>2, <1>3

---------------------------------------------------------------------------
(* Each part of the invariant is kept. *)

\* Handlers handle; the interface is never unborn; whoever reserves has a rule.
LEMMA StepsNext == TypeOK /\ Steps /\ [Next]_vars => Steps'
  <1> SUFFICES ASSUME TypeOK, Steps, [Next]_vars PROVE Steps'
    OBVIOUS
  <1>1. /\ pc \in [Process -> Step] /\ held \in [Process -> Local]
        /\ UI \in Process /\ UI \notin Generation /\ Generation \subseteq Process
        /\ Process = {UI} \union Generation
    BY ProcessType DEF TypeOK, Process
  <1>2. CASE \/ AskStart \/ AskStop \/ Refresh \/ DeleteRule \/ Disconnect \/ \E r \in Rule : EditRule(r)
             \/ Stop \/ Hangup \/ ReplaceCatalog \/ WriteCatalog \/ Discard \/ Evict \/ Observe \/ Retry
    BY <1>1, <1>2, InterfaceMoves DEF Steps, AtInterface
  <1>3. ASSUME NEW p \in Process, StartStep(p)
        PROVE  Steps'
    <2>1. CASE ReadCatalog(p)
      <3>1. profiles # None => profiles \in Rule
        BY DEF TypeOK
      <3>2. pc'[p] = "reserve" => held'[p].rule \in Rule
        BY <1>1, <2>1, <3>1 DEF ReadCatalog, Goto, Local
      <3>3. \A q \in Process : q # p => pc'[q] = pc[q] /\ held'[q] = held[q]
        BY <1>1, <2>1 DEF ReadCatalog, Goto
      <3>4. pc'[p] \in IF p = UI THEN {"idle", "reserve"} ELSE {"publish", "reserve"}
        BY <1>1, <2>1 DEF ReadCatalog, Goto
      <3> QED BY <1>1, <3>2, <3>3, <3>4 DEF Steps
    <2>2. CASE ReserveExisting(p) \/ ReserveNew(p) \/ Launch(p)
      <3>1. /\ \A q \in Process : q # p => pc'[q] = pc[q] /\ held'[q] = held[q]
            /\ pc'[p] \in {"idle", "launch", "attach"}
        BY <1>1, <2>2 DEF ReserveExisting, ReserveNew, Launch, Goto
      <3> QED BY <1>1, <3>1 DEF Steps
    <2>3. CASE Attach(p) \/ CloseUnattached(p)
      <3>1. \A q \in Process : \/ pc'[q] = pc[q] /\ (q # p => held'[q] = held[q])
                               \/ pc'[q] \in {"idle", "close"}
        BY <1>1, <2>3 DEF Attach, CloseUnattached
      <3>2. pc'[p] \in {"idle", "close"}
        BY <1>1, <2>3 DEF Attach, CloseUnattached
      <3> QED BY <1>1, <3>1, <3>2 DEF Steps
    <2> QED BY <1>3, <2>1, <2>2, <2>3 DEF StartStep
  <1>4. ASSUME NEW g \in Generation, NEW event \in Event, Handle(g, event), pc[g] = "idle", UNCHANGED held
        PROVE  Steps'
    BY <1>1, <1>4, HandleMoves DEF Steps
  <1>5. ASSUME NEW g \in Generation, PublishGeneration(g) \/ HandleEvent(g) \/ ChannelEnds(g) \/ Cleanup(g) \/ Thread(g)
        PROVE  Steps'
    <2>1. CASE PublishGeneration(g)
      BY <1>1, <2>1 DEF PublishGeneration, Goto, Steps
    <2>2. CASE HandleEvent(g) \/ ChannelEnds(g)
      <3>1. HandleEvent(g) => Head(events[g]) \in Event
        BY DEF HandleEvent, TypeOK
      <3> QED BY <1>4, <2>2, <3>1 DEF HandleEvent, ChannelEnds, Event
    <2>3. CASE Cleanup(g)
      BY <2>3 DEF Cleanup, Steps
    <2>4. CASE Thread(g)
      BY <2>4, ThreadMoves DEF Steps
    <2> QED BY <1>5, <2>1, <2>2, <2>3, <2>4
  <1>6. CASE UNCHANGED vars
    BY <1>6 DEF vars, Steps
  <1> QED BY <1>2, <1>3, <1>5, <1>6, NextActions

\* Generations to come have no worker, no handler and no events.
LEMMA LaterNext == TypeOK /\ TypeOK' /\ Later /\ StartsAlone /\ [Next]_vars => Later'
  <1> SUFFICES ASSUME TypeOK, TypeOK', Later, StartsAlone, [Next]_vars PROVE Later'
    OBVIOUS
  <1>1. /\ pc \in [Process -> Step] /\ worker \in [Generation -> Worker] /\ generation \in Nat
        /\ UI \in Process /\ UI \notin Generation /\ Generation \subseteq Process /\ Generation \subseteq Nat
    BY ProcessType, BoundsAssumption DEF TypeOK
  <1>2. session # None => session.gen \in Generation /\ session.gen <= generation
    BY DEF Later, TypeOK, Session
  <1>3. ASSUME UNCHANGED generation, UNCHANGED session \/ SameSession \/ Removed,
               \A g \in Generation : g > generation /\ Unborn(g) /\ g \notin cleanups =>
                 Unborn(g)' /\ g \notin cleanups'
        PROVE  Later'
    BY <1>2, <1>3 DEF Later, SameSession, Removed
  <1>4. CASE \/ AskStart \/ AskStop \/ Refresh \/ DeleteRule \/ Disconnect \/ \E r \in Rule : EditRule(r)
             \/ Stop \/ Hangup \/ ReplaceCatalog \/ WriteCatalog \/ Discard \/ Evict \/ Observe \/ Retry
    <2>1. \A g \in Generation : worker'[g].phase = worker[g].phase
      <3>1. CASE Hangup
        <4>1. \A w \in Worker : [w EXCEPT !.told = TRUE].phase = w.phase
          BY DEF Worker
        <4> QED BY <1>1, <3>1, <4>1 DEF Hangup
      <3>2. CASE Stop \/ ReplaceCatalog \/ Discard \/ Evict
        BY <3>2 DEF Stop, ReplaceCatalog, Discard, Evict
      <3> QED BY <1>4, <3>1, <3>2, LeftAlone
    <2>2. UNCHANGED session \/ SameSession \/ Removed
      BY <1>4, SessionFate
    <2> QED BY <1>1, <1>3, <1>4, <2>1, <2>2, InterfaceMoves DEF Unborn
  <1>5. ASSUME NEW p \in Process, StartStep(p)
        PROVE  Later'
    <2>1. CASE ReadCatalog(p) \/ ReserveExisting(p)
      <3>1. UNCHANGED session \/ SameSession \/ Removed
        BY <2>1, SessionFate
      <3> QED BY <1>1, <1>3, <2>1, <3>1 DEF ReadCatalog, ReserveExisting, Goto, Unborn
    <2>2. CASE ReserveNew(p)
      BY <1>1, <2>2 DEF ReserveNew, Goto, Unborn, Later
    <2>3. CASE Launch(p)
      <3>1. Reserved(held[p].gen)
        BY <2>3 DEF StartsAlone, Starting, Launch
      <3>2. \A g \in Generation : g # held[p].gen => worker'[g] = worker[g]
        BY <1>1, <2>3 DEF Launch
      <3>3. held[p].gen <= generation
        BY <1>2, <3>1 DEF Reserved
      <3> QED BY <1>1, <1>3, <2>3, <3>2, <3>3 DEF Launch, Goto, Unborn
    <2>4. CASE Attach(p) \/ CloseUnattached(p)
      <3>1. Reserved(held[p].gen)
        BY <2>4 DEF StartsAlone, Starting, Attach, CloseUnattached
      <3>2. \A g \in Generation : g # held[p].gen => worker'[g] = worker[g]
        BY <1>1, <2>4 DEF Attach, CloseUnattached
      <3>3. held[p].gen <= generation
        BY <1>2, <3>1 DEF Reserved
      <3>4. \A q \in Process : q # p /\ q # held[p].gen => pc'[q] = pc[q]
        BY <1>1, <2>4 DEF Attach, CloseUnattached
      <3>5. pc[p] # "unborn"
        BY <2>4 DEF Attach, CloseUnattached
      <3>6. UNCHANGED session \/ SameSession \/ Removed
        BY <2>4, SessionFate
      <3>7. UNCHANGED <<generation, events, cleanups>>
        BY <2>4 DEF Attach, CloseUnattached
      <3> QED BY <1>1, <1>3, <3>2, <3>3, <3>4, <3>5, <3>6, <3>7 DEF Unborn
    <2> QED BY <1>5, <2>1, <2>2, <2>3, <2>4 DEF StartStep
  <1>6. ASSUME NEW g \in Generation, PublishGeneration(g) \/ Cleanup(g) \/ Thread(g)
        PROVE  Later'
    <2>1. UNCHANGED session \/ SameSession \/ Removed
      BY <1>6, SessionFate
    <2>2. CASE PublishGeneration(g) \/ Cleanup(g)
      BY <1>1, <1>3, <2>1, <2>2 DEF PublishGeneration, Cleanup, Goto, Unborn
    <2>3. CASE Thread(g)
      BY <1>1, <1>3, <2>1, <2>3, ThreadMoves DEF Unborn
    <2> QED BY <1>6, <2>2, <2>3
  <1>7. ASSUME NEW g \in Generation, NEW event \in Event, Handle(g, event), pc[g] = "idle",
               UNCHANGED generation,
               \A h \in Generation : h # g => worker'[h] = worker[h] /\ events'[h] = events[h]
        PROVE  Later'
    <2>1. ~(g > generation)
      BY <1>7 DEF Later, Unborn
    <2>2. session' # None => session'.gen <= generation
      BY <1>1, <1>2, <1>7, <2>1, HandleMoves
    <2>3. \A h \in Generation : h # g => pc'[h] = pc[h] /\ (h \in cleanups' => h \in cleanups)
      BY <1>1, <1>7, HandleMoves
    <2> QED BY <1>1, <1>7, <2>1, <2>2, <2>3 DEF Later, Unborn
  <1>8. ASSUME NEW g \in Generation, HandleEvent(g) \/ ChannelEnds(g)
        PROVE  Later'
    <2>1. HandleEvent(g) => Head(events[g]) \in Event
      BY DEF HandleEvent, TypeOK
    <2>2. \A h \in Generation : h # g => worker'[h] = worker[h] /\ events'[h] = events[h]
      BY <1>1, <1>8 DEF HandleEvent, ChannelEnds, TypeOK
    <2> QED BY <1>7, <1>8, <2>1, <2>2 DEF HandleEvent, ChannelEnds, Event
  <1>9. CASE UNCHANGED vars
    BY <1>9 DEF vars, Later, Unborn
  <1> QED BY <1>4, <1>5, <1>6, <1>8, <1>9, NextActions

\* The events that are left over, or one more that ends the connection.
LEMMA EndsAreLastNext == TypeOK /\ StartsAlone /\ EndsAreLast /\ [Next]_vars => EndsAreLast'
  <1> SUFFICES ASSUME TypeOK, StartsAlone, EndsAreLast, [Next]_vars PROVE EndsAreLast'
    OBVIOUS
  <1>1. /\ worker \in [Generation -> Worker] /\ events \in [Generation -> Seq(Event)]
    BY DEF TypeOK
  <1>2. ASSUME UNCHANGED events, \A g \in Generation : worker'[g].phase = worker[g].phase
        PROVE  EndsAreLast'
    BY <1>2 DEF EndsAreLast
  <1>3. CASE \/ AskStart \/ AskStop \/ Refresh \/ DeleteRule \/ Disconnect \/ \E r \in Rule : EditRule(r)
             \/ Stop \/ Hangup \/ ReplaceCatalog \/ WriteCatalog \/ Discard \/ Evict \/ Observe \/ Retry
    <2>1. \A g \in Generation : worker'[g].phase = worker[g].phase
      <3>1. CASE Hangup
        <4>1. \A w \in Worker : [w EXCEPT !.told = TRUE].phase = w.phase
          BY DEF Worker
        <4> QED BY <1>1, <3>1, <4>1 DEF Hangup
      <3>2. CASE Stop \/ ReplaceCatalog \/ Discard \/ Evict
        BY <3>2 DEF Stop, ReplaceCatalog, Discard, Evict
      <3> QED BY <1>3, <3>1, <3>2, LeftAlone
    <2> QED BY <1>2, <1>3, <2>1, InterfaceMoves
  <1>4. ASSUME NEW p \in Process, StartStep(p)
        PROVE  EndsAreLast'
    <2>1. CASE ReadCatalog(p) \/ ReserveExisting(p) \/ ReserveNew(p) \/ Attach(p)
      BY <1>2, <2>1 DEF ReadCatalog, ReserveExisting, ReserveNew, Attach
    <2>2. CASE Launch(p)
      <3>1. worker[held[p].gen].phase = "none"
        BY <2>2 DEF StartsAlone, Starting, Launch, Reserved
      <3> QED BY <1>1, <2>2, <3>1 DEF EndsAreLast, Launch
    <2>3. CASE CloseUnattached(p)
      <3>1. \A w \in Worker : [w EXCEPT !.told = TRUE].phase = w.phase
        BY DEF Worker
      <3>2. UNCHANGED events /\ \A g \in Generation : worker'[g].phase = worker[g].phase
        BY <1>1, <2>3, <3>1 DEF CloseUnattached
      <3> QED BY <1>2, <3>2
    <2> QED BY <1>4, <2>1, <2>2, <2>3 DEF StartStep
  <1>5. ASSUME NEW g \in Generation, HandleEvent(g)
        PROVE  EndsAreLast'
    <2>1. \A h \in Generation : worker'[h] = worker[h] /\ (h # g => events'[h] = events[h])
      BY <1>1, <1>5 DEF HandleEvent
    <2>2. events'[g] = Tail(events[g]) /\ events[g] # << >> /\ events[g] \in Seq(Event)
      BY <1>1, <1>5 DEF HandleEvent
    <2>3. \A i \in 1..Len(events'[g]) : i + 1 \in 1..Len(events[g]) /\ events'[g][i] = events[g][i + 1]
      BY <2>2
    <2> QED BY <2>1, <2>3 DEF EndsAreLast
  <1>6. ASSUME NEW g \in Generation, ChannelEnds(g)
        PROVE  EndsAreLast'
    BY <1>1, <1>6 DEF ChannelEnds, EndsAreLast
  <1>7. ASSUME NEW g \in Generation, PublishGeneration(g) \/ Cleanup(g)
        PROVE  EndsAreLast'
    BY <1>2, <1>7 DEF PublishGeneration, Cleanup
  <1>8. ASSUME NEW g \in Generation, Thread(g)
        PROVE  EndsAreLast'
    <2>1. \A h \in Generation : h # g => worker'[h] = worker[h] /\ events'[h] = events[h]
      BY <1>8, ThreadMoves
    <2>2. CASE events'[g] = events[g] /\ worker[g].phase \notin {"closing", "ended", "gone"}
      BY <2>1, <2>2 DEF EndsAreLast
    <2>3. CASE \E event \in Event :
                 /\ events'[g] = Append(events[g], event)
                 /\ Ends(event) => worker'[g].phase \in {"closing", "ended"}
                 /\ worker[g].phase \in {"closing", "ended", "gone"} => worker'[g].phase \in {"closing", "ended"}
      <3>1. PICK event \in Event :
                 /\ events'[g] = Append(events[g], event)
                 /\ Ends(event) => worker'[g].phase \in {"closing", "ended"}
                 /\ worker[g].phase \in {"closing", "ended", "gone"} => worker'[g].phase \in {"closing", "ended"}
        BY <2>3
      <3>2. ASSUME NEW i \in 1..Len(events'[g]), Ends(events'[g][i])
            PROVE  worker'[g].phase \in {"closing", "ended", "gone"}
        <4>1. CASE i = Len(events[g]) + 1
          BY <1>1, <3>1, <3>2, <4>1
        <4>2. CASE i \in 1..Len(events[g])
          BY <1>1, <3>1, <3>2, <4>2 DEF EndsAreLast
        <4> QED BY <1>1, <3>1, <3>2, <4>1, <4>2
      <3> QED BY <2>1, <3>2 DEF EndsAreLast
    <2> QED BY <1>8, <2>2, <2>3, ThreadMoves
  <1>9. CASE UNCHANGED vars
    BY <1>9 DEF vars, EndsAreLast
  <1> QED BY <1>3, <1>4, <1>5, <1>6, <1>7, <1>8, <1>9, NextActions

\* A step that neither begins nor advances a start leaves the one under way
\* as it was, when it keeps the session.
LEMMA StartGoesOn ==
  ASSUME TypeOK, StartsAlone,
         \A p \in Process : Starting(p)' => pc'[p] = pc[p] /\ held'[p].gen = held[p].gen,
         \A g \in Generation : pc[g] = "unborn" => pc'[g] = "unborn",
         \A g \in Generation : worker[g].phase = "none" => worker'[g].phase = "none",
         \/ UNCHANGED session
         \/ /\ SameSession /\ session'.commands = session.commands
            /\ session.state = "stopping" => session'.state = "stopping"
         \/ \A p \in Process : ~Starting(p)
  PROVE  StartsAlone'
  <1>1. \A p \in Process : Starting(p)' => Starting(p)
    BY DEF Starting
  <1>2. CASE \A p \in Process : ~Starting(p)
    BY <1>1, <1>2 DEF StartsAlone
  <1>3. session # None => session.gen \in Generation
    BY DEF TypeOK, Session
  <1>4. CASE \/ UNCHANGED session
             \/ /\ SameSession /\ session'.commands = session.commands
                /\ session.state = "stopping" => session'.state = "stopping"
    <2>1. ASSUME NEW p \in Process, Starting(p)'
          PROVE  /\ Reserved(held[p].gen)' /\ Live' /\ pc'[session'.gen] = "unborn" /\ ~session'.commands
                 /\ pc'[p] = "launch" => worker'[session'.gen].phase = "none"
                 /\ pc'[p] = "close" => session'.state = "stopping"
      <3>1. Starting(p) /\ pc'[p] = pc[p] /\ held'[p].gen = held[p].gen
        BY <1>1, <2>1
      <3>2. /\ Reserved(held[p].gen) /\ Live /\ pc[session.gen] = "unborn" /\ ~session.commands
            /\ pc[p] = "launch" => worker[session.gen].phase = "none"
            /\ pc[p] = "close" => session.state = "stopping"
        BY <3>1 DEF StartsAlone
      <3>3. /\ session' # None /\ session'.gen = session.gen /\ Live' /\ ~session'.commands
            /\ session.state = "stopping" => session'.state = "stopping"
        BY <1>4, <3>2 DEF SameSession, Live, Reserved
      <3> QED BY <1>3, <3>1, <3>2, <3>3 DEF Reserved
    <2> QED BY <1>1, <2>1 DEF StartsAlone
  <1> QED BY <1>2, <1>4

\* A session that has ended has no start under way.
LEMMA NoStartUnlessLive == StartsAlone /\ ~Live => \A p \in Process : ~Starting(p)
  BY DEF StartsAlone

\* One start at a time, and it is the session's.
LEMMA StartsAloneNext ==
  TypeOK /\ TypeOK' /\ Steps /\ Later /\ StartsAlone /\ [Next]_vars => StartsAlone'
  <1> SUFFICES ASSUME TypeOK, TypeOK', Steps, Later, StartsAlone, [Next]_vars PROVE StartsAlone'
    OBVIOUS
  <1>1. /\ pc \in [Process -> Step] /\ worker \in [Generation -> Worker] /\ held \in [Process -> Local]
        /\ UI \in Process /\ UI \notin Generation /\ Generation \subseteq Process
        /\ generation \in Nat /\ Generation \subseteq Nat
    BY ProcessType, BoundsAssumption DEF TypeOK
  <1>2. /\ \A w \in Worker : [w EXCEPT !.told = TRUE].phase = w.phase
    BY DEF Worker
  <1>3. CASE \/ AskStart \/ AskStop \/ Refresh \/ DeleteRule \/ Disconnect \/ \E r \in Rule : EditRule(r)
             \/ Stop \/ Hangup \/ ReplaceCatalog \/ WriteCatalog \/ Discard \/ Evict \/ Observe \/ Retry
    <2>1. \A g \in Generation : worker'[g].phase = worker[g].phase
      <3>1. CASE Hangup
        BY <1>1, <1>2, <3>1 DEF Hangup
      <3>2. CASE Stop \/ ReplaceCatalog \/ Discard \/ Evict
        BY <3>2 DEF Stop, ReplaceCatalog, Discard, Evict
      <3> QED BY <1>3, <3>1, <3>2, LeftAlone
    <2>2. \A p \in Process : Starting(p)' => pc'[p] = pc[p] /\ held'[p].gen = held[p].gen
      BY <1>1, <1>3, InterfaceMoves DEF Starting, AtInterface
    <2>3. \A g \in Generation : pc[g] = "unborn" => pc'[g] = "unborn"
      BY <1>1, <1>3, InterfaceMoves
    <2>4. \/ UNCHANGED session
          \/ /\ SameSession /\ session'.commands = session.commands
             /\ session.state = "stopping" => session'.state = "stopping"
          \/ \A p \in Process : ~Starting(p)
      <3>1. CASE Stop \/ Discard
        BY <3>1, StopKeeps DEF Stop, Discard
      <3>2. CASE ReplaceCatalog
        <4>1. stored # None => stored.rule \in Rule
          BY DEF TypeOK, Stored
        <4> QED BY <3>2, <4>1, FieldsKeep DEF ReplaceCatalog
      <3>3. CASE Evict
        BY <3>3, NoStartUnlessLive DEF Evict
      <3>4. CASE Hangup
        BY <3>4 DEF Hangup
      <3> QED BY <1>3, <3>1, <3>2, <3>3, <3>4, LeftAlone
    <2> QED BY <2>1, <2>2, <2>3, <2>4, StartGoesOn
  <1>4. ASSUME NEW p \in Process, StartStep(p)
        PROVE  StartsAlone'
    <2>1. CASE ReadCatalog(p) \/ ReserveExisting(p)
      <3>1. \A q \in Process : Starting(q)' => pc'[q] = pc[q] /\ held'[q].gen = held[q].gen
        BY <1>1, <2>1 DEF ReadCatalog, ReserveExisting, Goto, Starting
      <3>2. \A g \in Generation : pc[g] = "unborn" => pc'[g] = "unborn"
        BY <1>1, <2>1 DEF ReadCatalog, ReserveExisting, Goto
      <3>3. UNCHANGED worker
        BY <2>1 DEF ReadCatalog, ReserveExisting
      <3>4. \/ UNCHANGED session
            \/ /\ SameSession /\ session'.commands = session.commands
               /\ session.state = "stopping" => session'.state = "stopping"
        BY <2>1, FieldsKeep DEF ReadCatalog, ReserveExisting, Live
      <3> QED BY <3>1, <3>2, <3>3, <3>4, StartGoesOn
    <2>2. CASE ReserveNew(p)
      <3>1. \A q \in Process : ~Starting(q)
        BY <2>2, NoStartUnlessLive DEF ReserveNew
      <3>2. /\ pc' = [pc EXCEPT ![p] = "launch"] /\ held'[p].gen = generation + 1
            /\ session' # None /\ session'.gen = generation + 1 /\ session'.state = "starting"
            /\ session'.commands = FALSE
            /\ UNCHANGED worker /\ generation' = generation + 1
        <4>1. session' = [gen |-> generation + 1, state |-> "starting", restart |-> FALSE,
                          commands |-> FALSE, rule |-> held[p].rule]
          BY <2>2 DEF ReserveNew
        <4>2. held' = [held EXCEPT ![p].gen = generation + 1] /\ held[p] \in Local
          BY <1>1, <2>2 DEF ReserveNew
        <4>3. held'[p].gen = generation + 1
          BY <1>1, <4>2 DEF Local
        <4>4. session' # None
          <5>1. held[p].rule \in Rule
            BY <2>2 DEF ReserveNew, Steps
          <5>2. generation' \in 0..MaxStarts /\ generation' = generation + 1
            BY <2>2 DEF TypeOK, ReserveNew
          <5>3. session' \in Session
            BY <1>1, <4>1, <5>1, <5>2, BoundsAssumption DEF Session, Generation, State
          <5> QED BY <5>3, ShownType
        <4> QED BY <2>2, <4>1, <4>3, <4>4 DEF ReserveNew, Goto
      <3>3. generation + 1 \in Generation /\ Unborn(generation + 1)
        <4>1. generation + 1 \in Generation
          BY <1>1, <3>2, BoundsAssumption DEF TypeOK, Generation
        <4> QED BY <1>1, <4>1 DEF Later
      <3>4. p # generation + 1
        BY <2>2, <3>3 DEF ReserveNew, Unborn
      <3>5. Live'
        BY <3>2 DEF Live, Active, Preserved
      <3>6. \A q \in Process : Starting(q)' => q = p
        BY <1>1, <3>1, <3>2 DEF Starting
      <3>7. pc'[session'.gen] = "unborn" /\ worker'[session'.gen].phase = "none"
        BY <1>1, <3>2, <3>3, <3>4 DEF Unborn
      <3>8. pc'[p] = "launch"
        BY <1>1, <3>2
      <3> QED BY <3>2, <3>5, <3>6, <3>7, <3>8 DEF StartsAlone, Reserved
    <2>3. CASE Launch(p) \/ Attach(p) \/ CloseUnattached(p)
      <3>1. /\ Starting(p) /\ \A q \in Process : Starting(q) => q = p
            /\ Reserved(held[p].gen) /\ Live /\ pc[session.gen] = "unborn" /\ ~session.commands
        BY <2>3 DEF StartsAlone, Starting, Launch, Attach, CloseUnattached
      <3>2. session \in Session /\ session # None /\ session.gen = held[p].gen /\ session.gen \in Generation
            /\ session.gen # p
        BY <3>1 DEF Reserved, TypeOK, Session, Starting
      <3>3. CASE Launch(p)
        <4>1. /\ pc' = [pc EXCEPT ![p] = "attach"] /\ UNCHANGED <<session, held>>
          BY <3>3 DEF Launch, Goto
        <4>2. \A q \in Process : Starting(q)' => q = p
          BY <1>1, <3>1, <4>1 DEF Starting
        <4> QED BY <1>1, <3>1, <3>2, <4>1, <4>2 DEF StartsAlone, Reserved, Live
      <3>4. CASE Attach(p) /\ session.state # "stopping"
        <4>1. pc' = [pc EXCEPT ![p] = "idle", ![session.gen] = "idle"]
          BY <3>1, <3>2, <3>4 DEF Attach
        <4>2. \A q \in Process : ~Starting(q)'
          BY <1>1, <3>1, <4>1 DEF Starting
        <4> QED BY <4>2 DEF StartsAlone
      <3>5. CASE Attach(p) /\ session.state = "stopping"
        <4>1. /\ pc' = [pc EXCEPT ![p] = "close"] /\ UNCHANGED <<session, held>>
          BY <3>5 DEF Attach
        <4>2. \A q \in Process : Starting(q)' => q = p
          BY <1>1, <3>1, <4>1 DEF Starting
        <4> QED BY <1>1, <3>1, <3>2, <3>5, <4>1, <4>2 DEF StartsAlone, Reserved, Live
      <3>6. CASE CloseUnattached(p)
        <4>1. pc' = [pc EXCEPT ![p] = "idle", ![session.gen] = "idle"]
          BY <3>1, <3>2, <3>6 DEF CloseUnattached
        <4>2. \A q \in Process : ~Starting(q)'
          BY <1>1, <3>1, <4>1 DEF Starting
        <4> QED BY <4>2 DEF StartsAlone
      <3> QED BY <2>3, <3>3, <3>4, <3>5, <3>6
    <2> QED BY <1>4, <2>1, <2>2, <2>3 DEF StartStep
  <1>5. ASSUME NEW g \in Generation, NEW event \in Event, Handle(g, event), pc[g] = "idle", UNCHANGED held,
               \A h \in Generation : worker[h].phase = "none" => worker'[h].phase = "none"
        PROVE  StartsAlone'
    <2>1. \A p \in Process : Starting(p)' => pc'[p] = pc[p] /\ held'[p].gen = held[p].gen
      BY <1>5, HandleMoves DEF Starting
    <2>2. \A h \in Generation : pc[h] = "unborn" => pc'[h] = "unborn"
      BY <1>1, <1>5, HandleMoves
    <2>3. UNCHANGED session \/ \A p \in Process : ~Starting(p)
      <3>1. CASE Reserved(g)
        BY <1>5, <3>1 DEF StartsAlone, Reserved
      <3> QED BY <1>5, <3>1, HandleMoves
    <2> QED BY <1>5, <2>1, <2>2, <2>3, StartGoesOn
  <1>6. ASSUME NEW g \in Generation, HandleEvent(g) \/ ChannelEnds(g)
        PROVE  StartsAlone'
    <2>1. HandleEvent(g) => Head(events[g]) \in Event
      BY DEF HandleEvent, TypeOK
    <2>2. \A h \in Generation : worker[h].phase = "none" => worker'[h].phase = "none"
      BY <1>1, <1>6 DEF HandleEvent, ChannelEnds
    <2> QED BY <1>5, <1>6, <2>1, <2>2 DEF HandleEvent, ChannelEnds, Event
  <1>7. ASSUME NEW g \in Generation, PublishGeneration(g) \/ Cleanup(g) \/ Thread(g)
        PROVE  StartsAlone'
    <2>1. CASE PublishGeneration(g)
      BY <1>1, <2>1, StartGoesOn DEF PublishGeneration, Goto, Starting
    <2>2. CASE Cleanup(g)
      <3>1. UNCHANGED session \/ \A p \in Process : ~Starting(p)
        BY <2>2, NoStartUnlessLive DEF Cleanup
      <3> QED BY <2>2, <3>1, StartGoesOn DEF Cleanup
    <2>3. CASE Thread(g)
      BY <2>3, ThreadMoves, StartGoesOn
    <2> QED BY <1>7, <2>1, <2>2, <2>3
  <1>8. CASE UNCHANGED vars
    BY <1>8, StartGoesOn DEF vars
  <1> QED BY <1>3, <1>4, <1>6, <1>7, <1>8, NextActions

\* A step that makes no connection and leaves a live session live.
LEMMA ConnectionGoesOn ==
  ASSUME ConnectionIsLive, \A g \in Generation : Connection(g)' => Connection(g),
         UNCHANGED session \/ SameSession \/ ~Live
  PROVE  ConnectionIsLive'
  BY DEF ConnectionIsLive, SameSession, Reserved, Live

\* Only the live session's generation has a connection.
LEMMA ConnectionIsLiveNext ==
  TypeOK /\ StartsAlone /\ EndsAreLast /\ ConnectionIsLive /\ [Next]_vars => ConnectionIsLive'
  <1> SUFFICES ASSUME TypeOK, StartsAlone, EndsAreLast, ConnectionIsLive, [Next]_vars PROVE ConnectionIsLive'
    OBVIOUS
  <1>1. /\ worker \in [Generation -> Worker] /\ events \in [Generation -> Seq(Event)]
        /\ \A w \in Worker : [w EXCEPT !.told = TRUE].phase = w.phase
    BY DEF TypeOK, Worker
  <1>2. CASE \/ AskStart \/ AskStop \/ Refresh \/ DeleteRule \/ Disconnect \/ \E r \in Rule : EditRule(r)
             \/ Stop \/ Hangup \/ ReplaceCatalog \/ WriteCatalog \/ Discard \/ Evict \/ Observe \/ Retry
    <2>1. \A g \in Generation : worker'[g].phase = worker[g].phase
      <3>1. CASE Hangup
        BY <1>1, <3>1 DEF Hangup
      <3>2. CASE Stop \/ ReplaceCatalog \/ Discard \/ Evict
        BY <3>2 DEF Stop, ReplaceCatalog, Discard, Evict
      <3> QED BY <1>2, <3>1, <3>2, LeftAlone
    <2>2. UNCHANGED session \/ SameSession \/ Removed
      BY <1>2, SessionFate
    <2> QED BY <2>1, <2>2, ConnectionGoesOn DEF Connection, Removed
  <1>3. ASSUME NEW p \in Process, StartStep(p)
        PROVE  ConnectionIsLive'
    <2>1. CASE ReadCatalog(p) \/ ReserveExisting(p) \/ Attach(p)
      <3>1. UNCHANGED session \/ SameSession \/ Removed
        BY <2>1, SessionFate
      <3>2. UNCHANGED worker
        BY <2>1 DEF ReadCatalog, ReserveExisting, Attach
      <3> QED BY <3>1, <3>2, ConnectionGoesOn DEF Connection, Removed
    <2>2. CASE ReserveNew(p)
      BY <2>2, ConnectionGoesOn DEF ReserveNew, Connection
    <2>3. CASE Launch(p)
      <3>1. Reserved(held[p].gen) /\ Live
        BY <2>3 DEF StartsAlone, Starting, Launch
      <3>2. \A g \in Generation : g # held[p].gen => worker'[g] = worker[g]
        BY <1>1, <2>3 DEF Launch
      <3>3. UNCHANGED session
        BY <2>3 DEF Launch
      <3>4. \A g \in Generation : Connection(g)' => Connection(g) \/ g = held[p].gen
        BY <3>2 DEF Connection
      <3> QED BY <3>1, <3>3, <3>4 DEF ConnectionIsLive, Reserved, Live
    <2>4. CASE CloseUnattached(p)
      <3>1. UNCHANGED session /\ \A g \in Generation : worker'[g].phase = worker[g].phase
        BY <1>1, <2>4 DEF CloseUnattached
      <3> QED BY <3>1, ConnectionGoesOn DEF Connection
    <2> QED BY <1>3, <2>1, <2>2, <2>3, <2>4 DEF StartStep
  <1>4. ASSUME NEW g \in Generation, NEW event \in Event, Handle(g, event), pc[g] = "idle",
               Ends(event) => ~Connection(g),
               \A h \in Generation : Connection(h)' => Connection(h)
        PROVE  ConnectionIsLive'
    <2>1. CASE ~Reserved(g)
      BY <1>4, <2>1, HandleMoves, ConnectionGoesOn
    <2>2. CASE Reserved(g) /\ Ends(event)
      BY <1>4, <2>2 DEF ConnectionIsLive, Reserved
    <2>3. CASE Reserved(g) /\ ~Ends(event)
      <3>1. session' # None /\ session'.gen = g /\ Live'
        BY <1>4, <2>3, HandleMoves
      <3> QED BY <1>4, <2>3, <3>1 DEF ConnectionIsLive, Reserved
    <2> QED BY <2>1, <2>2, <2>3
  <1>5. ASSUME NEW g \in Generation, HandleEvent(g)
        PROVE  ConnectionIsLive'
    <2>1. Head(events[g]) \in Event /\ Head(events[g]) = events[g][1] /\ 1 \in 1..Len(events[g])
      BY <1>1, <1>5 DEF HandleEvent
    <2>2. Ends(Head(events[g])) => ~Connection(g)
      BY <2>1 DEF EndsAreLast, Connection
    <2> QED BY <1>4, <1>5, <2>1, <2>2 DEF HandleEvent, Connection
  <1>6. ASSUME NEW g \in Generation, ChannelEnds(g)
        PROVE  ConnectionIsLive'
    <2>1. ~Connection(g)
      BY <1>6 DEF ChannelEnds, Connection
    <2>2. \A h \in Generation : Connection(h)' => Connection(h)
      BY <1>1, <1>6 DEF ChannelEnds, Connection
    <2> QED BY <1>4, <1>6, <2>1, <2>2 DEF ChannelEnds, Event
  <1>7. ASSUME NEW g \in Generation, PublishGeneration(g) \/ Cleanup(g) \/ Thread(g)
        PROVE  ConnectionIsLive'
    <2>1. UNCHANGED session \/ SameSession \/ Removed
      BY <1>7, SessionFate
    <2>2. \A h \in Generation : Connection(h)' => Connection(h)
      <3>1. CASE PublishGeneration(g) \/ Cleanup(g)
        BY <3>1 DEF PublishGeneration, Cleanup, Connection
      <3>2. CASE Thread(g)
        BY <3>2, ThreadMoves DEF Connection
      <3> QED BY <1>7, <3>1, <3>2
    <2> QED BY <2>1, <2>2, ConnectionGoesOn DEF Removed
  <1>8. CASE UNCHANGED vars
    BY <1>8, ConnectionGoesOn DEF vars, Connection
  <1> QED BY <1>2, <1>3, <1>5, <1>6, <1>7, <1>8, NextActions

\* A step that makes no connection, keeps the session with its commands and
\* leaves those who are to tell the connection where they are.
LEMMA NobodyLost ==
  ASSUME NoOrphan, ConnectionIsLive, ConnectionIsLive',
         \A g \in Generation : Connection(g)' /\ ~worker'[g].told => Connection(g) /\ ~worker[g].told,
         \/ ~Live
         \/ /\ session' # None => /\ session.commands => session'.commands
                                  /\ session'.state = "stopping" => session.state = "stopping"
            /\ \A g \in Generation : BeingTold(g) => BeingTold(g)'
  PROVE  NoOrphan'
  BY DEF NoOrphan, ConnectionIsLive, Reserved

\* A connection nobody is on the way to close is one the user can stop.
LEMMA NoOrphanNext ==
  ASSUME TypeOK, StartsAlone, ConnectionIsLive, ConnectionIsLive', EndsAreLast, NoOrphan, [Next]_vars
  PROVE  NoOrphan'
  <1>1. /\ pc \in [Process -> Step] /\ worker \in [Generation -> Worker] /\ held \in [Process -> Local]
        /\ events \in [Generation -> Seq(Event)]
        /\ UI \in Process /\ UI \notin Generation /\ Generation \subseteq Process
        /\ \A w \in Worker : [w EXCEPT !.told = TRUE].phase = w.phase /\ [w EXCEPT !.told = TRUE].told
    BY ProcessType DEF TypeOK, Worker
  <1>2. ASSUME UNCHANGED <<session, worker>>, \A g \in Generation : BeingTold(g) => BeingTold(g)'
        PROVE  NoOrphan'
    BY <1>2, NobodyLost DEF Connection
  <1>3. CASE \/ AskStart \/ AskStop \/ Refresh \/ DeleteRule \/ Disconnect \/ \E r \in Rule : EditRule(r)
             \/ WriteCatalog \/ Observe \/ Retry
    <2>1. pc[UI] # "hangup" /\ pc[UI] \notin {"attach", "close"}
      BY <1>3 DEF AskStart, AskStop, Refresh, DeleteRule, Disconnect, EditRule, Commit, WriteCatalog, Observe, Retry
    <2>2. \A g \in Generation : BeingTold(g) => BeingTold(g)'
      BY <1>3, <2>1, InterfaceMoves DEF BeingTold
    <2> QED BY <1>2, <1>3, <2>2, LeftAlone
  <1>4. CASE Stop \/ Discard
    <2>1. pc[UI] \notin {"hangup", "attach", "close"} /\ UNCHANGED worker /\ StopSession
      BY <1>4 DEF Stop, Discard
    <2>2. \A g \in Generation : BeingTold(g) => BeingTold(g)'
      BY <1>4, <2>1, InterfaceMoves DEF BeingTold
    <2>3. CASE ~Live
      BY <2>1, <2>3, NobodyLost DEF Connection
    <2>4. CASE Live
      <3>1. session # None /\ session' # None /\ session'.gen = session.gen /\ session'.commands = session.commands
        BY <2>1, <2>4, StopKeeps DEF Live, SameSession
      <3>2. pc'[UI] = "hangup" /\ held'[UI].gen = Attached
        <4>1. pc' = [pc EXCEPT ![UI] = "hangup"]
              /\ \/ held' = [held EXCEPT ![UI].gen = Attached, ![UI].last = FALSE]
                 \/ held' = [held EXCEPT ![UI].gen = Attached]
          BY <1>4, <2>4 DEF Stop, Discard, Goto
        <4>2. held[UI] \in Local
          BY <1>1
        <4> HIDE DEF Attached
        <4> QED BY <1>1, <4>1, <4>2 DEF Local
      <3>3. session.commands => BeingTold(session.gen)'
        BY <3>1, <3>2 DEF BeingTold, Attached
      <3>4. ASSUME NEW g \in Generation, Connection(g)', ~worker'[g].told
            PROVE  Reserved(g)' /\ Live' /\ BeingTold(g)'
        <4>1. Connection(g) /\ ~worker[g].told
          BY <2>1, <3>4 DEF Connection
        <4>2. Reserved(g) /\ (session.commands \/ BeingTold(g))
          BY <4>1 DEF NoOrphan
        <4> QED BY <2>2, <3>3, <3>4, <4>2 DEF ConnectionIsLive, Reserved
      <3> QED BY <3>4 DEF NoOrphan
    <2> QED BY <2>3, <2>4
  <1>5. CASE Hangup
    <2>1. \A g \in Generation : g # held[UI].gen => worker'[g] = worker[g]
      BY <1>1, <1>5 DEF Hangup
    <2>2. \A g \in Generation : g = held[UI].gen => worker'[g].told
      BY <1>1, <1>5 DEF Hangup
    <2>3. ASSUME NEW g \in Generation, Connection(g)', ~worker'[g].told
          PROVE  Connection(g) /\ ~worker[g].told /\ g # held[UI].gen
      BY <2>1, <2>2, <2>3 DEF Connection
    <2>4. \A g \in Generation : g # held[UI].gen /\ BeingTold(g) => BeingTold(g)'
      <3>1. pc[UI] \notin {"attach", "close"}
        BY <1>5 DEF Hangup
      <3> QED BY <1>5, <3>1, InterfaceMoves DEF BeingTold
    <2>5. UNCHANGED session
      BY <1>5 DEF Hangup
    <2> QED BY <2>3, <2>4, <2>5 DEF NoOrphan, Reserved, Live
  <1>6. CASE ReplaceCatalog \/ Evict
    <2>1. pc[UI] \notin {"hangup", "attach", "close"} /\ UNCHANGED worker
      BY <1>6 DEF ReplaceCatalog, Evict
    <2>2. \A g \in Generation : BeingTold(g) => BeingTold(g)'
      BY <1>6, <2>1, InterfaceMoves DEF BeingTold
    <2>3. \/ ~Live
          \/ session' # None => /\ session.commands => session'.commands
                                /\ session'.state = "stopping" => session.state = "stopping"
      <3>1. CASE ReplaceCatalog
        <4>1. stored # None => stored.rule \in Rule
          BY DEF TypeOK, Stored
        <4> QED BY <3>1, <4>1, FieldsKeep DEF ReplaceCatalog
      <3>2. CASE Evict
        BY <3>2 DEF Evict
      <3> QED BY <1>6, <3>1, <3>2
    <2> QED BY <2>1, <2>2, <2>3, NobodyLost DEF Connection
  <1>7. ASSUME NEW p \in Process, StartStep(p)
        PROVE  NoOrphan'
    <2>1. CASE ReadCatalog(p) \/ ReserveExisting(p)
      <3>1. pc[p] \notin {"hangup", "attach", "close"} /\ UNCHANGED worker
            /\ \A q \in Process : q # p => pc'[q] = pc[q] /\ held'[q] = held[q]
        BY <1>1, <2>1 DEF ReadCatalog, ReserveExisting, Goto
      <3>2. \A g \in Generation : BeingTold(g) => BeingTold(g)'
        BY <1>1, <3>1 DEF BeingTold
      <3>3. session' # None => /\ session.commands => session'.commands
                               /\ session'.state = "stopping" => session.state = "stopping"
        BY <2>1, FieldsKeep DEF ReadCatalog, ReserveExisting, Live
      <3> QED BY <3>1, <3>2, <3>3, NobodyLost DEF Connection
    <2>2. CASE ReserveNew(p)
      BY <2>2, NobodyLost DEF ReserveNew, Connection
    <2>3. CASE Launch(p)
      <3>1. Reserved(held[p].gen) /\ Live
        BY <2>3 DEF StartsAlone, Starting, Launch
      <3>2. \A g \in Generation : g # held[p].gen => worker'[g] = worker[g]
        BY <1>1, <2>3 DEF Launch
      <3>3. pc' = [pc EXCEPT ![p] = "attach"] /\ UNCHANGED <<session, held>> /\ pc[p] = "launch"
        BY <2>3 DEF Launch, Goto
      <3>4. BeingTold(held[p].gen)'
        BY <1>1, <3>3 DEF BeingTold
      <3>5. \A g \in Generation : BeingTold(g) => BeingTold(g)'
        BY <1>1, <3>3 DEF BeingTold
      <3>6. \A g \in Generation : g # held[p].gen /\ Connection(g)' /\ ~worker'[g].told =>
              Connection(g) /\ ~worker[g].told
        BY <3>2 DEF Connection
      <3> QED BY <3>1, <3>3, <3>4, <3>5, <3>6 DEF NoOrphan, Reserved, Live
    <2>4. CASE Attach(p)
      <3>1. Reserved(held[p].gen) /\ Live /\ pc[p] = "attach" /\ UNCHANGED worker
        BY <2>4 DEF StartsAlone, Starting, Attach
      <3>2. CASE session.state = "stopping"
        <4>1. UNCHANGED <<session, held>> /\ pc' = [pc EXCEPT ![p] = "close"]
          BY <2>4, <3>2 DEF Attach
        <4>2. \A g \in Generation : BeingTold(g) => BeingTold(g)'
          BY <1>1, <3>1, <4>1 DEF BeingTold
        <4> QED BY <1>2, <3>1, <4>1, <4>2
      <3>3. CASE session.state # "stopping"
        <4>1. session' = [session EXCEPT !.commands = TRUE]
          BY <2>4, <3>1, <3>3 DEF Attach
        <4>2. session'.commands /\ session'.state # "stopping"
          BY <3>1, <3>3, <4>1, FieldsKeep DEF Reserved
        <4> QED BY <4>2 DEF NoOrphan, ConnectionIsLive
      <3> QED BY <3>2, <3>3
    <2>5. CASE CloseUnattached(p)
      <3>1. Reserved(held[p].gen) /\ Live /\ UNCHANGED session
        BY <2>5 DEF StartsAlone, Starting, CloseUnattached
      <3>2. session.gen \in Generation /\ worker'[session.gen].told
        BY <1>1, <2>5, <3>1 DEF CloseUnattached, Reserved, TypeOK, Session
      <3> QED BY <3>1, <3>2 DEF NoOrphan, ConnectionIsLive, Reserved
    <2> QED BY <1>7, <2>1, <2>2, <2>3, <2>4, <2>5 DEF StartStep
  <1>8. ASSUME NEW g \in Generation, NEW event \in Event, Handle(g, event), pc[g] = "idle", UNCHANGED held,
               Ends(event) => ~Connection(g),
               \A h \in Generation : Connection(h)' /\ ~worker'[h].told => Connection(h) /\ ~worker[h].told
        PROVE  NoOrphan'
    <2>1. \A h \in Generation : BeingTold(h) => BeingTold(h)'
      <3>1. \A q \in Process : q # g => pc'[q] = pc[q] /\ held'[q] = held[q]
        BY <1>8, HandleMoves
      <3> QED BY <1>1, <1>8, <3>1 DEF BeingTold
    <2>2. CASE ~Reserved(g)
      BY <1>8, <2>1, <2>2, HandleMoves, NobodyLost
    <2>3. CASE Reserved(g) /\ Ends(event)
      BY <1>8, <2>3 DEF ConnectionIsLive, NoOrphan, Reserved
    <2>4. CASE Reserved(g) /\ ~Ends(event)
      <3>1. session'.state # "stopping" /\ (session.commands => session'.commands)
        BY <1>8, <2>4, HandleMoves DEF Preserved, Ends
      <3> QED BY <1>8, <2>1, <3>1, NobodyLost
    <2> QED BY <2>2, <2>3, <2>4
  <1>9. ASSUME NEW g \in Generation, HandleEvent(g)
        PROVE  NoOrphan'
    <2>1. Head(events[g]) \in Event /\ Head(events[g]) = events[g][1] /\ 1 \in 1..Len(events[g])
      BY <1>1, <1>9 DEF HandleEvent
    <2>2. Ends(Head(events[g])) => ~Connection(g)
      BY <2>1 DEF EndsAreLast, Connection
    <2> QED BY <1>8, <1>9, <2>1, <2>2 DEF HandleEvent, Connection
  <1>10. ASSUME NEW g \in Generation, ChannelEnds(g)
        PROVE  NoOrphan'
    <2>1. ~Connection(g)
      BY <1>10 DEF ChannelEnds, Connection
    <2>2. \A h \in Generation : h # g => worker'[h] = worker[h]
      BY <1>1, <1>10 DEF ChannelEnds
    <2>3. ~Connection(g)'
      BY <1>1, <1>10 DEF ChannelEnds, Connection
    <2> QED BY <1>8, <1>10, <2>1, <2>2, <2>3 DEF ChannelEnds, Event, Connection
  <1>11. ASSUME NEW g \in Generation, PublishGeneration(g) \/ Cleanup(g) \/ Thread(g)
        PROVE  NoOrphan'
    <2>1. CASE PublishGeneration(g)
      <3>1. UNCHANGED <<session, worker, held>> /\ pc' = [pc EXCEPT ![g] = "idle"] /\ pc[g] = "publish"
        BY <2>1 DEF PublishGeneration, Goto
      <3>2. \A h \in Generation : BeingTold(h) => BeingTold(h)'
        BY <1>1, <3>1 DEF BeingTold
      <3> QED BY <1>2, <3>1, <3>2
    <2>2. CASE Cleanup(g)
      <3>1. UNCHANGED <<worker, pc, held>> /\ (UNCHANGED session \/ ~Live)
        BY <2>2 DEF Cleanup
      <3>2. \A h \in Generation : BeingTold(h) => BeingTold(h)'
        BY <3>1 DEF BeingTold
      <3> QED BY <3>1, <3>2, NobodyLost DEF Connection
    <2>3. CASE Thread(g)
      <3>1. \A h \in Generation : Connection(h)' /\ ~worker'[h].told => Connection(h) /\ ~worker[h].told
        BY <2>3, ThreadMoves DEF Connection
      <3>2. UNCHANGED <<session, pc, held>> /\ \A h \in Generation : BeingTold(h) => BeingTold(h)'
        BY <2>3, ThreadMoves DEF BeingTold
      <3> QED BY <3>1, <3>2, NobodyLost
    <2> QED BY <1>11, <2>1, <2>2, <2>3
  <1>12. CASE UNCHANGED vars
    BY <1>2, <1>12 DEF vars, BeingTold
  <1> QED BY <1>3, <1>4, <1>5, <1>6, <1>7, <1>9, <1>10, <1>11, <1>12, NextActions

\* What is published is fresh; what is not leaves the session as it shows.
LEMMA FreshGoesOn ==
  ASSUME FreshInv,
         \/ Publish
         \/ /\ UNCHANGED published
            /\ UNCHANGED session \/ (SameSession /\ Shown(session') = Shown(session))
            /\ session # None /\ ~Live /\ EndIsHandled => EndIsHandled'
  PROVE  FreshInv'
  BY DEF FreshInv, Publish, SameSession, Live

\* What the watch channel holds is the session, or an end about to be replaced.
LEMMA FreshNext == TypeOK /\ StartsAlone /\ FreshInv /\ [Next]_vars => FreshInv'
  <1> SUFFICES ASSUME TypeOK, StartsAlone, FreshInv, [Next]_vars PROVE FreshInv'
    OBVIOUS
  <1>1. /\ pc \in [Process -> Step]
        /\ UI \in Process /\ UI \notin Generation /\ Generation \subseteq Process
        /\ session # None => session.gen \in Generation /\ session.gen # UI /\ session.gen \in Process
    BY ProcessType DEF TypeOK, Session
  <1>2. CASE \/ AskStart \/ AskStop \/ Refresh \/ DeleteRule \/ Disconnect \/ \E r \in Rule : EditRule(r)
             \/ Stop \/ Hangup \/ ReplaceCatalog \/ WriteCatalog \/ Discard \/ Evict \/ Observe \/ Retry
    <2>1. UNCHANGED session => (session # None /\ EndIsHandled => EndIsHandled')
      BY <1>1, <1>2, InterfaceMoves DEF EndIsHandled
    <2>2. SameSession /\ EndIsHandled => EndIsHandled'
      BY <1>1, <1>2, InterfaceMoves DEF EndIsHandled, SameSession
    <2>3. \/ Publish
          \/ /\ UNCHANGED published
             /\ UNCHANGED session \/ (SameSession /\ Shown(session') = Shown(session))
      <3>1. CASE Stop \/ Discard
        <4>1. Publish \/ (UNCHANGED published /\ ~Live)
          BY <3>1 DEF Stop, Discard, StopSession, Unpublished
        <4>2. ~Live /\ session # None => SameSession /\ Shown(session') = Shown(session)
          BY <3>1, StopKeeps DEF Stop, Discard, Shown, SameSession
        <4>3. session = None => session' = None
          BY <3>1, StopKeeps DEF Stop, Discard
        <4> QED BY <4>1, <4>2, <4>3
      <3>2. CASE ReplaceCatalog
        BY <3>2 DEF ReplaceCatalog, Unpublished
      <3>3. CASE Evict
        BY <3>3 DEF Evict, Remove, Unpublished
      <3>4. CASE Hangup
        BY <3>4 DEF Hangup
      <3> QED BY <1>2, <3>1, <3>2, <3>3, <3>4, LeftAlone
    <2> QED BY <2>1, <2>2, <2>3, FreshGoesOn
  <1>3. ASSUME NEW p \in Process, StartStep(p)
        PROVE  FreshInv'
    <2>1. CASE ReadCatalog(p)
      <3>1. /\ UNCHANGED <<session, published>> /\ pc[p] = "read"
            /\ \E x : pc' = [pc EXCEPT ![p] = x] /\ (p # UI => x \in {"publish", "reserve"})
        BY <2>1 DEF ReadCatalog, Goto
      <3>2. session # None /\ EndIsHandled => EndIsHandled'
        BY <1>1, <3>1 DEF EndIsHandled
      <3> QED BY <3>1, <3>2, FreshGoesOn
    <2>2. CASE ReserveExisting(p)
      <3>1. Live /\ (Publish \/ UNCHANGED <<session, published>>)
        BY <2>2 DEF ReserveExisting, Unpublished
      <3> QED BY <3>1, FreshGoesOn
    <2>3. CASE ReserveNew(p)
      BY <2>3, FreshGoesOn DEF ReserveNew
    <2>4. CASE Launch(p) \/ Attach(p) \/ CloseUnattached(p)
      <3>1. Live
        BY <2>4 DEF StartsAlone, Starting, Launch, Attach, CloseUnattached
      <3>2. UNCHANGED published /\ (UNCHANGED session \/ (SameSession /\ Shown(session') = Shown(session)))
        BY <2>4, <3>1, FieldsKeep DEF Launch, Attach, CloseUnattached, Live
      <3> QED BY <3>1, <3>2, FreshGoesOn
    <2> QED BY <1>3, <2>1, <2>2, <2>3, <2>4 DEF StartStep
  <1>4. ASSUME NEW g \in Generation, NEW event \in Event, Handle(g, event), pc[g] = "idle"
        PROVE  FreshInv'
    <2>1. CASE ~Reserved(g)
      <3>1. UNCHANGED <<session, published>> /\ \A p \in Process : p # g => pc'[p] = pc[p]
        BY <1>4, <2>1, HandleMoves
      <3>2. session # None /\ EndIsHandled => EndIsHandled'
        BY <1>1, <1>4, <3>1 DEF EndIsHandled
      <3> QED BY <3>1, <3>2, FreshGoesOn
    <2>2. CASE Reserved(g)
      <3>1. \/ Publish
            \/ session' # None /\ session'.gen = g /\ ~Live' /\ pc'[g] = "read"
        BY <1>4, <2>2, HandleMoves
      <3> QED BY <3>1, FreshGoesOn DEF FreshInv, EndIsHandled
    <2> QED BY <2>1, <2>2
  <1>5. ASSUME NEW g \in Generation, PublishGeneration(g) \/ HandleEvent(g) \/ ChannelEnds(g) \/ Cleanup(g) \/ Thread(g)
        PROVE  FreshInv'
    <2>1. CASE PublishGeneration(g)
      <3>1. /\ UNCHANGED session /\ pc' = [pc EXCEPT ![g] = "idle"]
            /\ Publish \/ (UNCHANGED published /\ ~Reserved(g))
        BY <2>1 DEF PublishGeneration, Goto, Unpublished
      <3>2. session # None /\ EndIsHandled /\ ~Reserved(g) => EndIsHandled'
        BY <1>1, <3>1 DEF EndIsHandled, Reserved
      <3> QED BY <3>1, <3>2, FreshGoesOn
    <2>2. CASE HandleEvent(g) \/ ChannelEnds(g)
      <3>1. HandleEvent(g) => Head(events[g]) \in Event
        BY DEF HandleEvent, TypeOK
      <3> QED BY <1>4, <2>2, <3>1 DEF HandleEvent, ChannelEnds, Event
    <2>3. CASE Cleanup(g)
      <3>1. UNCHANGED pc /\ (Publish \/ UNCHANGED <<session, published>>)
        BY <2>3 DEF Cleanup, Remove, Unpublished
      <3> QED BY <3>1, FreshGoesOn DEF EndIsHandled
    <2>4. CASE Thread(g)
      <3>1. UNCHANGED <<session, published, pc>>
        BY <2>4, ThreadMoves
      <3> QED BY <3>1, FreshGoesOn DEF EndIsHandled
    <2> QED BY <1>5, <2>1, <2>2, <2>3, <2>4
  <1>6. CASE UNCHANGED vars
    BY <1>6, FreshGoesOn DEF vars, EndIsHandled
  <1> QED BY <1>2, <1>3, <1>5, <1>6, NextActions

\* A session that has not ended now leaves nothing to remove.
LEMMA FinishedGoesOn ==
  ASSUME FinishedIsRemoved,
         \/ session' = None
         \/ Live'
         \/ /\ UNCHANGED session \/ SameSession
            /\ session # None /\ ~Live =>
                 /\ session.gen \in cleanups => session.gen \in cleanups'
                 /\ EndIsHandled => pc'[session.gen] \in {"read", "reserve", "publish"} \/ session.gen \in cleanups'
  PROVE  FinishedIsRemoved'
  BY DEF FinishedIsRemoved, SameSession, EndIsHandled, Live

\* An ended session waits for its removal or its restart.
LEMMA FinishedNext == TypeOK /\ StartsAlone /\ FinishedIsRemoved /\ [Next]_vars => FinishedIsRemoved'
  <1> SUFFICES ASSUME TypeOK, StartsAlone, FinishedIsRemoved, [Next]_vars PROVE FinishedIsRemoved'
    OBVIOUS
  <1>1. /\ pc \in [Process -> Step]
        /\ UI \in Process /\ UI \notin Generation /\ Generation \subseteq Process
        /\ session # None => session.gen \in Generation /\ session.gen # UI /\ session.gen \in Process
    BY ProcessType DEF TypeOK, Session
  <1>2. CASE \/ AskStart \/ AskStop \/ Refresh \/ DeleteRule \/ Disconnect \/ \E r \in Rule : EditRule(r)
             \/ Stop \/ Hangup \/ ReplaceCatalog \/ WriteCatalog \/ Discard \/ Evict \/ Observe \/ Retry
    <2>1. UNCHANGED cleanups /\ (session # None /\ EndIsHandled => pc'[session.gen] \in {"read", "reserve", "publish"})
      BY <1>1, <1>2, InterfaceMoves DEF EndIsHandled
    <2>2. UNCHANGED session \/ SameSession \/ Removed
      BY <1>2, SessionFate
    <2> QED BY <2>1, <2>2, FinishedGoesOn DEF Removed
  <1>3. ASSUME NEW p \in Process, StartStep(p)
        PROVE  FinishedIsRemoved'
    <2>1. CASE ReadCatalog(p)
      <3>1. /\ UNCHANGED <<session, cleanups>> /\ pc[p] = "read"
            /\ \E x : pc' = [pc EXCEPT ![p] = x] /\ (p # UI => x \in {"publish", "reserve"})
        BY <2>1 DEF ReadCatalog, Goto
      <3>2. session # None /\ EndIsHandled => pc'[session.gen] \in {"read", "reserve", "publish"}
        BY <1>1, <3>1 DEF EndIsHandled
      <3> QED BY <3>1, <3>2, FinishedGoesOn
    <2>2. CASE ReserveExisting(p) \/ Launch(p) \/ Attach(p) \/ CloseUnattached(p)
      <3>1. Live
        BY <2>2 DEF StartsAlone, Starting, ReserveExisting, Launch, Attach, CloseUnattached
      <3>2. UNCHANGED session \/ SameSession \/ Removed
        BY <2>2, SessionFate
      <3> QED BY <3>1, <3>2, FinishedGoesOn DEF Removed
    <2>3. CASE ReserveNew(p)
      <3>1. session' = None \/ Live'
        <4>1. session' = [gen |-> generation + 1, state |-> "starting", restart |-> FALSE,
                          commands |-> FALSE, rule |-> held[p].rule]
          BY <2>3 DEF ReserveNew
        <4>2. session'.state = "starting"
          BY <4>1
        <4> QED BY <4>2 DEF Live, Active, Preserved
      <3> QED BY <3>1, FinishedGoesOn
    <2> QED BY <1>3, <2>1, <2>2, <2>3 DEF StartStep
  <1>4. ASSUME NEW g \in Generation, NEW event \in Event, Handle(g, event), pc[g] = "idle"
        PROVE  FinishedIsRemoved'
    <2>1. CASE ~Reserved(g)
      <3>1. UNCHANGED <<session, cleanups>> /\ \A p \in Process : p # g => pc'[p] = pc[p]
        BY <1>4, <2>1, HandleMoves
      <3>2. session # None /\ EndIsHandled => pc'[session.gen] \in {"read", "reserve", "publish"}
        BY <1>1, <1>4, <3>1 DEF EndIsHandled
      <3> QED BY <3>1, <3>2, FinishedGoesOn
    <2>2. CASE Reserved(g)
      <3>1. /\ session' # None /\ session'.gen = g
            /\ \/ Live'
               \/ pc'[g] = "read"
               \/ cleanups' = cleanups \union {g}
        BY <1>4, <2>2, HandleMoves
      <3> QED BY <3>1 DEF FinishedIsRemoved
    <2> QED BY <2>1, <2>2
  <1>5. ASSUME NEW g \in Generation, PublishGeneration(g) \/ HandleEvent(g) \/ ChannelEnds(g) \/ Cleanup(g) \/ Thread(g)
        PROVE  FinishedIsRemoved'
    <2>1. CASE PublishGeneration(g)
      <3>1. UNCHANGED session /\ pc' = [pc EXCEPT ![g] = "idle"] /\ cleanups' = cleanups \union {g}
        BY <2>1 DEF PublishGeneration, Goto
      <3>2. session # None /\ EndIsHandled =>
              pc'[session.gen] \in {"read", "reserve", "publish"} \/ session.gen \in cleanups'
        BY <1>1, <3>1 DEF EndIsHandled
      <3> QED BY <3>1, <3>2, FinishedGoesOn
    <2>2. CASE HandleEvent(g) \/ ChannelEnds(g)
      <3>1. HandleEvent(g) => Head(events[g]) \in Event
        BY DEF HandleEvent, TypeOK
      <3> QED BY <1>4, <2>2, <3>1 DEF HandleEvent, ChannelEnds, Event
    <2>3. CASE Cleanup(g)
      BY <2>3, FinishedGoesOn DEF Cleanup, Remove, Reserved, EndIsHandled
    <2>4. CASE Thread(g)
      <3>1. UNCHANGED <<session, cleanups, pc>>
        BY <2>4, ThreadMoves
      <3> QED BY <3>1, FinishedGoesOn DEF EndIsHandled
    <2> QED BY <1>5, <2>1, <2>2, <2>3, <2>4
  <1>6. CASE UNCHANGED vars
    BY <1>6, FinishedGoesOn DEF vars, EndIsHandled
  <1> QED BY <1>2, <1>3, <1>5, <1>6, NextActions

\* The flag disagrees with the snapshot, and nothing is there to observe.
Behind == generation > 0 /\ ~news /\ ~pending /\ ~Agrees
\* The disconnection is on its way to make them agree.
OnItsWay ==
  /\ pc[UI] \in {"replace", "write", "discard", "evict"}
  /\ ~stored.enabled
  /\ pc[UI] = "write" => held[UI].ends
  /\ pc[UI] # "replace" => session # None /\ session.state \notin Preserved
  /\ pc[UI] = "evict" => ~Live
SeenInv == ~news => seen = (IF published = None THEN "none" ELSE published.state)

\* The two halves of FlagInv.
LEMMA FlagParts == FlagInv <=> SeenInv /\ (Behind => OnItsWay)
  BY DEF FlagInv, SeenInv, Behind, OnItsWay

\* What publishes wakes the application; what publishes nothing and stores
\* nothing leaves the flag as it was.
LEMMA FlagGoesOn ==
  ASSUME FlagInv,
         \/ Publish
         \/ /\ UNCHANGED <<generation, published, news, stored, seen, pending>>
            /\ OnItsWay => OnItsWay'
  PROVE  FlagInv'
  <1>1. CASE Publish
    BY <1>1 DEF Publish, FlagInv
  <1>2. CASE /\ UNCHANGED <<generation, published, news, stored, seen, pending>>
             /\ OnItsWay => OnItsWay'
    BY <1>2, FlagParts DEF FlagInv, SeenInv, Behind, OnItsWay, Agrees
  <1> QED BY <1>1, <1>2

\* The way of the disconnection is its own.
LEMMA WayGoesOn ==
  ASSUME OnItsWay, pc'[UI] = pc[UI], held'[UI] = held[UI], UNCHANGED stored,
         \/ UNCHANGED session
         \/ SameSession /\ session'.state = session.state
         \/ session' # None /\ session'.state \notin Preserved /\ ~Live'
  PROVE  OnItsWay'
  BY DEF OnItsWay, SameSession, Live

\* The stored flag follows the snapshots.
LEMMA FlagNext ==
  TypeOK /\ TypeOK' /\ Steps /\ StartsAlone /\ FreshInv /\ FlagInv /\ [Next]_vars => FlagInv'
  <1> SUFFICES ASSUME TypeOK, TypeOK', Steps, StartsAlone, FreshInv, FlagInv, [Next]_vars PROVE FlagInv'
    OBVIOUS
  <1>1. /\ pc \in [Process -> Step] /\ held \in [Process -> Local]
        /\ UI \in Process /\ UI \notin Generation /\ Generation \subseteq Process
        /\ session # None => session.gen \in Generation
        /\ stored # None => stored \in Stored
    BY ProcessType DEF TypeOK, Session
  <1>2. CASE AskStart \/ AskStop \/ Stop \/ Hangup
    <2>1. ~OnItsWay
      BY <1>2 DEF AskStart, AskStop, Stop, Hangup, OnItsWay
    <2>2. \/ Publish
          \/ UNCHANGED <<generation, published, news, stored, seen, pending>>
      BY <1>2 DEF AskStart, AskStop, Stop, StopSession, Unpublished, Hangup
    <2> QED BY <2>1, <2>2, FlagGoesOn
  <1>3. CASE Refresh \/ DeleteRule \/ \E r \in Rule : EditRule(r)
    <2>1. pc[UI] = "idle" /\ stored # None /\ UNCHANGED <<generation, published, news, seen, pending>>
      BY <1>3 DEF Refresh, DeleteRule, EditRule, Commit
    <2>2. stored' = None \/ stored'.enabled = stored.enabled
      BY <1>3 DEF Refresh, DeleteRule, EditRule, Commit
    <2>3. ~OnItsWay
      BY <2>1 DEF OnItsWay
    <2>4. Agrees => Agrees'
      BY <2>1, <2>2 DEF Agrees
    <2> QED BY <2>1, <2>3, <2>4, FlagParts DEF FlagInv, SeenInv, Behind
  <1>4. CASE Disconnect
    <2>1. pc[UI] = "idle" /\ stored # None /\ UNCHANGED <<generation, published, news, seen, pending>>
          /\ stored' = [rule |-> stored.rule, enabled |-> FALSE]
          /\ pc' = [pc EXCEPT ![UI] = IF stored.enabled THEN "replace" ELSE "stop"]
      BY <1>4 DEF Disconnect, Commit, Goto
    <2>2. ~OnItsWay
      BY <2>1 DEF OnItsWay
    <2>3. CASE stored.enabled
      <3>1. pc'[UI] = "replace" /\ ~stored'.enabled
        BY <1>1, <2>1, <2>3
      <3> QED BY <2>1, <3>1, FlagParts DEF FlagInv, SeenInv
    <2>4. CASE ~stored.enabled
      <3>1. stored.enabled = FALSE
        <4>1. stored.enabled \in BOOLEAN
          BY <1>1, <2>1 DEF Stored
        <4> QED BY <2>4, <4>1
      <3>2. Agrees => Agrees'
        BY <2>1, <3>1 DEF Agrees
      <3> QED BY <2>1, <2>2, <3>2, FlagParts DEF FlagInv, SeenInv, Behind
    <2> QED BY <2>3, <2>4
  <1>5. CASE Observe \/ Retry
    <2>1. PICK state : /\ Reconcile(state) /\ state = seen' /\ SeenInv'
                       /\ UNCHANGED <<generation, published>>
      BY <1>5, FlagParts DEF Observe, Retry, SeenInv
    <2>2. ~news' => (state \in Preserved <=> published' # None /\ published'.state \in Preserved)
      BY <2>1 DEF SeenInv, Preserved
    <2>3. ASSUME ~news', ~pending'
          PROVE  Agrees'
      <3>1. stored' = None \/ stored'.enabled = (state \in Preserved)
        <4>1. CASE FlagDiffers(state \in Preserved) /\ stored' = [stored EXCEPT !.enabled = state \in Preserved]
          <5>1. stored \in Stored
            BY <1>1, <4>1 DEF FlagDiffers
          <5> QED BY <4>1, <5>1 DEF Stored
        <4>2. CASE ~FlagDiffers(state \in Preserved) /\ UNCHANGED stored
          BY <4>2 DEF FlagDiffers
        <4> QED BY <2>1, <2>3, <4>1, <4>2 DEF Reconcile
      <3>2. (state \in Preserved) = (published' # None /\ published'.state \in Preserved)
        BY <2>2, <2>3
      <3> QED BY <3>1, <3>2 DEF Agrees
    <2> QED BY <2>1, <2>3, FlagParts DEF FlagInv, SeenInv, Behind
  <1>6. CASE ReplaceCatalog
    <2>1. CASE Publish
      BY <2>1, FlagGoesOn
    <2>2. CASE ~Publish
      <3>1. /\ pc[UI] = "replace" /\ pc' = [pc EXCEPT ![UI] = "write"]
            /\ UNCHANGED <<session, generation, published, news, stored, seen, pending>>
        BY <1>6, <2>2 DEF ReplaceCatalog, Goto, Unpublished
      <3>2. ASSUME Behind, OnItsWay
            PROVE  OnItsWay'
        <4>1. ~stored.enabled /\ stored # None
          BY <3>2 DEF OnItsWay, Behind, Agrees
        <4>2. ~(session # None /\ session.state \in Preserved)
          BY <1>6, <2>2, <4>1 DEF ReplaceCatalog
        <4>3. session # None
          <5>1. SUFFICES ASSUME session = None PROVE FALSE
            OBVIOUS
          <5>2. published = None
            BY <5>1, ShownType DEF FreshInv
          <5>3. stored.enabled = FALSE
            <6>1. stored.enabled \in BOOLEAN
              BY <1>1, <4>1 DEF Stored
            <6> QED BY <4>1, <6>1
          <5>4. (published # None /\ published.state \in Preserved) = FALSE
            BY <5>2
          <5>5. Agrees
            BY <5>3, <5>4 DEF Agrees
          <5> QED BY <3>2, <5>5 DEF Behind
        <4>4. held'[UI].ends
          <5> DEFINE ends == /\ session # None
                             /\ stored = None \/ (~(/\ session # None /\ stored # None
                                                    /\ session.state \in Preserved) /\ ~stored.enabled)
                     rule == IF stored = None THEN None ELSE stored.rule
          <5>1. held' = [held EXCEPT ![UI].rule = rule, ![UI].ends = ends]
            BY <1>6 DEF ReplaceCatalog
          <5>2. ends
            BY <4>1, <4>2, <4>3
          <5> HIDE DEF ends, rule
          <5> QED BY <1>1, <5>1, <5>2 DEF Local
        <4>5. pc'[UI] = "write"
          BY <1>1, <3>1
        <4>6. session' # None /\ session'.state \notin Preserved /\ ~stored'.enabled
          BY <3>1, <4>1, <4>2, <4>3
        <4> QED BY <4>4, <4>5, <4>6 DEF OnItsWay
      <3>3. SeenInv /\ (Behind => OnItsWay)
        BY FlagParts
      <3>4. SeenInv' /\ (Behind' => Behind)
        BY <3>1, <3>3 DEF SeenInv, Behind, Agrees
      <3>5. SeenInv' /\ (Behind' => OnItsWay')
        BY <3>2, <3>3, <3>4
      <3> QED BY <3>5 DEF FlagInv, SeenInv, Behind, OnItsWay
    <2> QED BY <2>1, <2>2
  <1>7. CASE WriteCatalog
    <2>1. /\ pc[UI] = "write" /\ pc' = [pc EXCEPT ![UI] = IF held[UI].ends THEN "discard" ELSE Finished]
          /\ UNCHANGED <<session, generation, published, news, stored, seen, pending>>
      BY <1>7 DEF WriteCatalog, Goto
    <2>2. OnItsWay => OnItsWay'
      BY <1>1, <2>1 DEF OnItsWay
    <2> QED BY <2>1, <2>2, FlagGoesOn
  <1>8. CASE Discard
    <2>1. CASE Live
      BY <1>8, <2>1, FlagGoesOn DEF Discard, StopSession
    <2>2. CASE ~Live
      <3>1. /\ pc[UI] = "discard" /\ pc' = [pc EXCEPT ![UI] = "evict"]
            /\ UNCHANGED <<generation, published, news, stored, seen, pending>>
        BY <1>8, <2>2 DEF Discard, StopSession, Unpublished, Goto
      <3>2. session # None => session' # None /\ ~Live' /\ session'.state = session.state
        BY <1>8, <2>2, StopKeeps DEF Discard, SameSession
      <3>3. OnItsWay => OnItsWay'
        BY <1>1, <3>1, <3>2 DEF OnItsWay
      <3> QED BY <3>1, <3>3, FlagGoesOn
    <2> QED BY <2>1, <2>2
  <1>9. CASE Evict
    <2>1. \/ Publish
          \/ ~OnItsWay /\ UNCHANGED <<generation, published, news, stored, seen, pending>>
      BY <1>9 DEF Evict, Remove, Unpublished, OnItsWay
    <2> QED BY <2>1, FlagGoesOn
  <1>10. ASSUME NEW p \in Process, StartStep(p)
         PROVE  FlagInv'
    <2>1. CASE p = UI
      <3>1. ~OnItsWay
        BY <1>10, <2>1 DEF OnItsWay, StartStep, ReadCatalog, ReserveExisting, ReserveNew, Launch, Attach, CloseUnattached
      <3>2. \/ Publish
            \/ UNCHANGED <<generation, published, news, stored, seen, pending>>
        BY <1>10 DEF StartStep, ReadCatalog, ReserveExisting, ReserveNew, Launch, Attach, CloseUnattached, Unpublished
      <3> QED BY <3>1, <3>2, FlagGoesOn
    <2>2. CASE p # UI
      <3>1. pc'[UI] = pc[UI] /\ held'[UI] = held[UI]
        <4>1. CASE Attach(p) \/ CloseUnattached(p)
          <5>1. Reserved(held[p].gen)
            BY <4>1 DEF StartsAlone, Starting, Attach, CloseUnattached
          <5>2. held[p].gen # UI
            BY <1>1, <5>1 DEF Reserved
          <5> QED BY <1>1, <2>2, <4>1, <5>2 DEF Attach, CloseUnattached
        <4>2. CASE ReadCatalog(p) \/ ReserveExisting(p) \/ ReserveNew(p) \/ Launch(p)
          BY <1>1, <2>2, <4>2 DEF ReadCatalog, ReserveExisting, ReserveNew, Launch, Goto
        <4> QED BY <1>10, <4>1, <4>2 DEF StartStep
      <3>2. \/ Publish
            \/ /\ UNCHANGED <<generation, published, news, stored, seen, pending>>
               /\ UNCHANGED session \/ (SameSession /\ session'.state = session.state)
        <4>1. CASE Attach(p)
          BY <4>1, FieldsKeep DEF Attach, Reserved
        <4>2. CASE ReserveExisting(p)
          BY <4>2 DEF ReserveExisting, Unpublished
        <4>3. CASE ReadCatalog(p) \/ ReserveNew(p) \/ Launch(p) \/ CloseUnattached(p)
          BY <4>3 DEF ReadCatalog, ReserveNew, Launch, CloseUnattached
        <4> QED BY <1>10, <4>1, <4>2, <4>3 DEF StartStep
      <3> QED BY <3>1, <3>2, FlagGoesOn, WayGoesOn
    <2> QED BY <2>1, <2>2
  <1>11. ASSUME NEW g \in Generation, NEW event \in Event, Handle(g, event), pc[g] = "idle",
                UNCHANGED <<generation, stored, seen, pending, held>>
         PROVE  FlagInv'
    <2>1. pc'[UI] = pc[UI]
      BY <1>1, <1>11, HandleMoves
    <2>2. \/ Publish
          \/ /\ UNCHANGED <<published, news>>
             /\ UNCHANGED session \/ (session' # None /\ session'.state \notin Preserved /\ ~Live')
      BY <1>11, HandleMoves DEF Unpublished
    <2> QED BY <1>11, <2>1, <2>2, FlagGoesOn, WayGoesOn
  <1>12. ASSUME NEW g \in Generation,
                PublishGeneration(g) \/ HandleEvent(g) \/ ChannelEnds(g) \/ Cleanup(g) \/ Thread(g)
         PROVE  FlagInv'
    <2>1. CASE HandleEvent(g) \/ ChannelEnds(g)
      <3>1. HandleEvent(g) => Head(events[g]) \in Event
        BY DEF HandleEvent, TypeOK
      <3> QED BY <1>11, <2>1, <3>1 DEF HandleEvent, ChannelEnds, Event
    <2>2. CASE PublishGeneration(g) \/ Cleanup(g)
      <3>1. pc'[UI] = pc[UI] /\ UNCHANGED held
        BY <1>1, <2>2 DEF PublishGeneration, Cleanup, Goto
      <3>2. \/ Publish
            \/ UNCHANGED <<session, generation, published, news, stored, seen, pending>>
        BY <2>2 DEF PublishGeneration, Cleanup, Remove, Unpublished
      <3> QED BY <3>1, <3>2, FlagGoesOn, WayGoesOn
    <2>3. CASE Thread(g)
      <3>1. UNCHANGED <<session, generation, published, news, stored, seen, pending, pc, held>>
        BY <2>3, ThreadMoves
      <3> QED BY <3>1, FlagGoesOn, WayGoesOn
    <2> QED BY <1>12, <2>1, <2>2, <2>3
  <1>13. CASE UNCHANGED vars
    BY <1>13, FlagGoesOn, WayGoesOn DEF vars
  <1> QED BY <1>2, <1>3, <1>4, <1>5, <1>6, <1>7, <1>8, <1>9, <1>10, <1>12, <1>13, NextActions

---------------------------------------------------------------------------
(* The theorems. *)

\* The invariant holds at first.
LEMMA InvInit == Init => Inv
  <1> SUFFICES ASSUME Init PROVE Inv
    OBVIOUS
  <1>1. UI \in Process /\ UI \notin Generation /\ Generation \subseteq Process /\ Process = {UI} \union Generation
        /\ MaxStarts \in Nat /\ MaxAsks \in Nat /\ MaxFaults \in Nat /\ MaxReconnects \in Nat /\ Capacity \in Nat
    BY ProcessType, BoundsAssumption DEF Process
  <1>2. /\ pc[UI] = "idle" /\ \A g \in Generation : pc[g] = "unborn"
        /\ \A g \in Generation : worker[g].phase = "none" /\ events[g] = << >>
    BY <1>1 DEF Init, Idle
  <1>3. TypeOK
    <2>1. Idle("none", FALSE) \in Worker
      BY <1>1 DEF Idle, Worker, Phase
    <2>2. worker \in [Generation -> Worker]
      BY <2>1 DEF Init
    <2>3. pc \in [Process -> Step] /\ held \in [Process -> Local]
      BY NothingType DEF Init, Step
    <2>4. events \in [Generation -> Seq(Event)] /\ \A g \in Generation : Len(events[g]) <= Capacity
      BY <1>1 DEF Init
    <2>5. stored \in Stored /\ profiles \in Rule
      BY DEF Init, Stored
    <2>6. used \in [starts : 0..MaxStarts, asks : 0..MaxAsks, faults : 0..MaxFaults]
      BY <1>1 DEF Init
    <2>7. /\ session = None /\ published = None /\ generation \in 0..MaxStarts /\ cleanups \subseteq Generation
          /\ seen \in State \union {"none"} /\ news \in BOOLEAN /\ pending \in BOOLEAN
      <3>1. session = None /\ published = None /\ generation = 0 /\ cleanups = {} /\ seen = "none"
        BY DEF Init
      <3>2. news \in BOOLEAN /\ pending \in BOOLEAN
        BY DEF Init
      <3> QED BY <1>1, <3>1, <3>2
    <2> QED BY <2>2, <2>3, <2>4, <2>5, <2>6, <2>7 DEF TypeOK
  <1>4. Counted
    <2>1. Wanting = {}
      BY <1>1, <1>2 DEF Wanting
    <2>2. Cardinality(Wanting) = 0
      BY <2>1, FS_EmptySet
    <2>3. Restarts = 0 /\ generation = 0 /\ used.starts = 0
      BY DEF Init, Restarts
    <2> QED BY <2>2, <2>3 DEF Counted
  <1>5. Steps
    BY <1>1, <1>2 DEF Steps
  <1>6. Later
    BY <1>1, <1>2 DEF Later, Unborn, Init
  <1>7. StartsAlone
    BY <1>1, <1>2 DEF StartsAlone, Starting
  <1>8. EndsAreLast
    BY <1>2 DEF EndsAreLast
  <1>9. ConnectionIsLive /\ NoOrphan
    BY <1>2 DEF ConnectionIsLive, NoOrphan, Connection
  <1>10. FreshInv /\ FinishedIsRemoved
    BY DEF Init, FreshInv, FinishedIsRemoved, Shown
  <1>11. FlagInv
    BY DEF Init, FlagInv
  <1> QED BY <1>3, <1>4, <1>5, <1>6, <1>7, <1>8, <1>9, <1>10, <1>11 DEF Inv

\* Every step keeps the invariant.
LEMMA InvNext == Inv /\ [Next]_vars => Inv'
  <1> SUFFICES ASSUME Inv, [Next]_vars PROVE Inv'
    OBVIOUS
  <1>1. /\ TypeOK /\ Counted /\ Steps /\ Later /\ StartsAlone /\ EndsAreLast /\ ConnectionIsLive
        /\ NoOrphan /\ FreshInv /\ FinishedIsRemoved /\ FlagInv
    BY DEF Inv
  <1>2. ReservesRule /\ Counts
    BY <1>1, CountsLemma DEF Steps, ReservesRule
  <1>3. TypeOK'
    BY <1>1, <1>2, TypeNext
  <1>4. Counted' /\ Steps' /\ Later' /\ StartsAlone' /\ EndsAreLast' /\ ConnectionIsLive'
    BY <1>1, <1>3, CountNext, StepsNext, LaterNext, StartsAloneNext, EndsAreLastNext, ConnectionIsLiveNext
  <1>5. NoOrphan' /\ FreshInv' /\ FinishedIsRemoved' /\ FlagInv'
    BY <1>1, <1>3, <1>4, NoOrphanNext, FreshNext, FinishedNext, FlagNext
  <1> QED BY <1>3, <1>4, <1>5 DEF Inv

\* The invariant holds in every behaviour.
LEMMA Invariant == Spec => []Inv
  BY InvInit, InvNext, PTL DEF Spec

\* Types, and the bounds of the counters, of the channels and of the attempts
\* to reconnect: no more generations than starts the user asked for.
THEOREM TypeCorrect == Spec => []TypeOK
  <1>1. Inv => TypeOK
    BY DEF Inv
  <1> QED BY <1>1, Invariant, PTL

\* Reserving under the lock keeps two connections of a rule apart, whoever
\* starts, stops and restarts it: there is one session, and only its
\* generation has a connection.
THEOREM OneConnectionAtATime == Spec => []OneConnection
  <1>1. Inv => OneConnection
    BY DEF Inv, ConnectionIsLive, OneConnection, Reserved
  <1> QED BY <1>1, Invariant, PTL

\* No stop, deletion, restart or removal leaves a connection running behind a
\* session that is gone or stopping with nobody on the way to close it.
THEOREM NoOrphans == Spec => []NoOrphan
  <1>1. Inv => NoOrphan
    BY DEF Inv
  <1> QED BY <1>1, Invariant, PTL

\* The watch channel shows the session as it is, but for an end that a
\* restart is about to replace.
THEOREM SnapshotsAreFresh == Spec => []PublishedFresh
  <1>1. Inv => PublishedFresh
    <2>1. session \in Session => session.gen \in Generation
      BY DEF Session
    <2> QED BY <2>1 DEF Inv, TypeOK, FreshInv, EndIsHandled, PublishedFresh
  <1> QED BY <1>1, Invariant, PTL

\* A session that has ended is scheduled for removal, or its handler is
\* restarting it.
THEOREM FinishedAreRemoved == Spec => []FinishedIsRemoved
  <1>1. Inv => FinishedIsRemoved
    BY DEF Inv
  <1> QED BY <1>1, Invariant, PTL

\* With every snapshot observed and every save done, the stored flag says
\* whether the rule is running.
THEOREM FlagFollows == Spec => []FlagFollowsRuntime
  <1>1. Inv => FlagFollowsRuntime
    BY DEF Inv, FlagInv, Agrees, FlagFollowsRuntime
  <1> QED BY <1>1, Invariant, PTL

===========================================================================
