--------------------------- MODULE AutoSyncProofs ---------------------------
(* Theorems about AutoSync, for every scenario. *)
EXTENDS AutoSync, FiniteSetTheorems, TLAPS

-----------------------------------------------------------------------------
(* The inductive invariant.                                                *)

\* What the handlers of the task do on behalf of automatic synchronisation,
\* from the first await on.
Works(x) ==
  \/ x.at \in {"refresh", "push", "after", "poll", "compare", "pull"}
  \/ x.at = "probe" /\ x.then \in {"tick", "push", "poll", "verdict"}

\* The task checks its permissions before the first await, and they last: it
\* alone changes them.
Permitted(x) ==
  /\ Works(x) => Active(x) /\ x.retry = "none"
  /\ x.at \in {"refresh", "push"} => ~x.conflict

\* A handler that has returned serves no check, and nothing is to be retried
\* before the first.
AtRest(x) ==
  /\ x.at \in {"idle", "start"} => x.holds = 0
  /\ x.at = "start" => x.retry = "none"

Sane(x) == x \in Task /\ Permitted(x) /\ AtRest(x)

\* The live check is the one that occupies the slot, and there is one at most.
QueuedLive == {i \in DOMAIN queue : queue[i].token = gen}
CheckInv ==
  /\ \A i \in DOMAIN queue : queue[i].token <= gen
  /\ t.holds <= gen
  /\ QueuedLive # {} \/ t.holds = gen => slot.pending = gen
  /\ \A i, j \in QueuedLive : i = j
  /\ t.holds = gen => QueuedLive = {}

Inv == TypeOK /\ Sane(t) /\ CheckInv

-----------------------------------------------------------------------------
(* The fragments of the handlers, whatever state they start from.          *)

\* A fragment leaves the check request that is being served in place, or is
\* done with it.
Follows(y, x) == Sane(y) /\ y.holds \in {x.holds, 0}

\* The task may work, and knows it.
MayWork(x) == x \in Task /\ Active(x) /\ x.retry = "none"

\* One field of the task changes.
LEMMA TaskFields ==
  ASSUME NEW x \in Task
  PROVE  /\ \A y \in BOOLEAN : /\ [x EXCEPT !.dirty = y] \in Task
                               /\ [x EXCEPT !.inTick = y] \in Task
                               /\ [x EXCEPT !.debounce = y] \in Task
         /\ \A y \in Phase : [x EXCEPT !.phase = y] \in Task
         /\ \A y \in Config : [x EXCEPT !.cfg = y] \in Task
         /\ x.holds \in Nat /\ x.enabled \in BOOLEAN /\ x.locked \in BOOLEAN /\ x.conflict \in BOOLEAN
         /\ x.cfg \in Config
  BY DEF Task

\* A handler that returns.
LEMMA StopLemma ==
  ASSUME NEW x \in Task
  PROVE  Sane(Stop(x)) /\ Stop(x).holds = 0
  <1>1. Stop(x) \in Task
    BY DEF Stop, Task, Await, Continuation, Content
  <1>2. Stop(x).at = "idle" /\ Stop(x).holds = 0
    BY DEF Stop, Task
  <1> QED BY <1>1, <1>2 DEF Sane, Permitted, Works, AtRest

\* A probe begins, for a check or for a task that may work.
LEMMA ProbeLemma ==
  ASSUME TypeOK, NEW x \in Task, NEW then \in Continuation,
         then \in {"tick", "push", "poll", "verdict"} => MayWork(x)
  PROVE  Follows(Probe(x, then), x) /\ Probe(x, then).holds = x.holds
  <1>1. x.cfg.rev \in Nat /\ gen \in Nat
    BY DEF TypeOK, Task, Config
  <1>2. Probe(x, then) \in Task
    <2>1. "probe" \in Await /\ "Checking" \in Capability /\ "CheckingCapability" \in Phase
      BY DEF Await, Capability, Phase
    <2>2. \A at \in Await, cap \in Capability, phase \in Phase, began, probe \in Nat :
            [x EXCEPT !.at = at, !.then = then, !.cap = cap, !.phase = phase, !.began = began,
                      !.probe = probe] \in Task
      <3> SUFFICES ASSUME NEW at \in Await, NEW cap \in Capability, NEW phase \in Phase,
                          NEW began \in Nat, NEW probe \in Nat
                   PROVE  [x EXCEPT !.at = at, !.then = then, !.cap = cap, !.phase = phase,
                                    !.began = began, !.probe = probe] \in Task
        OBVIOUS
      <3>1. [x EXCEPT !.at = at, !.then = then, !.cap = cap] \in Task
        BY DEF Task
      <3>2. \A y \in Task : [y EXCEPT !.phase = phase, !.began = began, !.probe = probe] \in Task
        BY DEF Task
      <3>3. [x EXCEPT !.at = at, !.then = then, !.cap = cap, !.phase = phase, !.began = began, !.probe = probe]
            = [[x EXCEPT !.at = at, !.then = then, !.cap = cap]
                 EXCEPT !.phase = phase, !.began = began, !.probe = probe]
        BY DEF Task
      <3> QED BY <3>1, <3>2, <3>3
    <2> QED BY <1>1, <2>1, <2>2 DEF Probe
  <1>3. /\ Probe(x, then).at = "probe" /\ Probe(x, then).then = then /\ Probe(x, then).holds = x.holds
        /\ Probe(x, then).enabled = x.enabled /\ Probe(x, then).locked = x.locked
        /\ Probe(x, then).retry = x.retry
    BY DEF Probe, Task
  <1> QED BY <1>2, <1>3 DEF Follows, Sane, Permitted, Works, AtRest, MayWork, Active

\* The capability is ensured: at once, never, or by a probe.
LEMMA EnsureLemma ==
  ASSUME TypeOK, NEW x \in Task, NEW then \in Continuation,
         then \in {"tick", "push", "poll", "verdict"} => MayWork(x)
  PROVE  Follows(EnsureCapability(x, then), x)
  <1>1. \A p \in Phase : Follows(Stop([x EXCEPT !.phase = p]), x)
    BY TaskFields, StopLemma DEF Follows
  <1>2. {"PausedVaultLocked", "RetryBackoff", "PausedCapability"} \subseteq Phase
    BY DEF Phase
  <1>3. Follows(Probe(x, then), x)
    BY ProbeLemma
  <1> QED BY <1>1, <1>2, <1>3 DEF EnsureCapability

\* The remote is asked.
LEMMA AskLemma ==
  ASSUME TypeOK, NEW x, MayWork(x)
  PROVE  Follows(AskRemote(x), x)
  <1>1. x \in Task /\ DiskRevision(x) \in Nat
    BY DEF MayWork, DiskRevision, TypeOK, Task, Config
  <1>2. AskRemote(x) \in Task
    BY <1>1 DEF AskRemote, Task, Await, Phase, Continuation
  <1>3. /\ AskRemote(x).at = "poll" /\ AskRemote(x).holds = x.holds
        /\ AskRemote(x).enabled = x.enabled /\ AskRemote(x).locked = x.locked
        /\ AskRemote(x).retry = x.retry
    BY <1>1 DEF AskRemote, Task
  <1> QED BY <1>2, <1>3 DEF Follows, Sane, Permitted, Works, AtRest, MayWork, Active

\* poll_remote: the remote is asked, or the capability is looked at first.
LEMMA PollLemma ==
  ASSUME TypeOK, NEW x, MayWork(x)
  PROVE  Follows(PollRemote(x), x)
  <1>1. Follows(AskRemote(x), x)
    BY AskLemma
  <1>2. /\ [x EXCEPT !.inTick = FALSE] \in Task /\ [x EXCEPT !.inTick = FALSE].holds = x.holds
        /\ MayWork([x EXCEPT !.inTick = FALSE])
    BY DEF MayWork, Active, Task
  <1>3. Follows(EnsureCapability([x EXCEPT !.inTick = FALSE], "poll"), x)
    BY <1>2, EnsureLemma DEF Follows, Continuation
  <1> QED BY <1>1, <1>3 DEF PollRemote

\* push_if_dirty returns: the tick goes on to poll when nothing is to be
\* retried and nobody has to intervene.
LEMMA LeaveLemma ==
  ASSUME TypeOK, NEW x \in Task, MayWork(x) \/ x.conflict \/ x.phase = "RetryBackoff"
  PROVE  Follows(LeavePush(x), x)
  <1>1. Follows(Stop(x), x)
    BY StopLemma DEF Follows
  <1>2. MayWork(x) => Follows(PollRemote(x), x)
    BY PollLemma
  <1> QED BY <1>1, <1>2 DEF LeavePush

\* An attempt of push_if_dirty: nothing is uploaded while the user has to intervene.
LEMMA AttemptLemma ==
  ASSUME TypeOK, NEW x, MayWork(x), NEW n \in {0, 1}
  PROVE  Follows(PushAttempt(x, n), x)
  <1>1. x \in Task
    BY DEF MayWork
  <1>2. CASE x.conflict
    <2> DEFINE y == [x EXCEPT !.dirty = TRUE, !.phase = "PullRequired"]
    <2>1. y \in Task /\ y.conflict /\ y.holds = x.holds
      BY <1>1, <1>2 DEF Task, Phase
    <2>2. PushAttempt(x, n) = LeavePush(y)
      BY <1>2 DEF PushAttempt
    <2> HIDE DEF y
    <2> QED BY <2>1, <2>2, LeaveLemma DEF Follows
  <1>3. CASE ~x.conflict
    <2> DEFINE y == [x EXCEPT !.at = "refresh", !.then = "none", !.attempt = n]
    <2>1. y \in Task
      BY <1>1 DEF Task, Await, Continuation
    <2>2. /\ y.at = "refresh" /\ y.holds = x.holds /\ y.enabled = x.enabled /\ y.locked = x.locked
          /\ y.retry = x.retry /\ y.conflict = x.conflict
      BY <1>1 DEF Task
    <2>3. PushAttempt(x, n) = y
      BY <1>3 DEF PushAttempt
    <2> HIDE DEF y
    <2> QED BY <1>3, <2>1, <2>2, <2>3 DEF Follows, Sane, Permitted, Works, AtRest, MayWork, Active
  <1> QED BY <1>2, <1>3

\* push_if_dirty, entered by a task that may work.
LEMMA PushLemma ==
  ASSUME TypeOK, NEW x, MayWork(x)
  PROVE  Follows(PushIfDirty(x), x)
  <1>1. Follows(PushAttempt(x, 0), x)
    BY AttemptLemma
  <1>2. Follows(EnsureCapability(x, "push"), x)
    BY EnsureLemma DEF MayWork, Continuation
  <1> QED BY <1>1, <1>2 DEF PushIfDirty

\* on_tick looks for itself whether the task may work.
LEMMA TickLemma ==
  ASSUME TypeOK, NEW x \in Task
  PROVE  Follows(OnTick(x), x)
  <1>1. Follows(Stop(x), x)
    BY StopLemma DEF Follows
  <1>2. ASSUME Active(x), x.retry = "none"
        PROVE  Follows(PushAttempt([x EXCEPT !.inTick = TRUE], 0), x) /\ Follows(EnsureCapability(x, "tick"), x)
    <2> DEFINE y == [x EXCEPT !.inTick = TRUE]
    <2>1. MayWork(y) /\ y.holds = x.holds
      BY <1>2 DEF MayWork, Active, Task
    <2>2. MayWork(x)
      BY <1>2 DEF MayWork
    <2> HIDE DEF y
    <2>3. Follows(PushAttempt(y, 0), x)
      BY <2>1, AttemptLemma DEF Follows
    <2> QED BY <2>2, <2>3, EnsureLemma DEF Continuation, y
  <1> QED BY <1>1, <1>2 DEF OnTick

\* The same await, the same check and the same switches.
Alike(y, x) ==
  /\ y \in Task
  /\ y.holds = x.holds /\ y.enabled = x.enabled /\ y.locked = x.locked
  /\ y.at = x.at /\ y.then = x.then

\* The phase and the capability that is known concern nothing else.
Shown(x, p) == [x EXCEPT !.phase = p]
Known(x, c, p) == [x EXCEPT !.cap = c, !.phase = p]

\* Neither changes the await, the switches, the backoff or the intervention.
LEMMA ShowsLemma ==
  ASSUME NEW x \in Task
  PROVE  /\ \A p \in Phase : /\ Alike(Shown(x, p), x) /\ Shown(x, p).phase = p
                             /\ Shown(x, p).retry = x.retry
                             /\ Shown(x, p).conflict = x.conflict
         /\ \A c \in Capability, p \in Phase : /\ Alike(Known(x, c, p), x)
                                               /\ Known(x, c, p).retry = x.retry
                                               /\ Known(x, c, p).conflict = x.conflict
  <1>1. ASSUME NEW p \in Phase, NEW y \in Task
        PROVE  /\ Alike([y EXCEPT !.phase = p], y) /\ [y EXCEPT !.phase = p].phase = p
               /\ [y EXCEPT !.phase = p].retry = y.retry
               /\ [y EXCEPT !.phase = p].conflict = y.conflict
    BY DEF Alike, Task
  <1>2. ASSUME NEW c \in Capability, NEW p \in Phase
        PROVE  /\ Alike([x EXCEPT !.cap = c, !.phase = p], x)
               /\ [x EXCEPT !.cap = c, !.phase = p].retry = x.retry
               /\ [x EXCEPT !.cap = c, !.phase = p].conflict = x.conflict
    <2> DEFINE y == [x EXCEPT !.cap = c]
    <2>1. Alike(y, x) /\ y.retry = x.retry /\ y.conflict = x.conflict
      BY DEF Alike, Task
    <2>2. [x EXCEPT !.cap = c, !.phase = p] = [y EXCEPT !.phase = p]
      BY DEF Task
    <2> HIDE DEF y
    <2> QED BY <1>1, <2>1, <2>2 DEF Alike
  <1> QED BY <1>1, <1>2 DEF Shown, Known

\* What the fragments that do not return do to the permissions.
LEMMA FragmentsLemma ==
  ASSUME TypeOK, NEW x \in Task
  PROVE  /\ Alike(ResetBackoff(x), x) /\ ResetBackoff(x).retry = "none"
         /\ ResetBackoff(x).conflict = x.conflict /\ ResetBackoff(x).cfg = x.cfg
         /\ \A a \in {"Poll", "Push"} : Alike(ScheduleRetry(x, a), x) /\ ScheduleRetry(x, a).phase = "RetryBackoff"
         /\ \A c \in Capability : Alike(RecordCapability(x, c), x) /\ RecordCapability(x, c).retry = x.retry
         /\ Alike(EnterIntervention(x), x) /\ EnterIntervention(x).conflict
         /\ Alike(Revised(x), x) /\ Revised(x).retry = x.retry /\ Revised(x).conflict = x.conflict
         /\ Alike(Synchronised(x), x) /\ Synchronised(x).retry = "none" /\ Synchronised(x).conflict = FALSE
  <1>1. Alike(ResetBackoff(x), x) /\ ResetBackoff(x).retry = "none"
        /\ ResetBackoff(x).conflict = x.conflict /\ ResetBackoff(x).cfg = x.cfg
    BY DEF Alike, ResetBackoff, Task
  <1>2. \A a \in {"Poll", "Push"} : Alike(ScheduleRetry(x, a), x) /\ ScheduleRetry(x, a).phase = "RetryBackoff"
    BY DEF Alike, ScheduleRetry, Task, Phase
  <1>3. \A c \in Capability : Alike(RecordCapability(x, c), x) /\ RecordCapability(x, c).retry = x.retry
    <2> SUFFICES ASSUME NEW c \in Capability
                 PROVE  Alike(RecordCapability(x, c), x) /\ RecordCapability(x, c).retry = x.retry
      OBVIOUS
    <2>1. (IF x.enabled THEN "PausedCapability" ELSE "Disabled") \in Phase
      BY DEF Phase
    <2>2. PICK p \in Phase : p = (IF x.enabled THEN "PausedCapability" ELSE "Disabled")
      BY <2>1
    <2>3. RecordCapability(x, c) = Known(x, c, p)
      BY <2>2 DEF RecordCapability, Known
    <2> QED BY <2>3, ShowsLemma
  <1>4. Alike(EnterIntervention(x), x) /\ EnterIntervention(x).conflict
    BY DEF Alike, EnterIntervention, Task, Phase
  <1>5. Alike(Revised(x), x) /\ Revised(x).retry = x.retry /\ Revised(x).conflict = x.conflict
    <2>1. \A b \in BOOLEAN : LET y == [x EXCEPT !.dirty = b]
                             IN Alike(y, x) /\ y.retry = x.retry /\ y.conflict = x.conflict
      BY DEF Alike, Task
    <2>2. \E b \in BOOLEAN : b = (x.missing \/ x.cfg.base # world.local)
      <3>1. CASE x.missing \/ x.cfg.base # world.local
        <4>1. (x.missing \/ x.cfg.base # world.local) = TRUE
          BY <3>1
        <4> QED BY <4>1
      <3>2. CASE ~(x.missing \/ x.cfg.base # world.local)
        <4>1. (x.missing \/ x.cfg.base # world.local) = FALSE
          BY <3>2
        <4> QED BY <4>1
      <3> QED BY <3>1, <3>2
    <2>3. PICK b \in BOOLEAN : b = (x.missing \/ x.cfg.base # world.local)
      BY <2>2
    <2>4. Revised(x) = [x EXCEPT !.dirty = b]
      BY <2>3 DEF Revised
    <2> QED BY <2>1, <2>4
  <1>6. Alike(Synchronised(x), x) /\ Synchronised(x).retry = "none" /\ Synchronised(x).conflict = FALSE
    BY DEF Alike, Synchronised, ResetBackoff, Task
  <1> QED BY <1>1, <1>2, <1>3, <1>4, <1>5, <1>6

\* What the task makes of a report: the backoff is kept, reset, or begun for a
\* report that does not pass.
LEMMA JudgedLemma ==
  ASSUME TypeOK, NEW x \in Task, NEW r \in Capability
  PROVE  /\ Alike(Judged(x, r), x)
         /\ x.retry = "none" => Judged(x, r).retry = "none"
                                \/ (Judged(x, r).phase = "RetryBackoff" /\ ~Accepted(r))
  <1>1. (IF x.enabled THEN "Watching" ELSE "Disabled") \in Phase
    BY DEF Phase
  <1>2. EnabledPhase(x) \in Phase
    BY <1>1 DEF EnabledPhase
  <1>3. PICK p \in Phase : p = EnabledPhase(x)
    BY <1>2
  <1>4. CASE r = "Supported"
    <2> DEFINE y == ResetBackoff(x)
    <2>1. y \in Task /\ Alike(y, x) /\ y.retry = "none"
      BY FragmentsLemma DEF Alike
    <2>2. Judged(x, r) = Known(y, r, p)
      BY <1>3, <1>4 DEF Judged, Known
    <2> HIDE DEF y
    <2>3. Alike(Judged(x, r), y) /\ Judged(x, r).retry = "none"
      BY <2>1, <2>2, ShowsLemma
    <2> QED BY <2>1, <2>3 DEF Alike
  <1>5. CASE r = "Network" /\ x.enabled
    <2> DEFINE y == RecordCapability(x, r)
    <2>1. Alike(y, x)
      BY FragmentsLemma
    <2>2. y \in Task
      BY <2>1 DEF Alike
    <2>3. Judged(x, r) = ScheduleRetry(y, "Poll")
      BY <1>5 DEF Judged
    <2> HIDE DEF y
    <2>4. Alike(ScheduleRetry(y, "Poll"), y) /\ ScheduleRetry(y, "Poll").phase = "RetryBackoff"
      BY <2>2, FragmentsLemma
    <2>5. Alike(Judged(x, r), y) /\ Judged(x, r).phase = "RetryBackoff"
      BY <2>3, <2>4
    <2> QED BY <1>5, <2>1, <2>5 DEF Alike, Accepted
  <1>6. CASE r # "Supported" /\ ~(r = "Network" /\ x.enabled)
    <2> DEFINE y == RecordCapability(x, r)
    <2>1. Alike(y, x) /\ y.retry = x.retry
      BY FragmentsLemma
    <2>2. y \in Task
      BY <2>1 DEF Alike
    <2>3. Judged(x, r) = y \/ Judged(x, r) = Shown(y, p)
      BY <1>3, <1>6 DEF Judged, Shown
    <2> HIDE DEF y
    <2>4. Alike(Judged(x, r), y) /\ Judged(x, r).retry = y.retry
      BY <2>2, <2>3, ShowsLemma DEF Alike
    <2> QED BY <2>1, <2>4 DEF Alike
  <1> QED BY <1>4, <1>5, <1>6

\* What the caller of a probe does with its answer.
LEMMA AfterProbeLemma ==
  ASSUME TypeOK, NEW x \in Task, NEW passed \in BOOLEAN,
         x.then \in {"tick", "push", "poll", "verdict"} =>
           Active(x) /\ (x.retry = "none" \/ (x.phase = "RetryBackoff" /\ ~passed))
  PROVE  Follows(AfterProbe(x, passed), x)
  <1>1. Follows(Stop(x), x)
    BY StopLemma DEF Follows
  <1>2. CASE x.then = "verdict"
    <2> DEFINE y == IF passed THEN RecordCapability(x, "Precondition") ELSE x
    <2>1. "Precondition" \in Capability
      BY DEF Capability
    <2>2. Alike(RecordCapability(x, "Precondition"), x) /\ RecordCapability(x, "Precondition").retry = x.retry
      BY <2>1, FragmentsLemma
    <2>3. y \in Task /\ y.holds = x.holds /\ (MayWork(y) \/ y.phase = "RetryBackoff")
      BY <1>2, <2>2 DEF Alike, MayWork, Active
    <2>4. AfterProbe(x, passed) = LeavePush(y)
      BY <1>2 DEF AfterProbe
    <2> HIDE DEF y
    <2> QED BY <2>3, <2>4, LeaveLemma DEF Follows
  <1>3. CASE x.then = "enable" /\ passed /\ x.token = gen
    <2> DEFINE y == [x EXCEPT !.at = "enabling", !.then = "none"]
    <2>1. y \in Task /\ y.at = "enabling" /\ y.holds = x.holds
      BY DEF Task, Await, Continuation
    <2>2. AfterProbe(x, passed) = y
      BY <1>3 DEF AfterProbe
    <2> HIDE DEF y
    <2> QED BY <2>1, <2>2 DEF Follows, Sane, Permitted, Works, AtRest
  <1>4. CASE x.then = "recheck" /\ passed /\ x.enabled
    BY <1>4, TickLemma DEF AfterProbe
  <1>5. CASE x.then = "tick" /\ passed
    <2> DEFINE y == [x EXCEPT !.inTick = TRUE]
    <2>1. MayWork(y) /\ y.holds = x.holds
      BY <1>5 DEF MayWork, Active, Task
    <2>2. AfterProbe(x, passed) = PushAttempt(y, 0)
      BY <1>5 DEF AfterProbe
    <2> HIDE DEF y
    <2> QED BY <2>1, <2>2, AttemptLemma DEF Follows
  <1>6. CASE x.then = "push" /\ passed
    BY <1>6, AttemptLemma DEF AfterProbe, MayWork
  <1>7. CASE x.then = "poll" /\ passed
    BY <1>7, AskLemma DEF AfterProbe, MayWork
  <1>8. AfterProbe(x, passed) = Stop(x) \/ x.then = "verdict" \/ (x.then = "enable" /\ passed /\ x.token = gen)
        \/ (x.then = "recheck" /\ passed /\ x.enabled) \/ (x.then = "tick" /\ passed)
        \/ (x.then = "push" /\ passed) \/ (x.then = "poll" /\ passed)
    BY DEF AfterProbe
  <1> QED BY <1>1, <1>2, <1>3, <1>4, <1>5, <1>6, <1>7, <1>8

\* What is written is a configuration.
LEMMA WrittenLemma ==
  ASSUME TypeOK
  PROVE  /\ \A c \in Config : Written(c) \in Config
         /\ \A b \in BOOLEAN : /\ [disk EXCEPT !.consent = b] \in Config
                               /\ [disk EXCEPT !.enabled = b] \in Config
         /\ \A b \in Content : [disk EXCEPT !.base = b] \in Config
         /\ \A b \in Content : [disk EXCEPT !.base = b, !.rev = disk.rev + 1] \in Config
         /\ [disk EXCEPT !.consent = FALSE, !.exempt = FALSE] \in Config
         /\ [disk EXCEPT !.enabled = FALSE, !.consent = FALSE, !.exempt = FALSE] \in Config
         /\ [disk EXCEPT !.rev = disk.rev + 1] \in Config
         /\ disk.rev \in Nat
  <1>1. disk \in Config
    BY DEF TypeOK
  <1>2. ASSUME NEW c \in Config
        PROVE  Written(c) \in Config
    <2>1. disk.rev + 1 \in Nat
      BY <1>1 DEF Config
    <2>2. \A n \in Nat : [c EXCEPT !.rev = n] \in Config
      BY DEF Config
    <2>3. [c EXCEPT !.rev = disk.rev + 1] \in Config
      BY <2>1, <2>2
    <2> QED BY <1>1, <2>3 DEF Written
  <1>3. disk.rev \in Nat /\ disk.rev + 1 \in Nat
    BY <1>1 DEF Config
  <1>4. \A b \in BOOLEAN : /\ [disk EXCEPT !.consent = b] \in Config
                           /\ [disk EXCEPT !.enabled = b] \in Config
    BY <1>1 DEF Config
  <1>5. \A b \in Content, n \in Nat : [disk EXCEPT !.base = b, !.rev = n] \in Config
    BY <1>1 DEF Config
  <1>6. \A b \in Content : [disk EXCEPT !.base = b] \in Config
    BY <1>1 DEF Config
  <1>7. /\ [disk EXCEPT !.consent = FALSE, !.exempt = FALSE] \in Config
        /\ [disk EXCEPT !.enabled = FALSE, !.consent = FALSE, !.exempt = FALSE] \in Config
        /\ [disk EXCEPT !.rev = disk.rev + 1] \in Config
    BY <1>1, <1>3 DEF Config
  <1> QED BY <1>2, <1>3, <1>4, <1>5, <1>6, <1>7
-----------------------------------------------------------------------------
(* The steps of the handlers.                                              *)

\* The task goes on with a state that a fragment leaves.
Goes == \E x : Become(x) /\ Follows(x, t)

\* The fields that the handlers set together.
LEMMA SetsLemma ==
  ASSUME NEW x \in Task
  PROVE  /\ \A c \in Config : Alike([x EXCEPT !.cfg = c], x) /\ [x EXCEPT !.cfg = c].retry = x.retry
                              /\ [x EXCEPT !.cfg = c].conflict = x.conflict
         /\ Alike([x EXCEPT !.dirty = TRUE], x) /\ [x EXCEPT !.dirty = TRUE].retry = x.retry
         /\ [x EXCEPT !.dirty = TRUE].conflict = x.conflict
         /\ \A n \in Nat, c \in Config :
              [x EXCEPT !.token = n, !.cfg = c] \in Task /\ [x EXCEPT !.token = n, !.cfg = c].holds = x.holds
         /\ \A c \in Config :
              [x EXCEPT !.enabled = TRUE, !.cfg = c] \in Task /\ [x EXCEPT !.enabled = TRUE, !.cfg = c].holds = x.holds
  <1>1. \A c \in Config : Alike([x EXCEPT !.cfg = c], x) /\ [x EXCEPT !.cfg = c].retry = x.retry
                              /\ [x EXCEPT !.cfg = c].conflict = x.conflict
    BY DEF Alike, Task
  <1>2. Alike([x EXCEPT !.dirty = TRUE], x) /\ [x EXCEPT !.dirty = TRUE].retry = x.retry
        /\ [x EXCEPT !.dirty = TRUE].conflict = x.conflict
    BY DEF Alike, Task
  <1>3. \A n \in Nat, c \in Config :
              [x EXCEPT !.token = n, !.cfg = c] \in Task /\ [x EXCEPT !.token = n, !.cfg = c].holds = x.holds
    BY DEF Task
  <1>4. \A c \in Config :
              [x EXCEPT !.enabled = TRUE, !.cfg = c] \in Task /\ [x EXCEPT !.enabled = TRUE, !.cfg = c].holds = x.holds
    BY DEF Task
  <1> QED BY <1>1, <1>2, <1>3, <1>4

\* The task starts: it polls, ticks or waits.
LEMMA StartGoes ==
  ASSUME TypeOK, Sane(t), Start
  PROVE  Goes
  <1>1. t \in Task /\ t.retry = "none"
    BY DEF Start, Sane, AtRest
  <1>2. Active(t) => MayWork(t)
    BY <1>1 DEF MayWork
  <1>3. Follows(Stop(t), t) /\ Follows(OnTick(t), t) /\ (Active(t) => Follows(PollRemote(t), t))
    BY <1>1, <1>2, StopLemma, TickLemma, PollLemma DEF Follows
  <1> QED BY <1>3 DEF Start, Goes

\* A probe answers, and its caller goes on with the report.
LEMMA ProbeGoes ==
  ASSUME TypeOK, Sane(t), ProbeAnswered
  PROVE  Goes
  <1>1. PICK r \in Capability :
          Become(AfterProbe(Judged([t EXCEPT !.cfg = disk], Believed(r)), Accepted(Believed(r))))
    BY DEF ProbeAnswered
  <1> DEFINE x == [t EXCEPT !.cfg = disk]
             y == Judged(x, Believed(r))
  <1>2. PICK believed \in Capability : believed = Believed(r)
    BY <1>1 DEF Believed, Capability
  <1>3. PICK passed \in BOOLEAN : passed = Accepted(believed)
    <2>1. CASE Accepted(believed)
      <3>1. Accepted(believed) = TRUE
        BY <2>1 DEF Accepted
      <3> QED BY <3>1
    <2>2. CASE ~Accepted(believed)
      <3>1. Accepted(believed) = FALSE
        BY <2>2 DEF Accepted
      <3> QED BY <3>1
    <2> QED BY <2>1, <2>2
  <1>4. t \in Task /\ t.at = "probe" /\ disk \in Config
    BY DEF ProbeAnswered, Sane, TypeOK
  <1>5. Alike(x, t) /\ x.retry = t.retry
    BY <1>4, SetsLemma
  <1>6. Become(AfterProbe(Judged(x, believed), passed))
    BY <1>1, <1>2, <1>3
  <1> HIDE DEF x, y
  <1>7. x \in Task
    BY <1>5 DEF Alike
  <1> DEFINE z == Judged(x, believed)
  <1>8. Alike(z, x) /\ (x.retry = "none" => z.retry = "none" \/ (z.phase = "RetryBackoff" /\ ~passed))
    BY <1>3, <1>7, JudgedLemma
  <1> HIDE DEF z
  <1>9. z.then \in {"tick", "push", "poll", "verdict"} => Active(t) /\ t.retry = "none"
    BY <1>4, <1>5, <1>8 DEF Alike, Sane, Permitted, Works
  <1>10. Follows(AfterProbe(z, passed), z)
    <2>1. z \in Task
      BY <1>8 DEF Alike
    <2>2. z.then \in {"tick", "push", "poll", "verdict"} =>
            Active(z) /\ (z.retry = "none" \/ (z.phase = "RetryBackoff" /\ ~passed))
      BY <1>5, <1>8, <1>9 DEF Alike, Active
    <2> QED BY <2>1, <2>2, AfterProbeLemma
  <1>11. Follows(AfterProbe(z, passed), t)
    BY <1>5, <1>8, <1>10 DEF Alike, Follows
  <1> QED BY <1>6, <1>11 DEF Goes, z

\* enable_checked stores the consent and probes, or gives up.
LEMMA BeginEnableGoes ==
  ASSUME TypeOK, Sane(t), BeginEnable
  PROVE  Goes /\ disk' \in Config
  <1>1. t \in Task /\ disk \in Config /\ gen \in Nat /\ t.cfg \in Config /\ t.consent \in BOOLEAN
    BY DEF TypeOK, Task
  <1> DEFINE wanted == [disk EXCEPT !.consent = t.consent]
             changes == t.cfg.consent # t.consent
  <1>2. Written(wanted) \in Config
    BY <1>1, WrittenLemma
  <1>3. PICK c \in Config : c = (IF changes THEN Written(wanted) ELSE t.cfg)
    BY <1>1, <1>2
  <1>4. CASE Become(Stop([t EXCEPT !.phase = "PausedVaultLocked"])) /\ UNCHANGED disk
    <2>1. Follows(Stop([t EXCEPT !.phase = "PausedVaultLocked"]), t)
      BY <1>1, StopLemma, TaskFields DEF Follows, Phase
    <2> QED BY <1>1, <1>4, <2>1 DEF Goes
  <1>5. CASE Become(Stop(RecordCapability([t EXCEPT !.cfg = disk], "Other"))) /\ UNCHANGED disk
    <2>1. [t EXCEPT !.cfg = disk] \in Task
      BY <1>1, TaskFields
    <2>2. RecordCapability([t EXCEPT !.cfg = disk], "Other") \in Task
      BY <2>1, FragmentsLemma DEF Alike, Capability
    <2>3. Follows(Stop(RecordCapability([t EXCEPT !.cfg = disk], "Other")), t)
      BY <2>2, StopLemma DEF Follows
    <2> QED BY <1>1, <1>5, <2>3 DEF Goes
  <1>6. CASE /\ disk' = IF changes THEN Written(wanted) ELSE disk
             /\ Become(Probe([t EXCEPT !.token = gen, !.cfg = c], "enable"))
    <2> DEFINE y == [t EXCEPT !.token = gen, !.cfg = c]
    <2>1. y \in Task /\ y.holds = t.holds
      BY <1>1, SetsLemma
    <2> HIDE DEF y
    <2>2. Follows(Probe(y, "enable"), t)
      BY <2>1, ProbeLemma DEF Follows, Continuation
    <2>3. disk' \in Config
      BY <1>1, <1>2, <1>6
    <2> QED BY <1>6, <2>2, <2>3 DEF Goes, y
  <1> QED BY <1>3, <1>4, <1>5, <1>6 DEF BeginEnable

\* The preference is stored over the revision that was probed, or not at all.
LEMMA EndEnableGoes ==
  ASSUME TypeOK, Sane(t), EndEnable
  PROVE  Goes /\ disk' \in Config
  <1>1. t \in Task /\ disk \in Config
    BY DEF TypeOK
  <1>2. PICK on \in Config : on = Written([disk EXCEPT !.enabled = TRUE])
    BY WrittenLemma
  <1>3. CASE disk' = on /\ Become(OnTick([t EXCEPT !.enabled = TRUE, !.cfg = on]))
    <2> DEFINE y == [t EXCEPT !.enabled = TRUE, !.cfg = on]
    <2>1. y \in Task /\ y.holds = t.holds
      BY <1>1, SetsLemma
    <2> HIDE DEF y
    <2>2. Follows(OnTick(y), t)
      BY <2>1, TickLemma DEF Follows
    <2> QED BY <1>3, <2>2 DEF Goes, y
  <1>4. CASE Become(Stop(RecordCapability([t EXCEPT !.cfg = disk], "Other"))) /\ UNCHANGED disk
    <2>1. [t EXCEPT !.cfg = disk] \in Task
      BY <1>1, TaskFields
    <2>2. RecordCapability([t EXCEPT !.cfg = disk], "Other") \in Task
      BY <2>1, FragmentsLemma DEF Alike, Capability
    <2>3. Follows(Stop(RecordCapability([t EXCEPT !.cfg = disk], "Other")), t)
      BY <2>2, StopLemma DEF Follows
    <2> QED BY <1>1, <1>4, <2>3 DEF Goes
  <1> QED BY <1>2, <1>3, <1>4 DEF EndEnable

\* At these awaits the task may still do what it is about to do.
LEMMA AwaitLemma ==
  ASSUME Sane(t)
  PROVE  /\ t.at \in {"refresh", "push", "after", "poll", "compare", "pull"} => MayWork(t)
         /\ t.at \in {"refresh", "push"} => ~t.conflict
  BY DEF Sane, Permitted, Works, MayWork

\* A state like one that may work may work.
LEMMA LikeLemma ==
  ASSUME NEW x, NEW y, Alike(y, x), MayWork(x), y.retry \in {x.retry, "none"}
  PROVE  MayWork(y)
  BY DEF Alike, MayWork, Active

\* The ways out of a push that ask for a retry or for the user.
LEMMA OutsLemma ==
  ASSUME TypeOK, NEW x \in Task
  PROVE  /\ Follows(LeavePush(ScheduleRetry(x, "Push")), x)
         /\ Follows(LeavePush(EnterIntervention(x)), x)
         /\ Follows(Stop(ScheduleRetry(x, "Poll")), x)
         /\ Follows(Stop(EnterIntervention(x)), x)
         /\ Follows(OnTick(ScheduleRetry(x, "Poll")), x)
         /\ \A p \in Phase : Follows(Stop(Shown(x, p)), x)
         /\ \A p \in Phase : Follows(OnTick(Shown(x, p)), x)
  <1>1. PICK y : y = ScheduleRetry(x, "Push")
    OBVIOUS
  <1>2. PICK z : z = EnterIntervention(x)
    OBVIOUS
  <1>3. PICK w : w = ScheduleRetry(x, "Poll")
    OBVIOUS
  <1>4. /\ y \in Task /\ y.holds = x.holds /\ y.phase = "RetryBackoff"
        /\ z \in Task /\ z.holds = x.holds /\ z.conflict
        /\ w \in Task /\ w.holds = x.holds
    BY <1>1, <1>2, <1>3, FragmentsLemma DEF Alike
  <1>5. Follows(LeavePush(y), x) /\ Follows(LeavePush(z), x)
    BY <1>4, LeaveLemma DEF Follows
  <1>6. Follows(Stop(z), x) /\ Follows(Stop(w), x)
    BY <1>4, StopLemma DEF Follows
  <1>7. Follows(OnTick(w), x)
    BY <1>4, TickLemma DEF Follows
  <1>8. ASSUME NEW p \in Phase
        PROVE  Follows(Stop(Shown(x, p)), x) /\ Follows(OnTick(Shown(x, p)), x)
    <2>1. PICK v : v = Shown(x, p)
      OBVIOUS
    <2>2. v \in Task /\ v.holds = x.holds
      BY <2>1, ShowsLemma DEF Alike
    <2>3. Follows(Stop(v), x) /\ Follows(OnTick(v), x)
      BY <2>2, StopLemma, TickLemma DEF Follows
    <2> QED BY <2>1, <2>3
  <1> QED BY <1>1, <1>2, <1>3, <1>5, <1>6, <1>7, <1>8

\* Phases that handlers leave.
LEMMA PhasesLemma ==
  ASSUME NEW x \in Task
  PROVE  /\ RestingPhase(x) \in Phase
         /\ (IF x.conflict THEN "PullRequired" ELSE "Watching") \in Phase
         /\ "Watching" \in Phase
  BY DEF RestingPhase, Phase

\* The refreshes that end a handler, and the one that precedes a tick.
LEMMA RefreshGoes ==
  ASSUME TypeOK, Sane(t),
         RefreshAfterPoll \/ RefreshAfterPull \/ RefreshForEngine \/ RefreshAfterManual
  PROVE  Goes
  <1>1. PICK x : x = Revised(t)
    OBVIOUS
  <1>2. x \in Task /\ x.holds = t.holds
    BY <1>1, FragmentsLemma DEF Alike, Sane
  <1>3. \A p \in Phase : Follows(Stop(Shown(x, p)), t) /\ Follows(OnTick(Shown(x, p)), t)
    BY <1>2, OutsLemma DEF Follows
  <1>4. \E p \in Phase : Become(Stop(Shown(x, p))) \/ Become(OnTick(Shown(x, p)))
    BY <1>1, <1>2, PhasesLemma
       DEF RefreshAfterPoll, RefreshAfterPull, RefreshForEngine, RefreshAfterManual, Shown
  <1> QED BY <1>3, <1>4 DEF Goes

\* The local revision arrived before a push.
LEMMA RefreshPushGoes ==
  ASSUME TypeOK, Sane(t), RefreshBeforePush
  PROVE  Goes
  <1>1. PICK x : x = Revised(t)
    OBVIOUS
  <1>2. t.at = "refresh" /\ MayWork(t) /\ ~t.conflict /\ t \in Task
    BY AwaitLemma DEF RefreshBeforePush, Sane
  <1>3. Alike(x, t) /\ x.retry = t.retry /\ x.conflict = t.conflict
    BY <1>1, <1>2, FragmentsLemma
  <1>4. MayWork(x) /\ x \in Task
    BY <1>2, <1>3, LikeLemma DEF Alike
  <1>5. Follows(LeavePush(x), t)
    BY <1>3, <1>4, LeaveLemma DEF Alike, Follows
  <1> DEFINE y == [x EXCEPT !.at = "push", !.phase = "Pushing", !.began = disk.rev]
  <1>6. Follows(y, t)
    <2>1. disk.rev \in Nat
      BY WrittenLemma
    <2>2. /\ y \in Task /\ y.at = "push" /\ y.holds = x.holds /\ y.enabled = x.enabled
          /\ y.locked = x.locked /\ y.retry = x.retry /\ y.conflict = x.conflict
      BY <1>4, <2>1 DEF Task, Await, Phase
    <2> HIDE DEF y
    <2> QED BY <1>2, <1>3, <2>2 DEF Follows, Sane, Permitted, AtRest, Alike, MayWork, Active
  <1>7. Become(y) \/ Become(LeavePush(x))
    BY <1>1 DEF RefreshBeforePush
  <1> QED BY <1>5, <1>6, <1>7 DEF Goes

\* The local revision arrived after a push: one more attempt at most.
LEMMA RefreshAfterGoes ==
  ASSUME TypeOK, Sane(t), RefreshAfterPush
  PROVE  Goes
  <1>1. PICK x : x = Revised(t)
    OBVIOUS
  <1>2. MayWork(t) /\ t \in Task
    BY AwaitLemma DEF RefreshAfterPush, Sane
  <1>3. Alike(x, t) /\ x.retry = t.retry
    BY <1>1, <1>2, FragmentsLemma
  <1>4. MayWork(x) /\ x \in Task /\ x.holds = t.holds
    BY <1>2, <1>3, LikeLemma DEF Alike
  <1>5. Follows(PushAttempt(x, 1), t)
    BY <1>4, AttemptLemma DEF Follows
  <1>6. PICK y : y = Shown(x, "Watching")
    OBVIOUS
  <1>7. Alike(y, x) /\ y.retry = x.retry
    BY <1>4, <1>6, ShowsLemma, PhasesLemma
  <1>8. MayWork(y) /\ y \in Task /\ y.holds = t.holds
    BY <1>4, <1>7, LikeLemma DEF Alike
  <1>9. Follows(LeavePush(y), t)
    BY <1>8, LeaveLemma DEF Follows
  <1>10. Become(PushAttempt(x, 1)) \/ Become(LeavePush(y))
    BY <1>1, <1>6 DEF RefreshAfterPush, Shown
  <1> QED BY <1>5, <1>9, <1>10 DEF Goes

\* The remote was updated: push, pull or ask the user.
LEMMA CompareGoes ==
  ASSUME TypeOK, Sane(t), CompareWithRemote
  PROVE  Goes
  <1>1. PICK x : x = Revised(t)
    OBVIOUS
  <1>2. MayWork(t) /\ t \in Task
    BY AwaitLemma DEF CompareWithRemote, Sane
  <1>3. Alike(x, t) /\ x.retry = t.retry
    BY <1>1, <1>2, FragmentsLemma
  <1>4. MayWork(x) /\ x \in Task /\ x.holds = t.holds
    BY <1>2, <1>3, LikeLemma DEF Alike
  <1>5. Follows(PushIfDirty(x), t) /\ Follows(Stop(EnterIntervention(x)), t)
    BY <1>4, PushLemma, OutsLemma DEF Follows
  <1> DEFINE y == [x EXCEPT !.at = "pull", !.phase = "Pulling", !.began = disk.rev, !.expected = world.local]
  <1>6. Follows(y, t)
    <2>1. disk.rev \in Nat /\ world.local \in Content
      BY WrittenLemma DEF TypeOK, World, Content
    <2>2. y \in Task
      BY <1>4, <2>1 DEF Task, Await, Phase
    <2>3. /\ y.at = "pull" /\ y.holds = x.holds /\ y.enabled = x.enabled
          /\ y.locked = x.locked /\ y.retry = x.retry
      BY <1>4 DEF Task
    <2> HIDE DEF y
    <2> QED BY <1>4, <2>2, <2>3 DEF Follows, Sane, Permitted, AtRest, MayWork, Active
  <1>7. Become(y) \/ Become(PushIfDirty(x)) \/ Become(Stop(EnterIntervention(x)))
    BY <1>1 DEF CompareWithRemote
  <1> QED BY <1>5, <1>6, <1>7 DEF Goes

\* The local revision cannot be read: everything is retried later.
LEMMA RefreshFailsGoes ==
  ASSUME TypeOK, Sane(t), RefreshFails
  PROVE  Goes
  <1>1. PICK x : x = [t EXCEPT !.dirty = TRUE]
    OBVIOUS
  <1>2. x \in Task /\ x.holds = t.holds
    BY <1>1, SetsLemma DEF Alike, Sane
  <1>3. /\ Follows(LeavePush(ScheduleRetry(x, "Push")), t)
        /\ Follows(Stop(ScheduleRetry(x, "Poll")), t)
        /\ Follows(OnTick(ScheduleRetry(x, "Poll")), t)
    BY <1>2, OutsLemma DEF Follows
  <1>4. \/ Become(LeavePush(ScheduleRetry(x, "Push"))) \/ Become(Stop(ScheduleRetry(x, "Poll")))
        \/ Become(OnTick(ScheduleRetry(x, "Poll")))
    BY <1>1 DEF RefreshFails
  <1> QED BY <1>3, <1>4 DEF Goes

\* What an operation of the engine leaves.
Outcomes == [status : {"Pushed", "Pulled", "UpToDate", "PullRequired"},
             local : Data, remote : Content, base : Content]

\* What an operation reports is an outcome.
LEMMA OutcomeLemma ==
  ASSUME NEW l \in Data, NEW r \in Content, NEW b \in Content, NEW automatic \in BOOLEAN
  PROVE  /\ PushOutcome(l, r, b) \in Outcomes /\ PullOutcome(l, r, b, automatic) \in Outcomes
         /\ Outcome("PullRequired", l, r, b) \in Outcomes
  <1>1. l \in Content
    BY DEF Content
  <1>2. \A s \in {"Pushed", "Pulled", "UpToDate", "PullRequired"}, l1 \in Data, r1, b1 \in Content :
          Outcome(s, l1, r1, b1) \in Outcomes
    BY DEF Outcome, Outcomes
  <1>3. r # None => r \in Data
    BY DEF Content
  <1> QED BY <1>1, <1>2, <1>3 DEF PushOutcome, PullOutcome

\* An operation leaves typed state.
LEMMA PerformLemma ==
  ASSUME TypeOK, NEW o \in Outcomes, Perform(o)
  PROVE  /\ Recorded(o) \in Config /\ world' \in World /\ disk' \in Config /\ event' \in BOOLEAN
  <1>1. o.local \in Data /\ o.remote \in Content /\ o.base \in Content
    BY DEF Outcomes
  <1>2. Recorded(o) \in Config
    <2>1. Written([disk EXCEPT !.base = o.base]) \in Config
      BY <1>1, WrittenLemma
    <2>2. [disk EXCEPT !.base = o.base, !.rev = @ + 1] \in Config
      BY <1>1, WrittenLemma
    <2> QED BY <2>1, <2>2 DEF Recorded
  <1>3. world' \in World
    BY <1>1 DEF Perform, TypeOK, World
  <1>4. event' \in BOOLEAN
    BY DEF Perform
  <1> QED BY <1>2, <1>3, <1>4 DEF Perform

\* A push returns.
LEMMA PushAnsweredGoes ==
  ASSUME TypeOK, Sane(t), PushAnswered
  PROVE  Goes /\ world' \in World /\ disk' \in Config /\ event' \in BOOLEAN
  <1>1. PICK o : o = PushOutcome(world.local, world.remote, disk.base)
    OBVIOUS
  <1>2. o \in Outcomes
    <2>1. world.local \in Data /\ world.remote \in Content /\ disk.base \in Content
      BY DEF TypeOK, World, Config
    <2> QED BY <1>1, <2>1, OutcomeLemma
  <1>3. Perform(o)
    BY <1>1 DEF PushAnswered
  <1>4. Recorded(o) \in Config /\ world' \in World /\ disk' \in Config /\ event' \in BOOLEAN
    BY <1>2, <1>3, PerformLemma
  <1>5. MayWork(t) /\ t \in Task
    BY AwaitLemma DEF PushAnswered, Sane
  <1>6. PICK x : x = [t EXCEPT !.cfg = Recorded(o)]
    OBVIOUS
  <1>7. Alike(x, t) /\ x.retry = t.retry
    BY <1>4, <1>5, <1>6, SetsLemma
  <1>8. MayWork(x) /\ x \in Task /\ x.holds = t.holds
    BY <1>5, <1>7, LikeLemma DEF Alike
  <1>9. Follows(LeavePush(EnterIntervention(x)), t)
    BY <1>8, OutsLemma DEF Follows
  <1>10. Follows(LeavePush([ResetBackoff(x) EXCEPT !.phase = "Watching"]), t)
    <2>1. PICK y : y = ResetBackoff(x)
      OBVIOUS
    <2>2. Alike(y, x) /\ y.retry = "none"
      BY <1>8, <2>1, FragmentsLemma
    <2>3. y \in Task
      BY <2>2 DEF Alike
    <2>4. PICK z : z = Shown(y, "Watching")
      OBVIOUS
    <2>5. Alike(z, y) /\ z.retry = y.retry
      BY <2>3, <2>4, ShowsLemma, PhasesLemma
    <2>6. MayWork(z) /\ z \in Task /\ z.holds = t.holds
      BY <1>8, <2>2, <2>5 DEF Alike, MayWork, Active
    <2>7. Follows(LeavePush(z), t)
      BY <2>6, LeaveLemma DEF Follows
    <2> QED BY <2>1, <2>4, <2>7 DEF Shown
  <1>11. Follows([Synchronised(x) EXCEPT !.at = "after"], t)
    <2>1. PICK y : y = Synchronised(x)
      OBVIOUS
    <2>2. Alike(y, x) /\ y.retry = "none"
      BY <1>8, <2>1, FragmentsLemma
    <2> DEFINE z == [y EXCEPT !.at = "after"]
    <2>3. /\ z \in Task /\ z.at = "after" /\ z.holds = y.holds /\ z.enabled = y.enabled
          /\ z.locked = y.locked /\ z.retry = y.retry
      BY <2>2 DEF Alike, Task, Await
    <2> HIDE DEF z
    <2>4. Follows(z, t)
      BY <1>8, <2>2, <2>3 DEF Alike, Follows, Sane, Permitted, AtRest, MayWork, Active
    <2> QED BY <2>1, <2>4 DEF z
  <1>12. \/ Become([Synchronised(x) EXCEPT !.at = "after"]) \/ Become(LeavePush(EnterIntervention(x)))
         \/ Become(LeavePush([ResetBackoff(x) EXCEPT !.phase = "Watching"]))
    BY <1>1, <1>6 DEF PushAnswered
  <1>13. Goes
    BY <1>9, <1>10, <1>11, <1>12 DEF Goes
  <1> QED BY <1>4, <1>13

\* A push returns after the configuration has changed.
LEMMA PushOvertakenGoes ==
  ASSUME TypeOK, Sane(t), PushOvertaken
  PROVE  Goes /\ world' \in World
  <1>1. PICK x : x = [t EXCEPT !.dirty = TRUE]
    OBVIOUS
  <1>2. x \in Task /\ x.holds = t.holds
    BY <1>1, SetsLemma DEF Alike, Sane
  <1>3. PICK y : y = [x EXCEPT !.cfg = disk]
    OBVIOUS
  <1>4. y \in Task /\ y.holds = t.holds
    BY <1>2, <1>3, SetsLemma DEF Alike, TypeOK
  <1>5. Follows(LeavePush(EnterIntervention(y)), t) /\ Follows(LeavePush(ScheduleRetry(x, "Push")), t)
    BY <1>2, <1>4, OutsLemma DEF Follows
  <1>6. Become(LeavePush(EnterIntervention(y))) \/ Become(LeavePush(ScheduleRetry(x, "Push")))
    BY <1>1, <1>3 DEF PushOvertaken
  <1>7. world' \in World
    <2>1. world \in World /\ world.local \in Content
      BY DEF TypeOK, World, Content
    <2>2. [world EXCEPT !.remote = world.local] \in World
      BY <2>1 DEF World
    <2> QED BY <2>1, <2>2 DEF PushOvertaken
  <1> QED BY <1>5, <1>6, <1>7 DEF Goes

\* A push fails, or is refused while the remote is what it was.
LEMMA PushFailsGoes ==
  ASSUME TypeOK, Sane(t), PushFails
  PROVE  Goes
  <1>1. PICK x : x = [t EXCEPT !.dirty = TRUE]
    OBVIOUS
  <1>2. MayWork(t) /\ t \in Task
    BY AwaitLemma DEF PushFails, Sane
  <1>3. Alike(x, t) /\ x.retry = t.retry
    BY <1>1, <1>2, SetsLemma
  <1>4. MayWork(x) /\ x \in Task /\ x.holds = t.holds
    BY <1>2, <1>3, LikeLemma DEF Alike
  <1>5. Follows(LeavePush(ScheduleRetry(x, "Push")), t)
    BY <1>4, OutsLemma DEF Follows
  <1>6. PICK y : y = ResetBackoff(x)
    OBVIOUS
  <1>7. Alike(y, x) /\ y.retry = "none"
    BY <1>4, <1>6, FragmentsLemma
  <1>8. y \in Task
    BY <1>7 DEF Alike
  <1>9. PICK z : z = RecordCapability(y, "Precondition")
    OBVIOUS
  <1>10. Alike(z, y) /\ z.retry = y.retry
    BY <1>8, <1>9, FragmentsLemma DEF Capability
  <1>11. MayWork(z) /\ z \in Task /\ z.holds = t.holds
    BY <1>4, <1>7, <1>10 DEF Alike, MayWork, Active
  <1>12. Follows(LeavePush(z), t) /\ Follows(Probe(z, "verdict"), t)
    BY <1>11, LeaveLemma, ProbeLemma DEF Follows, Continuation
  <1>13. Become(LeavePush(ScheduleRetry(x, "Push"))) \/ Become(LeavePush(z)) \/ Become(Probe(z, "verdict"))
    BY <1>1, <1>6, <1>9 DEF PushFails
  <1> QED BY <1>5, <1>12, <1>13 DEF Goes

\* A poll returns.
LEMMA PollGoes ==
  ASSUME TypeOK, Sane(t), PollMissing \/ PollUnchanged \/ PollUpdated \/ PollFails
  PROVE  Goes
  <1>1. MayWork(t) /\ t \in Task
    BY AwaitLemma DEF PollMissing, PollUnchanged, PollUpdated, PollFails, Sane
  <1>2. CASE PollMissing
    <2>1. PICK y : y = Synchronised(t)
      OBVIOUS
    <2>2. Alike(y, t) /\ y.retry = "none"
      BY <1>1, <2>1, FragmentsLemma
    <2> DEFINE z == [y EXCEPT !.missing = TRUE, !.dirty = TRUE]
    <2>3. z \in Task /\ z.holds = y.holds /\ z.enabled = y.enabled /\ z.locked = y.locked /\ z.retry = y.retry
      BY <2>2 DEF Alike, Task
    <2>4. Become(PushIfDirty(z))
      BY <1>2, <2>1 DEF PollMissing
    <2> HIDE DEF z
    <2>5. MayWork(z) /\ z.holds = t.holds
      BY <1>1, <2>2, <2>3 DEF Alike, MayWork, Active
    <2>6. Follows(PushIfDirty(z), t)
      BY <2>5, PushLemma DEF Follows
    <2> QED BY <2>4, <2>6 DEF Goes
  <1>3. CASE PollUnchanged
    <2>1. PICK y : y = ResetBackoff(t)
      OBVIOUS
    <2>2. Alike(y, t) /\ y \in Task /\ y.holds = t.holds
      BY <1>1, <2>1, FragmentsLemma DEF Alike
    <2>3. Follows(Stop(EnterIntervention(y)), t)
      BY <2>2, OutsLemma DEF Follows
    <2> DEFINE z == [y EXCEPT !.at = "pollRefresh", !.began = 0]
    <2>4. z \in Task /\ z.holds = y.holds /\ z.at = "pollRefresh"
      BY <2>2 DEF Task, Await
    <2>5. Become(Stop(EnterIntervention(y))) \/ Become(z)
      BY <1>3, <2>1 DEF PollUnchanged
    <2> HIDE DEF z
    <2>6. Follows(z, t)
      BY <2>2, <2>4 DEF Follows, Sane, Permitted, Works, AtRest
    <2> QED BY <2>3, <2>5, <2>6 DEF Goes
  <1>4. CASE PollUpdated
    <2> DEFINE z == [t EXCEPT !.at = "compare", !.seen = world.remote, !.began = 0]
    <2>1. world.remote \in Content
      BY DEF TypeOK, World
    <2>2. z \in Task
      BY <1>1, <2>1 DEF Task, Await
    <2>3. z.holds = t.holds /\ z.at = "compare" /\ z.enabled = t.enabled /\ z.locked = t.locked /\ z.retry = t.retry
      BY <1>1 DEF Task
    <2>4. Become(z)
      BY <1>4 DEF PollUpdated
    <2> HIDE DEF z
    <2>5. Follows(z, t)
      BY <1>1, <2>2, <2>3 DEF Follows, Sane, Permitted, Works, AtRest, MayWork, Active
    <2> QED BY <2>4, <2>5 DEF Goes
  <1>5. CASE PollFails
    <2>1. Follows(Stop(ScheduleRetry(t, "Poll")), t)
      BY <1>1, OutsLemma
    <2>2. Follows(Stop(RecordCapability(ResetBackoff(t), "Precondition")), t)
      <3>1. ResetBackoff(t) \in Task
        BY <1>1, FragmentsLemma DEF Alike
      <3>2. RecordCapability(ResetBackoff(t), "Precondition") \in Task
        BY <3>1, FragmentsLemma DEF Alike, Capability
      <3> QED BY <3>2, StopLemma DEF Follows
    <2> QED BY <1>5, <2>1, <2>2 DEF PollFails, Goes
  <1> QED BY <1>2, <1>3, <1>4, <1>5

\* A pull returns.
LEMMA PullAnsweredGoes ==
  ASSUME TypeOK, Sane(t), PullAnswered
  PROVE  Goes /\ world' \in World /\ disk' \in Config /\ event' \in BOOLEAN
  <1>1. PICK o : o = (IF world.local # t.expected
                      THEN Outcome("PullRequired", world.local, world.remote, disk.base)
                      ELSE PullOutcome(world.local, world.remote, disk.base, TRUE))
    OBVIOUS
  <1>2. o \in Outcomes
    <2>1. world.local \in Data /\ world.remote \in Content /\ disk.base \in Content
      BY DEF TypeOK, World, Config
    <2> QED BY <1>1, <2>1, OutcomeLemma
  <1>3. Perform(o)
    BY <1>1 DEF PullAnswered
  <1>4. Recorded(o) \in Config /\ world' \in World /\ disk' \in Config /\ event' \in BOOLEAN
    BY <1>2, <1>3, PerformLemma
  <1>5. t \in Task
    BY DEF Sane
  <1>6. PICK x : x = [t EXCEPT !.cfg = Recorded(o)]
    OBVIOUS
  <1>7. x \in Task /\ x.holds = t.holds
    BY <1>4, <1>5, <1>6, SetsLemma DEF Alike
  <1>8. Follows(Stop(EnterIntervention(x)), t)
    BY <1>7, OutsLemma DEF Follows
  <1>9. PICK y : y = Synchronised(x)
    OBVIOUS
  <1>10. y \in Task /\ y.holds = t.holds
    BY <1>7, <1>9, FragmentsLemma DEF Alike
  <1> DEFINE z == [y EXCEPT !.at = "pullRefresh"]
  <1>11. z \in Task /\ z.holds = t.holds /\ z.at = "pullRefresh"
    BY <1>10 DEF Task, Await
  <1>12. Become(Stop(EnterIntervention(x))) \/ Become(z)
    BY <1>1, <1>6, <1>9 DEF PullAnswered
  <1> HIDE DEF z
  <1>13. Follows(z, t)
    BY <1>11 DEF Follows, Sane, Permitted, Works, AtRest
  <1> QED BY <1>4, <1>8, <1>12, <1>13 DEF Goes

\* A pull fails, or returns after the configuration has changed.
LEMMA PullFailsGoes ==
  ASSUME TypeOK, Sane(t), PullFails
  PROVE  Goes
  <1>1. t \in Task
    BY DEF Sane
  <1>2. PICK y : y = [t EXCEPT !.cfg = disk]
    OBVIOUS
  <1>3. y \in Task /\ y.holds = t.holds
    BY <1>1, <1>2, SetsLemma DEF Alike, TypeOK
  <1>4. Follows(Stop(EnterIntervention(y)), t) /\ Follows(Stop(ScheduleRetry(t, "Poll")), t)
    BY <1>1, <1>3, OutsLemma DEF Follows
  <1>5. Become(Stop(EnterIntervention(y))) \/ Become(Stop(ScheduleRetry(t, "Poll")))
    BY <1>2 DEF PullFails
  <1> QED BY <1>4, <1>5 DEF Goes

\* A handler's step: the task goes on as a fragment leaves it, and nothing of
\* the application's is touched.
LEMMA HandlerLemma ==
  ASSUME TypeOK, Sane(t), HandlerStep
  PROVE  /\ Goes
         /\ world' \in World /\ disk' \in Config /\ event' \in BOOLEAN /\ spent' \in Spent
         /\ UNCHANGED <<app, gen, queue>>
  <1> DEFINE Typed == world' \in World /\ disk' \in Config /\ event' \in BOOLEAN /\ spent' \in Spent
             Rest == UNCHANGED <<app, gen, queue>>
  <1>1. /\ UNCHANGED world => world' \in World
        /\ UNCHANGED disk => disk' \in Config
        /\ UNCHANGED event => event' \in BOOLEAN
        /\ UNCHANGED spent => spent' \in Spent
    BY DEF TypeOK
  <1>2. Fault => spent' \in Spent
    <2>1. spent.faults + 1 \in Nat
      BY DEF TypeOK, Spent
    <2>2. [spent EXCEPT !.faults = spent.faults + 1] \in Spent
      BY <2>1 DEF TypeOK, Spent
    <2> QED BY <2>2 DEF Fault
  <1>3. CASE Start
    BY <1>1, <1>3, StartGoes DEF Start, otherVars
  <1>4. CASE ProbeAnswered
    <2>1. spent' \in Spent
      BY <1>1, <1>2, <1>4 DEF ProbeAnswered, ProbeReport
    <2> QED BY <1>1, <1>4, <2>1, ProbeGoes DEF ProbeAnswered, otherVars
  <1>5. CASE BeginEnable
    BY <1>1, <1>5, BeginEnableGoes DEF BeginEnable, otherVars
  <1>6. CASE EndEnable
    BY <1>1, <1>6, EndEnableGoes DEF EndEnable, otherVars
  <1>7. CASE RefreshBeforePush
    BY <1>1, <1>7, RefreshPushGoes DEF RefreshBeforePush, otherVars
  <1>8. CASE RefreshAfterPush
    BY <1>1, <1>8, RefreshAfterGoes DEF RefreshAfterPush, otherVars
  <1>9. CASE RefreshAfterPoll \/ RefreshAfterPull \/ RefreshForEngine \/ RefreshAfterManual
    <2>1. UNCHANGED <<otherVars, disk, queue, spent>>
      BY <1>9 DEF RefreshAfterPoll, RefreshAfterPull, RefreshForEngine, RefreshAfterManual
    <2> QED BY <1>1, <1>9, <2>1, RefreshGoes DEF otherVars
  <1>10. CASE CompareWithRemote
    BY <1>1, <1>10, CompareGoes DEF CompareWithRemote, otherVars
  <1>11. CASE RefreshFails
    BY <1>1, <1>2, <1>11, RefreshFailsGoes DEF RefreshFails, otherVars
  <1>12. CASE PushAnswered
    BY <1>1, <1>12, PushAnsweredGoes DEF PushAnswered, otherVars
  <1>13. CASE PushOvertaken
    BY <1>1, <1>13, PushOvertakenGoes DEF PushOvertaken, otherVars
  <1>14. CASE PushFails
    BY <1>1, <1>2, <1>14, PushFailsGoes DEF PushFails, otherVars
  <1>15. CASE PollMissing \/ PollUnchanged \/ PollUpdated
    <2>1. UNCHANGED <<otherVars, disk, queue, spent>>
      BY <1>15 DEF PollMissing, PollUnchanged, PollUpdated
    <2> QED BY <1>1, <1>15, <2>1, PollGoes DEF otherVars
  <1>16. CASE PollFails
    BY <1>1, <1>2, <1>16, PollGoes DEF PollFails, otherVars
  <1>17. CASE PullAnswered
    BY <1>1, <1>17, PullAnsweredGoes DEF PullAnswered, otherVars
  <1>18. CASE PullFails
    BY <1>1, <1>2, <1>18, PullFailsGoes DEF PullFails, otherVars
  <1> QED BY <1>3, <1>4, <1>5, <1>6, <1>7, <1>8, <1>9, <1>10, <1>11, <1>12, <1>13, <1>14, <1>15,
             <1>16, <1>17, <1>18 DEF HandlerStep

\* A task at rest, whatever its switches say, is sane.
LEMMA IdleLemma ==
  ASSUME Sane(t), t.at = "idle", NEW x \in Task, x.at = "idle", x.holds = t.holds
  PROVE  Follows(x, t)
  BY DEF Follows, Sane, Permitted, Works, AtRest

\* The timers and the watcher look at the switches and at the backoff first.
LEMMA TimerLemma ==
  ASSUME TypeOK, Sane(t), Tick \/ RetryFires \/ DebounceFires \/ WatcherEvent
  PROVE  Goes /\ event' \in BOOLEAN /\ UNCHANGED <<world, app, gen, disk, queue, spent>>
  <1>1. t \in Task /\ t.at = "idle"
    BY DEF Sane, Tick, RetryFires, DebounceFires, WatcherEvent, Waiting
  <1>2. event' \in BOOLEAN /\ UNCHANGED <<world, app, gen, disk, queue, spent>>
    BY DEF TypeOK, Tick, RetryFires, DebounceFires, WatcherEvent, otherVars
  <1>3. CASE Tick
    BY <1>1, <1>2, <1>3, TickLemma DEF Tick, Goes
  <1>4. CASE RetryFires
    <2>1. PICK x : x = ResetBackoff(t)
      OBVIOUS
    <2>2. Alike(x, t) /\ x.retry = "none"
      BY <1>1, <2>1, FragmentsLemma
    <2>3. MayWork(x) /\ x.holds = t.holds
      BY <1>4, <2>2 DEF RetryFires, Alike, MayWork, Active
    <2>4. Follows(PollRemote(x), t) /\ Follows(PushIfDirty(x), t)
      BY <2>3, PollLemma, PushLemma DEF Follows
    <2>5. Become(PollRemote(x)) \/ Become(PushIfDirty(x))
      BY <1>4, <2>1 DEF RetryFires
    <2> QED BY <1>2, <2>4, <2>5 DEF Goes
  <1>5. CASE DebounceFires
    <2>1. PICK x : x = [t EXCEPT !.debounce = FALSE]
      OBVIOUS
    <2>2. Alike(x, t) /\ x.retry = t.retry
      BY <1>1, <2>1 DEF Alike, Task
    <2>3. Follows(x, t)
      BY <1>1, <2>2, IdleLemma DEF Alike
    <2>4. t.retry = "none" => Follows(PushIfDirty(x), t)
      <3> HAVE t.retry = "none"
      <3>1. MayWork(x) /\ x.holds = t.holds
        BY <1>5, <2>2 DEF DebounceFires, Alike, MayWork, Active
      <3> QED BY <3>1, PushLemma DEF Follows
    <2>5. Become(IF t.retry = "none" THEN PushIfDirty(x) ELSE x)
      BY <1>5, <2>1, <2>2 DEF DebounceFires
    <2> QED BY <1>2, <2>3, <2>4, <2>5 DEF Goes
  <1>6. CASE WatcherEvent
    <2>1. PICK x : x = [t EXCEPT !.debounce = TRUE, !.phase = "Debouncing"]
      OBVIOUS
    <2>2. x \in Task /\ x.at = "idle" /\ x.holds = t.holds
      BY <1>1, <2>1 DEF Task, Phase
    <2>3. Follows(x, t) /\ Follows(t, t)
      BY <1>1, <2>2, IdleLemma
    <2>4. Become(t) \/ Become(x)
      BY <1>6, <2>1 DEF WatcherEvent
    <2> QED BY <1>2, <2>3, <2>4 DEF Goes
  <1> QED BY <1>3, <1>4, <1>5, <1>6

\* What the task serves next.
LEMMA ServeLemma ==
  ASSUME TypeOK, NEW x, Sane(x), NEW token \in Nat, Serve(token, x)
  PROVE  /\ t' = x /\ t' \in Task /\ Sane(t)'
         /\ slot' \in [pending : Nat, cancelled : BOOLEAN]
         /\ pub' \in [phase : Phase, cap : Capability, cfg : Config, new : BOOLEAN]
  <1>1. t' = x
    BY DEF Serve
  <1>2. Sane(t)' /\ t' \in Task
    BY <1>1 DEF Sane, Permitted, AtRest, Works, Active
  <1>3. slot' \in [pending : Nat, cancelled : BOOLEAN]
    BY DEF Serve, Freed, TypeOK
  <1>4. Snapshot(x) \in [phase : Phase, cap : Capability, cfg : Config, new : BOOLEAN]
    BY DEF Sane, Snapshot, Task
  <1>5. pub' \in [phase : Phase, cap : Capability, cfg : Config, new : BOOLEAN]
    BY <1>4 DEF Serve, TypeOK
  <1> QED BY <1>1, <1>2, <1>3, <1>5

\* A command is taken from the head of the queue by a task at rest.
LEMMA TakenLemma ==
  ASSUME TypeOK, queue # <<>>
  PROVE  Received \in Command /\ Tail(queue) \in Seq(Command)
  BY DEF TypeOK, Received

\* At rest, and at the refreshes that follow a command, a task is sane.
LEMMA RestLemma ==
  ASSUME Sane(t), t.at = "idle", NEW x \in Task, x.holds = t.holds,
         x.at \in {"idle", "engineRefresh", "reconcileRefresh"}
  PROVE  Follows(x, t)
  BY DEF Follows, Sane, Permitted, Works, AtRest

\* The task adopts a configuration.
LEMMA AdoptLemma ==
  ASSUME TypeOK, NEW c \in Config
  PROVE  /\ Withdrawn(c) \in Config
         /\ Adopt(c) \in Task /\ Adopt(c).at = t.at /\ Adopt(c).holds = t.holds
  <1>1. Written([disk EXCEPT !.consent = FALSE, !.exempt = FALSE]) \in Config /\ disk \in Config
    BY WrittenLemma DEF TypeOK
  <1>2. Withdrawn(c) \in Config
    BY <1>1 DEF Withdrawn
  <1>3. PICK d \in Config : d = (IF Withdraws(c) THEN Withdrawn(c) ELSE c)
    BY <1>2
  <1>4. PICK x : x = [t EXCEPT !.enabled = c.enabled, !.cfg = d]
    OBVIOUS
  <1>5. x \in Task /\ x.at = t.at /\ x.holds = t.holds
    BY <1>4 DEF TypeOK, Task, Config
  <1>6. Adopt(c) = ResetBackoff(x)
    BY <1>3, <1>4 DEF Adopt
  <1>7. Alike(ResetBackoff(x), x)
    BY <1>5, FragmentsLemma
  <1> QED BY <1>2, <1>5, <1>6, <1>7 DEF Alike

\* CancelCheck: the capability is unknown again and the backoff reset.
LEMMA CancelGoes ==
  ASSUME TypeOK, Sane(t), TakeCancel
  PROVE  Goes
  <1>1. t \in Task /\ t.at = "idle"
    BY DEF Sane, TakeCancel, Take
  <1>2. PICK y : y = ResetBackoff(t)
    OBVIOUS
  <1>3. Alike(y, t) /\ y \in Task
    BY <1>1, <1>2, FragmentsLemma DEF Alike
  <1>4. PICK z : z = RecordCapability(y, "Cancelled")
    OBVIOUS
  <1>5. Alike(z, y)
    BY <1>3, <1>4, FragmentsLemma DEF Capability
  <1>6. Follows(z, t)
    BY <1>1, <1>3, <1>5, RestLemma DEF Alike
  <1> QED BY <1>2, <1>4, <1>6 DEF TakeCancel, Goes

\* SetEngine: the task adopts the configuration, awake or asleep.
LEMMA EngineGoes ==
  ASSUME TypeOK, Sane(t), TakeEngine
  PROVE  Goes /\ disk' \in Config
  <1>1. t \in Task /\ t.at = "idle" /\ queue # <<>>
    BY DEF Sane, TakeEngine, Take
  <1>2. PICK c : c = Received.cfg
    OBVIOUS
  <1>3. c \in Config
    BY <1>1, <1>2, TakenLemma DEF Command
  <1>4. PICK a : a = Adopt(c)
    OBVIOUS
  <1>5. a \in Task /\ a.at = "idle" /\ a.holds = t.holds
    BY <1>1, <1>3, <1>4, AdoptLemma
  <1>6. PICK x : x = [a EXCEPT !.missing = FALSE, !.conflict = FALSE]
    OBVIOUS
  <1>7. x \in Task /\ x.at = "idle" /\ x.holds = t.holds
    BY <1>5, <1>6 DEF Task
  <1>8. PICK y : y = [x EXCEPT !.dirty = FALSE]
    OBVIOUS
  <1>9. y \in Task /\ y.at = "idle" /\ y.holds = t.holds
    BY <1>7, <1>8 DEF Task
  <1>10. PICK z : z = Shown(y, RestingPhase(y))
    OBVIOUS
  <1>11. z \in Task /\ z.at = "idle" /\ z.holds = t.holds
    BY <1>9, <1>10, ShowsLemma, PhasesLemma DEF Alike
  <1>12. PICK w : w = [x EXCEPT !.at = "engineRefresh"]
    OBVIOUS
  <1>13. w \in Task /\ w.at = "engineRefresh" /\ w.holds = t.holds
    BY <1>7, <1>12 DEF Task, Await
  <1>14. Follows(z, t) /\ Follows(w, t)
    BY <1>1, <1>11, <1>13, RestLemma
  <1>15. Become(w) \/ Become(z)
    BY <1>2, <1>4, <1>6, <1>8, <1>10, <1>12 DEF TakeEngine, Shown
  <1>16. disk' \in Config
    BY <1>2, <1>3, AdoptLemma DEF TakeEngine
  <1> QED BY <1>14, <1>15, <1>16 DEF Goes

\* ReconcileManualSync: what a manual operation's status means here.
LEMMA ManualGoes ==
  ASSUME TypeOK, Sane(t), TakeManualSync
  PROVE  Goes /\ disk' \in Config
  <1>1. t \in Task /\ t.at = "idle" /\ queue # <<>>
    BY DEF Sane, TakeManualSync, Take
  <1>2. PICK c : c = Received.cfg
    OBVIOUS
  <1>3. c \in Config
    BY <1>1, <1>2, TakenLemma DEF Command
  <1>4. PICK a : a = Adopt(c)
    OBVIOUS
  <1>5. a \in Task /\ a.at = "idle" /\ a.holds = t.holds
    BY <1>1, <1>3, <1>4, AdoptLemma
  <1>6. PICK x : x = Reconciled(a, Received.status)
    OBVIOUS
  <1>7. x \in Task /\ x.at = "idle" /\ x.holds = t.holds
    <2>1. Alike(Synchronised(a), a) /\ Alike(EnterIntervention(a), a)
      BY <1>5, FragmentsLemma
    <2>2. PICK u : u = [a EXCEPT !.conflict = FALSE]
      OBVIOUS
    <2>3. Alike(u, a)
      BY <1>5, <2>2 DEF Alike, Task
    <2>4. x = Synchronised(a) \/ x = u \/ x = EnterIntervention(a)
      BY <1>6, <2>2 DEF Reconciled
    <2> QED BY <1>5, <2>1, <2>3, <2>4 DEF Alike
  <1>8. PICK z : z = Shown(x, RestingPhase(x))
    OBVIOUS
  <1>9. z \in Task /\ z.at = "idle" /\ z.holds = t.holds
    BY <1>7, <1>8, ShowsLemma, PhasesLemma DEF Alike
  <1>10. PICK w : w = [x EXCEPT !.at = "reconcileRefresh"]
    OBVIOUS
  <1>11. w \in Task /\ w.at = "reconcileRefresh" /\ w.holds = t.holds
    BY <1>7, <1>10 DEF Task, Await
  <1>12. Follows(z, t) /\ Follows(w, t)
    BY <1>1, <1>9, <1>11, RestLemma
  <1>13. Become(w) \/ Become(z)
    BY <1>2, <1>4, <1>6, <1>8, <1>10 DEF TakeManualSync, Shown
  <1>14. disk' \in Config
    BY <1>2, <1>3, AdoptLemma DEF TakeManualSync
  <1> QED BY <1>12, <1>13, <1>14 DEF Goes

\* SetVaultLocked: on_tick looks for itself whether the task may work.
LEMMA LockGoes ==
  ASSUME TypeOK, Sane(t), TakeLock
  PROVE  Goes
  <1>1. t \in Task /\ t.at = "idle"
    BY DEF Sane, TakeLock, Take
  <1>2. PICK k : k = (IF t.cap = "Cancelled" THEN "Unknown" ELSE t.cap)
    OBVIOUS
  <1>3. k \in Capability
    BY <1>1, <1>2 DEF Task, Capability
  <1>4. PICK u : u = [t EXCEPT !.locked = FALSE, !.retry = "none"]
    OBVIOUS
  <1>5. u \in Task /\ u.holds = t.holds
    BY <1>1, <1>4 DEF Task
  <1>6. PICK x : x = [u EXCEPT !.phase = "Watching", !.cap = k]
    OBVIOUS
  <1>7. x \in Task /\ x.holds = t.holds
    BY <1>3, <1>5, <1>6 DEF Task, Phase
  <1>8. x = [t EXCEPT !.locked = FALSE, !.retry = "none", !.phase = "Watching",
                      !.cap = IF @ = "Cancelled" THEN "Unknown" ELSE @]
    BY <1>1, <1>2, <1>4, <1>6 DEF Task
  <1>9. PICK y : y = [t EXCEPT !.locked = TRUE, !.phase = "PausedVaultLocked"]
    OBVIOUS
  <1>10. y \in Task /\ y.at = "idle" /\ y.holds = t.holds
    BY <1>1, <1>9 DEF Task, Phase
  <1>11. PICK z : z = [t EXCEPT !.locked = FALSE]
    OBVIOUS
  <1>12. z \in Task /\ z.at = "idle" /\ z.holds = t.holds
    BY <1>1, <1>11 DEF Task
  <1>13. Follows(y, t) /\ Follows(z, t)
    BY <1>1, <1>10, <1>12, RestLemma
  <1>14. Follows(OnTick(x), t)
    BY <1>7, TickLemma DEF Follows
  <1>15. Become(y) \/ Become(OnTick(x)) \/ Become(z)
    BY <1>8, <1>9, <1>11 DEF TakeLock
  <1> QED BY <1>13, <1>14, <1>15 DEF Goes

\* A check request is served when its token is the generation, and dropped
\* otherwise.
LEMMA CheckTaken ==
  ASSUME TypeOK, Sane(t), TakeEnable \/ TakeRecheck
  PROVE  \E x : /\ Serve(Received.token, x) /\ Sane(x)
                /\ x.holds = 0 \/ (x.holds = Received.token /\ Received.token = gen)
  <1>1. t \in Task /\ t.at = "idle" /\ queue # <<>> /\ t.holds = 0
    BY DEF Sane, AtRest, TakeEnable, TakeRecheck, Take
  <1>2. Received.token \in Nat /\ Received.consent \in BOOLEAN
    BY <1>1, TakenLemma DEF Command
  <1>3. PICK token \in Nat : token = Received.token
    BY <1>2
  <1>4. PICK consent \in BOOLEAN : consent = Received.consent
    BY <1>2
  <1>5. CASE TakeEnable
    <2>1. PICK x : x = [t EXCEPT !.at = "enable", !.holds = token, !.consent = consent]
      OBVIOUS
    <2>2. x \in Task /\ x.at = "enable" /\ x.holds = token
      BY <1>1, <2>1 DEF Task, Await
    <2>3. Sane(x)
      BY <2>2 DEF Sane, Permitted, Works, AtRest
    <2>4. Serve(token, t) \/ (Serve(token, x) /\ token = gen)
      BY <1>3, <1>4, <1>5, <2>1 DEF TakeEnable
    <2> QED BY <1>1, <1>3, <2>2, <2>3, <2>4
  <1>6. CASE TakeRecheck
    <2>1. PICK x : x = [t EXCEPT !.holds = token]
      OBVIOUS
    <2>2. x \in Task /\ x.holds = token
      BY <1>1, <2>1 DEF Task
    <2>3. Sane(Probe(x, "recheck")) /\ Probe(x, "recheck").holds = token
      BY <2>2, ProbeLemma DEF Follows, Continuation
    <2>4. PICK y : y = Shown(t, "PausedVaultLocked")
      OBVIOUS
    <2>5. Alike(y, t)
      BY <1>1, <2>4, ShowsLemma DEF Phase
    <2>6. Sane(y) /\ y.holds = 0
      BY <1>1, <2>5, RestLemma DEF Alike, Follows
    <2>7. Serve(token, t) \/ Serve(token, y) \/ (Serve(token, Probe(x, "recheck")) /\ token = gen)
      BY <1>3, <1>6, <2>1, <2>4 DEF TakeRecheck, Shown
    <2> QED BY <1>1, <1>3, <2>3, <2>6, <2>7
  <1> QED BY <1>5, <1>6

-----------------------------------------------------------------------------
(* The steps of the user and of the application.                           *)

\* What the application sends are commands.
LEMMA SentLemma ==
  ASSUME TypeOK
  PROVE  /\ NoConfig \in Config
         /\ \A cmd \in {"EnableChecked", "RecheckCapability", "CancelCheck", "SetEngine",
                        "ReconcileManualSync", "SetVaultLocked"} :
              Plain(cmd) \in Command /\ Plain(cmd).token = 0
         /\ \A c \in Config : SetEngine(c) \in Command /\ SetEngine(c).token = 0
         /\ \A m \in Command : /\ \A n \in Nat : [m EXCEPT !.token = n] \in Command
                               /\ \A n \in Nat : [m EXCEPT !.token = n].token = n
                               /\ \A c \in BOOLEAN : [m EXCEPT !.consent = c] \in Command
                               /\ \A k \in BOOLEAN : [m EXCEPT !.locked = k] \in Command
                               /\ \A k \in BOOLEAN : [m EXCEPT !.locked = k].token = m.token
  <1>1. NoConfig \in Config
    BY DEF NoConfig, Config, Content
  <1>2. \A cmd \in {"EnableChecked", "RecheckCapability", "CancelCheck", "SetEngine",
                    "ReconcileManualSync", "SetVaultLocked"} :
              Plain(cmd) \in Command /\ Plain(cmd).token = 0
    BY <1>1 DEF Plain, Command
  <1>3. ASSUME NEW c \in Config
        PROVE  SetEngine(c) \in Command /\ SetEngine(c).token = 0
    <2>1. Plain("SetEngine") \in Command /\ Plain("SetEngine").token = 0
      BY <1>2
    <2> QED BY <2>1 DEF SetEngine, Command
  <1>4. ASSUME NEW m \in Command
        PROVE  /\ \A n \in Nat : [m EXCEPT !.token = n] \in Command
               /\ \A n \in Nat : [m EXCEPT !.token = n].token = n
               /\ \A c \in BOOLEAN : [m EXCEPT !.consent = c] \in Command
               /\ \A k \in BOOLEAN : [m EXCEPT !.locked = k] \in Command
               /\ \A k \in BOOLEAN : [m EXCEPT !.locked = k].token = m.token
    BY DEF Command
  <1> QED BY <1>1, <1>2, <1>3, <1>4

\* The user acts within the bound.
LEMMA SpentLemma ==
  ASSUME TypeOK
  PROVE  /\ \A kind : Asks(kind) => spent' \in Spent
         /\ Edits => spent' \in Spent
  <1>1. spent.asks + 1 \in Nat /\ spent.edits + 1 \in Nat /\ spent \in Spent
    BY DEF TypeOK, Spent
  <1>2. [spent EXCEPT !.asks = spent.asks + 1] \in Spent /\ [spent EXCEPT !.edits = spent.edits + 1] \in Spent
    BY <1>1 DEF Spent
  <1> QED BY <1>2 DEF Asks, Edits

\* The types of what the user and the application change.
UserTypes ==
  /\ world' \in World /\ disk' \in Config /\ app' \in App /\ gen' \in Nat \ {0}
  /\ slot' \in [pending : Nat, cancelled : BOOLEAN]
  /\ event' \in BOOLEAN /\ spent' \in Spent

\* A request for a check.
LEMMA AskCheckLemma ==
  ASSUME TypeOK, NEW m \in Command, AskCheck(m)
  PROVE  /\ queue' \in Seq(Command) /\ slot' \in [pending : Nat, cancelled : BOOLEAN]
         /\ \E n \in Command : queue' = Append(queue, n) /\ n.token = gen
         /\ slot'.pending = gen /\ slot.pending # gen
         /\ world' \in World /\ gen' = gen /\ gen' \in Nat \ {0} /\ event' \in BOOLEAN /\ UNCHANGED <<t, pub>>
  <1>1. gen \in Nat /\ queue \in Seq(Command)
    BY DEF TypeOK
  <1>2. [m EXCEPT !.token = gen] \in Command /\ [m EXCEPT !.token = gen].token = gen
    BY <1>1, SentLemma
  <1>3. queue' = Append(queue, [m EXCEPT !.token = gen])
    BY DEF AskCheck
  <1>4. slot' = [pending |-> gen, cancelled |-> FALSE]
    BY DEF AskCheck
  <1>5. /\ slot.pending # gen /\ world' \in World /\ gen' = gen /\ gen' \in Nat \ {0} /\ event' \in BOOLEAN
        /\ UNCHANGED <<t, pub>>
    BY DEF AskCheck, AcceptsCheck, TypeOK
  <1>6. queue' \in Seq(Command)
    BY <1>1, <1>2, <1>3
  <1>7. slot' \in [pending : Nat, cancelled : BOOLEAN] /\ slot'.pending = gen
    BY <1>1, <1>4
  <1> QED BY <1>2, <1>3, <1>5, <1>6, <1>7

\* How the user's steps bear on the checks: one is asked for while none
\* occupies the slot, or every check is cancelled, or none is concerned.
Asked == /\ \E n \in Command : queue' = Append(queue, n) /\ n.token = gen
         /\ slot'.pending = gen /\ slot.pending # gen /\ gen' = gen
Told == \E n \in Command : queue' = Append(queue, n) /\ n.token = 0
Overtaken == /\ gen' = gen + 1
             /\ \/ UNCHANGED queue \/ Told
                \/ \E m, n \in Command : queue' = queue \o <<m, n>> /\ m.token = 0 /\ n.token = 0
Unrelated == gen' = gen /\ UNCHANGED slot /\ (UNCHANGED queue \/ Told)

\* A check is asked for.
LEMMA SwitchOnLemma ==
  ASSUME TypeOK, SwitchOn \/ Recheck
  PROVE  UserTypes /\ queue' \in Seq(Command) /\ UNCHANGED <<t, pub>> /\ Asked
  <1>1. PICK m \in Command : AskCheck(m)
    <2>1. CASE SwitchOn
      <3>1. PICK c \in BOOLEAN : AskCheck([Plain("EnableChecked") EXCEPT !.consent = c])
        BY <2>1 DEF SwitchOn
      <3>2. PICK m : m = [Plain("EnableChecked") EXCEPT !.consent = c]
        OBVIOUS
      <3>3. Plain("EnableChecked") \in Command
        BY SentLemma
      <3>4. m \in Command
        BY <3>2, <3>3, SentLemma
      <3> QED BY <3>1, <3>2, <3>4
    <2>2. CASE Recheck
      <3>1. Plain("RecheckCapability") \in Command
        BY SentLemma
      <3> QED BY <2>2, <3>1 DEF Recheck
    <2> QED BY <2>1, <2>2
  <1>2. spent' \in Spent
    <2>1. Asks("switch") \/ Asks("recheck")
      BY DEF SwitchOn, Recheck
    <2> QED BY <2>1, SpentLemma
  <1>3. app' \in App
    <2>1. [app EXCEPT !.off = FALSE, !.shown = "CheckingCapability"] \in App
      BY DEF TypeOK, App, Phase
    <2>2. [app EXCEPT !.shown = "CheckingCapability"] \in App
      BY DEF TypeOK, App, Phase
    <2> QED BY <2>1, <2>2 DEF SwitchOn, Recheck
  <1>4. disk' \in Config
    BY <1>1 DEF SwitchOn, Recheck, AskCheck, TypeOK
  <1> QED BY <1>1, <1>2, <1>3, <1>4, AskCheckLemma DEF UserTypes, Asked

\* A configuration is written, and the task is told of it.
LEMMA WriteLemma ==
  ASSUME TypeOK, SwitchOnGist \/ StoreOff \/ ChangeSetting
  PROVE  /\ UserTypes /\ queue' \in Seq(Command) /\ UNCHANGED <<t, pub>>
         /\ UNCHANGED slot /\ (Overtaken \/ Unrelated)
  <1>1. gen \in Nat \ {0} /\ gen + 1 \in Nat \ {0} /\ queue \in Seq(Command) /\ disk \in Config /\ app \in App
    BY DEF TypeOK
  <1>2. \A c \in Config : Append(queue, SetEngine(c)) \in Seq(Command)
                          /\ \E n \in Command : Append(queue, SetEngine(c)) = Append(queue, n) /\ n.token = 0
    BY <1>1, SentLemma
  <1>3. CASE SwitchOnGist
    <2>1. PICK c \in Config : c = Written([disk EXCEPT !.enabled = TRUE])
      BY WrittenLemma
    <2>2. [app EXCEPT !.off = FALSE, !.cfg = c] \in App
      BY <1>1 DEF App
    <2>3. /\ disk' = c /\ app' = [app EXCEPT !.off = FALSE, !.cfg = c] /\ gen' = gen + 1
          /\ queue' = Append(queue, SetEngine(c)) /\ Asks("switch")
          /\ UNCHANGED <<world, event, slot, pub, t>>
      BY <1>3, <2>1 DEF SwitchOnGist
    <2>4. spent' \in Spent
      BY <2>3, SpentLemma
    <2>5. world' \in World /\ event' \in BOOLEAN /\ slot' \in [pending : Nat, cancelled : BOOLEAN]
      BY <2>3 DEF TypeOK
    <2> QED BY <1>1, <1>2, <2>1, <2>2, <2>3, <2>4, <2>5 DEF UserTypes, Overtaken, Told
  <1>4. CASE ChangeSetting
    <2>1. PICK c \in Config : c = [disk EXCEPT !.rev = @ + 1]
      BY WrittenLemma
    <2>2. [app EXCEPT !.cfg = c] \in App
      BY <1>1 DEF App
    <2>3. /\ disk' = c /\ app' = [app EXCEPT !.cfg = c] /\ gen' = gen + 1
          /\ queue' = Append(queue, SetEngine(c)) /\ Asks("setting")
          /\ UNCHANGED <<world, event, slot, pub, t>>
      BY <1>4, <2>1 DEF ChangeSetting
    <2>4. spent' \in Spent
      BY <2>3, SpentLemma
    <2>5. world' \in World /\ event' \in BOOLEAN /\ slot' \in [pending : Nat, cancelled : BOOLEAN]
      BY <2>3 DEF TypeOK
    <2> QED BY <1>1, <1>2, <2>1, <2>2, <2>3, <2>4, <2>5 DEF UserTypes, Overtaken, Told
  <1>5. CASE StoreOff
    <2>1. PICK c \in Config : c = Written([disk EXCEPT !.enabled = FALSE, !.consent = FALSE, !.exempt = FALSE])
      BY WrittenLemma
    <2>2. [app EXCEPT !.ui = "idle", !.off = TRUE, !.cfg = c] \in App
      BY <1>1 DEF App
    <2>3. /\ disk' = c /\ app' = [app EXCEPT !.ui = "idle", !.off = TRUE, !.cfg = c]
          /\ UNCHANGED <<world, event, slot, pub, t, spent>>
          /\ \/ UNCHANGED <<gen, queue>>
             \/ gen' = gen + 1 /\ queue' = Append(queue, SetEngine(c))
      BY <1>5, <2>1 DEF StoreOff
    <2>4. world' \in World /\ event' \in BOOLEAN /\ slot' \in [pending : Nat, cancelled : BOOLEAN] /\ spent' \in Spent
      BY <2>3 DEF TypeOK
    <2> QED BY <1>1, <1>2, <2>1, <2>2, <2>3, <2>4 DEF UserTypes, Overtaken, Told, Unrelated
  <1> QED BY <1>3, <1>4, <1>5

\* The switch is turned off, or the vault locked or unlocked.
LEMMA CancelLemma ==
  ASSUME TypeOK, SwitchOff \/ LockOrUnlock
  PROVE  /\ UserTypes /\ queue' \in Seq(Command) /\ UNCHANGED <<t, pub>> /\ Overtaken
  <1>1. gen \in Nat \ {0} /\ gen + 1 \in Nat \ {0} /\ queue \in Seq(Command) /\ disk \in Config /\ app \in App
        /\ app.locked \in BOOLEAN /\ app.cfg \in Config
    BY DEF TypeOK, App
  <1>2. CASE SwitchOff
    <2>1. /\ app' = [app EXCEPT !.ui = "turningOff"] /\ gen' = gen + 1
          /\ slot' = [slot EXCEPT !.cancelled = TRUE]
          /\ queue' = Append(queue, Plain("CancelCheck")) /\ Asks("switch")
          /\ UNCHANGED <<world, event, disk, pub, t>>
      BY <1>2 DEF SwitchOff
    <2>2. app' \in App
      BY <1>1, <2>1 DEF App
    <2>3. slot' \in [pending : Nat, cancelled : BOOLEAN]
      BY <2>1 DEF TypeOK
    <2>4. spent' \in Spent
      BY <2>1, SpentLemma
    <2>5. Plain("CancelCheck") \in Command /\ Plain("CancelCheck").token = 0
      BY SentLemma
    <2>6. queue' \in Seq(Command)
      BY <1>1, <2>1, <2>5
    <2>7. world' \in World /\ event' \in BOOLEAN /\ disk' \in Config
      BY <2>1 DEF TypeOK
    <2> QED BY <1>1, <2>1, <2>2, <2>3, <2>4, <2>5, <2>6, <2>7 DEF UserTypes, Overtaken, Told
  <1>3. CASE LockOrUnlock
    <2>1. PICK k \in BOOLEAN : k = ~app.locked
      <3>1. app.locked = TRUE \/ app.locked = FALSE
        BY <1>1
      <3> QED BY <3>1
    <2>2. PICK m : m = [Plain("SetVaultLocked") EXCEPT !.locked = k]
      OBVIOUS
    <2>3. /\ app' = [app EXCEPT !.locked = k] /\ gen' = gen + 1
          /\ queue' = queue \o <<SetEngine(app.cfg), m>> /\ Asks("lock")
          /\ UNCHANGED <<world, event, slot, disk, pub, t>>
      BY <1>3, <2>1, <2>2 DEF LockOrUnlock
    <2>4. app' \in App
      BY <1>1, <2>3 DEF App
    <2>5. spent' \in Spent
      BY <2>3, SpentLemma
    <2>6. Plain("SetVaultLocked") \in Command /\ Plain("SetVaultLocked").token = 0
          /\ SetEngine(app.cfg) \in Command /\ SetEngine(app.cfg).token = 0
      BY <1>1, SentLemma
    <2>7. m \in Command /\ m.token = 0
      BY <2>2, <2>6, SentLemma
    <2>8. queue' \in Seq(Command)
      BY <1>1, <2>3, <2>6, <2>7
    <2>9. world' \in World /\ event' \in BOOLEAN /\ disk' \in Config /\ slot' \in [pending : Nat, cancelled : BOOLEAN]
      BY <2>3 DEF TypeOK
    <2>10. Overtaken
      BY <2>3, <2>6, <2>7 DEF Overtaken
    <2> QED BY <1>1, <2>3, <2>4, <2>5, <2>8, <2>9, <2>10 DEF UserTypes
  <1> QED BY <1>2, <1>3

\* The four buttons.
LEMMA ManualLemma ==
  ASSUME TypeOK, ManualSync
  PROVE  UserTypes /\ queue' \in Seq(Command) /\ UNCHANGED <<t, pub>> /\ Unrelated
  <1>1. PICK s \in {"Pushed", "Pulled", "UpToDate", "PullRequired"}, l \in Data, r \in Content, b \in Content :
          LET o == Outcome(s, l, r, b)
              c == Recorded(o)
          IN /\ Perform(o) /\ app' = [app EXCEPT !.cfg = c]
             /\ queue' = Append(queue, [Plain("ReconcileManualSync") EXCEPT !.cfg = c, !.status = s])
    BY DEF ManualSync
  <1>2. PICK o : o = Outcome(s, l, r, b)
    OBVIOUS
  <1>3. o \in Outcomes
    BY <1>2 DEF Outcome, Outcomes
  <1>4. PICK c : c = Recorded(o)
    OBVIOUS
  <1>5. Perform(o) /\ app' = [app EXCEPT !.cfg = c]
        /\ queue' = Append(queue, [Plain("ReconcileManualSync") EXCEPT !.cfg = c, !.status = s])
    BY <1>1, <1>2, <1>4
  <1>6. c \in Config /\ world' \in World /\ disk' \in Config /\ event' \in BOOLEAN
    BY <1>3, <1>4, <1>5, PerformLemma
  <1>7. app' \in App
    BY <1>5, <1>6 DEF TypeOK, App
  <1>8. PICK m : m = [Plain("ReconcileManualSync") EXCEPT !.cfg = c, !.status = s]
    OBVIOUS
  <1>9. Plain("ReconcileManualSync") \in Command /\ Plain("ReconcileManualSync").token = 0
    BY SentLemma
  <1>10. m \in Command /\ m.token = 0
    BY <1>6, <1>8, <1>9 DEF Command
  <1>11. queue' = Append(queue, m) /\ queue \in Seq(Command)
    BY <1>5, <1>8 DEF TypeOK
  <1>12. queue' \in Seq(Command)
    BY <1>10, <1>11
  <1>13. Asks("manual") /\ UNCHANGED <<gen, slot, pub, t>>
    BY DEF ManualSync
  <1>14. spent' \in Spent /\ gen' \in Nat \ {0} /\ slot' \in [pending : Nat, cancelled : BOOLEAN]
    BY <1>13, SpentLemma DEF TypeOK
  <1> QED BY <1>6, <1>7, <1>10, <1>11, <1>12, <1>13, <1>14 DEF UserTypes, Unrelated, Told

\* Edits, here or by other devices.
LEMMA EditLemma ==
  ASSUME TypeOK, EditLocally \/ EditRemotely
  PROVE  UserTypes /\ queue' \in Seq(Command) /\ UNCHANGED <<t, pub>> /\ Unrelated
  <1>1. world' \in World
    BY DEF EditLocally, EditRemotely, TypeOK, World
  <1>2. event' \in BOOLEAN
    BY DEF EditLocally, EditRemotely, TypeOK
  <1>3. Edits /\ UNCHANGED <<app, gen, disk, slot, queue, pub, t>>
    BY DEF EditLocally, EditRemotely
  <1>4. spent' \in Spent
    BY <1>3, SpentLemma
  <1> QED BY <1>1, <1>2, <1>3, <1>4 DEF UserTypes, Unrelated, TypeOK

\* The application receives a snapshot.
LEMMA ObserveLemma ==
  ASSUME TypeOK, Observe
  PROVE  /\ UserTypes /\ queue' \in Seq(Command) /\ t' = t /\ Unrelated
         /\ pub' \in [phase : Phase, cap : Capability, cfg : Config, new : BOOLEAN]
  <1>1. pub.phase \in Phase /\ pub.cfg \in Config /\ app \in App
    BY DEF TypeOK
  <1>2. PICK c \in Config : c = (IF pub.cfg.rev >= app.cfg.rev THEN pub.cfg ELSE app.cfg)
    BY <1>1 DEF App
  <1>3. app' = [app EXCEPT !.shown = pub.phase, !.cfg = c]
    BY <1>1, <1>2 DEF Observe, App
  <1>4. app' \in App
    BY <1>1, <1>3 DEF App
  <1>5. pub' \in [phase : Phase, cap : Capability, cfg : Config, new : BOOLEAN]
    BY DEF Observe, TypeOK
  <1>6. UNCHANGED <<world, event, gen, disk, slot, queue, t, spent>>
    BY DEF Observe
  <1> QED BY <1>4, <1>5, <1>6 DEF UserTypes, Unrelated, TypeOK

-----------------------------------------------------------------------------
(* The live check.                                                         *)

\* What every preservation proof below starts from.
LEMMA CheckFacts ==
  ASSUME TypeOK, CheckInv
  PROVE  /\ queue \in Seq(Command) /\ DOMAIN queue = 1 .. Len(queue) /\ Len(queue) \in Nat
         /\ gen \in Nat /\ gen # 0 /\ t.holds \in Nat /\ slot.pending \in Nat
         /\ \A i \in 1 .. Len(queue) : queue[i].token \in Nat /\ queue[i].token <= gen
         /\ \A n \in Command : n.token \in Nat
  <1>1. queue \in Seq(Command) /\ gen \in Nat /\ gen # 0 /\ t.holds \in Nat /\ slot.pending \in Nat
    BY DEF TypeOK, Task
  <1>2. DOMAIN queue = 1 .. Len(queue) /\ Len(queue) \in Nat /\ \A i \in 1 .. Len(queue) : queue[i] \in Command
    BY <1>1
  <1>3. \A n \in Command : n.token \in Nat
    BY DEF Command
  <1> QED BY <1>1, <1>2, <1>3 DEF CheckInv

\* A handler keeps its check, or frees the slot it owns.
LEMMA GoesKeepsCheck ==
  ASSUME TypeOK, Sane(t), CheckInv, Goes, UNCHANGED <<gen, queue>>
  PROVE  CheckInv'
  <1>1. PICK x : Serve(t.holds, x) /\ x.holds \in {t.holds, 0}
    BY DEF Goes, Become, Follows
  <1>2. t'.holds \in {t.holds, 0} /\ slot' = (IF t'.holds = 0 THEN Freed(t.holds) ELSE slot)
    BY <1>1 DEF Serve
  <1>3. gen # 0 /\ slot \in [pending : Nat, cancelled : BOOLEAN]
    BY DEF TypeOK
  <1>4. t.holds # gen => slot'.pending = slot.pending \/ slot.pending # gen
    BY <1>2, <1>3 DEF Freed
  <1>5. t'.holds = gen => slot' = slot /\ t.holds = gen
    BY <1>2, <1>3
  <1>6. QueuedLive' = QueuedLive
    BY DEF QueuedLive
  <1>7. t'.holds <= gen
    BY <1>2, <1>3, CheckFacts DEF CheckInv
  <1>8. QueuedLive # {} \/ t'.holds = gen => slot'.pending = gen
    BY <1>4, <1>5 DEF CheckInv
  <1>9. t'.holds = gen => QueuedLive = {}
    BY <1>5 DEF CheckInv
  <1> QED BY <1>6, <1>7, <1>8, <1>9 DEF CheckInv

\* Taking a command shifts the queue, and may remove the live check from it.
LEMMA TailLemma ==
  ASSUME TypeOK, CheckInv, queue # <<>>, queue' = Tail(queue), gen' = gen
  PROVE  /\ \A i \in DOMAIN queue' : queue'[i].token <= gen'
         /\ \A i, j \in QueuedLive' : i = j
         /\ QueuedLive' # {} => QueuedLive # {}
         /\ Received.token = gen => QueuedLive' = {} /\ QueuedLive # {}
  <1>1. /\ queue \in Seq(Command) /\ DOMAIN queue = 1 .. Len(queue) /\ Len(queue) \in Nat
        /\ \A i \in 1 .. Len(queue) : queue[i].token \in Nat /\ queue[i].token <= gen
    BY CheckFacts
  <1>2. /\ DOMAIN queue' = 1 .. (Len(queue) - 1)
        /\ \A i \in DOMAIN queue' : i \in Nat /\ i + 1 \in 1 .. Len(queue) /\ i + 1 # 1 /\ queue'[i] = queue[i + 1]
    BY <1>1
  <1>3. \A i \in QueuedLive' : i \in Nat /\ i + 1 \in QueuedLive /\ i + 1 # 1
    BY <1>1, <1>2 DEF QueuedLive
  <1>4. \A i, j \in QueuedLive' : i = j
    <2> SUFFICES ASSUME NEW i \in QueuedLive', NEW j \in QueuedLive'
                 PROVE  i = j
      OBVIOUS
    <2>1. i + 1 = j + 1 /\ i \in Nat /\ j \in Nat
      BY <1>3 DEF CheckInv
    <2> QED BY <2>1
  <1>5. Received.token = gen => 1 \in QueuedLive
    BY <1>1 DEF Received, QueuedLive
  <1>6. 1 \in QueuedLive => QueuedLive' = {}
    BY <1>3 DEF CheckInv
  <1> QED BY <1>1, <1>2, <1>3, <1>4, <1>5, <1>6

\* A command that is no check request leaves the queue.
LEMMA TakenKeepsCheck ==
  ASSUME TypeOK, Sane(t), CheckInv, Goes, t.holds = 0, queue # <<>>, queue' = Tail(queue), gen' = gen
  PROVE  CheckInv'
  <1>1. PICK x : Serve(t.holds, x) /\ x.holds \in {t.holds, 0}
    BY DEF Goes, Become, Follows
  <1>2. t'.holds = 0 /\ slot' = Freed(0)
    BY <1>1 DEF Serve
  <1>3. slot'.pending = slot.pending /\ gen # 0 /\ gen \in Nat
    BY <1>2 DEF Freed, TypeOK
  <1> QED BY <1>2, <1>3, TailLemma DEF CheckInv

\* A request leaves the queue: its check is served, or its slot freed.
LEMMA CheckTakenKeepsCheck ==
  ASSUME TypeOK, Sane(t), CheckInv, queue # <<>>, queue' = Tail(queue), gen' = gen, NEW x,
         Serve(Received.token, x), x.holds = 0 \/ (x.holds = Received.token /\ Received.token = gen)
  PROVE  CheckInv'
  <1>1. t'.holds = x.holds /\ slot' = (IF x.holds = 0 THEN Freed(Received.token) ELSE slot)
    BY DEF Serve
  <1>2. gen # 0 /\ gen \in Nat /\ slot \in [pending : Nat, cancelled : BOOLEAN]
    BY DEF TypeOK
  <1>3. CASE x.holds = 0
    <2>1. Received.token # gen => slot'.pending = slot.pending \/ slot.pending # gen
      BY <1>1, <1>2, <1>3 DEF Freed
    <2> QED BY <1>1, <1>2, <1>3, <2>1, TailLemma DEF CheckInv
  <1>4. CASE x.holds = Received.token /\ Received.token = gen
    BY <1>1, <1>2, <1>4, TailLemma DEF CheckInv
  <1> QED BY <1>3, <1>4

\* A request is accepted only when the slot is not the live check's.
LEMMA AskedKeepsCheck ==
  ASSUME TypeOK, CheckInv, Asked, t' = t
  PROVE  CheckInv'
  <1>1. PICK n \in Command : queue' = Append(queue, n) /\ n.token = gen
    BY DEF Asked
  <1>2. slot'.pending = gen /\ slot.pending # gen /\ gen' = gen
    BY DEF Asked
  <1>3. QueuedLive = {} /\ t.holds # gen
    BY <1>2 DEF CheckInv
  <1>4. DOMAIN queue' = 1 .. (Len(queue) + 1) /\ \A i \in 1 .. Len(queue) : queue'[i] = queue[i]
        /\ queue'[Len(queue) + 1] = n /\ Len(queue) \in Nat
    BY <1>1, CheckFacts
  <1>5. \A i \in DOMAIN queue' : queue'[i].token <= gen
    BY <1>1, <1>4, CheckFacts
  <1>6. QueuedLive' = {Len(queue) + 1}
    BY <1>1, <1>2, <1>3, <1>4, CheckFacts DEF QueuedLive
  <1> QED BY <1>2, <1>3, <1>5, <1>6 DEF CheckInv

\* A cancellation reaches every check that is queued or served.
LEMMA OvertakenKeepsCheck ==
  ASSUME TypeOK, CheckInv, Overtaken, t' = t
  PROVE  CheckInv'
  <1>1. gen' = gen + 1
    BY DEF Overtaken
  <1>2. \A i \in DOMAIN queue' : queue'[i].token \in Nat /\ queue'[i].token <= gen
    <2>1. CASE UNCHANGED queue
      BY <2>1, CheckFacts
    <2>2. CASE Told
      <3>1. PICK n \in Command : queue' = Append(queue, n) /\ n.token = 0
        BY <2>2 DEF Told
      <3> QED BY <3>1, CheckFacts
    <2>3. CASE \E m, n \in Command : queue' = queue \o <<m, n>> /\ m.token = 0 /\ n.token = 0
      <3>1. PICK m \in Command, n \in Command : queue' = queue \o <<m, n>> /\ m.token = 0 /\ n.token = 0
        BY <2>3
      <3>2. DOMAIN queue' = 1 .. (Len(queue) + 2) /\ Len(queue) \in Nat
            /\ \A i \in 1 .. Len(queue) : queue'[i] = queue[i]
            /\ queue'[Len(queue) + 1] = m /\ queue'[Len(queue) + 2] = n
        BY <3>1, CheckFacts
      <3>3. \A i \in DOMAIN queue' : i \in 1 .. Len(queue) \/ i = Len(queue) + 1 \/ i = Len(queue) + 2
        BY <3>2
      <3> QED BY <3>1, <3>2, <3>3, CheckFacts
    <2> QED BY <2>1, <2>2, <2>3 DEF Overtaken
  <1>3. gen \in Nat /\ t.holds \in Nat /\ t.holds <= gen
    BY CheckFacts DEF CheckInv
  <1>4. \A n \in Nat : n <= gen => n <= gen + 1 /\ n # gen + 1
    BY <1>3
  <1>5. QueuedLive' = {}
    BY <1>1, <1>2, <1>4 DEF QueuedLive
  <1> QED BY <1>1, <1>2, <1>3, <1>4, <1>5 DEF CheckInv

\* Commands that carry no token do not concern the check.
LEMMA UnrelatedKeepsCheck ==
  ASSUME TypeOK, CheckInv, Unrelated, t' = t
  PROVE  CheckInv'
  <1>1. gen' = gen /\ slot' = slot
    BY DEF Unrelated
  <1>2. CASE UNCHANGED queue
    BY <1>1, <1>2 DEF CheckInv, QueuedLive
  <1>3. CASE Told
    <2>1. PICK n \in Command : queue' = Append(queue, n) /\ n.token = 0
      BY <1>3 DEF Told
    <2>2. DOMAIN queue' = 1 .. (Len(queue) + 1) /\ \A i \in 1 .. Len(queue) : queue'[i] = queue[i]
          /\ queue'[Len(queue) + 1] = n /\ Len(queue) \in Nat
      BY <2>1, CheckFacts
    <2>3. \A i \in DOMAIN queue' : queue'[i].token <= gen
      BY <2>1, <2>2, CheckFacts
    <2>4. QueuedLive' = QueuedLive
      BY <1>1, <2>1, <2>2, CheckFacts DEF QueuedLive
    <2> QED BY <1>1, <2>3, <2>4 DEF CheckInv
  <1> QED BY <1>2, <1>3 DEF Unrelated

-----------------------------------------------------------------------------
(* The theorems.                                                           *)

\* A fragment's state has the types of the task, the slot and the snapshot.
LEMMA GoesLemma ==
  ASSUME TypeOK, Goes
  PROVE  /\ t' \in Task /\ Sane(t)' /\ slot' \in [pending : Nat, cancelled : BOOLEAN]
         /\ pub' \in [phase : Phase, cap : Capability, cfg : Config, new : BOOLEAN]
  <1>1. PICK x : Serve(t.holds, x) /\ Sane(x)
    BY DEF Goes, Become, Follows
  <1>2. t.holds \in Nat
    BY DEF TypeOK, Task
  <1> QED BY <1>1, <1>2, ServeLemma

\* The invariant holds when the application starts.
LEMMA InitLemma ==
  ASSUME Init
  PROVE  Inv
  <1>1. spent \in Spent
    BY AutoSyncAssumption DEF Init, Spent
  <1>2. world \in World
    <2>1. May \in Scenarios
      BY <1>1 DEF Spent, May
    <2>2. May.providers \subseteq {"WebDav", "GithubGist"} /\ May.servers \subseteq {"conditional", "plain"}
      BY <2>1, AutoSyncAssumption
    <2> QED BY <2>2 DEF Init, World
  <1>3. disk \in Config
    BY DEF Init, Config
  <1>4. app \in App /\ app.locked \in BOOLEAN
    <2>1. app \in {[cfg |-> disk, locked |-> k, shown |-> "Disabled", ui |-> "idle", off |-> FALSE] : k \in BOOLEAN}
      BY DEF Init
    <2>2. PICK k \in BOOLEAN : app = [cfg |-> disk, locked |-> k, shown |-> "Disabled", ui |-> "idle", off |-> FALSE]
      BY <2>1
    <2> QED BY <1>3, <2>2 DEF App, Phase
  <1>5. gen \in Nat \ {0} /\ slot \in [pending : Nat, cancelled : BOOLEAN] /\ queue \in Seq(Command) /\ event \in BOOLEAN
        /\ queue = <<>> /\ gen = 1
    <2>1. /\ gen = 1 /\ queue = <<>> /\ event = FALSE /\ slot = [pending |-> 0, cancelled |-> FALSE]
      BY DEF Init
    <2>2. slot \in [pending : Nat, cancelled : BOOLEAN]
      BY <2>1
    <2>3. queue \in Seq(Command)
      BY <2>1
    <2>4. gen \in Nat \ {0}
      BY <2>1
    <2>5. event \in BOOLEAN
      BY <2>1
    <2> QED BY <2>1, <2>2, <2>3, <2>4, <2>5
  <1>6. t \in Task /\ t.at = "start" /\ t.holds = 0 /\ t.retry = "none"
    <2>1. disk.enabled \in BOOLEAN
      BY <1>3 DEF Config
    <2>2. PICK p \in Phase : p = (IF ~disk.enabled THEN "Disabled"
                                  ELSE IF app.locked THEN "PausedVaultLocked" ELSE "Watching")
      BY DEF Phase
    <2>3. t = [enabled |-> disk.enabled, locked |-> app.locked, phase |-> p,
               dirty |-> FALSE, missing |-> FALSE, conflict |-> FALSE,
               retry |-> "none", debounce |-> FALSE, cap |-> "Unknown", cfg |-> disk,
               at |-> "start", then |-> "none", inTick |-> FALSE, attempt |-> 0,
               began |-> 0, holds |-> 0, token |-> 0, probe |-> 0, seen |-> None,
               expected |-> None, consent |-> FALSE]
      BY <2>2 DEF Init
    <2>4. "start" \in Await /\ "none" \in Continuation /\ None \in Content /\ "Unknown" \in Capability
      BY DEF Await, Continuation, Content, Capability
    <2> QED BY <1>3, <1>4, <2>1, <2>3, <2>4 DEF Task
  <1>7. pub \in [phase : Phase, cap : Capability, cfg : Config, new : BOOLEAN]
    <2>1. pub = Snapshot(t)
      BY DEF Init
    <2> QED BY <1>6, <2>1 DEF Snapshot, Task
  <1>8. TypeOK
    BY <1>1, <1>2, <1>3, <1>4, <1>5, <1>6, <1>7 DEF TypeOK
  <1>9. Sane(t)
    BY <1>6 DEF Sane, Permitted, Works, AtRest
  <1>10. CheckInv
    <2>1. DOMAIN queue = {}
      BY <1>5
    <2> QED BY <1>5, <1>6, <2>1 DEF CheckInv, QueuedLive
  <1> QED BY <1>8, <1>9, <1>10 DEF Inv

\* The steps of the task that serve no new check.
LEMMA TaskStep ==
  ASSUME Inv, Goes, world' \in World, disk' \in Config, event' \in BOOLEAN, spent' \in Spent,
         UNCHANGED <<app, gen>>,
         UNCHANGED queue \/ (t.at = "idle" /\ queue # <<>> /\ queue' = Tail(queue))
  PROVE  Inv'
  <1>1. TypeOK /\ Sane(t) /\ CheckInv
    BY DEF Inv
  <1>2. /\ t' \in Task /\ Sane(t)' /\ slot' \in [pending : Nat, cancelled : BOOLEAN]
        /\ pub' \in [phase : Phase, cap : Capability, cfg : Config, new : BOOLEAN]
    BY <1>1, GoesLemma
  <1>3. queue' \in Seq(Command)
    BY <1>1, TakenLemma DEF TypeOK
  <1>4. CheckInv'
    <2>1. CASE UNCHANGED queue
      BY <1>1, <2>1, GoesKeepsCheck
    <2>2. CASE t.at = "idle" /\ queue # <<>> /\ queue' = Tail(queue)
      <3>1. t.holds = 0
        BY <1>1, <2>2 DEF Sane, AtRest
      <3> QED BY <1>1, <2>2, <3>1, TakenKeepsCheck
    <2> QED BY <2>1, <2>2
  <1>5. app' \in App /\ gen' \in Nat \ {0}
    BY <1>1 DEF TypeOK
  <1>6. TypeOK'
    BY <1>2, <1>3, <1>5 DEF TypeOK
  <1> QED BY <1>2, <1>4, <1>6 DEF Inv

\* The steps of the application.
LEMMA AppStep ==
  ASSUME Inv, UserTypes, queue' \in Seq(Command), t' = t,
         pub' \in [phase : Phase, cap : Capability, cfg : Config, new : BOOLEAN],
         Asked \/ Overtaken \/ Unrelated
  PROVE  Inv'
  <1>1. TypeOK /\ Sane(t) /\ CheckInv
    BY DEF Inv
  <1>2. CheckInv'
    BY <1>1, AskedKeepsCheck, OvertakenKeepsCheck, UnrelatedKeepsCheck
  <1>3. Sane(t)' /\ t' \in Task
    BY <1>1 DEF Sane, Permitted, AtRest, Works, Active
  <1>4. TypeOK'
    BY <1>3 DEF UserTypes, TypeOK
  <1> QED BY <1>2, <1>3, <1>4 DEF Inv

\* Every step of the task and of the application keeps the invariant.
LEMMA NextLemma ==
  ASSUME Inv, [Next]_vars
  PROVE  Inv'
  <1>1. TypeOK /\ Sane(t) /\ CheckInv
    BY DEF Inv
  <1>2. CASE HandlerStep
    BY <1>1, <1>2, HandlerLemma, TaskStep
  <1>3. CASE TakeCancel \/ TakeEngine \/ TakeManualSync \/ TakeLock
    <2>1. Goes /\ disk' \in Config
      BY <1>1, <1>3, CancelGoes, EngineGoes, ManualGoes, LockGoes DEF TakeCancel, TakeLock, TypeOK
    <2>2. UNCHANGED <<otherVars, spent>> /\ t.at = "idle" /\ queue # <<>> /\ queue' = Tail(queue)
      BY <1>3 DEF TakeCancel, TakeEngine, TakeManualSync, TakeLock, Take
    <2>3. world' \in World /\ event' \in BOOLEAN /\ spent' \in Spent /\ UNCHANGED <<app, gen>>
      BY <1>1, <2>2 DEF otherVars, TypeOK
    <2> QED BY <2>1, <2>2, <2>3, TaskStep
  <1>4. CASE TakeEnable \/ TakeRecheck
    <2>1. PICK x : /\ Serve(Received.token, x) /\ Sane(x)
                   /\ x.holds = 0 \/ (x.holds = Received.token /\ Received.token = gen)
      BY <1>1, <1>4, CheckTaken
    <2>2. UNCHANGED <<otherVars, disk, spent>> /\ t.at = "idle" /\ queue # <<>> /\ queue' = Tail(queue)
      BY <1>4 DEF TakeEnable, TakeRecheck, Take
    <2>3. Received.token \in Nat /\ queue' \in Seq(Command)
      BY <1>1, <2>2, TakenLemma DEF Command
    <2>4. /\ t' \in Task /\ Sane(t)' /\ slot' \in [pending : Nat, cancelled : BOOLEAN]
          /\ pub' \in [phase : Phase, cap : Capability, cfg : Config, new : BOOLEAN]
      BY <1>1, <2>1, <2>3, ServeLemma
    <2>5. CheckInv'
      BY <1>1, <2>1, <2>2, CheckTakenKeepsCheck DEF otherVars
    <2>6. TypeOK'
      BY <1>1, <2>2, <2>3, <2>4 DEF TypeOK, otherVars
    <2> QED BY <2>4, <2>5, <2>6 DEF Inv
  <1>5. CASE Tick \/ RetryFires \/ DebounceFires \/ WatcherEvent
    <2>1. Goes /\ event' \in BOOLEAN /\ UNCHANGED <<world, app, gen, disk, queue, spent>>
      BY <1>1, <1>5, TimerLemma
    <2>2. world' \in World /\ disk' \in Config /\ spent' \in Spent
      BY <1>1, <2>1 DEF TypeOK
    <2> QED BY <2>1, <2>2, TaskStep
  <1>6. CASE UserStep \/ Observe
    <2>1. /\ UserTypes /\ queue' \in Seq(Command) /\ t' = t
          /\ pub' \in [phase : Phase, cap : Capability, cfg : Config, new : BOOLEAN]
          /\ Asked \/ Overtaken \/ Unrelated
      <3>1. pub' = pub => pub' \in [phase : Phase, cap : Capability, cfg : Config, new : BOOLEAN]
        BY <1>1 DEF TypeOK
      <3>2. CASE SwitchOn \/ Recheck
        BY <1>1, <3>1, <3>2, SwitchOnLemma
      <3>3. CASE SwitchOnGist \/ StoreOff \/ ChangeSetting
        BY <1>1, <3>1, <3>3, WriteLemma
      <3>4. CASE SwitchOff \/ LockOrUnlock
        BY <1>1, <3>1, <3>4, CancelLemma
      <3>5. CASE ManualSync
        BY <1>1, <3>1, <3>5, ManualLemma
      <3>6. CASE EditLocally \/ EditRemotely
        BY <1>1, <3>1, <3>6, EditLemma
      <3>7. CASE Observe
        BY <1>1, <3>7, ObserveLemma
      <3> QED BY <1>6, <3>2, <3>3, <3>4, <3>5, <3>6, <3>7 DEF UserStep
    <2> QED BY <2>1, AppStep
  <1>7. CASE UNCHANGED vars
    <2>1. UNCHANGED <<world, disk, app, gen, slot, queue, pub, t, event, spent>>
      BY <1>7 DEF vars, otherVars
    <2>2. TypeOK'
      BY <1>1, <2>1 DEF TypeOK
    <2>3. Sane(t)'
      BY <1>1, <2>1 DEF Sane, Permitted, AtRest, Works, Active
    <2>4. CheckInv'
      BY <1>1, <2>1 DEF CheckInv, QueuedLive
    <2> QED BY <2>2, <2>3, <2>4 DEF Inv
  <1> QED BY <1>2, <1>3, <1>4, <1>5, <1>6, <1>7 DEF Next, TakeCommand

\* The inductive invariant holds in every behaviour.
LEMMA Invariant == Spec => []Inv
  BY InitLemma, NextLemma, PTL DEF Spec

\* The task, the slot, the queue and the published snapshot keep their types
\* in every behaviour (services/auto_sync.rs and the settings controller).
THEOREM TypeCorrect == Spec => []TypeOK
  <1>1. Inv => TypeOK
    BY DEF Inv
  <1> QED BY <1>1, Invariant, PTL

\* Whichever way the handlers lead there, no request of automatic
\* synchronisation starts while it is off, the vault is locked, a backoff runs,
\* or, for an upload, an intervention is pending (push_if_dirty, poll_remote).
THEOREM WorkPermitted == Spec => []WorkIsPermitted
  <1>1. Inv => WorkIsPermitted
    BY DEF Inv, Sane, Permitted, Works, WorkIsPermitted
  <1> QED BY <1>1, Invariant, PTL

\* At most one check that no cancellation has reached is queued or served
\* (CheckRequests::begin and finish), whatever the order in which requests,
\* cancellations and late answers arrive.
THEOREM OneCheck == Spec => []OneLiveCheck
  <1>1. ASSUME Inv
        PROVE  OneLiveCheck
    <2> DEFINE queued == {i \in DOMAIN queue : queue[i].token = gen}
               served == {h \in {t.holds} : h = gen}
    <2>1. CheckInv /\ queued = QueuedLive
      BY <1>1 DEF Inv, QueuedLive
    <2>2. /\ \A i, j \in queued : i = j
          /\ served # {} => queued = {}
      BY <2>1 DEF CheckInv
    <2>3. queued = {} \/ \E i : queued = {i}
      BY <2>2
    <2>4. served = {} \/ \E h : served = {h}
      OBVIOUS
    <2>5. Cardinality(queued) \in {0, 1} /\ (queued = {} => Cardinality(queued) = 0)
      BY <2>3, FS_EmptySet, FS_Singleton
    <2>6. Cardinality(served) \in {0, 1} /\ (served = {} => Cardinality(served) = 0)
      BY <2>4, FS_EmptySet, FS_Singleton
    <2> HIDE DEF queued, served
    <2>7. Cardinality(queued) + Cardinality(served) <= 1
      BY <2>2, <2>5, <2>6
    <2> QED BY <2>7 DEF OneLiveCheck, queued, served
  <1> QED BY <1>1, Invariant, PTL


=============================================================================
