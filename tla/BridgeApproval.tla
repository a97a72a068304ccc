--------------------------- MODULE BridgeApproval ---------------------------
(***************************************************************************)
(* The SSH bridge of crates/miaominal-services                             *)
(* (services/ssh_bridge_service.rs): a local listener through which ssh    *)
(* clients reach saved hosts.                                              *)
(*                                                                         *)
(* Every client is served by a task.  Depending on the security policy a   *)
(* request must be approved; when the credentials are locked it waits for  *)
(* the vault.  Meanwhile the user decides and cancels, the policy changes  *)
(* here or in another instance of the application, hosts are deleted, the  *)
(* vault is locked and unlocked, and the bridge is switched off and on.    *)
(*                                                                         *)
(* A step of a task ends where it awaits, releases a lock or reads shared  *)
(* state a second time.  The user interface is one thread.                 *)
(***************************************************************************)
EXTENDS Naturals, Sequences, FiniteSets

CONSTANTS
  Client,          \* connections, each with one request
  Profile,         \* saved hosts
  None,            \* no entry
  MaxPending,      \* MAX_PENDING_AUTHORIZATIONS
  MaxPerProfile,   \* MAX_PENDING_AUTHORIZATIONS_PER_PROFILE
  MaxConnections,  \* the size of the semaphore
  Scenarios        \* the clients that come, each with the host it asks for,
                   \* the security levels chosen from;
                   \* bounds: new policies, replacements of the secrets, and
                   \* changes of the hosts or of the switch

ASSUME BridgeAssumption ==
  /\ IsFiniteSet(Client) /\ Profile # {}
  /\ {MaxPending, MaxPerProfile, MaxConnections} \subseteq Nat \ {0}
  /\ \A s \in Scenarios :
       /\ DOMAIN s.clients \subseteq Client
       /\ \A c \in DOMAIN s.clients : s.clients[c] \in Profile
       /\ s.levels \subseteq {"Standard", "RequireApproval", "RequireSystemAuth"}
       /\ {s.policies, s.secrets, s.changes} \subseteq Nat

VARIABLES
  store,    \* the policy on disk
  policy,   \* the policy in memory
  desk,     \* for each request: its pending entry and the events sent to it
  client,   \* the tasks that serve the clients
  profiles, \* the hosts of the snapshot
  vault,    \* the secrets of the snapshot: readable, and their generation
  service,  \* desired_enabled, status, the accept loop and its cancel channel
  active,   \* active_connections
  op,       \* the holder of the operation lock; calls waiting for it
  ui        \* where refresh_routes is; changes so far; the scenario

bridge == <<store, policy, desk, client, active>>
control == <<service, op>>
vars == <<bridge, profiles, vault, control, ui>>

Level == {"Standard", "RequireApproval", "RequireSystemAuth"}
Policy == [level : Level, gen : Nat]
Phase == {"AwaitingApproval", "AwaitingSystemAuth", "AwaitingVaultUnlock"}
Entry == [phase : Phase, gen : Nat, decided : BOOLEAN]
ASSUME NoneAssumption == None \notin Entry
Decision == {"Approve", "SystemAuthVerified", "Reject"}
Event == Decision \cup {"PolicyChanged", "ProfileUnavailable",
                        "ServiceStopping", "UserCancelled"}

\* Where a task awaits, ...
Awaiting == {"accepted", "asked", "vault", "connecting", "active"}
\* ... and where it is between two reads of shared state.
Running == {"authorize", "approved", "loop", "read", "ready", "locked"}

Task == [at : {"new", "done"} \cup Awaiting \cup Running,
         profile : Profile,
         level : Level, gen : Nat,  \* the policy the request was made under
         waits : BOOLEAN,           \* it holds a PendingAuthorizationWaiter
         unlocking : BOOLEAN,       \* waiting_for_vault
         seen : Nat,                \* generation of the secrets it knows of
         allowed : Nat,             \* history: generation of the user's yes, + 1
         cancelled : BOOLEAN]       \* history: the user cancelled, and was told so

TypeOK ==
  /\ store \in Policy /\ policy \in Policy
  /\ desk \in [Client -> [entry : Entry \cup {None}, events : Seq(Event)]]
  /\ client \in [Client -> Task]
  /\ profiles \subseteq Profile
  /\ vault \in [open : BOOLEAN, gen : Nat]
  /\ service \in [desired : BOOLEAN,
                  status : {"Disabled", "Starting", "Running", "Stopping", "Error"},
                  loop : {"none", "accepting", "draining", "ended"},
                  cancel : BOOLEAN]
  /\ active \in 0..MaxConnections
  /\ op \in [at : {"idle", "load", "bind", "withdraw", "join", "compare"},
             wants : BOOLEAN, queued : Nat]
  /\ ui \in [at : {"idle", "withdraw", "publish", "send"}, changes : Nat,
             scenario : Scenarios]

Idle(p, at) ==
  [at |-> at, profile |-> p, level |-> "Standard", gen |-> 0, waits |-> FALSE,
   unlocking |-> FALSE, seen |-> 0, allowed |-> 0, cancelled |-> FALSE]

NoMail == [entry |-> None, events |-> <<>>]

\* The application starts with the bridge wanted, or not.
Init ==
  /\ \E s \in Scenarios :
       /\ ui = [at |-> "idle", changes |-> 0, scenario |-> s]
       /\ store \in [level : s.levels, gen : {0}]
  /\ policy = store
  /\ desk = [c \in Client |-> NoMail]
  /\ LET hosts == ui.scenario.clients IN
     client = [c \in Client |->
                 IF c \in DOMAIN hosts THEN Idle(hosts[c], "new")
                 ELSE Idle(CHOOSE p \in Profile : TRUE, "done")]
  /\ profiles = Profile
  /\ vault \in [open : BOOLEAN, gen : {0}]
  /\ \E on \in BOOLEAN :
       /\ service = [desired |-> on, status |-> "Disabled", loop |-> "none",
                     cancel |-> FALSE]
       /\ op = [at |-> "idle", wants |-> FALSE, queued |-> IF on THEN 1 ELSE 0]
  /\ active = 0
-----------------------------------------------------------------------------
(* Pending requests.                                                       *)

Shown(d) == {c \in Client : d[c].entry # None}

\* Mutant of Withdrawn: the entries go, the tasks are not told.
WithdrawnSilently(d, S, why) ==
  [c \in Client |-> IF c \in S THEN [d[c] EXCEPT !.entry = None] ELSE d[c]]

\* Take entries from the map and send their tasks the reason.
Withdrawn(d, S, why) ==
  [c \in Client |-> IF c \in S
                    THEN [entry |-> None, events |-> Append(d[c].events, why)]
                    ELSE d[c]]

\* apply_policy_locked: requests made under another policy are withdrawn.
Current(d, p) ==
  Withdrawn(d, {c \in Shown(d) : d[c].entry.gen # p.gen}, "PolicyChanged")

\* The waiter is dropped, and with it the entry and unread events.
Dropped(d, c) == [d EXCEPT ![c] = NoMail]

Full(d, c) ==
  \/ Cardinality(Shown(d)) >= MaxPending
  \/ Cardinality({b \in Shown(d) : client[b].profile = client[c].profile})
       >= MaxPerProfile

Proceed(c, x, d) ==
  /\ client' = [client EXCEPT ![c] = x]
  /\ desk' = d
  /\ UNCHANGED active

\* The task ends: its waiter is dropped, its slot is free again.
Finish(c, d) ==
  /\ client' = [client EXCEPT ![c] = Idle(client[c].profile, "done")]
  /\ desk' = Dropped(d, c)
  /\ active' = active - 1

\* ensure_policy_generation: go on as x, unless the policy on disk is another
\* than the request was made under.
Ensure(c, x, d) ==
  /\ policy' = store
  /\ IF store.gen = client[c].gen THEN Proceed(c, x, d) ELSE Finish(c, d)

\* insert_pending, and where the task goes then.
Insert(c, phase, x) ==
  LET d == Current(desk, store) IN
  IF Full(d, c) THEN Finish(c, d) /\ policy' = store
  ELSE Ensure(c, [x EXCEPT !.waits = TRUE],
         [d EXCEPT ![c] = [entry |-> [phase |-> phase, gen |-> client[c].gen,
                                      decided |-> FALSE],
                           events |-> <<>>]])
-----------------------------------------------------------------------------
(* A task.                                                                 *)

At(c, at) == client[c].at = at
To(c, at) == [client[c] EXCEPT !.at = at]
Step == UNCHANGED <<store, profiles, vault, control, ui>>

Alive == {c \in Client : client[c].at \in Awaiting \cup Running}

\* accept_loop: a slot is free, or the connection is closed.
Accept(c) ==
  /\ At(c, "new") /\ service.loop = "accepting"
  /\ IF Cardinality(Alive) < MaxConnections
     THEN client' = [client EXCEPT ![c].at = "accepted"] /\ active' = active + 1
     ELSE client' = [client EXCEPT ![c].at = "done"] /\ UNCHANGED active
  /\ Step /\ UNCHANGED <<policy, desk>>

\* The client names a route; the policy of this moment is the request's.
Request(c) ==
  /\ At(c, "accepted")
  /\ policy' = store
  /\ Proceed(c, [To(c, "authorize") EXCEPT !.level = store.level,
                                           !.gen = store.gen],
             Current(desk, store))
  /\ Step

\* authorize: the standard level asks nothing; the others show a request.
Authorize(c) ==
  /\ At(c, "authorize")
  /\ CASE client[c].level = "Standard" ->
            Ensure(c, To(c, "approved"), Current(desk, store))
       [] client[c].level = "RequireApproval" ->
            Insert(c, "AwaitingApproval", To(c, "asked"))
       [] client[c].level = "RequireSystemAuth" ->
            Insert(c, "AwaitingSystemAuth", To(c, "asked"))
  /\ Step

\* The platform cannot authenticate the user.
Unsupported(c) ==
  /\ At(c, "authorize") /\ client[c].level = "RequireSystemAuth"
  /\ Finish(c, desk)
  /\ Step /\ UNCHANGED policy

Grants(level, e) ==
  \/ level = "RequireApproval" /\ e = "Approve"
  \/ level = "RequireSystemAuth" /\ e = "SystemAuthVerified"

\* An event arrives; the policy is read again before it is believed.
Decided(c) ==
  LET e == Head(desk[c].events)
      d == [Current(desk, store) EXCEPT ![c].events = Tail(@)]
  IN /\ At(c, "asked") /\ desk[c].events # <<>>
     /\ IF Grants(client[c].level, e) THEN Ensure(c, To(c, "approved"), d)
        ELSE policy' = store /\ Finish(c, d)
     /\ Step

\* Every 200 ms while it waits.
PolicyTick(c) ==
  /\ client[c].at \in {"asked", "vault"}
  /\ Ensure(c, client[c], Current(desk, store))
  /\ Step

\* connect_after_authorization subscribes to changes of the secrets.
Subscribe(c) ==
  /\ At(c, "approved")
  /\ Ensure(c, [To(c, "loop") EXCEPT !.seen = vault.gen], Current(desk, store))
  /\ Step

Loop(c) ==
  /\ At(c, "loop")
  /\ Ensure(c, To(c, "read"), Current(desk, store))
  /\ Step

\* The snapshot: the host may be gone, its credentials locked.
Read(c) ==
  /\ At(c, "read")
  /\ IF client[c].profile \notin profiles THEN Finish(c, desk)
     ELSE Proceed(c, To(c, IF vault.open THEN "ready" ELSE "locked"), desk)
  /\ Step /\ UNCHANGED policy

\* Mutant of Connect: the policy is not read once more.
ConnectUnchecked(c) ==
  /\ At(c, "ready")
  /\ Proceed(c, [To(c, "connecting") EXCEPT !.waits = FALSE, !.unlocking = FALSE],
             Dropped(desk, c))
  /\ Step /\ UNCHANGED policy

\* Credentials are ready: the waiter is dropped, the connection begins.
Connect(c) ==
  /\ At(c, "ready")
  /\ Ensure(c, [To(c, "connecting") EXCEPT !.waits = FALSE, !.unlocking = FALSE],
            Dropped(Current(desk, store), c))
  /\ Step

Connected(c) ==
  /\ At(c, "connecting")
  /\ Proceed(c, To(c, "active"), desk)
  /\ Step /\ UNCHANGED policy

\* The vault was locked after all, or again.
VaultLockedError(c) ==
  /\ At(c, "connecting") /\ ~vault.open
  /\ Proceed(c, To(c, "locked"), desk)
  /\ Step /\ UNCHANGED policy

\* Mutant of AwaitUnlock: the changes so far are taken for known.
AwaitUnlockForgetful(c) ==
  /\ At(c, "locked") /\ client[c].waits
  /\ Proceed(c, [To(c, "vault") EXCEPT !.unlocking = TRUE, !.seen = vault.gen],
             [desk EXCEPT ![c].entry.phase = "AwaitingVaultUnlock"])
  /\ Step /\ UNCHANGED policy

\* The entry the request has goes on to the vault, if it is still there.
Transition(c, x) ==
  IF desk[c].entry = None THEN Finish(c, desk)
  ELSE Proceed(c, x, [desk EXCEPT ![c].entry.phase = "AwaitingVaultUnlock"])

\* The request is shown as waiting for the vault, by the entry it has or a new one.
AwaitUnlock(c) ==
  LET x == [To(c, "vault") EXCEPT !.unlocking = TRUE] IN
  /\ At(c, "locked")
  /\ IF client[c].unlocking THEN Proceed(c, x, desk) /\ UNCHANGED policy
     ELSE IF ~client[c].waits THEN Insert(c, "AwaitingVaultUnlock", x)
     ELSE Transition(c, x) /\ UNCHANGED policy
  /\ Step

\* No event lets a request go on while it waits for the vault.
VaultEvent(c) ==
  /\ At(c, "vault") /\ desk[c].events # <<>>
  /\ Finish(c, desk)
  /\ Step /\ UNCHANGED policy

\* credentials_generation.changed(), and has_changed() before the first wait.
SecretsChanged(c) ==
  /\ At(c, "vault") /\ client[c].seen # vault.gen
  /\ Proceed(c, [To(c, "loop") EXCEPT !.seen = vault.gen], desk)
  /\ Step /\ UNCHANGED policy

\* Mutant of Fails: the vault is waited for without a deadline.
FailsButVault(c) ==
  /\ client[c].at \in {"asked", "connecting"} \cup Running
  /\ Finish(c, desk)
  /\ Step /\ UNCHANGED policy

\* Deadlines, an unreadable policy, invalid credentials, a failing connection.
Fails(c) ==
  /\ client[c].at \in {"asked", "vault", "connecting"} \cup Running
  /\ Finish(c, desk)
  /\ Step /\ UNCHANGED policy

\* The client leaves, misbehaves or is too slow to name a route.
Leave(c) ==
  /\ client[c].at \in Awaiting
  /\ Finish(c, desk)
  /\ Step /\ UNCHANGED policy

\* wait_for_bridge_cancellation
Stopped(c) ==
  /\ client[c].at \in Awaiting /\ service.cancel
  /\ Finish(c, desk)
  /\ Step /\ UNCHANGED policy
-----------------------------------------------------------------------------
(* The service: reconcile_desired_state under the operation lock.          *)

\* The accept loop stops accepting ...
StopAccepting ==
  /\ service.loop = "accepting" /\ service.cancel
  /\ service' = [service EXCEPT !.loop = "draining"]
  /\ UNCHANGED <<bridge, profiles, vault, op, ui>>

\* ... and waits for its clients.
Drained ==
  /\ service.loop = "draining" /\ Alive = {}
  /\ service' = [service EXCEPT !.loop = "ended"]
  /\ UNCHANGED <<bridge, profiles, vault, op, ui>>

\* After seven seconds their tasks are aborted where they await; they do not
\* come to count themselves out.
Abort ==
  /\ service.loop = "draining" /\ Alive # {}
  /\ \A c \in Alive : client[c].at \in Awaiting
  /\ service' = [service EXCEPT !.loop = "ended"]
  /\ client' = [c \in Client |->
                  IF c \in Alive THEN Idle(client[c].profile, "done") ELSE client[c]]
  /\ desk' = [c \in Client |-> IF c \in Alive THEN NoMail ELSE desk[c]]
  /\ UNCHANGED <<store, policy, active, profiles, vault, op, ui>>

TakeLock ==
  /\ op.at = "idle" /\ op.queued > 0
  /\ op' = [op EXCEPT !.at = "load", !.queued = @ - 1]
  /\ UNCHANGED <<bridge, profiles, vault, service, ui>>

\* Mutant of LoadDesired: the accept loop is not told to stop.
LoadDesiredUntold ==
  LET on == service.desired
      idle == service.status \in (IF on THEN {"Starting", "Running"} ELSE {"Disabled"})
  IN /\ op.at = "load"
     /\ op' = [op EXCEPT !.wants = on,
                         !.at = IF idle THEN "compare" ELSE IF on THEN "bind"
                                ELSE "withdraw"]
     /\ service' = IF idle THEN service
                   ELSE [service EXCEPT !.status = IF on THEN "Starting" ELSE "Stopping"]
     /\ UNCHANGED <<bridge, profiles, vault, ui>>

\* start_locked and stop_locked return at once where they have nothing to do.
LoadDesired ==
  LET on == service.desired
      idle == service.status \in (IF on THEN {"Starting", "Running"} ELSE {"Disabled"})
  IN /\ op.at = "load"
     /\ op' = [op EXCEPT !.wants = on,
                         !.at = IF idle THEN "compare" ELSE IF on THEN "bind"
                                ELSE "withdraw"]
     /\ service' = IF idle THEN service
                   ELSE IF on THEN [service EXCEPT !.status = "Starting"]
                   ELSE [service EXCEPT !.status = "Stopping",
                                        !.cancel = @ \/ service.loop # "none"]
     /\ UNCHANGED <<bridge, profiles, vault, ui>>

\* Bind, generate the host identity, spawn the accept loop.
Bind ==
  /\ op.at = "bind"
  /\ op' = [op EXCEPT !.at = "compare"]
  /\ \/ service' = [service EXCEPT !.loop = "accepting", !.cancel = FALSE,
                                   !.status = "Running"]
     \/ service' = [service EXCEPT !.status = "Error"]
  /\ UNCHANGED <<bridge, profiles, vault, ui>>

WithdrawAll ==
  /\ op.at = "withdraw"
  /\ op' = [op EXCEPT !.at = "join"]
  /\ desk' = Withdrawn(desk, Shown(desk), "ServiceStopping")
  /\ UNCHANGED <<store, policy, client, active, profiles, vault, service, ui>>

\* Mutant of Join: the accept loop is not waited for.
JoinNothing ==
  /\ op.at = "join"
  /\ op' = [op EXCEPT !.at = "compare"]
  /\ service' = [service EXCEPT !.loop = "none", !.cancel = FALSE,
                                !.status = "Disabled"]
  /\ active' = 0
  /\ UNCHANGED <<store, policy, desk, client, profiles, vault, ui>>

\* Mutant of Join: the count is left to the tasks.
JoinUncounted ==
  /\ op.at = "join" /\ service.loop \in {"none", "ended"}
  /\ op' = [op EXCEPT !.at = "compare"]
  /\ service' = [service EXCEPT !.loop = "none", !.cancel = FALSE,
                                !.status = "Disabled"]
  /\ UNCHANGED <<bridge, profiles, vault, ui>>

\* The accept loop has ended: the count of connections is reset.
Join ==
  /\ op.at = "join" /\ service.loop \in {"none", "ended"}
  /\ op' = [op EXCEPT !.at = "compare"]
  /\ service' = [service EXCEPT !.loop = "none", !.cancel = FALSE,
                                !.status = "Disabled"]
  /\ active' = 0
  /\ UNCHANGED <<store, policy, desk, client, profiles, vault, ui>>

\* Once more, if the wish has changed meanwhile.
Compare ==
  /\ op.at = "compare"
  /\ op' = [op EXCEPT !.at = IF service.desired = op.wants THEN "idle" ELSE "load"]
  /\ UNCHANGED <<bridge, profiles, vault, service, ui>>
-----------------------------------------------------------------------------
(* The user interface, one thread, and another instance of the application. *)

Changes ==
  /\ ui.at = "idle" /\ ui.changes < ui.scenario.changes

\* set_desired_enabled and a task that reconciles.
Toggle ==
  /\ Changes
  /\ ui' = [ui EXCEPT !.changes = @ + 1]
  /\ service' = [service EXCEPT !.desired = ~@]
  /\ op' = [op EXCEPT !.queued = @ + 1]
  /\ UNCHANGED <<bridge, profiles, vault>>

\* refresh_routes: a host somebody asks for is deleted or saved again and the
\* snapshot replaced, ...
RefreshRoutes ==
  /\ Changes
  /\ \E c \in DOMAIN ui.scenario.clients :
       LET p == client[c].profile IN
       profiles' = IF p \in profiles THEN profiles \ {p} ELSE profiles \cup {p}
  /\ ui' = [ui EXCEPT !.at = "withdraw", !.changes = @ + 1]
  /\ UNCHANGED <<bridge, vault, control>>

\* ... requests for deleted hosts are withdrawn, ...
WithdrawMissing ==
  /\ ui.at = "withdraw"
  /\ ui' = [ui EXCEPT !.at = "publish"]
  /\ desk' = Withdrawn(desk, {c \in Shown(desk) : client[c].profile \notin profiles},
                       "ProfileUnavailable")
  /\ UNCHANGED <<store, policy, client, active, profiles, vault, control>>

\* ... and the counts are published: publish_running reads the status ...
PublishRunning ==
  /\ ui.at = "publish"
  /\ ui' = [ui EXCEPT !.at = IF service.status \in {"Running", "Starting"}
                             THEN "send" ELSE "idle"]
  /\ UNCHANGED <<bridge, profiles, vault, control>>

\* ... and replaces it.
SendRunning ==
  /\ ui.at = "send"
  /\ ui' = [ui EXCEPT !.at = "idle"]
  /\ service' = [service EXCEPT !.status = "Running"]
  /\ UNCHANGED <<bridge, profiles, vault, op>>

\* set_security_policy
SetPolicy(l) ==
  LET p == [level |-> l, gen |-> store.gen + 1] IN
  /\ ui.at = "idle" /\ store.gen < ui.scenario.policies
  /\ store' = p /\ policy' = p
  /\ desk' = Current(desk, p)
  /\ UNCHANGED <<client, active, profiles, vault, control, ui>>

\* Another instance writes the policy.
OtherInstance(l) ==
  /\ store.gen < ui.scenario.policies
  /\ store' = [level |-> l, gen |-> store.gen + 1]
  /\ UNCHANGED <<policy, desk, client, active, profiles, vault, control, ui>>

\* resolve_pending: one decision for an entry, and one that fits its phase.
Fits(phase, e) ==
  \/ phase = "AwaitingApproval" /\ e \in {"Approve", "Reject"}
  \/ phase = "AwaitingSystemAuth" /\ e \in {"SystemAuthVerified", "Reject"}

Decide(c, e) ==
  /\ ui.at = "idle"
  /\ c \in Shown(desk) /\ ~desk[c].entry.decided
  /\ Fits(desk[c].entry.phase, e)
  /\ desk' = [desk EXCEPT ![c].entry.decided = TRUE, ![c].events = Append(@, e)]
  /\ client' = IF e = "Reject" THEN client
               ELSE [client EXCEPT ![c].allowed = desk[c].entry.gen + 1]
  /\ UNCHANGED <<store, policy, active, profiles, vault, control, ui>>

\* cancel_pending_request, which the page offers while the vault is waited for.
CancelRequest(c) ==
  /\ ui.at = "idle"
  /\ c \in Shown(desk) /\ desk[c].entry.phase = "AwaitingVaultUnlock"
  /\ desk' = Withdrawn(desk, {c}, "UserCancelled")
  /\ client' = [client EXCEPT ![c].cancelled = TRUE]
  /\ UNCHANGED <<store, policy, active, profiles, vault, control, ui>>

\* replace_secrets
ReplaceSecrets ==
  /\ ui.at = "idle" /\ vault.gen < ui.scenario.secrets
  /\ \E open \in BOOLEAN : vault' = [open |-> open, gen |-> vault.gen + 1]
  /\ UNCHANGED <<bridge, profiles, control, ui>>
-----------------------------------------------------------------------------
Serving(c) ==
  \/ Request(c) \/ Authorize(c) \/ Decided(c) \/ PolicyTick(c) \/ Subscribe(c)
  \/ Loop(c) \/ Read(c) \/ Connect(c) \/ Connected(c) \/ AwaitUnlock(c)
  \/ VaultEvent(c) \/ SecretsChanged(c) \/ Stopped(c)

ServiceStep ==
  \/ StopAccepting \/ Drained \/ Abort
  \/ TakeLock \/ LoadDesired \/ Bind \/ WithdrawAll \/ Join \/ Compare

PublishStep == WithdrawMissing \/ PublishRunning \/ SendRunning

UserStep ==
  \/ Toggle \/ RefreshRoutes \/ ReplaceSecrets
  \/ \E l \in ui.scenario.levels : SetPolicy(l) \/ OtherInstance(l)
  \/ \E c \in Client : CancelRequest(c) \/ \E e \in Decision : Decide(c, e)

Next ==
  \/ \E c \in Client : \/ Accept(c) \/ Serving(c) \/ Unsupported(c)
                       \/ VaultLockedError(c) \/ Fails(c) \/ Leave(c)
  \/ ServiceStep \/ PublishStep \/ UserStep

Spec == Init /\ [][Next]_vars

\* Tasks are scheduled, what they wait for ends by a deadline (Fails), and the
\* service and the user interface finish what they began.
FairSpec ==
  /\ Spec
  /\ \A c \in Client :
       /\ WF_vars(Serving(c))
       /\ WF_vars(Fails(c) /\ client[c].at \in {"asked", "vault", "connecting"})
  /\ WF_vars(ServiceStep) /\ WF_vars(PublishStep)
-----------------------------------------------------------------------------
(* Correctness.                                                            *)

\* When a connection to a host begins the policy on disk, whoever wrote it,
\* asks for no consent or the user consented to this very request under this
\* very policy, whatever changed between the consent and the connection.
ConnectsWithConsent ==
  [][\A c \in Client :
       ~At(c, "connecting") /\ client'[c].at = "connecting" =>
         store.level = "Standard" \/ client[c].allowed = store.gen + 1]_vars

\* A task that waits can be answered: its entry is on the page, or the event
\* that took it from there is on its way.  And the user may answer what is
\* there: no entry outlives its task, and each belongs to the policy in force,
\* although tasks insert entries while the user replaces the policy.
\* At most eight entries are pending, four of one host.
Answerable ==
  \A c \in Client :
    /\ client[c].at \in {"asked", "vault"} =>
         desk[c].entry # None \/ desk[c].events # <<>>
    /\ desk[c].entry # None =>
         /\ client[c].waits /\ c \in Alive
         /\ At(c, "vault") => desk[c].entry.phase = "AwaitingVaultUnlock"
         /\ At(c, "asked") => desk[c].entry.phase # "AwaitingVaultUnlock"
         /\ desk[c].entry.gen = policy.gen
    /\ Cardinality(Shown(desk)) <= MaxPending
    /\ Cardinality({b \in Shown(desk) : client[b].profile = client[c].profile})
         <= MaxPerProfile

\* No unlocking is lost: a task that waits for the vault while the vault is
\* open has not yet been woken by the change that opened it.
NoLostUnlock ==
  \A c \in Client : At(c, "vault") /\ vault.open => client[c].seen # vault.gen

\* Once the accept loop has ended no task serves a client and no request is
\* pending; the count of connections is right whenever the bridge accepts, and
\* nothing is left of it when the bridge is off.
StoppedIsQuiet ==
  /\ service.loop \in {"none", "ended"} => Alive = {} /\ Shown(desk) = {}
  /\ service.loop = "accepting" => active = Cardinality(Alive)
  /\ service.status = "Disabled" => active = 0

\* Every request is answered: it leads to a connection or ends.
RequestsEnd ==
  \A c \in Client :
    c \in Alive /\ ~At(c, "accepted") ~> client[c].at \in {"active", "done"}

\* The last wish counts: a bridge that is switched off stops listening,
\* whatever was under way when it was.
StopsListening == ~service.desired ~> (service.desired \/ service.loop = "none")

\* A request the user cancelled, and was told is cancelled, never connects.
CancelledNeverConnects ==
  [][\A c \in Client :
       ~At(c, "connecting") /\ client'[c].at = "connecting" =>
         ~client[c].cancelled]_vars

\* What the settings page shows is so, when no switching is under way.
StatusIsTrue ==
  op.at = "idle" /\ op.queued = 0 =>
    (service.status = "Running" <=> service.loop = "accepting")
=============================================================================
