----------------------------- MODULE SyncEngine -----------------------------
(***************************************************************************)
(* The synchronisation engine of crates/miaominal-sync: several devices    *)
(* push their encrypted data to, and pull it from, one remote file (a      *)
(* WebDAV resource or a GitHub Gist) that offers nothing but GET, PUT and  *)
(* entity tags.  Each device keeps a baseline, the content recorded by its *)
(* last successful synchronisation, and decides by comparing local, remote *)
(* and baseline content.                                                   *)
(*                                                                         *)
(* An engine operation is one async function.  Here it is a record that    *)
(* moves from phase to phase at the points where the function awaits the   *)
(* network; between two of its phases the user edits data or settings,     *)
(* other devices write, replies get lost and processes crash.              *)
(*                                                                         *)
(* A content revision is the hash of the content, so content is its own    *)
(* revision.  A remote version stands for the strong entity tag of one     *)
(* stored representation, and the version an upload creates also stands    *)
(* for the fresh payload id inside it.                                     *)
(***************************************************************************)
EXTENDS Naturals, Integers, FiniteSets

CONSTANTS
  Device,       \* installations that share a remote
  Resource,     \* the WebDAV URLs or Gist ids a device may be pointed at
  Data,         \* contents a user can produce
  Passphrase,   \* sync passphrases
  Setups,       \* what to consider: a remote, and what its users may do
  Nothing,      \* Option::None for a content
  Unbound,      \* a Gist configuration without a Gist id
  Torn,         \* a half-applied, half-restored mixture of local stores
  MaxVersion,   \* bound: representations the remote ever stores
  MaxFaults     \* bound: crashes, failed applications and late uploads

Content == Data \cup {Torn}
Version == 1..MaxVersion
PushMode == {"Automatic", "Manual", "Force"}
Setup == [
  provider : {"WebDav", "GithubGist"},
  server : {"strong",     \* tags and preconditions work
            "untagged",   \* no usable tags
            "rejecting"}, \* tags, but 412 to every conditional write
  consent : BOOLEAN,      \* the user accepts unconditional automatic writes
  unsupported : BOOLEAN,  \* the last probe proved preconditions do not work
  users : SUBSET Device,  \* the devices in use, the contents and passphrases
  contents : SUBSET Data, \* they may have,
  keys : SUBSET Passphrase,
  pushModes : SUBSET PushMode, \* the modes of push and pull in use,
  pullModes : SUBSET PushMode,
  meddling : SUBSET {"retag", "remove"}, \* what others do to the remote,
  versions : Nat, mishaps : Nat] \* and bounds of versions and faults of its own
AnyVersion == -1                \* PushCondition::Unconditional; 0: MustNotExist

ASSUME ConstantsAssumption ==
  /\ MaxVersion \in Nat /\ MaxFaults \in Nat
  /\ Nothing \notin Content /\ Unbound \notin Resource
  /\ Setups \subseteq Setup
  /\ Passphrase # {} /\ Nothing \notin Passphrase

VARIABLES
  setup,    \* the provider, its server, the consent, the uses: they do not change
  local,    \* content of each device's stores
  pass,     \* passphrase in each device's credential store
  pend,     \* the previous passphrase while its change is not in the config yet
  cfg,      \* persisted sync configuration
  op,       \* the engine operation holding the process's sync lock
  made,     \* versions the remote has created
  body,     \* what each of them holds: every one ever, not only the current
  remote,   \* current version of each resource, 0 when there is none
  wire,     \* uploads on the network
  faults    \* faults so far

deviceVars == <<setup, local, pass, pend>>
serverVars == <<setup, made, body, remote>>
vars == <<setup, local, pass, pend, cfg, op, made, body, remote, wire, faults>>

Outcome == {"none", "UpToDate", "Pushed", "Pulled", "Missing", "Updated",
            "RemoteBindingRequired", "Error", "CapabilityError",
            "RemoteChangedBeforePush", "BothSidesChanged",
            "MissingSyncBaseline", "UnsafeProviderWrite",
            "LocalChangedDuringPull", "SyncConfigurationChanged"}

Payload == [pid : 0..MaxVersion, data : Content, key : Passphrase,
            res : Resource \cup {Unbound}]

Config == [target : Resource \cup {Unbound}, etag : 0..MaxVersion,
           pid : 0..MaxVersion, base : Content \cup {Nothing}]

Operation == [kind : {"none", "push", "pull", "poll"},
              mode : PushMode \cup {"none"},
              phase : {"idle", "get", "answered", "put", "written", "refused",
                       "done"},
              res : Resource \cup {Unbound}, \* the remote it talks to
              inm : 0..MaxVersion,           \* If-None-Match it sent
              expected : Content \cup {Nothing},
              seen : 0..MaxVersion,          \* the version the GET answered
              cond : AnyVersion..MaxVersion, \* precondition of its upload
              put : 0..MaxVersion,           \* the version its upload created
              tag : 0..MaxVersion,           \* the tag returned for it
              moved : BOOLEAN, \* config_revision advanced since it was captured
              result : Outcome]

Idle == [kind |-> "none", mode |-> "none", phase |-> "idle", res |-> Unbound,
         inm |-> 0, expected |-> Nothing, seen |-> 0, cond |-> 0, put |-> 0,
         tag |-> 0, moved |-> FALSE, result |-> "none"]

Upload == [dev : Device, res : Resource \cup {Unbound},
           cond : AnyVersion..MaxVersion, data : Content, key : Passphrase,
           mode : PushMode,
           seen : 0..MaxVersion,             \* history: the version compared,
           base : Content \cup {Nothing},    \* history: and with what baseline
           live : BOOLEAN]                   \* the operation still awaits it

TypeOK ==
  /\ setup \in Setup
  /\ local \in [Device -> Content]
  /\ pass \in [Device -> Passphrase]
  /\ pend \in [Device -> Passphrase \cup {Nothing}]
  /\ cfg \in [Device -> Config]
  /\ op \in [Device -> Operation]
  /\ made \in 0..MaxVersion
  /\ body \in [Version -> Payload]
  /\ remote \in [Resource -> 0..MaxVersion]
  /\ wire \subseteq Upload
  /\ faults \in 0..MaxFaults

NoPayload(r) == [pid |-> 0, data |-> Torn, key |-> CHOOSE k \in Passphrase : TRUE,
                 res |-> r]

\* Devices start with data of their own, never synchronised.
Init ==
  /\ setup \in Setups
  /\ local \in [Device -> Content] /\ pass \in [Device -> Passphrase]
  /\ \A d \in Device :
       IF d \in setup.users
       THEN local[d] \in setup.contents /\ pass[d] \in setup.keys
       ELSE local[d] = Torn /\ pass[d] = CHOOSE k \in Passphrase : TRUE
  /\ pend = [d \in Device |-> Nothing]
  /\ \E t \in IF setup.provider = "WebDav" THEN Resource ELSE {Unbound} :
       cfg = [d \in Device |->
                [target |-> t, etag |-> 0, pid |-> 0, base |-> Nothing]]
  /\ op = [d \in Device |-> Idle]
  /\ made = 0
  /\ body = [v \in Version |-> NoPayload(Unbound)]
  /\ remote = [r \in Resource |-> 0]
  /\ wire = {}
  /\ faults = 0
-----------------------------------------------------------------------------
(* What an operation knows once its GET is answered.                       *)

\* Three-way relationship between local, remote and baseline content.
Relation(l, r, b) ==
  IF l = r THEN "Identical"
  ELSE IF b = Nothing THEN "MissingBaseline"
  ELSE IF l # b THEN (IF r = b THEN "LocalChanged" ELSE "Diverged")
  ELSE "RemoteChanged"

ManualWebDav(m) == m # "Automatic" /\ setup.provider = "WebDav"
UnsafeWrite(m) == m = "Automatic" /\ setup.provider = "WebDav" /\ setup.consent

\* Automatic WebDAV requests insist on strong validators.
Strict(m) == m = "Automatic" /\ setup.provider = "WebDav" /\ ~setup.consent

\* The entity tag a response carries for version v; 0 when it carries none.
Tag(v) == IF setup.server = "untagged" THEN 0 ELSE v

HasPayload(v) == v \in Version /\ body[v].pid # 0
NotModified(d) == op[d].inm # 0 /\ op[d].seen = op[d].inm
Fetched(d) == HasPayload(op[d].seen) /\ ~NotModified(d)
Current(d) == Fetched(d) /\ body[op[d].seen].pid = cfg[d].pid
Changed(d) == Fetched(d) /\ body[op[d].seen].pid # cfg[d].pid
Readable(d) == Fetched(d) /\ body[op[d].seen].key = pass[d]
Same(d) == Readable(d) /\ body[op[d].seen].data = local[d]

\* The answer is in and the configuration is still the one the request used.
Settled(d, kind) ==
  op[d].phase = "answered" /\ op[d].kind = kind /\ ~op[d].moved

\* Mutant of Refreshed: the tag of any fetched payload is stored.
RefreshedByAnyPayload(d) ==
  IF Fetched(d) THEN [cfg[d] EXCEPT !.etag = Tag(op[d].seen)] ELSE cfg[d]

\* A known payload under a new tag only refreshes the stored tag.
Refreshed(d) ==
  IF Current(d) THEN [cfg[d] EXCEPT !.etag = Tag(op[d].seen)] ELSE cfg[d]

\* The configuration after synchronising with the payload of version v.
Synced(d, v, tag) ==
  [cfg[d] EXCEPT !.etag = tag, !.pid = body[v].pid, !.base = body[v].data]

Return(d, outcome) ==
  op' = [op EXCEPT ![d] = [Idle EXCEPT !.phase = "done", !.result = outcome]]

SetConfig(d, c) == cfg' = [cfg EXCEPT ![d] = c]

Fault ==
  /\ faults < MaxFaults /\ faults < setup.mishaps
  /\ faults' = faults + 1
-----------------------------------------------------------------------------
(* Starting an operation.  The process-wide sync lock is taken: a device   *)
(* has one operation at a time.                                            *)

Begin(d, kind, mode, conditional, expected) ==
  /\ op[d].phase = "idle"
  /\ op' = [op EXCEPT ![d] =
              [Idle EXCEPT !.kind = kind, !.mode = mode, !.phase = "get",
                 !.res = cfg[d].target, !.expected = expected,
                 !.inm = IF conditional /\ cfg[d].base # Nothing
                         THEN cfg[d].etag ELSE 0]]
  /\ UNCHANGED <<deviceVars, cfg, serverVars, wire, faults>>

BeginPush(d) ==
  \E m \in PushMode :
    /\ m \in setup.pushModes
    /\ Begin(d, "push", m, ~ManualWebDav(m) /\ ~UnsafeWrite(m), Nothing)

\* pull_if_unchanged ("Automatic"), pull ("Manual") and pull_force.
BeginPull(d) ==
  \E m \in PushMode :
    m \in setup.pullModes /\ Begin(d, "pull", m, FALSE, local[d])

BeginPoll(d) == Begin(d, "poll", "Automatic", ~UnsafeWrite("Automatic"), Nothing)

\* The GET is answered.  Without a Gist id no request is sent at all.
GetAnswered(d) ==
  LET r == op[d].res
      v == IF r = Unbound THEN 0 ELSE remote[r]
      rejected == (setup.provider = "GithubGist" /\ r # Unbound /\ v = 0)
      unversioned == Strict(op[d].mode) /\ v # 0 /\ Tag(v) = 0
  IN /\ op[d].phase = "get"
     /\ IF rejected THEN Return(d, "Error")
        ELSE IF unversioned THEN Return(d, "CapabilityError")
        ELSE op' = [op EXCEPT ![d] = [@ EXCEPT !.phase = "answered", !.seen = v]]
     /\ UNCHANGED <<deviceVars, cfg, serverVars, wire, faults>>

\* Mutant of ConfigMoved: ask again until the configuration holds still.
ConfigMovedRetries(d) ==
  /\ op[d].phase = "answered" /\ op[d].moved
  /\ op' = [op EXCEPT ![d] = [@ EXCEPT !.phase = "get", !.moved = FALSE]]
  /\ UNCHANGED <<deviceVars, cfg, serverVars, wire, faults>>

\* The configuration changed under the request: the check after the GET fails,
\* or, when the change falls behind that check, recording the outcome does.
ConfigMoved(d) ==
  /\ op[d].phase = "answered" /\ op[d].moved
  /\ \E outcome \in {"Error", "SyncConfigurationChanged"} : Return(d, outcome)
  /\ UNCHANGED <<deviceVars, cfg, serverVars, wire, faults>>

\* remote_state: nothing is applied, at most the stored tag is refreshed.
EndPoll(d) ==
  LET unread == Changed(d) /\ cfg[d].base # Nothing /\ ~Readable(d)
      updated == Changed(d) \/ (Current(d) /\ cfg[d].base = Nothing)
  IN /\ Settled(d, "poll")
     /\ SetConfig(d, Refreshed(d))
     /\ Return(d, IF op[d].res = Unbound THEN "RemoteBindingRequired"
                  ELSE IF ~HasPayload(op[d].seen) THEN "Missing"
                  ELSE IF unread THEN "Error"
                  ELSE IF updated THEN "Updated" ELSE "UpToDate")
     /\ UNCHANGED <<deviceVars, serverVars, wire, faults>>
-----------------------------------------------------------------------------
(* Push: what the three-way comparison makes of the answer.                *)

Forced(d) == op[d].mode = "Force"

\* Mutant of PushUpToDate: an unchanged remote is taken for an unchanged device.
PushUpToDateIfRemoteUnchanged(d) ==
  /\ Settled(d, "push") /\ ~Forced(d)
  /\ NotModified(d) \/ Current(d)
  /\ SetConfig(d, Refreshed(d))
  /\ Return(d, "UpToDate")
  /\ UNCHANGED <<deviceVars, serverVars, wire, faults>>

PushUpToDate(d) ==
  /\ Settled(d, "push") /\ ~Forced(d)
  /\ NotModified(d) \/ Current(d)
  /\ cfg[d].base = local[d]
  /\ SetConfig(d, Refreshed(d))
  /\ Return(d, "UpToDate")
  /\ UNCHANGED <<deviceVars, serverVars, wire, faults>>

\* The remote already holds the local content: record that, upload nothing.
PushAcknowledge(d) ==
  /\ Settled(d, "push") /\ ~Forced(d)
  /\ Changed(d) \/ (Current(d) /\ cfg[d].base = Nothing)
  /\ Same(d)
  /\ SetConfig(d, Synced(d, op[d].seen, Tag(op[d].seen)))
  /\ Return(d, "UpToDate")
  /\ UNCHANGED <<deviceVars, serverVars, wire, faults>>

RemoteRelation(d) == Relation(local[d], body[op[d].seen].data, cfg[d].base)

\* Why a fetched payload needs the user.
Intervention(d, reason) ==
  \/ /\ reason = "MissingSyncBaseline"
     /\ Fetched(d) /\ cfg[d].base = Nothing /\ ~Same(d)
  \/ /\ reason = "RemoteChangedBeforePush"
     /\ Changed(d) /\ Readable(d) /\ RemoteRelation(d) = "RemoteChanged"
  \/ /\ reason = "BothSidesChanged"
     /\ Changed(d) /\ Readable(d) /\ RemoteRelation(d) = "Diverged"

PushIntervene(d) ==
  /\ Settled(d, "push") /\ ~Forced(d)
  /\ \E reason \in Outcome : Intervention(d, reason) /\ Return(d, reason)
  /\ SetConfig(d, Refreshed(d))
  /\ UNCHANGED <<deviceVars, serverVars, wire, faults>>

PushUnreadable(d) ==
  /\ Settled(d, "push") /\ ~Forced(d)
  /\ Changed(d) /\ ~Readable(d) /\ cfg[d].base # Nothing
  /\ Return(d, "Error")
  /\ UNCHANGED <<deviceVars, cfg, serverVars, wire, faults>>

\* Mutant of MayUpload: any payload that can be read may be replaced.
MayUploadOverReadable(d) ==
  \/ Forced(d)
  \/ ~HasPayload(op[d].seen)
  \/ NotModified(d) /\ cfg[d].base # local[d]
  \/ Current(d) /\ cfg[d].base \notin {Nothing, local[d]}
  \/ Changed(d) /\ Readable(d)

\* The comparison lets the local content go out.
MayUpload(d) ==
  \/ Forced(d)
  \/ ~HasPayload(op[d].seen)
  \/ NotModified(d) /\ cfg[d].base # local[d]
  \/ Current(d) /\ cfg[d].base \notin {Nothing, local[d]}
  \/ Changed(d) /\ Readable(d) /\ RemoteRelation(d) = "LocalChanged"

DropsPrecondition(d) == UnsafeWrite(op[d].mode) /\ setup.unsupported

\* The precondition the comparison leads to; an untagged payload yields none.
Condition(d) ==
  LET o == op[d] IN
  IF \/ ManualWebDav(o.mode) \/ DropsPrecondition(d) \/ o.res = Unbound
     \/ HasPayload(o.seen) /\ Tag(o.seen) = 0
  THEN AnyVersion ELSE Tag(o.seen)

\* Automatic WebDAV uploads without a strong precondition need more than consent.
Unconditionable(d) ==
  /\ op[d].mode = "Automatic" /\ setup.provider = "WebDav"
  /\ Condition(d) = AnyVersion /\ ~DropsPrecondition(d)

\* Mutant of Unguarded: Gists are trusted to be guarded.
NeverUnguarded(d) == FALSE

\* A blind write over a payload the provider cannot guard needs the user.
Unguarded(d) ==
  /\ ~ManualWebDav(op[d].mode) /\ ~UnsafeWrite(op[d].mode) /\ ~Forced(d)
  /\ Condition(d) = AnyVersion /\ HasPayload(op[d].seen)

\* A Gist PATCH cannot create a file atomically: no request is made for it.
Uncreatable(d) ==
  setup.provider = "GithubGist" /\ op[d].res # Unbound /\ Condition(d) = 0

PushRefuse(d) ==
  /\ Settled(d, "push") /\ MayUpload(d)
  /\ \/ Unconditionable(d) /\ Return(d, "CapabilityError")
     \/ ~Unconditionable(d) /\ Unguarded(d) /\ Return(d, "UnsafeProviderWrite")
     \/ /\ ~Unconditionable(d) /\ ~Unguarded(d) /\ Uncreatable(d)
        /\ Return(d, "RemoteChangedBeforePush")
  /\ SetConfig(d, Refreshed(d))
  /\ UNCHANGED <<deviceVars, serverVars, wire, faults>>

\* Build the payload from the snapshot and send it.
PushSend(d) ==
  /\ Settled(d, "push") /\ MayUpload(d)
  /\ ~Unconditionable(d) /\ ~Unguarded(d) /\ ~Uncreatable(d)
  /\ wire' = wire \cup
       {[dev |-> d, res |-> op[d].res, cond |-> Condition(d),
         data |-> local[d], key |-> pass[d], mode |-> op[d].mode,
         seen |-> op[d].seen, base |-> cfg[d].base, live |-> TRUE]}
  /\ op' = [op EXCEPT ![d] = [@ EXCEPT !.phase = "put", !.cond = Condition(d)]]
  /\ SetConfig(d, Refreshed(d))
  /\ UNCHANGED <<deviceVars, serverVars, faults>>
-----------------------------------------------------------------------------
(* The remote.                                                             *)

Accepts(u) ==
  \/ u.cond = AnyVersion
  \/ u.res # Unbound /\ setup.server # "rejecting" /\ u.cond = remote[u.res]

\* A POST creates a Gist of its own; PUT and PATCH address the resource.
Destination(u) ==
  IF u.res # Unbound THEN {u.res} ELSE {r \in Resource : remote[r] = 0}

\* An upload arrives.  The reply may leave out the new tag.
Land(u) ==
  /\ made < MaxVersion /\ made < setup.versions
  /\ Accepts(u)
  /\ made' = made + 1
  /\ \E r \in Destination(u), tag \in {0, Tag(made + 1)} :
       /\ body' = [body EXCEPT ![made + 1] =
                     [pid |-> made + 1, data |-> u.data, key |-> u.key,
                      res |-> r]]
       /\ remote' = [remote EXCEPT ![r] = made + 1]
       /\ op' = IF u.live
                THEN [op EXCEPT ![u.dev] =
                        [@ EXCEPT !.phase = "written", !.put = made + 1,
                                  !.tag = tag]]
                ELSE op
  /\ wire' = wire \ {u}
  /\ UNCHANGED <<deviceVars, cfg, faults>>

\* 412: nothing is stored.
Refuse(u) ==
  /\ ~Accepts(u)
  /\ op' = IF u.live THEN [op EXCEPT ![u.dev].phase = "refused"] ELSE op
  /\ wire' = wire \ {u}
  /\ UNCHANGED <<deviceVars, cfg, serverVars, faults>>

\* The server stores the same representation under a new tag.
Retag(r) ==
  /\ "retag" \in setup.meddling
  /\ made < MaxVersion /\ made < setup.versions /\ HasPayload(remote[r])
  /\ made' = made + 1
  /\ body' = [body EXCEPT ![made + 1] = body[remote[r]]]
  /\ remote' = [remote EXCEPT ![r] = made + 1]
  /\ UNCHANGED <<deviceVars, cfg, op, wire, faults>>

\* Somebody removes the WebDAV resource, or the file from the Gist.
RemoveRemote(r) ==
  /\ "remove" \in setup.meddling
  /\ HasPayload(remote[r])
  /\ IF setup.provider = "WebDav"
     THEN remote' = [remote EXCEPT ![r] = 0] /\ UNCHANGED <<made, body>>
     ELSE /\ made < MaxVersion /\ made < setup.versions
          /\ made' = made + 1
          /\ body' = [body EXCEPT ![made + 1] = NoPayload(r)]
          /\ remote' = [remote EXCEPT ![r] = made + 1]
  /\ UNCHANGED <<deviceVars, cfg, op, wire, faults>>
-----------------------------------------------------------------------------
(* Push: the answer to the upload.                                         *)

\* A conditional WebDAV upload is not trusted without the tag it produced.
NeedsVerification(d) ==
  setup.provider = "WebDav" /\ op[d].cond # AnyVersion /\ op[d].tag = 0

VerifyUpload(d) ==
  LET w == remote[op[d].res]
      ours == HasPayload(w) /\ body[w].pid = op[d].put
  IN /\ op[d].phase = "written" /\ NeedsVerification(d)
     /\ \/ HasPayload(w) /\ Tag(w) = 0 /\ Return(d, "CapabilityError")
        \/ ~HasPayload(w) /\ Return(d, "RemoteChangedBeforePush")
        \/ /\ HasPayload(w) /\ Tag(w) # 0 /\ ~ours
           /\ Return(d, "RemoteChangedBeforePush")
        \/ ours /\ Tag(w) # 0 /\ op' = [op EXCEPT ![d].tag = Tag(w)]
     /\ UNCHANGED <<deviceVars, cfg, serverVars, wire, faults>>

\* Mutant of PushRecord: what the stores hold now becomes the baseline.
PushRecordCurrent(d) ==
  LET v == op[d].put IN
  /\ op[d].phase = "written" /\ ~NeedsVerification(d)
  /\ IF op[d].moved
     THEN Return(d, "SyncConfigurationChanged") /\ UNCHANGED cfg
     ELSE /\ Return(d, "Pushed")
          /\ SetConfig(d, [Synced(d, v, op[d].tag) EXCEPT
                             !.target = body[v].res, !.base = local[d]])
  /\ UNCHANGED <<deviceVars, serverVars, wire, faults>>

\* Only the snapshot that was uploaded becomes the baseline.
PushRecord(d) ==
  LET v == op[d].put IN
  /\ op[d].phase = "written" /\ ~NeedsVerification(d)
  /\ IF op[d].moved
     THEN Return(d, "SyncConfigurationChanged") /\ UNCHANGED cfg
     ELSE /\ Return(d, "Pushed")
          /\ SetConfig(d, [Synced(d, v, op[d].tag) EXCEPT !.target = body[v].res])
  /\ UNCHANGED <<deviceVars, serverVars, wire, faults>>

\* Mutant of PushRefused: a 412 is believed.
PushRefusedBelieved(d) ==
  /\ op[d].phase = "refused"
  /\ Return(d, "RemoteChangedBeforePush")
  /\ UNCHANGED <<deviceVars, cfg, serverVars, wire, faults>>

\* After a 412 an automatic WebDAV push asks whether anything changed at all.
PushRefused(d) ==
  LET w == remote[op[d].res]
      strict == Strict(op[d].mode)
      unusable == w # 0 /\ Tag(w) = 0
      unchanged == IF w = 0 THEN op[d].cond = 0 ELSE op[d].cond = Tag(w)
  IN /\ op[d].phase = "refused"
     /\ Return(d, IF strict /\ (unusable \/ unchanged) THEN "CapabilityError"
                  ELSE "RemoteChangedBeforePush")
     /\ UNCHANGED <<deviceVars, cfg, serverVars, wire, faults>>
-----------------------------------------------------------------------------
(* Pull.                                                                   *)

PullNothing(d) ==
  /\ Settled(d, "pull") /\ ~HasPayload(op[d].seen)
  /\ Return(d, IF op[d].res = Unbound THEN "RemoteBindingRequired"
               ELSE "UpToDate")
  /\ UNCHANGED <<deviceVars, cfg, serverVars, wire, faults>>

\* The outcome of a pull that leaves the local stores alone, if there is one.
PullStops(d, outcome) ==
  \/ ~Readable(d) /\ outcome = "Error"
  \/ Readable(d) /\ local[d] # op[d].expected /\ outcome = "LocalChangedDuringPull"
  \/ /\ Readable(d) /\ local[d] = op[d].expected /\ ~Same(d)
     /\ \/ /\ cfg[d].base = Nothing /\ ~Forced(d)
           /\ outcome = "MissingSyncBaseline"
        \/ /\ cfg[d].base # Nothing /\ op[d].mode = "Automatic"
           /\ RemoteRelation(d) # "RemoteChanged"
           /\ outcome = IF RemoteRelation(d) = "LocalChanged"
                        THEN "LocalChangedDuringPull" ELSE "BothSidesChanged"

PullStop(d) ==
  /\ Settled(d, "pull") /\ Fetched(d)
  /\ \E outcome \in Outcome : PullStops(d, outcome) /\ Return(d, outcome)
  /\ SetConfig(d, Refreshed(d))
  /\ UNCHANGED <<deviceVars, serverVars, wire, faults>>

PullAcknowledge(d) ==
  /\ Settled(d, "pull") /\ Same(d) /\ local[d] = op[d].expected
  /\ SetConfig(d, Synced(d, op[d].seen, Tag(op[d].seen)))
  /\ Return(d, "UpToDate")
  /\ UNCHANGED <<deviceVars, serverVars, wire, faults>>

MayApply(d) ==
  /\ Settled(d, "pull") /\ Fetched(d) /\ ~Same(d)
  /\ \A outcome \in Outcome : ~PullStops(d, outcome)

\* Under the data lock: every store is replaced, then the baseline recorded.
PullApply(d) ==
  /\ MayApply(d)
  /\ local' = [local EXCEPT ![d] = body[op[d].seen].data]
  /\ SetConfig(d, Synced(d, op[d].seen, Tag(op[d].seen)))
  /\ Return(d, "Pulled")
  /\ UNCHANGED <<pass, pend, serverVars, wire, faults>>

\* A store cannot be written: all are restored, unless that fails as well.
PullApplyFails(d) ==
  /\ MayApply(d)
  /\ \/ UNCHANGED <<local, faults>>
     \/ /\ Fault
        /\ local' = [local EXCEPT ![d] = Torn]
  /\ SetConfig(d, Refreshed(d))
  /\ Return(d, "Error")
  /\ UNCHANGED <<pass, pend, serverVars, wire>>

\* The process dies between the first store and the baseline.
CrashWhileApplying(d) ==
  /\ MayApply(d)
  /\ Fault
  /\ \E c \in {Torn, body[op[d].seen].data} : local' = [local EXCEPT ![d] = c]
  /\ SetConfig(d, Refreshed(d))
  /\ op' = [op EXCEPT ![d] = Idle]
  /\ pend' = [pend EXCEPT ![d] = Nothing]
  /\ UNCHANGED <<pass, serverVars, wire>>
-----------------------------------------------------------------------------
(* The network and the process fail.                                       *)

Awaiting(d) == op[d].phase \in {"get", "put", "written", "refused"}

\* Its upload never arrives, or arrives after nobody waits for it any more.
Awaited(d) == {u \in wire : u.dev = d /\ u.live}
LoseUpload(d) == wire' = wire \ Awaited(d)
DelayUpload(d) ==
  /\ Awaited(d) # {}
  /\ wire' = (wire \ Awaited(d)) \cup {[u EXCEPT !.live = FALSE] : u \in Awaited(d)}

\* A request times out or its reply is lost.
Timeout(d) ==
  /\ Awaiting(d)
  /\ \/ LoseUpload(d) /\ UNCHANGED faults
     \/ DelayUpload(d) /\ Fault
  /\ Return(d, "Error")
  /\ UNCHANGED <<deviceVars, cfg, serverVars>>

Crash(d) ==
  /\ Awaiting(d) \/ pend[d] # Nothing
  /\ Fault
  /\ LoseUpload(d) \/ DelayUpload(d)
  /\ op' = [op EXCEPT ![d] = Idle]
  /\ pend' = [pend EXCEPT ![d] = Nothing]
  /\ UNCHANGED <<local, pass, cfg, serverVars>>

\* The caller has the outcome; the sync lock is free again.
Finish(d) ==
  /\ op[d].phase = "done"
  /\ op' = [op EXCEPT ![d] = Idle]
  /\ UNCHANGED <<deviceVars, cfg, serverVars, wire, faults>>
-----------------------------------------------------------------------------
(* The user.                                                               *)

Edit(d) ==
  /\ \E c \in Data \ {local[d]} :
       c \in setup.contents /\ local' = [local EXCEPT ![d] = c]
  /\ UNCHANGED <<pass, pend, cfg, op, serverVars, wire, faults>>

\* Mutant of WriteConfig: config_revision is not advanced.
WriteConfigUnnumbered(d, c) == SetConfig(d, c) /\ UNCHANGED op

\* A settings write that changes nothing does not advance config_revision.
WriteConfig(d, c) ==
  /\ SetConfig(d, c)
  /\ op' = IF c # cfg[d] /\ op[d].phase \notin {"idle", "done"}
           THEN [op EXCEPT ![d].moved = TRUE] ELSE op

\* Another WebDAV URL or Gist id: the baseline belongs to the old one.
SetTarget(d) ==
  /\ \E r \in Resource \ {cfg[d].target} :
       WriteConfig(d, [target |-> r, etag |-> 0, pid |-> 0, base |-> Nothing])
  /\ UNCHANGED <<deviceVars, serverVars, wire, faults>>

\* The new passphrase reaches the credential store first ...
StorePassphrase(d) ==
  /\ pend[d] = Nothing
  /\ pend' = [pend EXCEPT ![d] = pass[d]]
  /\ \E k \in Passphrase \ {pass[d]} :
       k \in setup.keys /\ pass' = [pass EXCEPT ![d] = k]
  /\ UNCHANGED <<local, cfg, op, serverVars, wire, faults>>

\* ... and then the configuration, where the baseline is cleared.
RecordPassphrase(d) ==
  /\ pend[d] # Nothing
  /\ pend' = [pend EXCEPT ![d] = Nothing]
  /\ WriteConfig(d, [cfg[d] EXCEPT !.base = Nothing])
  /\ UNCHANGED <<local, pass, serverVars, wire, faults>>

\* Mutant of RestorePassphrase: the rollback deletes the passphrase.
RestorePassphraseDeletes(d) ==
  /\ pend[d] # Nothing
  /\ pass' = [pass EXCEPT ![d] = Nothing]
  /\ pend' = [pend EXCEPT ![d] = Nothing]
  /\ UNCHANGED <<local, cfg, op, serverVars, wire, faults>>

\* The configuration cannot be written: the old passphrase is put back.
RestorePassphrase(d) ==
  /\ pend[d] # Nothing
  /\ pass' = [pass EXCEPT ![d] = pend[d]]
  /\ pend' = [pend EXCEPT ![d] = Nothing]
  /\ UNCHANGED <<local, cfg, op, serverVars, wire, faults>>
-----------------------------------------------------------------------------
PushStep(d) ==
  \/ PushUpToDate(d) \/ PushAcknowledge(d) \/ PushIntervene(d)
  \/ PushUnreadable(d) \/ PushRefuse(d) \/ PushSend(d)
  \/ VerifyUpload(d) \/ PushRecord(d) \/ PushRefused(d)

PullStep(d) ==
  \/ PullNothing(d) \/ PullStop(d) \/ PullAcknowledge(d)
  \/ PullApply(d) \/ PullApplyFails(d)

EngineStep(d) ==
  \/ GetAnswered(d) \/ ConfigMoved(d) \/ EndPoll(d)
  \/ PushStep(d) \/ PullStep(d) \/ Timeout(d) \/ Finish(d)

UserStep(d) ==
  \/ Edit(d) \/ SetTarget(d)
  \/ StorePassphrase(d) \/ RecordPassphrase(d) \/ RestorePassphrase(d)

RemoteStep ==
  \/ \E u \in wire : Land(u) \/ Refuse(u)
  \/ \E r \in Resource : Retag(r) \/ RemoveRemote(r)

Next ==
  \/ \E d \in Device :
       /\ d \in setup.users
       /\ \/ BeginPush(d) \/ BeginPull(d) \/ BeginPoll(d)
          \/ EngineStep(d) \/ UserStep(d)
          \/ Crash(d) \/ CrashWhileApplying(d)
  \/ RemoteStep

Spec == Init /\ [][Next]_vars

\* HTTP clients carry timeouts, so an operation that started always goes on.
FairSpec == Spec /\ \A d \in Device : WF_vars(EngineStep(d))
-----------------------------------------------------------------------------
(* Correctness.                                                            *)

\* The baseline is true: it is the content of the payload the configuration
\* names, that payload was stored on the configured remote, and the stored tag
\* is a tag of a representation of that payload.  All three-way decisions rest
\* on it; settings changes, crashes, lost replies and tag refreshes must keep it.
TrueBaseline(c) ==
  /\ c.base # Nothing => c.pid # 0
  /\ c.pid # 0 => /\ body[c.pid].pid = c.pid
                  /\ body[c.pid].res = c.target
                  /\ c.base \in {Nothing, body[c.pid].data}
  /\ c.etag # 0 => c.pid # 0 /\ body[c.etag].pid = c.pid

BaselineTruth == \A d \in Device : TrueBaseline(cfg[d])

\* Equal payload ids mean equal payloads, and a resource serves its own.
ServerInv ==
  /\ \A v \in Version :
       /\ v > made => body[v].pid = 0
       /\ body[v].pid # 0 => body[v].pid \in Version /\ body[body[v].pid] = body[v]
  /\ \A r \in Resource :
       remote[r] <= made /\ (HasPayload(remote[r]) => body[remote[r]].res = r)

\* While the configuration has not moved, an operation's request, answer and
\* upload belong to the configuration it started from.
OperationFits(d, o) ==
  /\ o.kind # "none" => o.mode # "none" /\ o.result = "none"
  /\ o.phase \in {"get", "answered"} /\ ~o.moved =>
       /\ o.res = cfg[d].target
       /\ o.inm # 0 => o.inm = cfg[d].etag /\ cfg[d].base # Nothing
  /\ o.phase = "answered" => o.seen <= made
  /\ o.phase = "answered" /\ HasPayload(o.seen) => body[o.seen].res = o.res
  /\ o.phase = "written" =>
       /\ HasPayload(o.put) /\ body[o.put].pid = o.put
       /\ o.tag # 0 => body[o.tag].pid = o.put

OperationInv == \A d \in Device : OperationFits(d, op[d])

\* The pushes that may only replace what their device had synchronised.
Guarded(u) ==
  \/ u.mode = "Automatic" /\ ~setup.consent
  \/ u.mode = "Manual" /\ setup.provider = "GithubGist"

\* The precondition of such an upload names a version with the compared content.
UploadInv ==
  \A u \in wire :
    Guarded(u) =>
      /\ u.cond = AnyVersion => u.res = Unbound
      /\ u.cond <= made
      /\ HasPayload(u.cond) => body[u.cond].data = u.base

\* BaselineTruth and PushKeepsForeignContent are not inductive without these.
IInv == ServerInv /\ BaselineTruth /\ OperationInv /\ UploadInv

\* Uploads that the remote stored in this step.
Landing == {u \in wire \ wire' : made' # made}

\* The content an upload replaces, Nothing when there is none.
Replaced(u) ==
  IF u.res # Unbound /\ HasPayload(remote[u.res])
  THEN body[remote[u.res]].data ELSE Nothing

\* An automatic push (and any unforced push to a Gist) never replaces content
\* its device had not synchronised, however the two devices' steps interleave:
\* push_internal compares first and If-Match closes the gap until the upload
\* lands, even one that lands after its sender gave up.
PushKeepsForeignContent ==
  [][\A u \in Landing :
       Guarded(u) => Replaced(u) \in {Nothing, u.base}]_vars

\* Without preconditions there is a window between the GET and the upload; it
\* is the only one.  Unforced pushes that go out unconditionally (manual WebDAV,
\* automatic under consent) replace what they compared or a still newer version.
UnguardedPushComparesContent ==
  [][\A u \in Landing :
       u.mode # "Force" =>
         \/ Replaced(u) \in {Nothing, u.base}
         \/ remote[u.res] > u.seen]_vars

\* An automatic pull overwrites local data only when the remote has stored
\* exactly that data: an edit made at any moment of the pull survives it.
\* A torn or crashed application also only endangers such data.
PullKeepsLocalEdits ==
  [][\A d \in Device :
       op[d].kind = "pull" /\ op[d].mode = "Automatic" /\ op'[d] # op[d]
       /\ local'[d] # local[d]
       => \E v \in Version : HasPayload(v) /\ body[v].data = local[d]]_vars

\* "Remote changed before push" is reported for a refused WebDAV upload only if
\* the remote did change after the comparison; a server that refuses every
\* conditional write is reported as incapable instead.
RefusalMeansRemoteChanged ==
  [][\A d \in Device :
       op[d].phase = "refused" /\ Strict(op[d].mode)
       /\ op'[d].result = "RemoteChangedBeforePush"
       => remote[op[d].res] # op[d].seen]_vars

\* A push reports UpToDate only for local content that the remote holds in the
\* very version the push was answered with, 304 included.
UpToDateMeansRemoteHasIt ==
  [][\A d \in Device :
       op[d].kind = "push" /\ op'[d].result = "UpToDate"
       => /\ HasPayload(op[d].seen)
          /\ body[op[d].seen].data = local[d]
          /\ body[op[d].seen].res = cfg'[d].target]_vars

\* A recorded baseline means the payload can be read with the passphrase the
\* device has now: "changing the encryption passphrase requires a fresh
\* conditional push so the remote can be decrypted with the new passphrase".
BaselineReadable ==
  \A d \in Device :
    pend[d] = Nothing /\ cfg[d].base # Nothing
    => body[cfg[d].pid].key = pass[d]

\* Every operation ends, whatever is answered, refused, lost or changed
\* meanwhile, and gives the process's sync lock back.
OperationsEnd ==
  \A d \in Device : op[d].phase # "idle" ~> op[d].phase = "idle"
=============================================================================
