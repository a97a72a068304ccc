-------------------------- MODULE SyncEngineProofs --------------------------
(* Theorems about SyncEngine, for every value of its constants. *)
EXTENDS SyncEngine, TLAPS

USE ConstantsAssumption DEF deviceVars, serverVars

-----------------------------------------------------------------------------
(* Typing of the helpers.                                                  *)

\* An operation record that nobody uses is well typed.
LEMMA IdleType == Idle \in Operation
  BY DEF Idle, Operation, Outcome, AnyVersion, Version

\* Returning an outcome keeps the operations well typed.
LEMMA ReturnType ==
  ASSUME TypeOK, NEW d \in Device, NEW outcome \in Outcome, Return(d, outcome)
  PROVE  op' \in [Device -> Operation]
  <1>1. [Idle EXCEPT !.phase = "done", !.result = outcome] \in Operation
    BY IdleType DEF Operation, Idle
  <1> QED BY <1>1 DEF Return, TypeOK

\* A tag is a version or zero.
LEMMA TagType ==
  ASSUME NEW v \in 0..MaxVersion
  PROVE  Tag(v) \in 0..MaxVersion
  BY DEF Tag

\* Refreshing the stored tag gives a configuration.
LEMMA RefreshedType ==
  ASSUME TypeOK, NEW d \in Device
  PROVE  Refreshed(d) \in Config
  <1>1. cfg[d] \in Config /\ op[d] \in Operation
    BY DEF TypeOK
  <1>2. Tag(op[d].seen) \in 0..MaxVersion
    BY <1>1, TagType DEF Operation
  <1> QED BY <1>1, <1>2 DEF Refreshed, Config

\* Recording a version as the baseline gives a configuration.
LEMMA SyncedType ==
  ASSUME TypeOK, NEW d \in Device, NEW v \in Version, NEW tag \in 0..MaxVersion
  PROVE  Synced(d, v, tag) \in Config
  <1>1. cfg[d] \in Config /\ body[v] \in Payload
    BY DEF TypeOK
  <1> QED BY <1>1 DEF Synced, Config, Payload

\* Storing a configuration keeps all of them well typed.
LEMMA SetConfigType ==
  ASSUME TypeOK, NEW d \in Device, NEW c \in Config, SetConfig(d, c)
  PROVE  cfg' \in [Device -> Config]
  BY DEF SetConfig, TypeOK

\* A version that holds a payload is one the remote can have.
LEMMA PayloadType ==
  ASSUME TypeOK, NEW v, HasPayload(v)
  PROVE  v \in Version /\ body[v] \in Payload
  BY DEF HasPayload, TypeOK

\* Losing or delaying what is awaited leaves only uploads on the network.
LEMMA UploadsType ==
  ASSUME TypeOK, NEW d \in Device, LoseUpload(d) \/ DelayUpload(d)
  PROVE  wire' \subseteq Upload
  <1>1. \A u \in Upload : [u EXCEPT !.live = FALSE] \in Upload
    BY DEF Upload
  <1> QED BY <1>1 DEF LoseUpload, DelayUpload, Awaited, TypeOK

\* The faults stay within their bound.
LEMMA FaultType ==
  ASSUME TypeOK, Fault \/ faults' = faults
  PROVE  faults' \in 0..MaxFaults
  BY DEF TypeOK, Fault

-----------------------------------------------------------------------------
(* Type correctness.                                                       *)

\* The initial states are well typed.
LEMMA TypeInit == Init => TypeOK
  <1> SUFFICES ASSUME Init PROVE TypeOK
    OBVIOUS
  <1>1. NoPayload(Unbound) \in Payload
    BY DEF NoPayload, Payload, Content
  <1>2. cfg \in [Device -> Config]
    BY DEF Init, Config
  <1> QED BY <1>1, <1>2, IdleType DEF Init, TypeOK, Content

\* Starting an operation keeps the types.
LEMMA TypeBegin ==
  ASSUME TypeOK, NEW d \in Device, NEW kind \in {"push", "pull", "poll"},
         NEW mode \in PushMode, NEW conditional \in BOOLEAN,
         NEW expected \in Content \cup {Nothing},
         Begin(d, kind, mode, conditional, expected)
  PROVE  TypeOK'
  <1>1. cfg[d] \in Config
    BY DEF TypeOK
  <1> DEFINE inm == IF conditional /\ cfg[d].base # Nothing THEN cfg[d].etag ELSE 0
             o == [Idle EXCEPT !.kind = kind, !.mode = mode, !.phase = "get",
                     !.res = cfg[d].target, !.expected = expected, !.inm = inm]
  <1>2. inm \in 0..MaxVersion /\ cfg[d].target \in Resource \cup {Unbound}
    BY <1>1 DEF Config
  <1>3. o \in Operation
    <2> HIDE DEF inm
    <2> QED BY <1>2, IdleType DEF Operation, Idle
  <1>4. op' = [op EXCEPT ![d] = o]
    BY DEF Begin
  <1> QED BY <1>3, <1>4 DEF Begin, TypeOK

\* Every step of a push keeps the types.
LEMMA TypePush ==
  ASSUME TypeOK, OperationInv, NEW d \in Device, PushStep(d)
  PROVE  TypeOK'
  <1> USE DEF Outcome
  <1>0. /\ op[d] \in Operation /\ cfg[d] \in Config
        /\ local[d] \in Content /\ pass[d] \in Passphrase
        /\ OperationFits(d, op[d])
    BY DEF TypeOK, OperationInv
  <1>1. CASE PushUpToDate(d)
    BY <1>1, RefreshedType, SetConfigType, ReturnType DEF PushUpToDate, TypeOK
  <1>2. CASE PushAcknowledge(d)
    <2>1. op[d].seen \in Version
      BY <1>2 DEF PushAcknowledge, Same, Readable, Fetched, HasPayload
    <2>2. Synced(d, op[d].seen, Tag(op[d].seen)) \in Config
      BY <1>0, <2>1, TagType, SyncedType DEF Operation
    <2> QED BY <1>2, <2>2, SetConfigType, ReturnType DEF PushAcknowledge, TypeOK
  <1>3. CASE PushIntervene(d)
    BY <1>3, RefreshedType, SetConfigType, ReturnType DEF PushIntervene, TypeOK
  <1>4. CASE PushUnreadable(d)
    BY <1>4, ReturnType DEF PushUnreadable, TypeOK
  <1>5. CASE PushRefuse(d)
    BY <1>5, RefreshedType, SetConfigType, ReturnType DEF PushRefuse, TypeOK
  <1>6. CASE PushSend(d)
    <2>1. Condition(d) \in AnyVersion..MaxVersion
      BY <1>0, TagType DEF Condition, Operation, AnyVersion
    <2>2. wire' \subseteq Upload
      <3>1. op[d].mode \in PushMode
        BY <1>0, <1>6 DEF PushSend, Settled, Operation, OperationFits
      <3>2. /\ op[d].res \in Resource \cup {Unbound} /\ op[d].seen \in 0..MaxVersion
            /\ cfg[d].base \in Content \cup {Nothing}
        BY <1>0 DEF Operation, Config
      <3>3. [dev |-> d, res |-> op[d].res, cond |-> Condition(d),
             data |-> local[d], key |-> pass[d], mode |-> op[d].mode,
             seen |-> op[d].seen, base |-> cfg[d].base, live |-> TRUE] \in Upload
        BY <1>0, <2>1, <3>1, <3>2 DEF Upload
      <3> QED BY <1>6, <3>3 DEF PushSend, TypeOK
    <2>3. op' \in [Device -> Operation]
      BY <1>0, <1>6, <2>1 DEF PushSend, TypeOK, Operation
    <2> QED BY <1>6, <2>2, <2>3, RefreshedType, SetConfigType
            DEF PushSend, TypeOK
  <1>7. CASE VerifyUpload(d)
    <2>1. ASSUME NEW w \in Version, op' = [op EXCEPT ![d].tag = Tag(w)]
          PROVE  op' \in [Device -> Operation]
      <3>1. Tag(w) \in 0..MaxVersion
        BY TagType DEF Version
      <3> QED BY <1>0, <2>1, <3>1 DEF TypeOK, Operation
    <2>2. op' \in [Device -> Operation]
      BY <1>7, <2>1, ReturnType DEF VerifyUpload, HasPayload
    <2> QED BY <1>7, <2>2 DEF VerifyUpload, TypeOK
  <1>8. CASE PushRecord(d)
    <2>1. CASE op[d].moved
      BY <1>8, <2>1, ReturnType DEF PushRecord, TypeOK
    <2>2. CASE ~op[d].moved
      <3>1. op[d].put \in Version /\ body[op[d].put] \in Payload
        BY <1>0, <1>8, PayloadType DEF PushRecord, OperationFits
      <3>2. Synced(d, op[d].put, op[d].tag) \in Config
        BY <1>0, <3>1, SyncedType DEF Operation
      <3>3. [Synced(d, op[d].put, op[d].tag) EXCEPT !.target = body[op[d].put].res]
              \in Config
        BY <3>1, <3>2 DEF Config, Payload
      <3> QED BY <1>8, <2>2, <3>3, SetConfigType, ReturnType DEF PushRecord, TypeOK
    <2> QED BY <2>1, <2>2
  <1>9. CASE PushRefused(d)
    BY <1>9, ReturnType DEF PushRefused, TypeOK
  <1> QED BY <1>1, <1>2, <1>3, <1>4, <1>5, <1>6, <1>7, <1>8, <1>9 DEF PushStep

\* Every step of a pull, a crash while it applies included, keeps the types.
LEMMA TypePull ==
  ASSUME TypeOK, NEW d \in Device, PullStep(d) \/ CrashWhileApplying(d)
  PROVE  TypeOK'
  <1> USE DEF Outcome
  <1>0. op[d] \in Operation /\ body \in [Version -> Payload]
    BY DEF TypeOK
  <1>1. CASE PullNothing(d)
    BY <1>1, ReturnType DEF PullNothing, TypeOK
  <1>2. CASE PullStop(d)
    BY <1>2, RefreshedType, SetConfigType, ReturnType DEF PullStop, TypeOK
  <1>3. ASSUME Fetched(d)
        PROVE  /\ Synced(d, op[d].seen, Tag(op[d].seen)) \in Config
               /\ body[op[d].seen].data \in Content
    <2>1. op[d].seen \in Version
      BY <1>3 DEF Fetched, HasPayload
    <2>2. Tag(op[d].seen) \in 0..MaxVersion
      BY <1>0, TagType DEF Operation
    <2>3. body[op[d].seen] \in Payload
      BY <1>0, <2>1
    <2> QED BY <2>1, <2>2, <2>3, SyncedType DEF Payload
  <1>4. CASE PullAcknowledge(d)
    <2>1. Fetched(d)
      BY <1>4 DEF PullAcknowledge, Same, Readable
    <2> QED BY <1>3, <1>4, <2>1, SetConfigType, ReturnType
            DEF PullAcknowledge, TypeOK
  <1>5. ASSUME NEW c \in Content PROVE [local EXCEPT ![d] = c] \in [Device -> Content]
    BY DEF TypeOK
  <1>6. MayApply(d) => Fetched(d)
    BY DEF MayApply
  <1>7. CASE PullApply(d)
    BY <1>3, <1>5, <1>6, <1>7, SetConfigType, ReturnType DEF PullApply, TypeOK
  <1>8. CASE PullApplyFails(d)
    <2>1. local' \in [Device -> Content] /\ faults' \in 0..MaxFaults
      BY <1>5, <1>8, FaultType DEF PullApplyFails, TypeOK, Content
    <2> QED BY <1>8, <2>1, RefreshedType, SetConfigType, ReturnType
            DEF PullApplyFails, TypeOK
  <1>9. CASE CrashWhileApplying(d)
    <2>1. local' \in [Device -> Content]
      BY <1>3, <1>5, <1>6, <1>9 DEF CrashWhileApplying, Content
    <2>2. /\ op' \in [Device -> Operation]
          /\ pend' \in [Device -> Passphrase \cup {Nothing}]
      BY <1>9, IdleType DEF CrashWhileApplying, TypeOK
    <2>3. cfg' \in [Device -> Config] /\ faults' \in 0..MaxFaults
      BY <1>9, RefreshedType, SetConfigType, FaultType DEF CrashWhileApplying
    <2> QED BY <1>9, <2>1, <2>2, <2>3 DEF CrashWhileApplying, TypeOK
  <1> QED BY <1>1, <1>2, <1>4, <1>7, <1>8, <1>9 DEF PullStep

\* Every step of an operation keeps the types.
LEMMA TypeEngine ==
  ASSUME TypeOK, OperationInv, NEW d \in Device, EngineStep(d) \/ Crash(d)
  PROVE  TypeOK'
  <1> USE DEF Outcome
  <1>0. op[d] \in Operation /\ remote \in [Resource -> 0..MaxVersion]
    BY DEF TypeOK
  <1>1. CASE GetAnswered(d)
    <2> DEFINE v == IF op[d].res = Unbound THEN 0 ELSE remote[op[d].res]
    <2>1. v \in 0..MaxVersion
      BY <1>0 DEF Operation
    <2>2. [op[d] EXCEPT !.phase = "answered", !.seen = v] \in Operation
      <3> HIDE DEF v
      <3> QED BY <1>0, <2>1 DEF Operation
    <2> QED BY <1>1, <2>2, ReturnType DEF GetAnswered, TypeOK
  <1>2. CASE ConfigMoved(d)
    BY <1>2, ReturnType DEF ConfigMoved, TypeOK
  <1>3. CASE EndPoll(d)
    BY <1>3, RefreshedType, SetConfigType, ReturnType DEF EndPoll, TypeOK
  <1>4. CASE PushStep(d)
    BY <1>4, TypePush
  <1>5. CASE PullStep(d)
    BY <1>5, TypePull
  <1>6. CASE Timeout(d)
    BY <1>6, UploadsType, FaultType, ReturnType DEF Timeout, TypeOK
  <1>7. CASE Finish(d)
    BY <1>7, IdleType DEF Finish, TypeOK
  <1>8. CASE Crash(d)
    <2>1. /\ op' \in [Device -> Operation]
          /\ pend' \in [Device -> Passphrase \cup {Nothing}]
      BY <1>8, IdleType DEF Crash, TypeOK
    <2> QED BY <1>8, <2>1, UploadsType, FaultType DEF Crash, TypeOK
  <1> QED BY <1>1, <1>2, <1>3, <1>4, <1>5, <1>6, <1>7, <1>8 DEF EngineStep

\* Edits and changes of settings keep the types.
LEMMA TypeUser ==
  ASSUME TypeOK, NEW d \in Device, UserStep(d)
  PROVE  TypeOK'
  <1>0. cfg[d] \in Config /\ op[d] \in Operation
    BY DEF TypeOK
  <1>1. ASSUME NEW c \in Config, WriteConfig(d, c)
        PROVE  cfg' \in [Device -> Config] /\ op' \in [Device -> Operation]
    <2>1. [op EXCEPT ![d].moved = TRUE] \in [Device -> Operation]
      BY <1>0 DEF TypeOK, Operation
    <2> QED BY <1>1, <2>1, SetConfigType DEF WriteConfig, TypeOK
  <1>2. CASE Edit(d)
    BY <1>2 DEF Edit, TypeOK, Content
  <1>3. CASE SetTarget(d)
    <2>1. \A r \in Resource :
            [target |-> r, etag |-> 0, pid |-> 0, base |-> Nothing] \in Config
      BY DEF Config
    <2> QED BY <1>1, <1>3, <2>1 DEF SetTarget, TypeOK
  <1>4. CASE StorePassphrase(d)
    BY <1>4 DEF StorePassphrase, TypeOK
  <1>5. CASE RecordPassphrase(d)
    <2>1. [cfg[d] EXCEPT !.base = Nothing] \in Config
      BY <1>0 DEF Config
    <2> QED BY <1>1, <1>5, <2>1 DEF RecordPassphrase, TypeOK
  <1>6. CASE RestorePassphrase(d)
    BY <1>6 DEF RestorePassphrase, TypeOK
  <1> QED BY <1>2, <1>3, <1>4, <1>5, <1>6 DEF UserStep

\* What the remote does keeps the types.
LEMMA TypeRemote ==
  ASSUME TypeOK, RemoteStep
  PROVE  TypeOK'
  <1>1. ASSUME NEW u \in wire, Land(u) PROVE TypeOK'
    <2>0. u \in Upload /\ made + 1 \in Version
      BY <1>1 DEF TypeOK, Land, Version
    <2>1. PICK r \in Destination(u), tag \in {0, Tag(made + 1)} :
            /\ body' = [body EXCEPT ![made + 1] =
                     [pid |-> made + 1, data |-> u.data, key |-> u.key, res |-> r]]
            /\ remote' = [remote EXCEPT ![r] = made + 1]
            /\ op' = IF u.live
                THEN [op EXCEPT ![u.dev] =
                        [@ EXCEPT !.phase = "written", !.put = made + 1,
                                  !.tag = tag]]
                ELSE op
      BY <1>1 DEF Land
    <2>2. r \in Resource
      BY <2>0 DEF Destination, Upload
    <2>3. tag \in 0..MaxVersion
      BY <2>0, TagType DEF Version
    <2>4. [pid |-> made + 1, data |-> u.data, key |-> u.key, res |-> r] \in Payload
      BY <2>0, <2>2 DEF Payload, Upload, Version
    <2>5. body' \in [Version -> Payload] /\ remote' \in [Resource -> 0..MaxVersion]
      BY <2>0, <2>1, <2>2, <2>4 DEF TypeOK, Version
    <2>6. op' \in [Device -> Operation]
      <3>1. op[u.dev] \in Operation /\ u.dev \in Device
        BY <2>0 DEF TypeOK, Upload
      <3>2. [op[u.dev] EXCEPT !.phase = "written", !.put = made + 1, !.tag = tag]
              \in Operation
        <4> DEFINE n == made + 1
        <4>1. n \in 0..MaxVersion
          BY <2>0 DEF Version
        <4>2. ASSUME NEW o \in Operation, NEW k \in 0..MaxVersion, NEW j \in 0..MaxVersion
              PROVE  [o EXCEPT !.phase = "written", !.put = k, !.tag = j] \in Operation
          BY <4>2 DEF Operation
        <4> HIDE DEF n
        <4> QED BY <2>3, <3>1, <4>1, <4>2 DEF n
      <3> QED BY <2>1, <3>1, <3>2 DEF TypeOK
    <2> QED BY <1>1, <2>0, <2>5, <2>6 DEF Land, TypeOK, Version
  <1>2. ASSUME NEW u \in wire, Refuse(u) PROVE TypeOK'
    <2>1. u.dev \in Device /\ op[u.dev] \in Operation
      BY DEF TypeOK, Upload
    <2>2. op' \in [Device -> Operation]
      BY <1>2, <2>1 DEF Refuse, TypeOK, Operation
    <2> QED BY <1>2, <2>2 DEF Refuse, TypeOK
  <1>3. ASSUME NEW r \in Resource, Retag(r) PROVE TypeOK'
    <2>1. made + 1 \in Version /\ body[remote[r]] \in Payload
      BY <1>3, PayloadType DEF Retag, TypeOK, Version
    <2> QED BY <1>3, <2>1 DEF Retag, TypeOK, Version
  <1>4. ASSUME NEW r \in Resource, RemoveRemote(r) PROVE TypeOK'
    <2>1. NoPayload(r) \in Payload
      BY DEF NoPayload, Payload, Content
    <2>2. CASE setup.provider = "WebDav"
      BY <1>4, <2>2 DEF RemoveRemote, TypeOK
    <2>3. CASE setup.provider # "WebDav"
      <3>1. made + 1 \in Version
        BY <1>4, <2>3 DEF RemoveRemote, TypeOK, Version
      <3>2. body' \in [Version -> Payload] /\ remote' \in [Resource -> 0..MaxVersion]
        <4>1. /\ body' = [body EXCEPT ![made + 1] = NoPayload(r)]
              /\ remote' = [remote EXCEPT ![r] = made + 1]
          BY <1>4, <2>3 DEF RemoveRemote
        <4>2. body' \in [Version -> Payload]
          BY <2>1, <3>1, <4>1 DEF TypeOK
        <4>3. made + 1 \in 0..MaxVersion
          BY <3>1 DEF Version
        <4> QED BY <4>1, <4>2, <4>3 DEF TypeOK
      <3> QED BY <1>4, <2>3, <3>1, <3>2 DEF RemoveRemote, TypeOK, Version
    <2> QED BY <2>2, <2>3
  <1> QED BY <1>1, <1>2, <1>3, <1>4 DEF RemoteStep

\* Every step keeps the types.
LEMMA TypeNext ==
  ASSUME TypeOK, OperationInv, [Next]_vars
  PROVE  TypeOK'
  <1>1. CASE UNCHANGED vars
    BY <1>1 DEF vars, TypeOK
  <1>2. ASSUME NEW d \in Device, BeginPush(d) \/ BeginPull(d) \/ BeginPoll(d)
        PROVE  TypeOK'
    <2>1. local[d] \in Content
      BY DEF TypeOK
    <2>2. CASE BeginPush(d)
      <3>1. PICK m \in PushMode :
              Begin(d, "push", m, ~ManualWebDav(m) /\ ~UnsafeWrite(m), Nothing)
        BY <2>2 DEF BeginPush
      <3>2. (~ManualWebDav(m) /\ ~UnsafeWrite(m)) \in BOOLEAN /\ m \in PushMode
        OBVIOUS
      <3> HIDE DEF PushMode
      <3> QED BY <3>1, <3>2, TypeBegin
    <2>3. CASE BeginPull(d)
      BY <2>1, <2>3, TypeBegin DEF BeginPull
    <2>4. CASE BeginPoll(d)
      <3>1. (~UnsafeWrite("Automatic")) \in BOOLEAN /\ "Automatic" \in PushMode
        BY DEF PushMode
      <3> QED BY <2>4, <3>1, TypeBegin DEF BeginPoll
    <2> QED BY <1>2, <2>2, <2>3, <2>4
  <1> QED BY <1>1, <1>2, TypeEngine, TypeUser, TypePull, TypeRemote DEF Next

-----------------------------------------------------------------------------
(* The server: versions are immutable and payload ids name one payload.    *)

\* The steps of a device leave the remote alone.
LEMMA EngineQuiet ==
  ASSUME NEW d \in Device, EngineStep(d) \/ Crash(d) \/ CrashWhileApplying(d)
  PROVE  UNCHANGED serverVars
  <1>1. PushStep(d) => UNCHANGED serverVars
    BY DEF PushStep, PushUpToDate, PushAcknowledge, PushIntervene,
       PushUnreadable, PushRefuse, PushSend, VerifyUpload, PushRecord, PushRefused
  <1>2. PullStep(d) \/ CrashWhileApplying(d) => UNCHANGED serverVars
    BY DEF PullStep, PullNothing, PullStop, PullAcknowledge, PullApply,
       PullApplyFails, CrashWhileApplying
  <1> QED BY <1>1, <1>2 DEF EngineStep, GetAnswered, ConfigMoved, EndPoll, Timeout,
          Finish, Crash

\* Every step but the remote's own leaves what the remote stores alone.
LEMMA OnlyRemoteStores ==
  ASSUME [Next]_vars
  PROVE  UNCHANGED serverVars \/ RemoteStep
  <1>1. ASSUME NEW d \in Device, BeginPush(d) \/ BeginPull(d) \/ BeginPoll(d)
        PROVE  UNCHANGED serverVars
    BY <1>1 DEF BeginPush, BeginPull, BeginPoll, Begin
  <1>2. ASSUME NEW d \in Device, UserStep(d) PROVE UNCHANGED serverVars
    BY <1>2 DEF UserStep, Edit, SetTarget, StorePassphrase, RecordPassphrase,
         RestorePassphrase
  <1> QED BY <1>1, <1>2, EngineQuiet DEF Next, vars

\* A payload's own version is a version that exists.
LEMMA PayloadMade ==
  ASSUME TypeOK, ServerInv, NEW v \in Version, body[v].pid # 0
  PROVE  /\ v <= made
         /\ body[v].pid \in Version /\ body[v].pid <= made
         /\ body[body[v].pid] = body[v]
  BY DEF TypeOK, ServerInv, Version

\* Storing a payload under a new version keeps what is known of the remote.
LEMMA StoreKeepsServerInv ==
  ASSUME TypeOK, ServerInv, made < MaxVersion,
         NEW r \in Resource, NEW b \in Payload,
         b.pid # 0 => b.res = r /\ (b.pid = made + 1 \/ (b.pid \in Version /\ body[b.pid] = b)),
         made' = made + 1,
         body' = [body EXCEPT ![made + 1] = b],
         remote' = [remote EXCEPT ![r] = made + 1]
  PROVE  /\ ServerInv'
         /\ \A v \in Version : v <= made => body'[v] = body[v]
  <1>0. /\ made \in Nat /\ made + 1 \in Version /\ body \in [Version -> Payload]
        /\ remote \in [Resource -> 0..MaxVersion]
    BY DEF TypeOK, Version
  <1>1. ASSUME NEW v \in Version, v <= made PROVE body'[v] = body[v]
    BY <1>0, <1>1 DEF Version
  <1>2. body'[made + 1] = b
    BY <1>0
  <1>3. ASSUME NEW v \in Version
        PROVE  /\ v > made' => body'[v].pid = 0
               /\ body'[v].pid # 0 =>
                    body'[v].pid \in Version /\ body'[body'[v].pid] = body'[v]
    <2>1. CASE v <= made
      <3>1. CASE body[v].pid = 0
        BY <1>0, <1>1, <2>1, <3>1 DEF Version
      <3>2. CASE body[v].pid # 0
        BY <1>0, <1>1, <2>1, <3>2, PayloadMade DEF Version
      <3> QED BY <3>1, <3>2
    <2>2. CASE v = made + 1
      <3>1. CASE b.pid = made + 1
        BY <1>0, <1>2, <2>2, <3>1
      <3>2. CASE b.pid # 0 /\ b.pid # made + 1
        <4>1. b.pid \in Version /\ body[b.pid] = b
          BY <3>2
        <4>2. b.pid <= made
          BY <3>2, <4>1, PayloadMade
        <4> QED BY <1>0, <1>1, <1>2, <2>2, <4>1, <4>2
      <3> QED BY <1>0, <1>2, <2>2, <3>1, <3>2
    <2>3. CASE v > made + 1
      <3>1. body'[v] = body[v]
        BY <1>0, <2>3 DEF Version
      <3>2. body[v].pid = 0
        BY <1>0, <2>3 DEF ServerInv, Version
      <3> QED BY <3>1, <3>2
    <2> QED BY <1>0, <2>1, <2>2, <2>3 DEF Version
  <1>4. ASSUME NEW q \in Resource
        PROVE  remote'[q] <= made' /\ (HasPayload(remote[q])' => body'[remote'[q]].res = q)
    <2>1. CASE q = r
      BY <1>0, <1>2, <2>1 DEF HasPayload
    <2>2. CASE q # r
      <3>1. remote'[q] = remote[q] /\ remote[q] <= made /\ remote[q] \in 0..MaxVersion
        BY <1>0, <2>2 DEF ServerInv
      <3>2. ASSUME HasPayload(remote[q])' PROVE body'[remote'[q]].res = q
        <4>1. remote[q] \in Version /\ body'[remote[q]] = body[remote[q]]
          BY <1>1, <3>1, <3>2 DEF HasPayload
        <4> QED BY <3>1, <3>2, <4>1 DEF HasPayload, ServerInv
      <3> QED BY <1>0, <3>1, <3>2
    <2> QED BY <2>1, <2>2
  <1> QED BY <1>1, <1>3, <1>4 DEF ServerInv

\* The remote's invariant is kept, and stored versions never change.
LEMMA ServerStep ==
  ASSUME TypeOK, ServerInv, [Next]_vars
  PROVE  /\ ServerInv'
         /\ made \in Nat /\ made' \in Nat /\ made <= made'
         /\ \A v \in Version : v <= made => body'[v] = body[v]
  <1>0. made \in Nat /\ body \in [Version -> Payload]
    BY DEF TypeOK
  <1>1. CASE UNCHANGED serverVars
    BY <1>0, <1>1 DEF ServerInv, HasPayload
  <1>2. ASSUME NEW u \in wire, Land(u)
        PROVE  ServerInv' /\ made' = made + 1
               /\ \A v \in Version : v <= made => body'[v] = body[v]
    <2>1. u \in Upload
      BY DEF TypeOK
    <2>2. PICK r \in Destination(u) :
            /\ body' = [body EXCEPT ![made + 1] =
                     [pid |-> made + 1, data |-> u.data, key |-> u.key, res |-> r]]
            /\ remote' = [remote EXCEPT ![r] = made + 1]
      BY <1>2 DEF Land
    <2>3. r \in Resource /\ made < MaxVersion /\ made' = made + 1
      BY <1>2, <2>1 DEF Destination, Upload, Land
    <2>4. [pid |-> made + 1, data |-> u.data, key |-> u.key, res |-> r] \in Payload
      BY <1>0, <2>1, <2>3 DEF Payload, Upload
    <2> QED BY <2>2, <2>3, <2>4, StoreKeepsServerInv
  <1>3. ASSUME NEW r \in Resource, Retag(r)
        PROVE  ServerInv' /\ made' = made + 1
               /\ \A v \in Version : v <= made => body'[v] = body[v]
    <2>1. remote[r] \in Version /\ body[remote[r]].pid # 0 /\ made < MaxVersion
      BY <1>3 DEF Retag, HasPayload
    <2>2. /\ body[remote[r]] \in Payload /\ body[remote[r]].res = r
          /\ body[remote[r]].pid \in Version
          /\ body[body[remote[r]].pid] = body[remote[r]]
      BY <1>0, <2>1, PayloadMade DEF ServerInv, HasPayload
    <2> QED BY <1>3, <2>1, <2>2, StoreKeepsServerInv DEF Retag
  <1>4. ASSUME NEW r \in Resource, RemoveRemote(r)
        PROVE  ServerInv' /\ made' \in {made, made + 1}
               /\ \A v \in Version : v <= made => body'[v] = body[v]
    <2>1. CASE setup.provider = "WebDav"
      <3>1. remote' = [remote EXCEPT ![r] = 0] /\ UNCHANGED <<made, body>>
        BY <1>4, <2>1 DEF RemoveRemote
      <3>2. ASSUME NEW q \in Resource
            PROVE  /\ remote'[q] <= made'
                   /\ HasPayload(remote[q])' => body'[remote'[q]].res = q
        BY <1>0, <3>1 DEF ServerInv, HasPayload, TypeOK, Version
      <3> QED BY <3>1, <3>2 DEF ServerInv
    <2>2. CASE setup.provider # "WebDav"
      <3>1. NoPayload(r) \in Payload /\ NoPayload(r).pid = 0
        BY DEF NoPayload, Payload, Content
      <3> QED BY <1>4, <2>2, <3>1, StoreKeepsServerInv DEF RemoveRemote
    <2> QED BY <2>1, <2>2
  <1>5. ASSUME NEW u \in wire, Refuse(u) PROVE UNCHANGED serverVars
    BY <1>5 DEF Refuse
  <1> QED BY <1>0, <1>1, <1>2, <1>3, <1>4, <1>5, OnlyRemoteStores DEF RemoteStep

-----------------------------------------------------------------------------
(* The baseline.                                                           *)

EmptyConfig(r) == [target |-> r, etag |-> 0, pid |-> 0, base |-> Nothing]

Answered(d) == op[d].phase = "answered" /\ ~op[d].moved

\* All the ways a configuration changes.
LEMMA ConfigChanges ==
  ASSUME TypeOK, [Next]_vars, NEW d \in Device
  PROVE  \/ cfg'[d] = cfg[d]
         \/ cfg'[d] = Refreshed(d)
         \/ /\ Answered(d) /\ Fetched(d)
            /\ cfg'[d] = Synced(d, op[d].seen, Tag(op[d].seen))
         \/ /\ op[d].phase = "written"
            /\ cfg'[d] = [Synced(d, op[d].put, op[d].tag) EXCEPT
                            !.target = body[op[d].put].res]
         \/ \E r \in Resource : cfg'[d] = EmptyConfig(r)
         \/ cfg'[d] = [cfg[d] EXCEPT !.base = Nothing]
  <1>0. DOMAIN cfg = Device
    BY DEF TypeOK
  <1>1. ASSUME NEW e \in Device, BeginPush(e) \/ BeginPull(e) \/ BeginPoll(e)
        PROVE  UNCHANGED cfg
    BY <1>1 DEF BeginPush, BeginPull, BeginPoll, Begin
  <1>2. ASSUME NEW e \in Device, PushStep(e)
        PROVE  \/ UNCHANGED cfg
               \/ SetConfig(e, Refreshed(e))
               \/ /\ Answered(e) /\ Fetched(e)
                  /\ SetConfig(e, Synced(e, op[e].seen, Tag(op[e].seen)))
               \/ /\ op[e].phase = "written"
                  /\ SetConfig(e, [Synced(e, op[e].put, op[e].tag) EXCEPT
                                     !.target = body[op[e].put].res])
    BY <1>2 DEF PushStep, PushUpToDate, PushAcknowledge, PushIntervene, Answered,
         PushUnreadable, PushRefuse, PushSend, VerifyUpload, PushRecord, PushRefused,
         Settled, Same, Readable
  <1>3. ASSUME NEW e \in Device, PullStep(e) \/ CrashWhileApplying(e)
        PROVE  \/ UNCHANGED cfg
               \/ SetConfig(e, Refreshed(e))
               \/ /\ Answered(e) /\ Fetched(e)
                  /\ SetConfig(e, Synced(e, op[e].seen, Tag(op[e].seen)))
    BY <1>3 DEF PullStep, PullNothing, PullStop, PullAcknowledge, PullApply, MayApply,
         PullApplyFails, CrashWhileApplying, Answered, Settled, Same, Readable
  <1>4. ASSUME NEW e \in Device, GetAnswered(e) \/ ConfigMoved(e) \/ EndPoll(e)
                                  \/ Timeout(e) \/ Finish(e) \/ Crash(e)
        PROVE  UNCHANGED cfg \/ SetConfig(e, Refreshed(e))
    BY <1>4 DEF GetAnswered, ConfigMoved, EndPoll, Timeout, Finish, Crash
  <1>5. ASSUME NEW e \in Device, UserStep(e)
        PROVE  \/ UNCHANGED cfg
               \/ \E r \in Resource : SetConfig(e, EmptyConfig(r))
               \/ SetConfig(e, [cfg[e] EXCEPT !.base = Nothing])
    BY <1>5 DEF UserStep, Edit, SetTarget, StorePassphrase, RecordPassphrase,
         RestorePassphrase, WriteConfig, EmptyConfig
  <1>6. RemoteStep => UNCHANGED cfg
    BY DEF RemoteStep, Land, Refuse, Retag, RemoveRemote
  <1> USE DEF SetConfig
  <1>7. ASSUME NEW e \in Device, PushStep(e) \/ PullStep(e) \/ CrashWhileApplying(e)
        PROVE  \/ cfg'[d] = cfg[d]
               \/ cfg'[d] = Refreshed(d)
               \/ /\ Answered(d) /\ Fetched(d)
                  /\ cfg'[d] = Synced(d, op[d].seen, Tag(op[d].seen))
               \/ /\ op[d].phase = "written"
                  /\ cfg'[d] = [Synced(d, op[d].put, op[d].tag) EXCEPT
                                  !.target = body[op[d].put].res]
    <2>1. CASE e = d
      BY <1>0, <1>2, <1>3, <1>7, <2>1
    <2>2. CASE e # d
      BY <1>0, <1>2, <1>3, <1>7, <2>2
    <2> QED BY <2>1, <2>2
  <1>8. ASSUME NEW e \in Device, UserStep(e)
        PROVE  \/ cfg'[d] = cfg[d]
               \/ \E r \in Resource : cfg'[d] = EmptyConfig(r)
               \/ cfg'[d] = [cfg[d] EXCEPT !.base = Nothing]
    BY <1>0, <1>5, <1>8
  <1> QED BY <1>0, <1>1, <1>4, <1>6, <1>7, <1>8 DEF Next, EngineStep, vars

\* A true baseline stays true whatever the remote stores next.
LEMMA TruthLasts ==
  ASSUME TypeOK, ServerInv, [Next]_vars, NEW c \in Config, TrueBaseline(c)
  PROVE  TrueBaseline(c)'
  <1>1. c.pid \in 0..MaxVersion /\ c.etag \in 0..MaxVersion
    BY DEF Config
  <1>2. \A v \in Version : body[v].pid # 0 => body'[v] = body[v]
    BY ServerStep, PayloadMade
  <1>3. c.pid # 0 => body'[c.pid] = body[c.pid]
    BY <1>1, <1>2 DEF TrueBaseline, Version
  <1>4. c.etag # 0 => body'[c.etag] = body[c.etag]
    BY <1>1, <1>2 DEF TrueBaseline, Version
  <1> QED BY <1>3, <1>4 DEF TrueBaseline

\* Every configuration that is written holds a true baseline.
LEMMA WrittenTruth ==
  ASSUME TypeOK, IInv, [Next]_vars, NEW d \in Device
  PROVE  TrueBaseline(cfg'[d])
  <1>0. /\ cfg[d] \in Config /\ op[d] \in Operation
        /\ TrueBaseline(cfg[d]) /\ OperationFits(d, op[d])
    BY DEF TypeOK, IInv, BaselineTruth, OperationInv
  <1>1. CASE cfg'[d] = cfg[d]
    BY <1>0, <1>1
  <1>2. CASE cfg'[d] = Refreshed(d)
    <2>1. CASE Current(d)
      <3>1. op[d].seen \in Version /\ body[op[d].seen].pid = cfg[d].pid /\ cfg[d].pid # 0
        BY <2>1 DEF Current, Fetched, HasPayload
      <3>2. cfg'[d] = [cfg[d] EXCEPT !.etag = Tag(op[d].seen)]
        BY <1>2, <2>1 DEF Refreshed
      <3> QED BY <1>0, <3>1, <3>2 DEF TrueBaseline, Tag, Config
    <2>2. CASE ~Current(d)
      BY <1>0, <1>2, <2>2 DEF Refreshed
    <2> QED BY <2>1, <2>2
  <1>3. CASE /\ Answered(d) /\ Fetched(d)
             /\ cfg'[d] = Synced(d, op[d].seen, Tag(op[d].seen))
    <2>1. op[d].seen \in Version /\ body[op[d].seen].pid # 0
      BY <1>3 DEF Fetched, HasPayload
    <2>2. body[body[op[d].seen].pid] = body[op[d].seen]
      BY <2>1, PayloadMade DEF IInv
    <2>3. body[op[d].seen].res = cfg[d].target
      BY <1>0, <1>3 DEF Answered, OperationFits, Fetched
    <2>4. cfg'[d] = [cfg[d] EXCEPT !.etag = Tag(op[d].seen),
                       !.pid = body[op[d].seen].pid, !.base = body[op[d].seen].data]
      BY <1>3 DEF Synced
    <2> QED BY <1>0, <2>1, <2>2, <2>3, <2>4 DEF TrueBaseline, Tag, Config
  <1>4. CASE /\ op[d].phase = "written"
             /\ cfg'[d] = [Synced(d, op[d].put, op[d].tag) EXCEPT
                             !.target = body[op[d].put].res]
    <2> DEFINE v == op[d].put
               c == [cfg[d] EXCEPT !.etag = op[d].tag, !.pid = body[v].pid,
                       !.base = body[v].data, !.target = body[v].res]
    <2>1. /\ v \in Version /\ body[v].pid = v /\ v # 0
          /\ op[d].tag # 0 => body[op[d].tag].pid = v
      BY <1>0, <1>4 DEF OperationFits, HasPayload
    <2>2. cfg'[d] = c
      BY <1>0, <1>4 DEF Synced, Config
    <2>3. /\ c.etag = op[d].tag /\ c.pid = v /\ c.base = body[v].data
          /\ c.target = body[v].res
      BY <1>0, <2>1 DEF Config
    <2> HIDE DEF c
    <2> QED BY <2>1, <2>2, <2>3 DEF TrueBaseline
  <1>5. CASE \E r \in Resource : cfg'[d] = EmptyConfig(r)
    BY <1>5 DEF EmptyConfig, TrueBaseline
  <1>6. CASE cfg'[d] = [cfg[d] EXCEPT !.base = Nothing]
    BY <1>0, <1>6 DEF TrueBaseline, Config
  <1> QED BY <1>1, <1>2, <1>3, <1>4, <1>5, <1>6, ConfigChanges

\* Baselines stay true in every step.
LEMMA BaselineStep ==
  ASSUME TypeOK, IInv, [Next]_vars
  PROVE  BaselineTruth'
  <1> SUFFICES ASSUME NEW d \in Device PROVE TrueBaseline(cfg[d])'
    BY DEF BaselineTruth
  <1>1. cfg'[d] \in Config
    BY TypeNext DEF TypeOK, IInv
  <1>2. ASSUME NEW c \in Config, c = cfg'[d] PROVE TrueBaseline(c)'
    BY <1>2, WrittenTruth, TruthLasts DEF IInv
  <1> QED BY <1>1, <1>2 DEF TrueBaseline

-----------------------------------------------------------------------------
(* Operations.                                                             *)

Ended(o) == o.kind = "none" /\ o.phase \in {"idle", "done"}

Started(d, o) ==
  /\ o.phase = "get" /\ o.mode \in PushMode /\ o.result = "none"
  /\ o.res = cfg[d].target
  /\ o.inm # 0 => o.inm = cfg[d].etag /\ cfg[d].base # Nothing

\* Returning an outcome ends the operation of that device alone.
LEMMA ReturnEnds ==
  ASSUME TypeOK, NEW d \in Device, NEW outcome \in Outcome, Return(d, outcome)
  PROVE  /\ Ended(op'[d])
         /\ \A e \in Device \ {d} : op'[e] = op[e]
  <1>1. DOMAIN op = Device
    BY DEF TypeOK
  <1> QED BY <1>1 DEF Return, Ended, Idle

\* An operation that begins asks for what its configuration names.
LEMMA BeginStarts ==
  ASSUME TypeOK, NEW d \in Device, BeginPush(d) \/ BeginPull(d) \/ BeginPoll(d)
  PROVE  /\ Started(d, op'[d]) /\ UNCHANGED cfg
         /\ \A e \in Device \ {d} : op'[e] = op[e]
  <1>1. PICK kind \in {"push", "pull", "poll"}, mode \in PushMode,
             conditional \in BOOLEAN, expected \in Content \cup {Nothing} :
          Begin(d, kind, mode, conditional, expected)
    <2>1. CASE BeginPush(d)
      <3>1. PICK m \in PushMode :
              Begin(d, "push", m, ~ManualWebDav(m) /\ ~UnsafeWrite(m), Nothing)
        BY <2>1 DEF BeginPush
      <3>2. (~ManualWebDav(m) /\ ~UnsafeWrite(m)) \in BOOLEAN /\ m \in PushMode
        OBVIOUS
      <3> HIDE DEF PushMode
      <3> QED BY <3>1, <3>2
    <2>2. CASE BeginPull(d)
      BY <2>2 DEF BeginPull, TypeOK
    <2>3. CASE BeginPoll(d)
      <3>1. (~UnsafeWrite("Automatic")) \in BOOLEAN /\ "Automatic" \in PushMode
        BY DEF PushMode
      <3> HIDE DEF PushMode
      <3> QED BY <2>3, <3>1 DEF BeginPoll
    <2> QED BY <2>1, <2>2, <2>3
  <1> DEFINE inm == IF conditional /\ cfg[d].base # Nothing THEN cfg[d].etag ELSE 0
             o == [Idle EXCEPT !.kind = kind, !.mode = mode, !.phase = "get",
                     !.res = cfg[d].target, !.expected = expected, !.inm = inm]
  <1>2. op' = [op EXCEPT ![d] = o] /\ UNCHANGED cfg
    BY <1>1 DEF Begin
  <1>3. /\ o.phase = "get" /\ o.mode = mode /\ o.result = "none"
        /\ o.res = cfg[d].target /\ o.inm = inm
    <2> HIDE DEF inm
    <2> QED BY DEF Idle
  <1>4. DOMAIN op = Device
    BY DEF TypeOK
  <1>5. Started(d, o)
    <2> HIDE DEF o
    <2> QED BY <1>3 DEF Started
  <1> HIDE DEF o
  <1> QED BY <1>2, <1>4, <1>5

\* What a step of device d itself does to its operation.
Progress(d) ==
  \/ op'[d] = op[d] /\ cfg'[d] = cfg[d]
  \/ Ended(op'[d])
  \/ /\ op[d].phase = "get" /\ cfg'[d] = cfg[d]
     /\ op'[d] = [op[d] EXCEPT !.phase = "answered",
                    !.seen = IF op[d].res = Unbound THEN 0 ELSE remote[op[d].res]]
  \/ op'[d] = [op[d] EXCEPT !.phase = "put", !.cond = Condition(d)]
  \/ LET w == remote[op[d].res] IN
     /\ op[d].phase = "written" /\ cfg'[d] = cfg[d]
     /\ HasPayload(w) /\ body[w].pid = op[d].put
     /\ op'[d] = [op[d] EXCEPT !.tag = Tag(w)]

\* The steps of a push are progress of its device alone.
LEMMA PushProgress ==
  ASSUME TypeOK, NEW d \in Device, PushStep(d)
  PROVE  Progress(d) /\ \A e \in Device \ {d} : op'[e] = op[e] /\ cfg'[e] = cfg[e]
  <1> USE DEF Outcome
  <1>0. DOMAIN op = Device /\ DOMAIN cfg = Device
    BY DEF TypeOK
  <1>1. CASE PushUpToDate(d) \/ PushAcknowledge(d) \/ PushIntervene(d)
             \/ PushUnreadable(d) \/ PushRefuse(d) \/ PushRecord(d) \/ PushRefused(d)
    <2>1. (\E outcome \in Outcome : Return(d, outcome))
      BY <1>1 DEF PushUpToDate, PushAcknowledge, PushIntervene,
           PushUnreadable, PushRefuse, PushRecord, PushRefused
    <2>2. UNCHANGED cfg \/ \E c : SetConfig(d, c)
      BY <1>1 DEF PushUpToDate, PushAcknowledge, PushIntervene,
           PushUnreadable, PushRefuse, PushRecord, PushRefused
    <2>3. \A e \in Device \ {d} : cfg'[e] = cfg[e]
      BY <1>0, <2>2 DEF SetConfig
    <2> QED BY <2>1, <2>3, ReturnEnds DEF Progress
  <1>2. CASE PushSend(d)
    BY <1>0, <1>2 DEF PushSend, Progress, SetConfig
  <1>3. CASE VerifyUpload(d)
    <2>1. CASE \E outcome \in Outcome : Return(d, outcome)
      BY <1>3, <2>1, ReturnEnds DEF VerifyUpload, Progress
    <2>2. CASE ~\E outcome \in Outcome : Return(d, outcome)
      BY <1>0, <1>3, <2>2 DEF VerifyUpload, Progress
    <2> QED BY <2>1, <2>2
  <1> QED BY <1>1, <1>2, <1>3 DEF PushStep

\* The steps of an operation are progress of its device alone.
LEMMA EngineProgress ==
  ASSUME TypeOK, NEW d \in Device,
         EngineStep(d) \/ Crash(d) \/ CrashWhileApplying(d)
  PROVE  Progress(d) /\ \A e \in Device \ {d} : op'[e] = op[e] /\ cfg'[e] = cfg[e]
  <1> USE DEF Outcome
  <1>0. DOMAIN op = Device /\ DOMAIN cfg = Device
    BY DEF TypeOK
  <1>1. CASE GetAnswered(d)
    <2>1. CASE \E outcome \in Outcome : Return(d, outcome)
      BY <1>1, <2>1, ReturnEnds DEF GetAnswered, Progress
    <2>2. CASE ~\E outcome \in Outcome : Return(d, outcome)
      BY <1>0, <1>1, <2>2 DEF GetAnswered, Progress
    <2> QED BY <2>1, <2>2
  <1>2. CASE ConfigMoved(d) \/ EndPoll(d) \/ Timeout(d) \/ PullStep(d)
    <2>1. \E outcome \in Outcome : Return(d, outcome)
      BY <1>2 DEF ConfigMoved, EndPoll, Timeout, PullStep, PullNothing, PullStop,
           PullAcknowledge, PullApply, PullApplyFails
    <2>2. UNCHANGED cfg \/ \E c : SetConfig(d, c)
      BY <1>2 DEF ConfigMoved, EndPoll, Timeout, PullStep, PullNothing, PullStop,
           PullAcknowledge, PullApply, PullApplyFails
    <2>3. \A e \in Device \ {d} : cfg'[e] = cfg[e]
      BY <1>0, <2>2 DEF SetConfig
    <2> QED BY <2>1, <2>3, ReturnEnds DEF Progress
  <1>3. CASE Finish(d) \/ Crash(d) \/ CrashWhileApplying(d)
    <2>1. op' = [op EXCEPT ![d] = Idle]
      BY <1>3 DEF Finish, Crash, CrashWhileApplying
    <2>2. UNCHANGED cfg \/ \E c : SetConfig(d, c)
      BY <1>3 DEF Finish, Crash, CrashWhileApplying
    <2>3. \A e \in Device \ {d} : cfg'[e] = cfg[e]
      BY <1>0, <2>2 DEF SetConfig
    <2> QED BY <1>0, <2>1, <2>3 DEF Progress, Ended, Idle
  <1> QED BY <1>1, <1>2, <1>3, PushProgress DEF EngineStep

\* A change of settings marks the operation under way as overtaken.
LEMMA UserProgress ==
  ASSUME TypeOK, NEW d \in Device, UserStep(d)
  PROVE  /\ \/ /\ op'[d] = op[d]
               /\ cfg'[d] = cfg[d] \/ op[d].phase \in {"idle", "done"}
            \/ op'[d] = [op[d] EXCEPT !.moved = TRUE]
         /\ \A e \in Device \ {d} : op'[e] = op[e] /\ cfg'[e] = cfg[e]
  <1>0. DOMAIN op = Device /\ DOMAIN cfg = Device
    BY DEF TypeOK
  <1>1. CASE UNCHANGED <<op, cfg>>
    BY <1>1
  <1>2. ASSUME NEW c, WriteConfig(d, c)
        PROVE  /\ \/ /\ op'[d] = op[d]
                     /\ cfg'[d] = cfg[d] \/ op[d].phase \in {"idle", "done"}
                  \/ op'[d] = [op[d] EXCEPT !.moved = TRUE]
               /\ \A e \in Device \ {d} : op'[e] = op[e] /\ cfg'[e] = cfg[e]
    BY <1>0, <1>2 DEF WriteConfig, SetConfig
  <1> QED BY <1>1, <1>2 DEF UserStep, Edit, SetTarget, StorePassphrase,
          RecordPassphrase, RestorePassphrase

\* What the remote does to the operation whose upload arrives.
LEMMA RemoteProgress ==
  ASSUME TypeOK, RemoteStep, NEW d \in Device
  PROVE  /\ UNCHANGED cfg
         /\ \/ op'[d] = op[d]
            \/ op'[d] = [op[d] EXCEPT !.phase = "refused"]
            \/ \E tag \in {0, made + 1} :
                 /\ made + 1 \in Version /\ body'[made + 1].pid = made + 1
                 /\ op'[d] = [op[d] EXCEPT !.phase = "written", !.put = made + 1,
                                            !.tag = tag]
  <1>0. DOMAIN op = Device /\ DOMAIN body = Version
    BY DEF TypeOK
  <1>1. ASSUME NEW u \in wire, Refuse(u)
        PROVE  op'[d] \in {op[d], [op[d] EXCEPT !.phase = "refused"]} /\ UNCHANGED cfg
    BY <1>0, <1>1 DEF Refuse
  <1>2. ASSUME NEW u \in wire, Land(u)
        PROVE  /\ UNCHANGED cfg
               /\ \/ op'[d] = op[d]
                  \/ \E tag \in {0, made + 1} :
                       /\ made + 1 \in Version /\ body'[made + 1].pid = made + 1
                       /\ op'[d] = [op[d] EXCEPT !.phase = "written", !.put = made + 1,
                                                  !.tag = tag]
    <2>1. PICK r \in Destination(u), tag \in {0, Tag(made + 1)} :
            /\ body' = [body EXCEPT ![made + 1] =
                     [pid |-> made + 1, data |-> u.data, key |-> u.key, res |-> r]]
            /\ op' = IF u.live
                THEN [op EXCEPT ![u.dev] =
                        [@ EXCEPT !.phase = "written", !.put = made + 1,
                                  !.tag = tag]]
                ELSE op
      BY <1>2 DEF Land
    <2>2. made + 1 \in Version
      BY <1>2 DEF Land, TypeOK, Version
    <2>3. tag \in {0, made + 1}
      BY DEF Tag
    <2>4. body'[made + 1].pid = made + 1
      BY <1>0, <2>1, <2>2
    <2>5. UNCHANGED cfg
      BY <1>2 DEF Land
    <2>6. \/ op'[d] = op[d]
          \/ op'[d] = [op[d] EXCEPT !.phase = "written", !.put = made + 1, !.tag = tag]
      BY <1>0, <2>1
    <2> QED BY <2>2, <2>3, <2>4, <2>5, <2>6
  <1>3. ASSUME NEW r \in Resource, Retag(r) \/ RemoveRemote(r)
        PROVE  UNCHANGED <<op, cfg>>
    BY <1>3 DEF Retag, RemoveRemote
  <1> QED BY <1>1, <1>2, <1>3 DEF RemoteStep

\* An operation that has ended fits any configuration.
LEMMA EndedFits ==
  ASSUME NEW d \in Device, Ended(op'[d])
  PROVE  OperationFits(d, op[d])'
  BY DEF Ended, OperationFits

\* Stored versions do not change, so what an operation knows of them stays true.
LEMMA KnownLasts ==
  ASSUME TypeOK, IInv, [Next]_vars, NEW d \in Device
  PROVE  /\ op[d].phase = "answered" => op[d].seen <= made'
         /\ op[d].phase = "answered" /\ op[d].seen \in Version
            /\ body'[op[d].seen].pid # 0 => body'[op[d].seen].res = op[d].res
         /\ op[d].phase = "written" =>
              /\ op[d].put \in Version /\ body'[op[d].put].pid = op[d].put
              /\ op[d].tag # 0 => body'[op[d].tag].pid = op[d].put
  <1>0. /\ op[d] \in Operation /\ OperationFits(d, op[d]) /\ made \in Nat /\ made' \in Nat
        /\ made <= made' /\ \A v \in Version : v <= made => body'[v] = body[v]
    BY ServerStep DEF TypeOK, IInv, OperationInv
  <1> HIDE DEF IInv
  <1>1. \A v \in Version : body[v].pid # 0 => body'[v] = body[v]
    BY <1>0, PayloadMade DEF IInv
  <1>2. op[d].seen \in 0..MaxVersion /\ op[d].put \in 0..MaxVersion
        /\ op[d].tag \in 0..MaxVersion
    BY <1>0 DEF Operation
  <1>3. ASSUME op[d].phase = "answered"
        PROVE  /\ op[d].seen <= made'
               /\ op[d].seen \in Version /\ body'[op[d].seen].pid # 0 =>
                    body'[op[d].seen].res = op[d].res
    <2>1. op[d].seen <= made
      BY <1>0, <1>3 DEF OperationFits
    <2>2. ASSUME op[d].seen \in Version PROVE body'[op[d].seen] = body[op[d].seen]
      BY <1>0, <2>1, <2>2
    <2>3. op[d].seen <= made'
      BY <1>0, <1>2, <2>1
    <2>4. ASSUME op[d].seen \in Version, body'[op[d].seen].pid # 0
          PROVE  body'[op[d].seen].res = op[d].res
      <3>1. HasPayload(op[d].seen)
        BY <2>2, <2>4 DEF HasPayload
      <3> QED BY <1>0, <1>3, <2>2, <2>4, <3>1 DEF OperationFits
    <2> QED BY <2>3, <2>4
  <1>4. ASSUME op[d].phase = "written"
        PROVE  /\ op[d].put \in Version /\ body'[op[d].put].pid = op[d].put
               /\ op[d].tag # 0 => body'[op[d].tag].pid = op[d].put
    <2>1. /\ op[d].put \in Version /\ body[op[d].put].pid = op[d].put /\ op[d].put # 0
          /\ op[d].tag # 0 => body[op[d].tag].pid = op[d].put
      BY <1>0, <1>4 DEF OperationFits, HasPayload, Version
    <2>2. op[d].tag # 0 => op[d].tag \in Version
      BY <1>2 DEF Version
    <2> QED BY <1>1, <2>1, <2>2
  <1> QED BY <1>3, <1>4

\* Operations keep fitting their configuration when they make progress.
LEMMA ProgressFits ==
  ASSUME TypeOK, IInv, [Next]_vars, NEW d \in Device, Progress(d)
  PROVE  OperationFits(d, op[d])'
  <1>0. /\ op[d] \in Operation /\ OperationFits(d, op[d])
        /\ remote \in [Resource -> 0..MaxVersion]
        /\ ServerInv /\ made \in Nat /\ made' \in Nat /\ made <= made'
        /\ \A v \in Version : v <= made => body'[v] = body[v]
    BY ServerStep DEF TypeOK, IInv, OperationInv
  <1>1. CASE op'[d] = op[d] /\ cfg'[d] = cfg[d]
    BY <1>0, <1>1, KnownLasts DEF OperationFits, HasPayload
  <1>2. CASE Ended(op'[d])
    BY <1>2, EndedFits
  <1>3. CASE /\ op[d].phase = "get" /\ cfg'[d] = cfg[d]
             /\ op'[d] = [op[d] EXCEPT !.phase = "answered",
                            !.seen = IF op[d].res = Unbound THEN 0 ELSE remote[op[d].res]]
    <2> DEFINE v == IF op[d].res = Unbound THEN 0 ELSE remote[op[d].res]
    <2>1. /\ op'[d].phase = "answered" /\ op'[d].seen = v /\ op'[d].kind = op[d].kind
          /\ op'[d].mode = op[d].mode /\ op'[d].moved = op[d].moved
          /\ op'[d].res = op[d].res /\ op'[d].inm = op[d].inm
          /\ op'[d].result = op[d].result
      BY <1>0, <1>3 DEF Operation
    <2>2. v <= made
      BY <1>0 DEF ServerInv, Operation
    <2>3. ASSUME v \in Version, body'[v].pid # 0 PROVE body'[v].res = op[d].res
      <3>1. body'[v] = body[v]
        BY <1>0, <2>2, <2>3
      <3>2. op[d].res \in Resource /\ v = remote[op[d].res]
        BY <1>0, <2>3 DEF Operation, Version
      <3> QED BY <1>0, <2>3, <3>1, <3>2 DEF ServerInv, HasPayload
    <2>4. v <= made'
      BY <1>0, <2>2 DEF Operation
    <2> HIDE DEF v
    <2> QED BY <1>0, <1>3, <2>1, <2>3, <2>4 DEF OperationFits, HasPayload
  <1>4. CASE op'[d] = [op[d] EXCEPT !.phase = "put", !.cond = Condition(d)]
    <2>1. /\ op'[d].phase = "put" /\ op'[d].kind = op[d].kind
          /\ op'[d].mode = op[d].mode /\ op'[d].result = op[d].result
      BY <1>0, <1>4 DEF Operation
    <2> QED BY <1>0, <2>1 DEF OperationFits
  <1>5. ASSUME NEW w \in Version, op[d].phase = "written", cfg'[d] = cfg[d],
               body[w].pid # 0, body[w].pid = op[d].put,
               op'[d] = [op[d] EXCEPT !.tag = Tag(w)]
        PROVE  OperationFits(d, op[d])'
    <2>1. /\ op'[d].phase = "written" /\ op'[d].tag \in {0, w} /\ op'[d].put = op[d].put
          /\ op'[d].kind = op[d].kind /\ op'[d].mode = op[d].mode
          /\ op'[d].result = op[d].result
      BY <1>0, <1>5 DEF Operation, Tag
    <2>2. body'[w] = body[w]
      BY <1>0, <1>5, PayloadMade
    <2> QED BY <1>0, <1>5, <2>1, <2>2, KnownLasts DEF OperationFits, HasPayload
  <1> QED BY <1>1, <1>2, <1>3, <1>4, <1>5 DEF Progress, HasPayload

\* Operations keep fitting their configuration in every step.
LEMMA OperationStep ==
  ASSUME TypeOK, IInv, [Next]_vars
  PROVE  OperationInv'
  <1> SUFFICES ASSUME NEW d \in Device PROVE OperationFits(d, op[d])'
    BY DEF OperationInv
  <1>0. op[d] \in Operation /\ OperationFits(d, op[d]) /\ op \in [Device -> Operation]
    BY DEF TypeOK, IInv, OperationInv
  <1>1. CASE UNCHANGED vars
    BY <1>1, ProgressFits DEF Progress, vars
  <1>2. ASSUME NEW e \in Device, BeginPush(e) \/ BeginPull(e) \/ BeginPoll(e)
        PROVE  OperationFits(d, op[d])'
    <2>1. CASE e = d
      <3>1. Started(d, op'[d]) /\ cfg'[d] = cfg[d]
        BY <1>2, <2>1, BeginStarts
      <3>2. op'[d].mode # "none"
        BY <3>1 DEF Started, PushMode
      <3> QED BY <3>1, <3>2 DEF Started, OperationFits
    <2>2. CASE e # d
      <3>1. op'[d] = op[d] /\ cfg'[d] = cfg[d]
        BY <1>2, <2>2, BeginStarts
      <3> QED BY <3>1, ProgressFits DEF Progress
    <2> QED BY <2>1, <2>2
  <1>3. ASSUME NEW e \in Device, EngineStep(e) \/ Crash(e) \/ CrashWhileApplying(e)
        PROVE  OperationFits(d, op[d])'
    <2>1. CASE e = d
      BY <1>3, <2>1, EngineProgress, ProgressFits
    <2>2. CASE e # d
      <3>1. op'[d] = op[d] /\ cfg'[d] = cfg[d]
        BY <1>3, <2>2, EngineProgress
      <3> QED BY <3>1, ProgressFits DEF Progress
    <2> QED BY <2>1, <2>2
  <1>4. ASSUME NEW e \in Device, UserStep(e) PROVE OperationFits(d, op[d])'
    <2>1. CASE op'[d] = op[d] /\ cfg'[d] = cfg[d]
      BY <2>1, ProgressFits DEF Progress
    <2>2. CASE op'[d] = op[d] /\ op[d].phase \in {"idle", "done"}
      BY <1>0, <2>2 DEF OperationFits
    <2>3. CASE op'[d] = [op[d] EXCEPT !.moved = TRUE]
      <3>1. /\ op'[d].moved /\ op'[d].kind = op[d].kind /\ op'[d].mode = op[d].mode
            /\ op'[d].result = op[d].result /\ op'[d].phase = op[d].phase
            /\ op'[d].seen = op[d].seen /\ op'[d].res = op[d].res
            /\ op'[d].put = op[d].put /\ op'[d].tag = op[d].tag
        BY <1>0, <2>3 DEF Operation
      <3> DEFINE o == op'[d]
      <3>2. o.kind # "none" => o.mode # "none" /\ o.result = "none"
        BY <1>0, <3>1 DEF OperationFits
      <3>3. o.phase = "answered" => o.seen <= made'
        BY <3>1, KnownLasts
      <3>4. o.phase = "answered" /\ o.seen \in Version /\ body'[o.seen].pid # 0 =>
              body'[o.seen].res = o.res
        BY <3>1, KnownLasts
      <3>5. ASSUME op[d].phase = "written"
            PROVE  /\ o.put \in Version /\ body'[o.put].pid = o.put /\ o.put # 0
                   /\ o.tag # 0 => body'[o.tag].pid = o.put
        <4>1. /\ op[d].put \in Version /\ body'[op[d].put].pid = op[d].put
              /\ op[d].tag # 0 => body'[op[d].tag].pid = op[d].put
          BY <3>5, KnownLasts
        <4> QED BY <3>1, <4>1 DEF Version
      <3>6. o.moved /\ o.phase = op[d].phase
        BY <3>1
      <3>7. o = op'[d]
        OBVIOUS
      <3> HIDE DEF o
      <3> QED BY <3>2, <3>3, <3>4, <3>5, <3>6, <3>7 DEF OperationFits, HasPayload
    <2>4. CASE e = d
      <3>1. UserStep(d)
        BY <1>4, <2>4
      <3>2. \/ /\ op'[d] = op[d]
               /\ cfg'[d] = cfg[d] \/ op[d].phase \in {"idle", "done"}
            \/ op'[d] = [op[d] EXCEPT !.moved = TRUE]
        BY <3>1, UserProgress
      <3> QED BY <2>1, <2>2, <2>3, <3>2
    <2>5. CASE e # d
      BY <1>4, <2>1, <2>5, UserProgress
    <2> QED BY <2>4, <2>5
  <1>5. CASE RemoteStep
    <2>1. CASE op'[d] = op[d] /\ cfg'[d] = cfg[d]
      BY <2>1, ProgressFits DEF Progress
    <2>2. CASE op'[d] = [op[d] EXCEPT !.phase = "refused"]
      <3>1. /\ op'[d].phase = "refused" /\ op'[d].kind = op[d].kind
            /\ op'[d].mode = op[d].mode /\ op'[d].result = op[d].result
        BY <1>0, <2>2 DEF Operation
      <3> QED BY <1>0, <3>1 DEF OperationFits
    <2>3. ASSUME NEW tag \in {0, made + 1}, made + 1 \in Version,
                 body'[made + 1].pid = made + 1,
                 op'[d] = [op[d] EXCEPT !.phase = "written", !.put = made + 1,
                                         !.tag = tag]
          PROVE  OperationFits(d, op[d])'
      <3> DEFINE n == made + 1
      <3>1. n \in Version /\ n # 0 /\ body'[n].pid = n /\ tag \in {0, n}
        BY <2>3 DEF Version
      <3>2. op'[d] = [op[d] EXCEPT !.phase = "written", !.put = n, !.tag = tag]
        BY <2>3
      <3> HIDE DEF n
      <3>3. /\ op'[d].phase = "written" /\ op'[d].put = n /\ op'[d].tag = tag
            /\ op'[d].kind = op[d].kind /\ op'[d].mode = op[d].mode
            /\ op'[d].result = op[d].result
        BY <1>0, <3>2 DEF Operation
      <3> QED BY <1>0, <3>1, <3>3 DEF OperationFits, HasPayload
    <2> QED BY <1>5, <2>1, <2>2, <2>3, RemoteProgress
  <1> QED BY <1>1, <1>2, <1>3, <1>4, <1>5 DEF Next

-----------------------------------------------------------------------------
(* Uploads.                                                                *)

\* The comparison of an unforced push lets only synchronised content be replaced.
LEMMA ComparedContent ==
  ASSUME TypeOK, IInv, NEW d \in Device, PushSend(d), op[d].mode # "Force",
         HasPayload(op[d].seen)
  PROVE  body[op[d].seen].data = cfg[d].base
  <1>0. /\ op[d] \in Operation /\ cfg[d] \in Config /\ OperationFits(d, op[d])
        /\ TrueBaseline(cfg[d]) /\ local[d] \in Content
    BY DEF TypeOK, IInv, OperationInv, BaselineTruth
  <1>1. /\ op[d].phase = "answered" /\ ~op[d].moved /\ MayUpload(d) /\ ~Forced(d)
    BY DEF PushSend, Settled, Forced
  <1>2. op[d].seen \in Version /\ body[body[op[d].seen].pid] = body[op[d].seen]
    BY PayloadMade DEF IInv, HasPayload
  <1>3. CASE NotModified(d)
    <2>1. op[d].seen = cfg[d].etag /\ cfg[d].base # Nothing /\ cfg[d].etag # 0
      BY <1>0, <1>1, <1>3 DEF NotModified, OperationFits
    <2>2. body[op[d].seen].pid = cfg[d].pid /\ body[cfg[d].pid].data = cfg[d].base
      BY <1>0, <2>1 DEF TrueBaseline
    <2> QED BY <1>2, <2>2
  <1>4. CASE Current(d) /\ cfg[d].base # Nothing
    <2>1. body[op[d].seen].pid = cfg[d].pid /\ body[cfg[d].pid].data = cfg[d].base
      BY <1>0, <1>4 DEF TrueBaseline, Current
    <2> QED BY <1>2, <2>1
  <1>5. CASE RemoteRelation(d) = "LocalChanged"
    BY <1>5 DEF RemoteRelation, Relation
  <1> QED BY <1>1, <1>3, <1>4, <1>5 DEF MayUpload

\* What the upload of a guarded push is conditioned on.
LEMMA GuardedCondition ==
  ASSUME TypeOK, IInv, NEW d \in Device, PushSend(d),
         \/ op[d].mode = "Automatic" /\ ~setup.consent
         \/ op[d].mode = "Manual" /\ setup.provider = "GithubGist"
  PROVE  /\ Condition(d) = AnyVersion => op[d].res = Unbound
         /\ Condition(d) <= made
         /\ HasPayload(Condition(d)) => body[Condition(d)].data = cfg[d].base
  <1>0. /\ op[d] \in Operation /\ cfg[d] \in Config /\ OperationFits(d, op[d])
        /\ TrueBaseline(cfg[d]) /\ made \in Nat /\ local[d] \in Content
        /\ op[d].seen \in 0..MaxVersion /\ Tag(op[d].seen) \in {0, op[d].seen}
    BY DEF TypeOK, IInv, OperationInv, BaselineTruth, Operation, Tag
  <1>1. /\ op[d].phase = "answered" /\ ~op[d].moved /\ op[d].kind = "push"
        /\ MayUpload(d) /\ ~Unguarded(d)
    BY DEF PushSend, Settled
  <1>2. ~ManualWebDav(op[d].mode) /\ ~UnsafeWrite(op[d].mode) /\ ~Forced(d)
    BY DEF ManualWebDav, UnsafeWrite, Forced
  <1>3. Condition(d) = AnyVersion => op[d].res = Unbound
    <2> SUFFICES ASSUME Condition(d) = AnyVersion, op[d].res # Unbound PROVE FALSE
      OBVIOUS
    <2>1. HasPayload(op[d].seen)
      BY <1>0, <1>2 DEF Condition, DropsPrecondition, AnyVersion
    <2> QED BY <1>1, <1>2, <2>1 DEF Unguarded
  <1>4. Condition(d) <= made
    BY <1>0, <1>1 DEF Condition, AnyVersion, OperationFits
  <1>5. ASSUME HasPayload(Condition(d)) PROVE body[Condition(d)].data = cfg[d].base
    <2>1. Condition(d) = op[d].seen /\ op[d].seen \in Version
      BY <1>0, <1>5 DEF Condition, HasPayload, Version, AnyVersion
    <2> QED BY <1>2, <1>5, <2>1, ComparedContent DEF Forced
  <1> QED BY <1>3, <1>4, <1>5

\* All the ways an upload gets on the network.
LEMMA UploadChanges ==
  ASSUME TypeOK, [Next]_vars, NEW u \in wire'
  PROVE  \/ u \in wire
         \/ \E w \in wire : u = [w EXCEPT !.live = FALSE]
         \/ \E d \in Device :
              /\ PushSend(d)
              /\ u = [dev |-> d, res |-> op[d].res, cond |-> Condition(d),
                      data |-> local[d], key |-> pass[d], mode |-> op[d].mode,
                      seen |-> op[d].seen, base |-> cfg[d].base, live |-> TRUE]
  <1>1. ASSUME NEW d \in Device, BeginPush(d) \/ BeginPull(d) \/ BeginPoll(d)
        PROVE  UNCHANGED wire
    BY <1>1 DEF BeginPush, BeginPull, BeginPoll, Begin
  <1>2. ASSUME NEW d \in Device, PushStep(d), ~PushSend(d) PROVE UNCHANGED wire
    BY <1>2 DEF PushStep, PushUpToDate, PushAcknowledge, PushIntervene,
         PushUnreadable, PushRefuse, VerifyUpload, PushRecord, PushRefused
  <1>3. ASSUME NEW d \in Device, PullStep(d) \/ CrashWhileApplying(d)
        PROVE  UNCHANGED wire
    BY <1>3 DEF PullStep, PullNothing, PullStop, PullAcknowledge, PullApply,
         PullApplyFails, CrashWhileApplying
  <1>4. ASSUME NEW d \in Device, GetAnswered(d) \/ ConfigMoved(d) \/ EndPoll(d) \/ Finish(d)
        PROVE  UNCHANGED wire
    BY <1>4 DEF GetAnswered, ConfigMoved, EndPoll, Finish
  <1>5. ASSUME NEW d \in Device, Timeout(d) \/ Crash(d)
        PROVE  u \in wire \/ \E w \in wire : u = [w EXCEPT !.live = FALSE]
    BY <1>5 DEF Timeout, Crash, LoseUpload, DelayUpload, Awaited
  <1>6. ASSUME NEW d \in Device, UserStep(d) PROVE UNCHANGED wire
    BY <1>6 DEF UserStep, Edit, SetTarget, StorePassphrase, RecordPassphrase,
         RestorePassphrase
  <1>7. ASSUME RemoteStep PROVE u \in wire
    BY <1>7 DEF RemoteStep, Land, Refuse, Retag, RemoveRemote
  <1>8. ASSUME NEW d \in Device, PushSend(d)
        PROVE  u \in wire \/
               u = [dev |-> d, res |-> op[d].res, cond |-> Condition(d),
                    data |-> local[d], key |-> pass[d], mode |-> op[d].mode,
                    seen |-> op[d].seen, base |-> cfg[d].base, live |-> TRUE]
    BY <1>8 DEF PushSend
  <1>9. CASE UNCHANGED vars
    BY <1>9 DEF vars
  <1> QED BY <1>1, <1>2, <1>3, <1>4, <1>5, <1>6, <1>7, <1>8, <1>9 DEF Next, EngineStep

\* The conditions of guarded uploads keep their meaning in every step.
LEMMA UploadStep ==
  ASSUME TypeOK, IInv, [Next]_vars
  PROVE  UploadInv'
  <1>0. /\ wire \subseteq Upload /\ UploadInv /\ made \in Nat /\ made' \in Nat
        /\ made <= made' /\ \A v \in Version : v <= made => body'[v] = body[v]
    BY ServerStep DEF TypeOK, IInv
  <1>1. ASSUME NEW u \in wire',
               /\ u.cond = AnyVersion => u.res = Unbound
               /\ u.cond <= made
               /\ u.cond \in AnyVersion..MaxVersion
               /\ HasPayload(u.cond) => body[u.cond].data = u.base
        PROVE  /\ u.cond = AnyVersion => u.res = Unbound
               /\ u.cond <= made'
               /\ HasPayload(u.cond)' => body'[u.cond].data = u.base
    BY <1>0, <1>1 DEF HasPayload, AnyVersion
  <1>2. ASSUME NEW u \in wire', Guarded(u)
        PROVE  /\ u.cond = AnyVersion => u.res = Unbound
               /\ u.cond <= made
               /\ u.cond \in AnyVersion..MaxVersion
               /\ HasPayload(u.cond) => body[u.cond].data = u.base
    <2>1. CASE u \in wire
      BY <1>0, <1>2, <2>1 DEF UploadInv, Upload
    <2>2. ASSUME NEW w \in wire, u = [w EXCEPT !.live = FALSE]
          PROVE  /\ u.cond = AnyVersion => u.res = Unbound
                 /\ u.cond <= made
                 /\ u.cond \in AnyVersion..MaxVersion
                 /\ HasPayload(u.cond) => body[u.cond].data = u.base
      <3>1. w \in Upload
        BY <1>0
      <3>2. /\ u.cond = w.cond /\ u.res = w.res /\ u.base = w.base /\ u.mode = w.mode
            /\ w.cond \in AnyVersion..MaxVersion
        BY <2>2, <3>1 DEF Upload
      <3>3. Guarded(w)
        BY <1>2, <3>2 DEF Guarded
      <3> QED BY <1>0, <3>2, <3>3 DEF UploadInv
    <2>3. ASSUME NEW d \in Device, PushSend(d),
                 u = [dev |-> d, res |-> op[d].res, cond |-> Condition(d),
                      data |-> local[d], key |-> pass[d], mode |-> op[d].mode,
                      seen |-> op[d].seen, base |-> cfg[d].base, live |-> TRUE]
          PROVE  /\ u.cond = AnyVersion => u.res = Unbound
                 /\ u.cond <= made
                 /\ u.cond \in AnyVersion..MaxVersion
                 /\ HasPayload(u.cond) => body[u.cond].data = u.base
      <3>1. /\ u.cond = Condition(d) /\ u.res = op[d].res /\ u.base = cfg[d].base
            /\ u.mode = op[d].mode
        BY <2>3
      <3>2. \/ op[d].mode = "Automatic" /\ ~setup.consent
            \/ op[d].mode = "Manual" /\ setup.provider = "GithubGist"
        BY <1>2, <3>1 DEF Guarded
      <3>3. Condition(d) \in AnyVersion..MaxVersion
        <4>1. op[d].seen \in 0..MaxVersion
          BY DEF TypeOK, Operation
        <4> QED BY <4>1, TagType DEF Condition, AnyVersion
      <3> QED BY <2>3, <3>1, <3>2, <3>3, GuardedCondition
    <2> QED BY <2>1, <2>2, <2>3, UploadChanges
  <1>3. ASSUME NEW u \in wire', Guarded(u)
        PROVE  /\ u.cond = AnyVersion => u.res = Unbound
               /\ u.cond <= made'
               /\ HasPayload(u.cond)' => body'[u.cond].data = u.base
    BY <1>1, <1>2, <1>3
  <1>4. setup' = setup
    BY OnlyRemoteStores DEF RemoteStep, Land, Refuse, Retag, RemoveRemote
  <1> QED BY <1>3, <1>4 DEF UploadInv, Guarded

-----------------------------------------------------------------------------
(* The theorems.                                                           *)

\* The inductive invariant holds in the beginning.
LEMMA InitIInv == Init => IInv
  <1> SUFFICES ASSUME Init PROVE IInv
    OBVIOUS
  <1>1. \A v \in Version : body[v].pid = 0
    BY DEF Init, NoPayload
  <1>2. ServerInv
    BY <1>1 DEF Init, ServerInv, HasPayload
  <1>3. BaselineTruth
    BY DEF Init, BaselineTruth, TrueBaseline
  <1>4. OperationInv
    BY DEF Init, OperationInv, OperationFits, Idle
  <1>5. UploadInv
    BY DEF Init, UploadInv
  <1> QED BY <1>2, <1>3, <1>4, <1>5 DEF IInv

\* The inductive invariant: every reachable state is well typed, and the
\* remote's versions, the baselines the engine records, the operations under
\* way and the uploads on the network agree with each other as IInv says.
THEOREM Invariant == Spec => [](TypeOK /\ IInv)
  <1>1. Init => TypeOK /\ IInv
    BY TypeInit, InitIInv
  <1>2. TypeOK /\ IInv /\ [Next]_vars => (TypeOK /\ IInv)'
    <2> SUFFICES ASSUME TypeOK, IInv, [Next]_vars PROVE TypeOK' /\ IInv'
      OBVIOUS
    <2>1. TypeOK' /\ ServerInv'
      BY TypeNext, ServerStep DEF IInv
    <2> QED BY <2>1, BaselineStep, OperationStep, UploadStep DEF IInv
  <1> QED BY <1>1, <1>2, PTL DEF Spec

\* Every variable of the engine keeps its type.
THEOREM TypeCorrect == Spec => []TypeOK
  BY Invariant, PTL

\* The baselines that all three-way decisions of engine.rs rest on are true
\* after any sequence of operations, settings changes, crashes and lost replies.
THEOREM BaselineCorrect == Spec => []BaselineTruth
  <1>1. IInv => BaselineTruth
    BY DEF IInv
  <1> QED BY <1>1, Invariant, PTL

\* No automatic push without consent, and no unforced push to a Gist, replaces
\* content its device had not synchronised: the comparison in push_internal and
\* the If-Match of its upload close the window between GET and PUT.
THEOREM PushSafe == Spec => PushKeepsForeignContent
  <1> DEFINE Kept == \A u \in Landing :
                       Guarded(u) => Replaced(u) \in {Nothing, u.base}
  <1>1. TypeOK /\ IInv /\ [Next]_vars => [Kept]_vars
    <2> SUFFICES ASSUME TypeOK, IInv, [Next]_vars, NEW u \in Landing, Guarded(u)
                 PROVE  Replaced(u) \in {Nothing, u.base}
      OBVIOUS
    <2>1. u \in wire /\ u \notin wire' /\ made' # made /\ UploadInv
      BY DEF Landing, IInv
    <2>2. RemoteStep
      BY <2>1, OnlyRemoteStores DEF serverVars
    <2>3. Accepts(u)
      <3>1. PICK w \in wire : Land(w)
        BY <2>1, <2>2 DEF RemoteStep, Refuse, Retag, RemoveRemote
      <3> QED BY <2>1, <3>1 DEF Land
    <2>4. CASE u.cond = AnyVersion
      BY <2>1, <2>4 DEF UploadInv, Replaced
    <2>5. CASE u.cond = remote[u.res] /\ u.cond # AnyVersion
      BY <2>1, <2>5 DEF UploadInv, Replaced
    <2> QED BY <2>3, <2>4, <2>5 DEF Accepts
  <1> QED BY <1>1, Invariant, PTL DEF Spec, PushKeepsForeignContent

\* An automatic pull replaces local data only when the remote has stored exactly
\* that data: what the user edits while the pull runs is never lost to it.
THEOREM PullSafe == Spec => PullKeepsLocalEdits
  <1> DEFINE Kept == \A d \in Device :
                op[d].kind = "pull" /\ op[d].mode = "Automatic" /\ op'[d] # op[d]
                /\ local'[d] # local[d]
                => \E v \in Version : HasPayload(v) /\ body[v].data = local[d]
  <1>1. TypeOK /\ IInv /\ [Next]_vars => [Kept]_vars
    <2> SUFFICES ASSUME TypeOK, IInv, [Next]_vars, NEW d \in Device,
                        op[d].mode = "Automatic", op'[d] # op[d],
                        local'[d] # local[d]
                 PROVE  \E v \in Version : HasPayload(v) /\ body[v].data = local[d]
      OBVIOUS
    <2>1. MayApply(d)
      <3>0. DOMAIN local = Device /\ DOMAIN op = Device
        BY DEF TypeOK
      <3>1. ASSUME NEW e \in Device, BeginPush(e) \/ BeginPull(e) \/ BeginPoll(e)
            PROVE  UNCHANGED local
        BY <3>1 DEF BeginPush, BeginPull, BeginPoll, Begin
      <3>2. ASSUME NEW e \in Device, PushStep(e) PROVE UNCHANGED local
        BY <3>2 DEF PushStep, PushUpToDate, PushAcknowledge, PushIntervene,
             PushUnreadable, PushRefuse, PushSend, VerifyUpload, PushRecord, PushRefused
      <3>3. ASSUME NEW e \in Device, PullStep(e) \/ CrashWhileApplying(e)
            PROVE  UNCHANGED local \/ (MayApply(e) /\ \E c : local' = [local EXCEPT ![e] = c])
        BY <3>3 DEF PullStep, PullNothing, PullStop, PullAcknowledge, PullApply,
             PullApplyFails, CrashWhileApplying
      <3>4. ASSUME NEW e \in Device, GetAnswered(e) \/ ConfigMoved(e) \/ EndPoll(e)
                                      \/ Timeout(e) \/ Finish(e) \/ Crash(e)
            PROVE  UNCHANGED local
        BY <3>4 DEF GetAnswered, ConfigMoved, EndPoll, Timeout, Finish, Crash
      <3>5. ASSUME NEW e \in Device, UserStep(e) PROVE UNCHANGED op \/ UNCHANGED local
        BY <3>5 DEF UserStep, Edit, SetTarget, StorePassphrase, RecordPassphrase,
             RestorePassphrase
      <3>6. RemoteStep => UNCHANGED local
        BY DEF RemoteStep, Land, Refuse, Retag, RemoveRemote
      <3>7. ASSUME NEW e \in Device, PullStep(e) \/ CrashWhileApplying(e) PROVE MayApply(d)
        BY <3>0, <3>3, <3>7
      <3> QED BY <3>1, <3>2, <3>4, <3>5, <3>6, <3>7 DEF Next, EngineStep, vars
    <2>2. /\ cfg[d] \in Config /\ TrueBaseline(cfg[d])
          /\ \A outcome \in Outcome : ~PullStops(d, outcome)
      BY <2>1 DEF TypeOK, IInv, BaselineTruth, MayApply
    <2>3. Readable(d) /\ local[d] = op[d].expected
      BY <2>2 DEF PullStops, Outcome
    <2>4. ~Same(d) /\ ~Forced(d)
      BY <2>1 DEF MayApply, Forced
    <2>5. cfg[d].base # Nothing
      BY <2>2, <2>3, <2>4 DEF PullStops, Outcome
    <2>6. RemoteRelation(d) = "RemoteChanged"
      BY <2>2, <2>3, <2>4, <2>5 DEF PullStops, Outcome
    <2>7. local[d] = cfg[d].base
      BY <2>5, <2>6 DEF RemoteRelation, Relation
    <2>8. /\ cfg[d].pid \in Version /\ body[cfg[d].pid].pid = cfg[d].pid
          /\ cfg[d].pid # 0 /\ body[cfg[d].pid].data = cfg[d].base
      BY <2>2, <2>5 DEF TrueBaseline, Config, Version
    <2> QED BY <2>7, <2>8 DEF HasPayload
  <1> QED BY <1>1, Invariant, PTL DEF Spec, PullKeepsLocalEdits

\* What returns something other than UpToDate does not make it the result.
LEMMA OtherResult ==
  ASSUME TypeOK, NEW d \in Device, NEW e \in Device, op[d].result = "none",
         \/ \E outcome \in Outcome \ {"UpToDate"} : Return(e, outcome)
         \/ op' = op
         \/ \E o \in Operation : o.result = op[e].result /\ op' = [op EXCEPT ![e] = o]
         \/ op' = [op EXCEPT ![e] = Idle]
  PROVE  op'[d].result # "UpToDate"
  <1>1. DOMAIN op = Device /\ Idle.result = "none"
    BY DEF TypeOK, Idle
  <1>2. ASSUME NEW outcome \in Outcome \ {"UpToDate"}, Return(e, outcome)
        PROVE  op'[d].result # "UpToDate"
    <2>1. [Idle EXCEPT !.phase = "done", !.result = outcome].result = outcome
      BY DEF Idle
    <2> QED BY <1>1, <1>2, <2>1 DEF Return
  <1> QED BY <1>1, <1>2

\* Only these two steps of a push return UpToDate.
LEMMA NotUpToDate ==
  ASSUME TypeOK, IInv, NEW d \in Device, NEW e \in Device, op[d].kind = "push",
         EngineStep(e) \/ Crash(e) \/ CrashWhileApplying(e),
         op'[d].result = "UpToDate"
  PROVE  e = d /\ (PushUpToDate(d) \/ PushAcknowledge(d))
  <1> USE DEF Outcome
  <1>0. /\ op[d].result = "none" /\ DOMAIN op = Device
        /\ op[e] \in Operation /\ op \in [Device -> Operation]
    BY DEF TypeOK, IInv, OperationInv, OperationFits
  <1>1. CASE e # d
    <2>1. op'[d] = op[d]
      BY <1>1, EngineProgress
    <2> QED BY <1>0, <2>1
  <1>2. ASSUME \/ PushIntervene(e) \/ PushUnreadable(e) \/ PushRefuse(e)
               \/ PushRecord(e) \/ PushRefused(e) \/ ConfigMoved(e) \/ Timeout(e)
               \/ PullStop(e) \/ PullApply(e) \/ PullApplyFails(e)
        PROVE  FALSE
    <2>1. CASE PushIntervene(e)
      <3>1. \E outcome \in Outcome \ {"UpToDate"} : Return(e, outcome)
        BY <2>1 DEF PushIntervene, Intervention
      <3> QED BY <1>0, <3>1, OtherResult
    <2>2. CASE PullStop(e)
      <3>1. \E outcome \in Outcome \ {"UpToDate"} : Return(e, outcome)
        BY <2>2 DEF PullStop, PullStops
      <3> QED BY <1>0, <3>1, OtherResult
    <2>3. CASE ~PushIntervene(e) /\ ~PullStop(e)
      <3>1. \E outcome \in Outcome \ {"UpToDate"} : Return(e, outcome)
        BY <1>2, <2>3 DEF PushUnreadable, PushRefuse, PushRecord, PushRefused,
             ConfigMoved, Timeout, PullApply, PullApplyFails
      <3> QED BY <1>0, <3>1, OtherResult
    <2> QED BY <2>1, <2>2, <2>3
  <1>3. ASSUME PushSend(e) PROVE FALSE
    <2>1. op'[e].result = op[e].result
      BY <1>0, <1>3 DEF PushSend, Operation
    <2> QED BY <1>0, <1>1, <2>1
  <1>4. ASSUME VerifyUpload(e) PROVE FALSE
    <2>1. CASE \E outcome \in Outcome \ {"UpToDate"} : Return(e, outcome)
      BY <1>0, <2>1, OtherResult
    <2>2. CASE ~\E outcome \in Outcome \ {"UpToDate"} : Return(e, outcome)
      <3>1. PICK w : op' = [op EXCEPT ![e].tag = Tag(w)]
        BY <1>4, <2>2 DEF VerifyUpload
      <3>2. op'[e].result = op[e].result
        BY <1>0, <3>1 DEF Operation
      <3> QED BY <1>0, <1>1, <3>2
    <2> QED BY <2>1, <2>2
  <1>5. ASSUME GetAnswered(e) PROVE FALSE
    <2>1. CASE \E outcome \in Outcome \ {"UpToDate"} : Return(e, outcome)
      BY <1>0, <2>1, OtherResult
    <2>2. CASE ~\E outcome \in Outcome \ {"UpToDate"} : Return(e, outcome)
      <3> DEFINE v == IF op[e].res = Unbound THEN 0 ELSE remote[op[e].res]
      <3>0. op' = [op EXCEPT ![e] = [op[e] EXCEPT !.phase = "answered", !.seen = v]]
        BY <1>5, <2>2 DEF GetAnswered
      <3> HIDE DEF v
      <3>1. op'[e].result = op[e].result
        BY <1>0, <3>0 DEF Operation
      <3> QED BY <1>0, <1>1, <3>1
    <2> QED BY <2>1, <2>2
  <1>6. ASSUME Finish(e) \/ Crash(e) \/ CrashWhileApplying(e) PROVE FALSE
    <2>1. op' = [op EXCEPT ![e] = Idle]
      BY <1>6 DEF Finish, Crash, CrashWhileApplying
    <2> QED BY <1>0, <2>1, OtherResult
  <1>7. ASSUME EndPoll(e) \/ PullNothing(e) \/ PullAcknowledge(e) PROVE FALSE
    <2>1. op[e].kind # "push"
      BY <1>7 DEF EndPoll, PullNothing, PullAcknowledge, Settled
    <2> QED BY <1>1, <2>1
  <1> QED BY <1>1, <1>2, <1>3, <1>4, <1>5, <1>6, <1>7
          DEF EngineStep, PushStep, PullStep

\* A push that says UpToDate, after a 304, a known payload or identical content,
\* is right: the version the remote answered with holds the local content.
THEOREM UpToDateSafe == Spec => UpToDateMeansRemoteHasIt
  <1> DEFINE Held == \A d \in Device :
                op[d].kind = "push" /\ op'[d].result = "UpToDate"
                => /\ HasPayload(op[d].seen)
                   /\ body[op[d].seen].data = local[d]
                   /\ body[op[d].seen].res = cfg'[d].target
  <1>1. TypeOK /\ IInv /\ [Next]_vars => [Held]_vars
    <2> SUFFICES ASSUME TypeOK, IInv, [Next]_vars, NEW d \in Device,
                        op[d].kind = "push", op'[d].result = "UpToDate"
                 PROVE  /\ HasPayload(op[d].seen)
                        /\ body[op[d].seen].data = local[d]
                        /\ body[op[d].seen].res = cfg'[d].target
      OBVIOUS
    <2>0. /\ op[d] \in Operation /\ OperationFits(d, op[d]) /\ op[d].result = "none"
          /\ cfg[d] \in Config /\ TrueBaseline(cfg[d]) /\ local[d] \in Content
          /\ DOMAIN op = Device /\ DOMAIN cfg = Device
      BY DEF TypeOK, IInv, OperationInv, OperationFits, BaselineTruth
    <2>1. PushUpToDate(d) \/ PushAcknowledge(d)
      <3>1. ASSUME NEW e \in Device, BeginPush(e) \/ BeginPull(e) \/ BeginPoll(e)
            PROVE  FALSE
        <4>1. CASE e = d
          BY <3>1, <4>1, BeginStarts DEF Started
        <4>2. CASE e # d
          BY <2>0, <3>1, <4>2, BeginStarts
        <4> QED BY <4>1, <4>2
      <3>2. ASSUME NEW e \in Device, UserStep(e) PROVE FALSE
        <4>1. CASE op'[d] = op[d]
          BY <2>0, <4>1
        <4>2. CASE op'[d] = [op[d] EXCEPT !.moved = TRUE]
          BY <2>0, <4>2 DEF Operation
        <4>3. CASE e = d
          <5>1. UserStep(d)
            BY <3>2, <4>3
          <5> QED BY <4>1, <4>2, <5>1, UserProgress
        <4>4. CASE e # d
          BY <3>2, <4>1, <4>4, UserProgress
        <4> QED BY <4>3, <4>4
      <3>3. ASSUME RemoteStep PROVE FALSE
        <4>1. CASE op'[d] = op[d]
          BY <2>0, <4>1
        <4>2. CASE op'[d] = [op[d] EXCEPT !.phase = "refused"]
          BY <2>0, <4>2 DEF Operation
        <4>3. ASSUME NEW n, NEW tag,
                     op'[d] = [op[d] EXCEPT !.phase = "written", !.put = n, !.tag = tag]
              PROVE  FALSE
          BY <2>0, <4>3 DEF Operation
        <4>4. \/ op'[d] = op[d]
              \/ op'[d] = [op[d] EXCEPT !.phase = "refused"]
              \/ \E tag \in {0, made + 1} :
                   op'[d] = [op[d] EXCEPT !.phase = "written", !.put = made + 1,
                                           !.tag = tag]
          BY <3>3, RemoteProgress
        <4> HIDE DEF IInv
        <4> QED BY <4>1, <4>2, <4>3, <4>4
      <3> QED BY <2>0, <3>1, <3>2, <3>3, NotUpToDate DEF Next, vars
    <2>2. body[op[d].seen].res = cfg[d].target /\ HasPayload(op[d].seen)
          /\ body[op[d].seen].data = local[d]
      <3>1. CASE PushAcknowledge(d)
        BY <2>0, <3>1 DEF PushAcknowledge, Settled, Same, Readable, Fetched, OperationFits
      <3>2. CASE PushUpToDate(d)
        <4>1. cfg[d].base = local[d] /\ cfg[d].base # Nothing
          BY <2>0, <3>2 DEF PushUpToDate
        <4>2. /\ cfg[d].pid # 0 /\ cfg[d].pid \in Version
              /\ body[cfg[d].pid].data = local[d] /\ body[cfg[d].pid].res = cfg[d].target
          BY <2>0, <4>1 DEF TrueBaseline, Config, Version
        <4>3. op[d].seen \in Version /\ body[op[d].seen].pid = cfg[d].pid
          <5>1. CASE Current(d)
            BY <5>1 DEF Current, Fetched, HasPayload
          <5>2. CASE NotModified(d)
            <6>1. op[d].seen = cfg[d].etag /\ op[d].seen # 0
              BY <2>0, <3>2, <5>2 DEF PushUpToDate, Settled, NotModified, OperationFits
            <6> QED BY <2>0, <6>1 DEF TrueBaseline, Operation, Version
          <5> QED BY <3>2, <5>1, <5>2 DEF PushUpToDate
        <4>4. body[cfg[d].pid] = body[op[d].seen]
          BY <4>2, <4>3, PayloadMade DEF IInv
        <4> QED BY <4>2, <4>3, <4>4 DEF HasPayload
      <3> QED BY <2>1, <3>1, <3>2
    <2>3. cfg'[d].target = cfg[d].target
      <3>1. cfg'[d] \in {Refreshed(d), Synced(d, op[d].seen, Tag(op[d].seen))}
        BY <2>0, <2>1 DEF PushUpToDate, PushAcknowledge, SetConfig
      <3> QED BY <2>0, <3>1 DEF Refreshed, Synced, Config
    <2> QED BY <2>2, <2>3
  <1> QED BY <1>1, Invariant, PTL DEF Spec, UpToDateMeansRemoteHasIt
-----------------------------------------------------------------------------
(* An operation and the upload it waits for.                               *)

\* The condition a strict push sent is the tag of the version it compared with.
Waits(d) ==
  op[d].phase \in {"put", "refused"} =>
    /\ op[d].kind = "push"
    /\ Strict(op[d].mode) => op[d].cond = Tag(op[d].seen)

\* At most one upload is awaited, by an operation that does nothing else.
SentInv ==
  /\ \A d \in Device : Waits(d)
  /\ \A u \in wire : u.live => op[u.dev].phase = "put"
  /\ \A u, w \in wire : u.live /\ w.live /\ u.dev = w.dev => u = w

\* Provider, server and consent are those of the beginning.
LEMMA SetupStays ==
  ASSUME [Next]_vars
  PROVE  setup' = setup
  BY OnlyRemoteStores DEF RemoteStep, Land, Refuse, Retag, RemoveRemote

\* Only sending an upload makes an operation wait for one.
LEMMA OnlySendWaits ==
  ASSUME TypeOK, NEW d \in Device,
         EngineStep(d) \/ Crash(d) \/ CrashWhileApplying(d), ~PushSend(d)
  PROVE  op'[d].phase \notin {"put", "refused"}
  <1> USE DEF Outcome
  <1>0. DOMAIN op = Device /\ op[d] \in Operation
    BY DEF TypeOK
  <1>1. CASE \E outcome \in Outcome : Return(d, outcome)
    BY <1>1, ReturnEnds DEF Ended
  <1>2. CASE Finish(d) \/ Crash(d) \/ CrashWhileApplying(d)
    <2>1. op' = [op EXCEPT ![d] = Idle]
      BY <1>2 DEF Finish, Crash, CrashWhileApplying
    <2> QED BY <1>0, <2>1 DEF Idle
  <1>3. CASE GetAnswered(d) /\ ~\E outcome \in Outcome : Return(d, outcome)
    <2> DEFINE v == IF op[d].res = Unbound THEN 0 ELSE remote[op[d].res]
    <2>1. op' = [op EXCEPT ![d] = [op[d] EXCEPT !.phase = "answered", !.seen = v]]
      BY <1>3 DEF GetAnswered
    <2> HIDE DEF v
    <2> QED BY <1>0, <2>1 DEF Operation
  <1>4. CASE VerifyUpload(d) /\ ~\E outcome \in Outcome : Return(d, outcome)
    <2>1. PICK w : op' = [op EXCEPT ![d].tag = Tag(w)]
      BY <1>4 DEF VerifyUpload
    <2>2. op[d].phase = "written"
      BY <1>4 DEF VerifyUpload
    <2> QED BY <1>0, <2>1, <2>2 DEF Operation
  <1>5. CASE PushStep(d) /\ ~VerifyUpload(d)
    <2>1. \E outcome \in Outcome : Return(d, outcome)
      BY <1>5 DEF PushStep, PushUpToDate, PushAcknowledge, PushIntervene,
           PushUnreadable, PushRefuse, PushRecord, PushRefused
    <2> QED BY <1>1, <2>1
  <1>6. CASE ConfigMoved(d) \/ EndPoll(d) \/ Timeout(d) \/ PullStep(d)
    <2>1. \E outcome \in Outcome : Return(d, outcome)
      BY <1>6 DEF ConfigMoved, EndPoll, Timeout, PullStep, PullNothing, PullStop,
           PullAcknowledge, PullApply, PullApplyFails
    <2> QED BY <1>1, <2>1
  <1> QED BY <1>1, <1>2, <1>3, <1>4, <1>5, <1>6 DEF EngineStep, PushStep

\* An operation that waits for its upload goes on only by giving up, and what it
\* gave up is not awaited.
LEMMA GivingUp ==
  ASSUME TypeOK, NEW d \in Device, op[d].phase = "put",
         EngineStep(d) \/ Crash(d) \/ CrashWhileApplying(d)
  PROVE  \A u \in wire' : u.live => u \in wire /\ u.dev # d
  <1>1. Timeout(d) \/ Crash(d)
    <2>1. ~PushStep(d)
      BY DEF PushStep, PushUpToDate, PushAcknowledge, PushIntervene, PushUnreadable,
         PushRefuse, PushSend, VerifyUpload, PushRecord, PushRefused, Settled
    <2>2. ~PullStep(d) /\ ~CrashWhileApplying(d)
      BY DEF PullStep, PullNothing, PullStop, PullAcknowledge, PullApply,
         PullApplyFails, CrashWhileApplying, MayApply, Settled
    <2>3. ~GetAnswered(d) /\ ~ConfigMoved(d) /\ ~EndPoll(d) /\ ~Finish(d)
      BY DEF GetAnswered, ConfigMoved, EndPoll, Finish, Settled
    <2> QED BY <2>1, <2>2, <2>3 DEF EngineStep
  <1>2. LoseUpload(d) \/ DelayUpload(d)
    BY <1>1 DEF Timeout, Crash
  <1>3. \A u \in wire : u \in Upload
    BY DEF TypeOK
  <1>4. \A u \in Upload : [u EXCEPT !.live = FALSE].live = FALSE
    BY DEF Upload
  <1>5. ASSUME NEW u \in wire', u.live PROVE u \in wire /\ u \notin Awaited(d)
    <2>1. CASE LoseUpload(d)
      BY <1>5, <2>1 DEF LoseUpload
    <2>2. CASE DelayUpload(d)
      <3>1. u \in wire \ Awaited(d) \/ \E w \in Awaited(d) : u = [w EXCEPT !.live = FALSE]
        BY <1>5, <2>2 DEF DelayUpload
      <3> QED BY <1>3, <1>4, <1>5, <3>1 DEF Awaited
    <2> QED BY <1>2, <2>1, <2>2
  <1> QED BY <1>5 DEF Awaited

\* The condition of a strict upload, once it may be sent at all.
LEMMA StrictCondition ==
  ASSUME TypeOK, NEW d \in Device, PushSend(d), Strict(op[d].mode)
  PROVE  Condition(d) = Tag(op[d].seen)
  <1>1. ~Unconditionable(d) /\ ~DropsPrecondition(d)
    BY DEF PushSend, DropsPrecondition, UnsafeWrite, Strict
  <1>2. Condition(d) # AnyVersion
    BY <1>1 DEF Unconditionable, Strict
  <1> QED BY <1>2 DEF Condition

\* What an operation that waits for its upload knows stays true.
LEMMA WaitsStep ==
  ASSUME TypeOK, IInv, SentInv, [Next]_vars, NEW d \in Device
  PROVE  Waits(d)'
  <1>0. /\ op[d] \in Operation /\ DOMAIN op = Device /\ setup' = setup /\ Waits(d)
    BY SetupStays DEF TypeOK, SentInv
  <1>1. CASE op'[d] = op[d]
    BY <1>0, <1>1 DEF Waits, Strict, Tag
  <1>2. CASE UNCHANGED vars
    BY <1>1, <1>2 DEF vars
  <1>3. ASSUME NEW e \in Device, BeginPush(e) \/ BeginPull(e) \/ BeginPoll(e)
        PROVE  Waits(d)'
    <2>1. CASE e = d
      BY <1>3, <2>1, BeginStarts DEF Started, Waits
    <2>2. CASE e # d
      BY <1>1, <1>3, <2>2, BeginStarts
    <2> QED BY <2>1, <2>2
  <1>4. ASSUME NEW e \in Device, EngineStep(e) \/ Crash(e) \/ CrashWhileApplying(e)
        PROVE  Waits(d)'
    <2>1. CASE e # d
      BY <1>1, <1>4, <2>1, EngineProgress
    <2>2. CASE e = d /\ ~PushSend(d)
      BY <1>4, <2>2, OnlySendWaits DEF Waits
    <2>3. CASE PushSend(d)
      <3>1. op'[d] = [op[d] EXCEPT !.phase = "put", !.cond = Condition(d)]
        BY <1>0, <2>3 DEF PushSend
      <3>2. /\ op'[d].kind = op[d].kind /\ op'[d].mode = op[d].mode
            /\ op'[d].cond = Condition(d) /\ op'[d].seen = op[d].seen
        BY <1>0, <3>1 DEF Operation
      <3>3. op[d].kind = "push"
        BY <2>3 DEF PushSend, Settled
      <3>4. Strict(op[d].mode) => Condition(d) = Tag(op[d].seen)
        BY <2>3, StrictCondition
      <3> QED BY <1>0, <3>2, <3>3, <3>4 DEF Waits, Strict, Tag
    <2> QED BY <2>1, <2>2, <2>3
  <1>5. ASSUME NEW e \in Device, UserStep(e) PROVE Waits(d)'
    <2>1. CASE op'[d] = [op[d] EXCEPT !.moved = TRUE]
      <3>1. /\ op'[d].kind = op[d].kind /\ op'[d].mode = op[d].mode
            /\ op'[d].cond = op[d].cond /\ op'[d].seen = op[d].seen
            /\ op'[d].phase = op[d].phase
        BY <1>0, <2>1 DEF Operation
      <3> QED BY <1>0, <3>1 DEF Waits, Strict, Tag
    <2>2. CASE e = d
      <3>1. UserStep(d)
        BY <1>5, <2>2
      <3> QED BY <1>1, <2>1, <3>1, UserProgress
    <2>3. CASE e # d
      BY <1>1, <1>5, <2>3, UserProgress
    <2> QED BY <2>2, <2>3
  <1>6. CASE RemoteStep
    <2>1. ASSUME NEW u \in wire, Refuse(u), op'[d] # op[d]
          PROVE  Waits(d)'
      <3>1. u.live /\ u.dev = d /\ op'[d] = [op[d] EXCEPT !.phase = "refused"]
        BY <1>0, <2>1 DEF Refuse
      <3>2. op[d].phase = "put"
        BY <3>1 DEF SentInv
      <3>3. /\ op'[d].kind = op[d].kind /\ op'[d].mode = op[d].mode
            /\ op'[d].cond = op[d].cond /\ op'[d].seen = op[d].seen
        BY <1>0, <3>1 DEF Operation
      <3> QED BY <1>0, <3>2, <3>3 DEF Waits, Strict, Tag
    <2>2. ASSUME NEW u \in wire, Land(u), op'[d] # op[d]
          PROVE  Waits(d)'
      <3>1. PICK tag : op' = [op EXCEPT ![u.dev] =
                        [@ EXCEPT !.phase = "written", !.put = made + 1, !.tag = tag]]
        BY <2>2 DEF Land
      <3>2. op'[d] = [op[d] EXCEPT !.phase = "written", !.put = made + 1, !.tag = tag]
        BY <1>0, <2>2, <3>1
      <3>3. op'[d].phase = "written"
        BY <1>0, <3>2 DEF Operation
      <3> QED BY <3>3 DEF Waits
    <2>3. ASSUME NEW r \in Resource, Retag(r) \/ RemoveRemote(r) PROVE op'[d] = op[d]
      BY <2>3 DEF Retag, RemoveRemote
    <2> QED BY <1>1, <1>6, <2>1, <2>2, <2>3 DEF RemoteStep
  <1> QED BY <1>2, <1>3, <1>4, <1>5, <1>6 DEF Next

\* No operation that is past its upload, or not there yet, is waited for by one.
LEMMA AwaitedStep ==
  ASSUME TypeOK, IInv, SentInv, [Next]_vars
  PROVE  /\ \A u \in wire' : u.live => op'[u.dev].phase = "put"
         /\ \A u, w \in wire' : u.live /\ w.live /\ u.dev = w.dev => u = w
  <1>0. /\ op \in [Device -> Operation] /\ DOMAIN op = Device
        /\ \A u \in wire : u \in Upload /\ u.dev \in Device
        /\ \A u \in wire : u.live => op[u.dev].phase = "put"
        /\ \A u, w \in wire : u.live /\ w.live /\ u.dev = w.dev => u = w
    BY DEF TypeOK, SentInv, Upload
  <1>1. \A u \in Upload : [u EXCEPT !.live = FALSE].live = FALSE
    BY DEF Upload
  \* An awaited upload is an old one, or the one that is sent now.
  <1>2. ASSUME NEW u \in wire', u.live
        PROVE  \/ u \in wire
               \/ \E d \in Device :
                    /\ PushSend(d)
                    /\ u = [dev |-> d, res |-> op[d].res, cond |-> Condition(d),
                            data |-> local[d], key |-> pass[d], mode |-> op[d].mode,
                            seen |-> op[d].seen, base |-> cfg[d].base, live |-> TRUE]
    <2>1. ASSUME NEW w \in wire, u = [w EXCEPT !.live = FALSE] PROVE FALSE
      BY <1>0, <1>1, <1>2, <2>1
    <2> QED BY <2>1, UploadChanges
  <1>3. ASSUME NEW d \in Device, PushSend(d)
        PROVE  /\ op'[d].phase = "put" /\ op[d].phase = "answered"
               /\ \A e \in Device \ {d} : op'[e] = op[e]
    <2>1. op' = [op EXCEPT ![d] = [op[d] EXCEPT !.phase = "put", !.cond = Condition(d)]]
      BY <1>3 DEF PushSend
    <2>2. op[d] \in Operation
      BY <1>0
    <2> QED BY <1>0, <1>3, <2>1, <2>2 DEF PushSend, Settled, Operation
  \* An old one is still awaited.
  <1>4. ASSUME NEW u \in wire, u \in wire', u.live
        PROVE  op'[u.dev].phase = "put"
    <2>0. u.dev \in Device /\ op[u.dev].phase = "put" /\ op[u.dev] \in Operation
      BY <1>0, <1>4
    <2>1. CASE op'[u.dev] = op[u.dev]
      BY <2>0, <2>1
    <2>2. CASE UNCHANGED vars
      BY <2>1, <2>2 DEF vars
    <2>3. ASSUME NEW e \in Device, BeginPush(e) \/ BeginPull(e) \/ BeginPoll(e)
          PROVE  op'[u.dev].phase = "put"
      <3>1. op[e].phase = "idle"
        BY <2>3 DEF BeginPush, BeginPull, BeginPoll, Begin
      <3> QED BY <2>0, <2>1, <2>3, <3>1, BeginStarts
    <2>4. ASSUME NEW e \in Device, EngineStep(e) \/ Crash(e) \/ CrashWhileApplying(e)
          PROVE  op'[u.dev].phase = "put"
      <3>1. CASE e = u.dev
        BY <1>4, <2>0, <2>4, <3>1, GivingUp
      <3>2. CASE e # u.dev
        BY <2>0, <2>1, <2>4, <3>2, EngineProgress
      <3> QED BY <3>1, <3>2
    <2>5. ASSUME NEW e \in Device, UserStep(e) PROVE op'[u.dev].phase = "put"
      <3>1. CASE op'[u.dev] = [op[u.dev] EXCEPT !.moved = TRUE]
        BY <2>0, <3>1 DEF Operation
      <3>2. CASE e = u.dev
        <4>1. UserStep(u.dev)
          BY <2>5, <3>2
        <4> QED BY <2>0, <2>1, <3>1, <4>1, UserProgress
      <3>3. CASE e # u.dev
        BY <2>0, <2>1, <2>5, <3>3, UserProgress
      <3> QED BY <3>2, <3>3
    <2>6. CASE RemoteStep
      <3>1. ASSUME NEW w \in wire, Land(w) \/ Refuse(w) PROVE op'[u.dev] = op[u.dev]
        <4>1. w # u
          BY <1>4, <3>1 DEF Land, Refuse
        <4>2. w.live => w.dev # u.dev
          BY <1>0, <1>4, <4>1
        <4>3. op' = op \/ (w.live /\ \E o : op' = [op EXCEPT ![w.dev] = o])
          BY <3>1 DEF Land, Refuse
        <4> QED BY <1>0, <2>0, <4>2, <4>3
      <3>2. ASSUME NEW r \in Resource, Retag(r) \/ RemoveRemote(r) PROVE op' = op
        BY <3>2 DEF Retag, RemoveRemote
      <3> QED BY <2>1, <2>6, <3>1, <3>2 DEF RemoteStep
    <2> QED BY <2>2, <2>3, <2>4, <2>5, <2>6 DEF Next
  <1>5. ASSUME NEW u \in wire', u.live PROVE op'[u.dev].phase = "put"
    <2>1. CASE u \in wire
      BY <1>4, <1>5, <2>1
    <2>2. CASE u \notin wire
      <3>1. PICK d \in Device :
              /\ PushSend(d)
              /\ u = [dev |-> d, res |-> op[d].res, cond |-> Condition(d),
                      data |-> local[d], key |-> pass[d], mode |-> op[d].mode,
                      seen |-> op[d].seen, base |-> cfg[d].base, live |-> TRUE]
        BY <1>2, <1>5, <2>2
      <3>2. u.dev = d
        BY <3>1
      <3> QED BY <1>3, <3>1, <3>2
    <2> QED BY <2>1, <2>2
  <1>6. ASSUME NEW u \in wire', NEW w \in wire', u.live, w.live, u.dev = w.dev
        PROVE  u = w
    <2>1. ASSUME NEW d \in Device, PushSend(d), NEW x \in wire, x.live
          PROVE  x.dev # d
      BY <1>0, <1>3, <2>1
    <2>2. CASE u \in wire /\ w \in wire
      BY <1>0, <1>6, <2>2
    <2>3. CASE u \notin wire /\ w \in wire
      BY <1>2, <1>6, <2>1, <2>3
    <2>4. CASE u \in wire /\ w \notin wire
      BY <1>2, <1>6, <2>1, <2>4
    <2>5. CASE u \notin wire /\ w \notin wire
      <3> DEFINE Sent(d) == [dev |-> d, res |-> op[d].res, cond |-> Condition(d),
                             data |-> local[d], key |-> pass[d], mode |-> op[d].mode,
                             seen |-> op[d].seen, base |-> cfg[d].base, live |-> TRUE]
      <3>1. PICK d \in Device : u = Sent(d)
        BY <1>2, <1>6, <2>5
      <3>2. PICK e \in Device : w = Sent(e)
        BY <1>2, <1>6, <2>5
      <3>3. d = e
        BY <1>6, <3>1, <3>2
      <3> QED BY <3>1, <3>2, <3>3
    <2> QED BY <2>2, <2>3, <2>4, <2>5
  <1> QED BY <1>5, <1>6
-----------------------------------------------------------------------------
(* What a push compared with.                                              *)

\* Resource r has not gone back behind version v.
Since(r, v) == r # Unbound => remote[r] = 0 \/ remote[r] >= v

\* Unforced uploads know the content of the version they were compared with,
\* and since then their resource has held that version, newer ones or nothing.
ComparedInv ==
  /\ \A d \in Device : op[d].phase = "answered" => Since(op[d].res, op[d].seen)
  /\ \A u \in wire : u.mode # "Force" =>
       /\ u.seen <= made /\ Since(u.res, u.seen)
       /\ HasPayload(u.seen) => body[u.seen].data = u.base

\* A resource gets a newer version than all before, or none.
LEMMA RemoteRises ==
  ASSUME TypeOK, ServerInv, [Next]_vars, NEW r \in Resource
  PROVE  remote'[r] \in {remote[r], 0, made + 1}
  <1>0. DOMAIN remote = Resource
    BY DEF TypeOK
  <1>1. ASSUME NEW u \in wire, Land(u) PROVE remote'[r] \in {remote[r], made + 1}
    BY <1>0, <1>1 DEF Land
  <1>2. ASSUME NEW u \in wire, Refuse(u) PROVE remote' = remote
    BY <1>2 DEF Refuse
  <1>3. ASSUME NEW q \in Resource, Retag(q) PROVE remote'[r] \in {remote[r], made + 1}
    BY <1>0, <1>3 DEF Retag
  <1>4. ASSUME NEW q \in Resource, RemoveRemote(q)
        PROVE  remote'[r] \in {remote[r], 0, made + 1}
    BY <1>0, <1>4 DEF RemoveRemote
  <1> QED BY <1>1, <1>2, <1>3, <1>4, OnlyRemoteStores DEF RemoteStep

\* A resource that has not gone back behind a version never does.
LEMMA SinceLasts ==
  ASSUME TypeOK, ServerInv, [Next]_vars, NEW r \in Resource \cup {Unbound},
         NEW v \in 0..MaxVersion, v <= made, Since(r, v)
  PROVE  Since(r, v)'
  <1>1. made \in Nat
    BY DEF TypeOK
  <1>2. CASE r # Unbound
    <2>1. remote'[r] \in {remote[r], 0, made + 1} /\ (remote[r] = 0 \/ remote[r] >= v)
      BY <1>2, RemoteRises DEF Since
    <2> QED BY <1>1, <1>2, <2>1 DEF Since
  <1> QED BY <1>2 DEF Since

\* What unforced uploads were compared with stays true in every step.
LEMMA ComparedStep ==
  ASSUME TypeOK, IInv, ComparedInv, [Next]_vars
  PROVE  ComparedInv'
  <1>0. /\ op \in [Device -> Operation] /\ OperationInv /\ ServerInv
        /\ made \in Nat /\ made' \in Nat /\ made <= made'
        /\ \A v \in Version : v <= made => body'[v] = body[v]
    BY ServerStep DEF TypeOK, IInv
  <1>1. ASSUME NEW d \in Device, op'[d].phase = "answered"
        PROVE  Since(op[d].res, op[d].seen)'
    <2>0. op[d] \in Operation /\ OperationFits(d, op[d]) /\ DOMAIN op = Device
      BY <1>0 DEF OperationInv
    <2>1. ASSUME op'[d].phase = op[d].phase, op'[d].res = op[d].res,
                 op'[d].seen = op[d].seen
          PROVE  Since(op[d].res, op[d].seen)'
      <3>1. /\ op[d].phase = "answered" /\ op[d].seen <= made
            /\ op[d].seen \in 0..MaxVersion /\ op[d].res \in Resource \cup {Unbound}
            /\ Since(op[d].res, op[d].seen)
        BY <1>1, <2>0, <2>1 DEF OperationFits, Operation, ComparedInv
      <3>2. ASSUME NEW r \in Resource \cup {Unbound}, NEW v \in 0..MaxVersion,
                   r = op[d].res, v = op[d].seen
            PROVE  Since(r, v)'
        BY <1>0, <3>1, <3>2, SinceLasts
      <3> QED BY <2>1, <3>1, <3>2 DEF Since
    <2>2. CASE op'[d] = op[d]
      BY <2>1, <2>2
    <2>3. CASE op'[d] = [op[d] EXCEPT !.moved = TRUE]
      BY <2>0, <2>1, <2>3 DEF Operation
    <2>4. ASSUME NEW e \in Device, BeginPush(e) \/ BeginPull(e) \/ BeginPoll(e)
          PROVE  Since(op[d].res, op[d].seen)'
      <3>1. CASE e = d
        BY <1>1, <2>4, <3>1, BeginStarts DEF Started
      <3>2. CASE e # d
        BY <2>2, <2>4, <3>2, BeginStarts
      <3> QED BY <3>1, <3>2
    <2>5. ASSUME EngineStep(d) \/ Crash(d) \/ CrashWhileApplying(d)
          PROVE  Since(op[d].res, op[d].seen)'
      <3>1. CASE Ended(op'[d])
        BY <1>1, <3>1 DEF Ended
      <3>2. CASE op'[d] = [op[d] EXCEPT !.phase = "put", !.cond = Condition(d)]
        BY <1>1, <2>0, <3>2 DEF Operation
      <3>3. ASSUME NEW w, op[d].phase = "written", op'[d] = [op[d] EXCEPT !.tag = Tag(w)]
            PROVE  FALSE
        BY <1>1, <2>0, <3>3 DEF Operation
      <3>4. CASE op'[d] = [op[d] EXCEPT !.phase = "answered",
                    !.seen = IF op[d].res = Unbound THEN 0 ELSE remote[op[d].res]]
        <4> DEFINE v == IF op[d].res = Unbound THEN 0 ELSE remote[op[d].res]
        <4>1. op'[d].seen = v /\ op'[d].res = op[d].res
          <5> HIDE DEF v
          <5> QED BY <2>0, <3>4 DEF Operation, v
        <4>2. op[d].res \in Resource \cup {Unbound}
          BY <2>0 DEF Operation
        <4>3. remote \in [Resource -> 0..MaxVersion]
          BY DEF TypeOK
        <4>4. UNCHANGED serverVars
          BY <2>5, EngineQuiet
        <4> QED BY <4>1, <4>2, <4>3, <4>4 DEF Since
      <3> QED BY <2>2, <2>5, <3>1, <3>2, <3>3, <3>4, EngineProgress DEF Progress
    <2>6. ASSUME NEW e \in Device, e # d,
                 EngineStep(e) \/ Crash(e) \/ CrashWhileApplying(e)
          PROVE  Since(op[d].res, op[d].seen)'
      BY <2>2, <2>6, EngineProgress
    <2>7. ASSUME NEW e \in Device, UserStep(e) PROVE Since(op[d].res, op[d].seen)'
      <3>1. CASE e = d
        <4>1. UserStep(d)
          BY <2>7, <3>1
        <4> QED BY <2>2, <2>3, <4>1, UserProgress
      <3>2. CASE e # d
        BY <2>2, <2>7, <3>2, UserProgress
      <3> QED BY <3>1, <3>2
    <2>8. CASE RemoteStep
      <3>1. CASE op'[d] = [op[d] EXCEPT !.phase = "refused"]
        BY <1>1, <2>0, <3>1 DEF Operation
      <3>2. ASSUME NEW n, NEW tag,
                   op'[d] = [op[d] EXCEPT !.phase = "written", !.put = n, !.tag = tag]
            PROVE  FALSE
        BY <1>1, <2>0, <3>2 DEF Operation
      <3> QED BY <2>2, <2>8, <3>1, <3>2, RemoteProgress
    <2>9. CASE UNCHANGED vars
      BY <2>2, <2>9 DEF vars
    <2> QED BY <2>4, <2>5, <2>6, <2>7, <2>8, <2>9 DEF Next
  <1>2. ASSUME NEW u \in wire', u.mode # "Force"
        PROVE  /\ u.seen \in 0..MaxVersion /\ u.res \in Resource \cup {Unbound}
               /\ u.seen <= made /\ Since(u.res, u.seen)
               /\ HasPayload(u.seen) => body[u.seen].data = u.base
    <2>1. CASE u \in wire
      BY <1>2, <2>1 DEF ComparedInv, TypeOK, Upload
    <2>2. ASSUME NEW w \in wire, u = [w EXCEPT !.live = FALSE]
          PROVE  /\ u.seen \in 0..MaxVersion /\ u.res \in Resource \cup {Unbound}
                 /\ u.seen <= made /\ Since(u.res, u.seen)
                 /\ HasPayload(u.seen) => body[u.seen].data = u.base
      <3>1. w \in Upload
        BY DEF TypeOK
      <3>2. /\ u.seen = w.seen /\ u.res = w.res /\ u.base = w.base /\ u.mode = w.mode
            /\ w.seen \in 0..MaxVersion /\ w.res \in Resource \cup {Unbound}
        BY <2>2, <3>1 DEF Upload
      <3> QED BY <1>2, <3>2 DEF ComparedInv
    <2>3. ASSUME NEW d \in Device, PushSend(d),
                 u = [dev |-> d, res |-> op[d].res, cond |-> Condition(d),
                      data |-> local[d], key |-> pass[d], mode |-> op[d].mode,
                      seen |-> op[d].seen, base |-> cfg[d].base, live |-> TRUE]
          PROVE  /\ u.seen \in 0..MaxVersion /\ u.res \in Resource \cup {Unbound}
                 /\ u.seen <= made /\ Since(u.res, u.seen)
                 /\ HasPayload(u.seen) => body[u.seen].data = u.base
      <3>1. /\ u.seen = op[d].seen /\ u.res = op[d].res /\ u.base = cfg[d].base
            /\ u.mode = op[d].mode
        BY <2>3
      <3>2. /\ op[d] \in Operation /\ OperationFits(d, op[d]) /\ op[d].phase = "answered"
        BY <1>0, <2>3 DEF PushSend, Settled, OperationInv
      <3>3. /\ op[d].seen \in 0..MaxVersion /\ op[d].res \in Resource \cup {Unbound}
            /\ op[d].seen <= made /\ Since(op[d].res, op[d].seen)
        BY <3>2 DEF Operation, OperationFits, ComparedInv
      <3>4. HasPayload(op[d].seen) => body[op[d].seen].data = cfg[d].base
        BY <1>2, <2>3, <3>1, ComparedContent
      <3> QED BY <3>1, <3>3, <3>4
    <2> QED BY <2>1, <2>2, <2>3, UploadChanges
  <1>3. ASSUME NEW u \in wire', u.mode # "Force"
        PROVE  /\ u.seen <= made' /\ Since(u.res, u.seen)'
               /\ HasPayload(u.seen)' => body'[u.seen].data = u.base
    <2> DEFINE r == u.res
               v == u.seen
    <2>1. /\ v \in 0..MaxVersion /\ r \in Resource \cup {Unbound}
          /\ v <= made /\ Since(r, v)
          /\ HasPayload(v) => body[v].data = u.base
      BY <1>2, <1>3
    <2> HIDE DEF r, v
    <2>2. Since(r, v)'
      BY <1>0, <2>1, SinceLasts
    <2>3. v <= made'
      BY <1>0, <2>1
    <2>4. HasPayload(v)' => body'[v].data = u.base
      BY <1>0, <2>1 DEF HasPayload
    <2> QED BY <2>2, <2>3, <2>4 DEF r, v
  <1> QED BY <1>1, <1>3 DEF ComparedInv

-----------------------------------------------------------------------------
(* The theorems about answers.                                             *)

\* The inductive invariant of the answers: what waits for its upload sent the
\* condition it compared with, one upload at most is awaited by a device, and
\* unforced uploads know what they were compared with.
THEOREM Answers == Spec => [](SentInv /\ ComparedInv)
  <1>1. Init => SentInv /\ ComparedInv
    BY DEF Init, SentInv, ComparedInv, Waits, Idle
  <1>2. /\ TypeOK /\ IInv /\ SentInv /\ ComparedInv /\ [Next]_vars
        => (SentInv /\ ComparedInv)'
    <2> SUFFICES ASSUME TypeOK, IInv, SentInv, ComparedInv, [Next]_vars
                 PROVE  SentInv' /\ ComparedInv'
      OBVIOUS
    <2>1. \A d \in Device : Waits(d)'
      BY WaitsStep
    <2>2. SentInv'
      BY <2>1, AwaitedStep DEF SentInv
    <2> QED BY <2>2, ComparedStep
  <1> QED BY <1>1, <1>2, Invariant, PTL DEF Spec

\* An unforced upload without precondition replaces what push_internal compared
\* with, or what was written in the window between its GET and its arrival.
THEOREM WindowSafe == Spec => UnguardedPushComparesContent
  <1> DEFINE Compared == \A u \in Landing :
                           u.mode # "Force" =>
                             \/ Replaced(u) \in {Nothing, u.base}
                             \/ remote[u.res] > u.seen
  <1>1. TypeOK /\ ComparedInv /\ [Next]_vars => [Compared]_vars
    <2> SUFFICES ASSUME TypeOK, ComparedInv, NEW u \in Landing, u.mode # "Force",
                        u.res # Unbound, HasPayload(remote[u.res])
                 PROVE  body[remote[u.res]].data = u.base \/ remote[u.res] > u.seen
      BY DEF Replaced
    <2>1. /\ u \in wire /\ u.res \in Resource /\ u.seen \in 0..MaxVersion
          /\ remote[u.res] \in 0..MaxVersion
      BY DEF Landing, TypeOK, Upload
    <2>2. remote[u.res] # 0 /\ remote[u.res] >= u.seen
      BY <2>1 DEF ComparedInv, Since, HasPayload, Version
    <2>3. CASE remote[u.res] = u.seen
      BY <2>1, <2>3 DEF ComparedInv
    <2> QED BY <2>1, <2>2, <2>3
  <1> QED BY <1>1, Invariant, Answers, PTL DEF Spec, UnguardedPushComparesContent

\* A step of a refused push that says "remote changed" is PushRefused.
LEMMA OnlyRefusedBlames ==
  ASSUME TypeOK, IInv, SentInv, [Next]_vars, NEW d \in Device,
         op[d].phase = "refused", op'[d].result = "RemoteChangedBeforePush"
  PROVE  PushRefused(d)
  <1> USE DEF Outcome
  <1>0. /\ op[d] \in Operation /\ DOMAIN op = Device /\ op[d].result = "none"
        /\ Idle.result = "none"
    BY DEF TypeOK, IInv, OperationInv, OperationFits, SentInv, Waits, Idle
  <1>1. op'[d] # op[d]
    BY <1>0
  <1>2. CASE UNCHANGED vars
    BY <1>1, <1>2 DEF vars
  <1>3. ASSUME NEW e \in Device, BeginPush(e) \/ BeginPull(e) \/ BeginPoll(e)
        PROVE  FALSE
    <2>1. CASE e = d
      BY <1>3, <2>1, BeginStarts DEF Started
    <2>2. CASE e # d
      BY <1>1, <1>3, <2>2, BeginStarts
    <2> QED BY <2>1, <2>2
  <1>4. ASSUME EngineStep(d) \/ Crash(d) \/ CrashWhileApplying(d)
        PROVE  PushRefused(d)
    <2>1. PushStep(d) => PushRefused(d)
      BY DEF PushStep, PushUpToDate, PushAcknowledge, PushIntervene, PushUnreadable,
         PushRefuse, PushSend, VerifyUpload, PushRecord, Settled
    <2>2. ~PullStep(d) /\ ~CrashWhileApplying(d)
      BY DEF PullStep, PullNothing, PullStop, PullAcknowledge, PullApply,
         PullApplyFails, CrashWhileApplying, MayApply, Settled
    <2>3. ~GetAnswered(d) /\ ~ConfigMoved(d) /\ ~EndPoll(d) /\ ~Finish(d)
      BY DEF GetAnswered, ConfigMoved, EndPoll, Finish, Settled
    <2>4. ~Timeout(d)
      <3> SUFFICES ASSUME Timeout(d) PROVE FALSE
        OBVIOUS
      <3>1. op' = [op EXCEPT ![d] = [Idle EXCEPT !.phase = "done", !.result = "Error"]]
        BY DEF Timeout, Return
      <3>2. [Idle EXCEPT !.phase = "done", !.result = "Error"].result = "Error"
        BY DEF Idle
      <3> QED BY <1>0, <3>1, <3>2
    <2>5. ~Crash(d)
      BY <1>0 DEF Crash
    <2> QED BY <1>4, <2>1, <2>2, <2>3, <2>4, <2>5 DEF EngineStep
  <1>5. ASSUME NEW e \in Device, e # d,
               EngineStep(e) \/ Crash(e) \/ CrashWhileApplying(e)
        PROVE  FALSE
    BY <1>1, <1>5, EngineProgress
  <1>6. ASSUME NEW e \in Device, UserStep(e) PROVE FALSE
    <2>1. CASE op'[d] = [op[d] EXCEPT !.moved = TRUE]
      BY <1>0, <2>1 DEF Operation
    <2>2. CASE e = d
      <3>1. UserStep(d)
        BY <1>6, <2>2
      <3> QED BY <1>1, <2>1, <3>1, UserProgress
    <2>3. CASE e # d
      BY <1>1, <1>6, <2>3, UserProgress
    <2> QED BY <2>2, <2>3
  <1>7. ASSUME RemoteStep PROVE FALSE
    <2>1. CASE op'[d] = [op[d] EXCEPT !.phase = "refused"]
      BY <1>0, <2>1 DEF Operation
    <2>2. ASSUME NEW n, NEW tag,
                 op'[d] = [op[d] EXCEPT !.phase = "written", !.put = n, !.tag = tag]
          PROVE  FALSE
      BY <1>0, <2>2 DEF Operation
    <2>3. \/ op'[d] = op[d]
          \/ op'[d] = [op[d] EXCEPT !.phase = "refused"]
          \/ \E tag \in {0, made + 1} :
               op'[d] = [op[d] EXCEPT !.phase = "written", !.put = made + 1,
                                       !.tag = tag]
      BY <1>7, RemoteProgress
    <2> HIDE DEF IInv
    <2> QED BY <1>1, <2>1, <2>2, <2>3
  <1> QED BY <1>2, <1>3, <1>4, <1>5, <1>6, <1>7 DEF Next

\* A push whose strict upload was refused blames another device only when the
\* resource no longer has the version it compared with: the check after a 412 in
\* push_internal tells this from a server that refuses every condition.
THEOREM RefusalSafe == Spec => RefusalMeansRemoteChanged
  <1> DEFINE Blamed == \A d \in Device :
                op[d].phase = "refused" /\ Strict(op[d].mode)
                /\ op'[d].result = "RemoteChangedBeforePush"
                => remote[op[d].res] # op[d].seen
  <1>1. TypeOK /\ IInv /\ SentInv /\ [Next]_vars => [Blamed]_vars
    <2> SUFFICES ASSUME TypeOK, IInv, SentInv, [Next]_vars, NEW d \in Device,
                        op[d].phase = "refused", Strict(op[d].mode),
                        op'[d].result = "RemoteChangedBeforePush",
                        remote[op[d].res] = op[d].seen
                 PROVE  FALSE
      OBVIOUS
    <2>1. op[d].cond = Tag(op[d].seen) /\ DOMAIN op = Device
      BY DEF SentInv, Waits, TypeOK
    <2>2. PushRefused(d)
      BY OnlyRefusedBlames
    <2>3. Return(d, "CapabilityError")
      BY <2>1, <2>2 DEF PushRefused, Tag
    <2>4. [Idle EXCEPT !.phase = "done", !.result = "CapabilityError"].result
            = "CapabilityError"
      BY DEF Idle
    <2> QED BY <2>1, <2>3, <2>4 DEF Return
  <1> QED BY <1>1, Invariant, Answers, PTL DEF Spec, RefusalMeansRemoteChanged
=============================================================================
