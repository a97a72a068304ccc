-------------------------- MODULE LocalVaultProofs --------------------------
(* Theorems about LocalVault, for every value of its constants. *)
EXTENDS LocalVault, TLAPS

USE DEF disk, Aside

-----------------------------------------------------------------------------
(* Typing of the helpers.                                                  *)

Operation ==
  [kind : {"None", "Enable", "Unlock", "Disable", "Change"},
   at : {"idle", "open", "reopen", "copy", "discard", "rotate", "finish",
         "failed", "relock", "delete", "erase"},
   pass : Passphrase \cup {None}, new : Passphrase \cup {None},
   source : Backend, todo : SUBSET Secret]

Application == [mode : {"Disabled", "Locked", "Unlocked"}, secrets : Backend]

\* The steps an operation of each kind has.
Steps(kind) ==
  CASE kind = "Enable" -> {"open", "copy", "discard", "finish", "failed", "delete"}
    [] kind = "Unlock" -> {"open", "finish", "failed"}
    [] kind = "Change" -> {"rotate", "reopen", "finish", "failed", "relock"}
    [] kind = "Disable" -> {"copy", "finish", "failed", "erase"}
    [] OTHER -> {}

Shaped(o) ==
  \/ o = Idle
  \/ /\ o.kind \in {"Enable", "Unlock", "Change", "Disable"}
     /\ o.at \in Steps(o.kind)
     /\ o.kind # "Disable" => o.pass \in Passphrase
     /\ o.kind = "Change" => o.new \in Passphrase

\* The types alone are not inductive: a vault is opened and rotated with what
\* the operation has of a passphrase.
TypeInv == TypeOK /\ \A w \in Window : Shaped(op[w])

\* The three kinds of a backend are apart.
LEMMA BackendType ==
  /\ Keyring \in Backend /\ Keyring.kind = "keyring"
  /\ LockedBackend \in Backend /\ LockedBackend.kind = "locked"
  /\ \A p \in Passphrase : VaultOf(p) \in Backend /\ VaultOf(p).kind = "vault" /\ VaultOf(p).pass = p
  /\ \A b \in Backend :
       \/ b = Keyring
       \/ b = LockedBackend
       \/ b.kind = "vault" /\ b.pass \in Passphrase /\ b = VaultOf(b.pass)
  <1>1. Keyring.kind = "keyring" /\ LockedBackend.kind = "locked"
    BY DEF Keyring, LockedBackend
  <1>2. \A p : VaultOf(p).kind = "vault" /\ VaultOf(p).pass = p
    BY DEF VaultOf
  <1> QED BY <1>1, <1>2 DEF Backend

\* A window at rest carries an operation that is none.
LEMMA IdleType == Idle \in Operation
  BY BackendType DEF Idle, Operation

\* What the vault holds is a document.
LEMMA ContentsType ==
  ASSUME TypeOK
  PROVE  /\ Contents \in Document
         /\ file # None => file.pass \in Passphrase /\ file.doc \in Document
  BY VaultAssumption DEF TypeOK, Contents, Vault, Document, Empty

\* A vault that is written is there.
LEMMA VaultType ==
  ASSUME NEW p \in Passphrase, NEW d \in Document
  PROVE  [pass |-> p, doc |-> d] \in Vault /\ [pass |-> p, doc |-> d] # None
  BY VaultAssumption DEF Vault, Document

\* What writing a secret does.
LEMMA PutLemma ==
  ASSUME TypeOK, NEW b \in Backend, NEW s \in Secret, NEW v \in Value \cup {None},
         Usable(b), Put(b, s, v)
  PROVE  /\ keyring' \in Document
         /\ file' \in Vault \cup {None}
         /\ b = Keyring => keyring' = [keyring EXCEPT ![s] = v] /\ UNCHANGED file
         /\ b # Keyring =>
              /\ UNCHANGED keyring
              /\ file' # None /\ file'.pass = b.pass
              /\ file # None => file'.pass = file.pass
              /\ Contents' = [Contents EXCEPT ![s] = v]
  <1>1. CASE b = Keyring
    BY <1>1, BackendType DEF Put, TypeOK, Document
  <1>2. CASE b # Keyring
    <2>1. b.kind = "vault" /\ b.pass \in Passphrase
      BY <1>2, BackendType DEF Usable
    <2> DEFINE d == [Contents EXCEPT ![s] = v]
    <2>2. d \in Document
      BY ContentsType DEF Document
    <2>3. file' = [pass |-> b.pass, doc |-> d] /\ UNCHANGED keyring
      BY <2>1 DEF Put
    <2> HIDE DEF d
    <2>4. file' \in Vault /\ file' # None
      BY <2>1, <2>2, <2>3, VaultType
    <2>5. Contents' = d
      BY <2>3, <2>4 DEF Contents
    <2>6. file # None => file.pass = b.pass
      BY <2>1 DEF Usable, Opens
    <2> QED BY <1>2, <2>3, <2>4, <2>5, <2>6 DEF d, TypeOK
  <1> QED BY <1>1, <1>2

\* What a backend returns for a secret is a value or nothing.
LEMMA InType ==
  ASSUME TypeOK, NEW b, NEW s \in Secret
  PROVE  In(b, s) \in Value \cup {None}
  BY ContentsType DEF In, TypeOK, Document

\* Failures are counted.
LEMMA MishapType ==
  ASSUME TypeOK, Mishap \/ UNCHANGED used
  PROVE  used' \in [writes : Nat, mishaps : Nat, ends : Nat]
  BY DEF TypeOK, Mishap

\* The modes the application enters are modes.
LEMMA ModeType ==
  /\ \A on \in BOOLEAN : StartsAs(on) \in Application
  /\ LockTransition \in Application
  /\ \A p \in Passphrase : Unlocked(p) \in Application
  /\ [mode |-> "Locked", secrets |-> LockedBackend] \in Application
  /\ [mode |-> "Disabled", secrets |-> Keyring] \in Application
  BY BackendType DEF StartsAs, LockTransition, Unlocked, Application

\* The windows and passphrases of a scenario, and what a window carries.
LEMMA ScenarioType ==
  ASSUME TypeOK
  PROVE  /\ scene.typed \subseteq Passphrase /\ scene.windows \subseteq Window
         /\ \A w \in Window : op[w] \in Operation /\ op[w].source \in Backend /\ op[w].todo \subseteq Secret
         /\ app \in Application /\ app.secrets \in Backend
  BY VaultAssumption DEF TypeOK, Operation, Application

-----------------------------------------------------------------------------
(* Type correctness.                                                       *)

\* The types hold at first.
LEMMA TypeInit == Init => TypeInv
  <1> SUFFICES ASSUME Init PROVE TypeInv
    OBVIOUS
  <1>1. scene \in Scenarios /\ scene.typed \subseteq Passphrase
    BY VaultAssumption DEF Init
  <1>2. saved \in Document /\ Empty \in Document
    BY DEF Init, Document, Empty
  <1>3. keyring \in Document /\ file \in Vault \cup {None}
    BY <1>1, <1>2, VaultType DEF Init
  <1>4. app \in Application
    BY ModeType DEF Init
  <1>5. TypeOK
    BY <1>1, <1>2, <1>3, <1>4, IdleType DEF Init, TypeOK, Operation, Application
  <1> QED BY <1>5 DEF Init, TypeInv, Shaped

\* What the user does besides keeps the types.
LEMMA TypeUser ==
  ASSUME TypeInv,
         \/ \E s \in Secret, v \in Value : Save(s, v)
         \/ \E s \in Secret : Remove(s)
  PROVE  TypeInv'
  <1> USE DEF TypeInv
  <1>1. PICK s \in Secret, v \in Value \cup {None} : Write(s, v)
    BY DEF Save, Remove
  <1>2. app.secrets \in Backend
    BY ScenarioType
  <1>3. keyring' \in Document /\ file' \in Vault \cup {None}
    BY <1>1, <1>2, PutLemma DEF Write
  <1>4. saved' \in Document
    BY <1>1 DEF Write, TypeOK, Document
  <1>5. used' \in [writes : Nat, mishaps : Nat, ends : Nat]
    BY <1>1 DEF Write, TypeOK
  <1> QED BY <1>1, <1>3, <1>4, <1>5 DEF Write, TypeOK

\* Every request keeps the types.
LEMMA TypeAsk ==
  ASSUME TypeInv, NEW w \in Window, Ask(w)
  PROVE  TypeInv'
  <1> USE DEF TypeInv
  <1>0. scene.typed \subseteq Passphrase /\ {} \in SUBSET Secret
    BY ScenarioType
  <1>1. ASSUME NEW kind \in {"Enable", "Unlock", "Disable", "Change"},
               NEW at \in Steps(kind),
               NEW p \in Passphrase \cup {None}, NEW q \in Passphrase \cup {None},
               kind # "Disable" => p \in Passphrase, kind = "Change" => q \in Passphrase,
               NEW todo \in SUBSET Secret, Begin(w, kind, at, p, q, todo)
        PROVE  TypeInv'
    <2> DEFINE o == [kind |-> kind, at |-> at, pass |-> p, new |-> q,
                     source |-> app.secrets, todo |-> todo]
               flag == IF kind = "Disable" THEN "disable" ELSE "unlock"
    <2>1. o \in Operation /\ Shaped(o) /\ flag \in {"unlock", "disable"}
      BY <1>1, ScenarioType DEF Operation, Shaped, Steps
    <2>2. op' = [op EXCEPT ![w] = o] /\ busy' = [busy EXCEPT ![w] = {flag}]
      BY <1>1 DEF Begin
    <2> HIDE DEF o, flag
    <2> QED BY <1>1, <2>1, <2>2 DEF Begin, TypeOK, Operation
  <1> USE DEF Steps
  <1>2. ASSUME NEW p \in scene.typed, StartEnable(w, p)
        PROVE  TypeInv'
    BY <1>0, <1>1, <1>2 DEF StartEnable
  <1>3. ASSUME NEW p \in scene.typed, StartUnlock(w, p)
        PROVE  TypeInv'
    BY <1>0, <1>1, <1>3 DEF StartUnlock
  <1>4. ASSUME NEW p \in scene.typed, NEW q \in scene.typed, StartChange(w, p, q)
        PROVE  TypeInv'
    BY <1>0, <1>1, <1>4 DEF StartChange
  <1>5. CASE StartDisable(w)
    BY <1>1, <1>5 DEF StartDisable
  <1>6. CASE Lock(w)
    BY <1>6, ModeType DEF Lock, TypeOK, Application
  <1> QED BY <1>2, <1>3, <1>4, <1>5, <1>6 DEF Ask

\* What a step does to the operation of a window.
LEMMA GotoLemma ==
  ASSUME TypeInv, NEW w \in Window, op[w] # Idle,
         NEW at \in Steps(op[w].kind), Goto(w, at)
  PROVE  /\ op' \in [Window -> Operation]
         /\ \A v \in Window : Shaped(op[v])'
  <1>1. op[w] \in Operation /\ Shaped(op[w])
    BY ScenarioType DEF TypeInv
  <1>2. [op[w] EXCEPT !.at = at] \in Operation /\ Shaped([op[w] EXCEPT !.at = at])
    BY <1>1 DEF Operation, Shaped, Steps
  <1>3. op' = [op EXCEPT ![w] = [op[w] EXCEPT !.at = at]]
    BY DEF Goto
  <1> QED BY <1>2, <1>3 DEF TypeInv, TypeOK, Operation

\* The end of an operation keeps the types.
LEMMA EndType ==
  ASSUME TypeInv, NEW w \in Window, End(w)
  PROVE  /\ op' \in [Window -> Operation]
         /\ \A v \in Window : Shaped(op[v])'
         /\ busy' \in [Window -> SUBSET {"unlock", "disable"}]
  BY IdleType DEF End, Cleared, TypeInv, TypeOK, Operation, Shaped

\* Every step of a worker keeps the types.
LEMMA TypeWorker ==
  ASSUME TypeInv, NEW w \in Window, Worker(w)
  PROVE  TypeInv'
  <1>0. op[w] \in Operation /\ Shaped(op[w]) /\ Contents \in Document
    BY ScenarioType, ContentsType DEF TypeInv
  <1>1. CASE Open(w)
    <2> DEFINE p == IF op[w].at = "open" THEN op[w].pass ELSE op[w].new
               failed == IF op[w].at = "open" THEN "failed" ELSE "relock"
               next == IF op[w].kind = "Enable" /\ ~Portable THEN "copy" ELSE "finish"
    <2>1. p \in Passphrase /\ op[w] # Idle
      BY <1>0, <1>1 DEF Open, Shaped, Steps, Idle
    <2>2. failed \in Steps(op[w].kind) /\ next \in Steps(op[w].kind)
      BY <1>0, <1>1, <2>1 DEF Open, Shaped, Steps
    <2>3. file' \in Vault \cup {None} /\ (Goto(w, failed) \/ Goto(w, next))
      BY <1>0, <1>1, <2>1, VaultType DEF Open, TypeInv, TypeOK
    <2>4. used' \in [writes : Nat, mishaps : Nat, ends : Nat]
      BY <1>1, MishapType DEF Open, TypeInv
    <2> HIDE DEF failed, next
    <2>5. op' \in [Window -> Operation] /\ \A v \in Window : Shaped(op[v])'
      BY <2>1, <2>2, <2>3, GotoLemma
    <2> QED BY <1>1, <2>3, <2>4, <2>5 DEF Open, TypeInv, TypeOK, Operation
  <1>2. ASSUME NEW s \in Secret, Copy(w, s)
        PROVE  TypeInv'
    <2> DEFINE failed == IF op[w].kind = "Enable" THEN "discard" ELSE "failed"
               v == In(op[w].source, s)
    <2>1. /\ op[w] # Idle /\ failed \in Steps(op[w].kind)
          /\ Target(w) \in Backend
          /\ v \in Value \cup {None}
      <3>1. op[w].kind \in {"Enable", "Disable"} /\ op[w].at = "copy"
        BY <1>0, <1>2 DEF Copy, Shaped, Steps, Idle
      <3> QED BY <1>0, <3>1, BackendType, InType DEF Idle, Shaped, Steps, Target, TypeInv
    <2>2. keyring' \in Document /\ file' \in Vault \cup {None}
      <3>1. UNCHANGED <<keyring, file>> \/ (Usable(Target(w)) /\ Put(Target(w), s, v))
        BY <1>2 DEF Copy
      <3> QED BY <2>1, <3>1, PutLemma DEF TypeInv, TypeOK
    <2>3. used' \in [writes : Nat, mishaps : Nat, ends : Nat]
      BY <1>2, MishapType DEF Copy, TypeInv
    <2>4. op' \in [Window -> Operation] /\ \A u \in Window : Shaped(op[u])'
      <3>1. CASE Goto(w, failed)
        BY <2>1, <3>1, GotoLemma
      <3>2. CASE op' = [op EXCEPT ![w].todo = @ \ {s},
                                  ![w].at = IF op[w].todo = {s} THEN "finish" ELSE @]
        <4> DEFINE o == [op[w] EXCEPT !.todo = @ \ {s},
                                      !.at = IF op[w].todo = {s} THEN "finish" ELSE @]
        <4>1. o \in Operation /\ Shaped(o)
          BY <1>0, <1>2, <2>1 DEF Copy, Operation, Shaped, Steps
        <4>2. op' = [op EXCEPT ![w] = o]
          BY <3>2
        <4> HIDE DEF o
        <4> QED BY <4>1, <4>2 DEF TypeInv, TypeOK, Operation
      <3> QED BY <1>2, <3>1, <3>2 DEF Copy
    <2> QED BY <1>2, <2>2, <2>3, <2>4 DEF Copy, TypeInv, TypeOK, Operation
  <1>3. CASE Discard(w)
    <2>1. op[w] # Idle /\ "failed" \in Steps(op[w].kind)
      BY <1>0, <1>3 DEF Discard, Shaped, Steps, Idle
    <2>2. op' \in [Window -> Operation] /\ \A u \in Window : Shaped(op[u])'
      BY <1>3, <2>1, GotoLemma DEF Discard
    <2>3. used' \in [writes : Nat, mishaps : Nat, ends : Nat]
      BY <1>3, MishapType DEF Discard, TypeInv
    <2> QED BY <1>3, <2>2, <2>3 DEF Discard, TypeInv, TypeOK, Operation
  <1>4. CASE Rotate(w)
    <2>1. /\ op[w] # Idle /\ op[w].new \in Passphrase
          /\ "failed" \in Steps(op[w].kind) /\ "reopen" \in Steps(op[w].kind)
      BY <1>0, <1>4 DEF Rotate, Shaped, Steps, Idle
    <2>2. op' \in [Window -> Operation] /\ \A u \in Window : Shaped(op[u])'
      BY <1>4, <2>1, GotoLemma DEF Rotate
    <2>3. used' \in [writes : Nat, mishaps : Nat, ends : Nat]
      BY <1>4, MishapType DEF Rotate, TypeInv
    <2>4. file' \in Vault \cup {None}
      BY <1>0, <1>4, <2>1, VaultType DEF Rotate, TypeInv, TypeOK
    <2> QED BY <1>4, <2>2, <2>3, <2>4 DEF Rotate, TypeInv, TypeOK, Operation
  <1> QED BY <1>1, <1>2, <1>3, <1>4 DEF Worker

\* Every step of the interface keeps the types.
LEMMA TypeInterface ==
  ASSUME TypeInv, NEW w \in Window, Interface(w)
  PROVE  TypeInv'
  <1>0. op[w] \in Operation /\ Shaped(op[w]) /\ TypeOK
    BY ScenarioType DEF TypeInv
  <1> DEFINE OpType == /\ op' \in [Window -> Operation]
                       /\ \A v \in Window : Shaped(op[v])'
                       /\ busy' \in [Window -> SUBSET {"unlock", "disable"}]
             UsedType == used' \in [writes : Nat, mishaps : Nat, ends : Nat]
  <1>1. CASE Failed(w)
    <2>1. OpType
      BY <1>1, EndType DEF Failed
    <2> QED BY <1>0, <1>1, <2>1 DEF Failed, TypeInv, TypeOK, Operation
  <1>2. CASE Relock(w)
    <2>1. OpType
      BY <1>2, EndType DEF Relock
    <2> QED BY <1>0, <1>2, <2>1, ModeType DEF Relock, TypeInv, TypeOK, Operation, Application
  <1>3. CASE FinishOpen(w)
    <2>1. OpType
      BY <1>3, EndType DEF FinishOpen
    <2>2. app' \in Application
      BY <1>0, <1>3, ModeType DEF FinishOpen, Finish, Shaped, Idle
    <2> QED BY <1>0, <1>3, <2>1, <2>2 DEF FinishOpen, TypeInv, TypeOK, Operation, Application
  <1>4. CASE FinishEnable(w)
    <2>1. op[w].kind = "Enable" /\ op[w] # Idle /\ op[w].pass \in Passphrase
      BY <1>0, <1>4 DEF FinishEnable, Finish, Idle, Shaped
    <2>2. UsedType
      BY <1>0, <1>4, MishapType DEF FinishEnable
    <2>3. app' \in Application /\ enabled' \in BOOLEAN
      <3>1. \/ enabled' = TRUE /\ app' = Unlocked(op[w].pass)
            \/ UNCHANGED <<enabled, app>>
        BY <1>4 DEF FinishEnable
      <3>2. app \in Application /\ enabled \in BOOLEAN /\ Unlocked(op[w].pass) \in Application
        BY <1>0, <2>1, ScenarioType, ModeType DEF TypeOK
      <3> QED BY <3>1, <3>2
    <2>4. OpType
      <3>1. CASE End(w)
        BY <3>1, EndType
      <3>2. CASE Goto(w, "discard") /\ UNCHANGED busy
        <4>1. "discard" \in Steps(op[w].kind)
          BY <2>1 DEF Steps
        <4> QED BY <1>0, <2>1, <3>2, <4>1, GotoLemma DEF TypeOK
      <3>3. CASE op' = [op EXCEPT ![w].at = "delete", ![w].todo = Secret, ![w].source = app.secrets]
                 /\ UNCHANGED busy
        <4> DEFINE o == [op[w] EXCEPT !.at = "delete", !.todo = Secret, !.source = app.secrets]
        <4>1. o \in Operation /\ Shaped(o)
          BY <1>0, <2>1, ScenarioType DEF Operation, Shaped, Steps
        <4>2. op' = [op EXCEPT ![w] = o]
          BY <3>3
        <4>3. op \in [Window -> Operation] /\ busy' \in [Window -> SUBSET {"unlock", "disable"}]
          BY <1>0, <3>3 DEF TypeOK, Operation
        <4> HIDE DEF o
        <4> QED BY <4>1, <4>2, <4>3 DEF TypeInv
      <3> QED BY <1>4, <3>1, <3>2, <3>3 DEF FinishEnable
    <2> QED BY <1>0, <1>4, <2>2, <2>3, <2>4 DEF FinishEnable, TypeInv, TypeOK, Operation, Application
  <1>5. CASE Delete(w)
    <2>0. PICK s \in op[w].todo :
            /\ \/ /\ Usable(op[w].source)
                  /\ Put(op[w].source, s, None)
                  /\ UNCHANGED used
               \/ ~Usable(op[w].source) /\ UNCHANGED <<keyring, file, used>>
               \/ Mishap /\ UNCHANGED <<keyring, file>>
            /\ IF op[w].todo = {s} THEN End(w)
               ELSE op' = [op EXCEPT ![w].todo = @ \ {s}] /\ UNCHANGED busy
      BY <1>5 DEF Delete
    <2>1. s \in Secret /\ op[w].source \in Backend
      BY <1>0, ScenarioType
    <2>2. UsedType
      BY <1>0, <2>0, MishapType
    <2>3. keyring' \in Document /\ file' \in Vault \cup {None}
      BY <1>0, <2>0, <2>1, PutLemma DEF TypeOK
    <2>4. OpType
      <3>1. CASE End(w)
        BY <3>1, EndType
      <3>2. CASE op' = [op EXCEPT ![w].todo = @ \ {s}] /\ UNCHANGED busy
        <4> DEFINE o == [op[w] EXCEPT !.todo = @ \ {s}]
        <4>1. op[w] # Idle /\ o \in Operation /\ Shaped(o)
          BY <1>0, <1>5 DEF Delete, Idle, Operation, Shaped, Steps
        <4>2. op' = [op EXCEPT ![w] = o]
          BY <3>2
        <4>3. op \in [Window -> Operation] /\ busy' \in [Window -> SUBSET {"unlock", "disable"}]
          BY <1>0, <3>2 DEF TypeOK, Operation
        <4> HIDE DEF o
        <4> QED BY <4>1, <4>2, <4>3 DEF TypeInv
      <3> QED BY <2>0, <3>1, <3>2
    <2> QED BY <1>0, <1>5, <2>2, <2>3, <2>4 DEF Delete, TypeInv, TypeOK, Operation
  <1>6. CASE FinishDisable(w)
    <2>1. op[w].kind = "Disable" /\ op[w] # Idle /\ "erase" \in Steps(op[w].kind)
      BY <1>6 DEF FinishDisable, Finish, Idle, Steps
    <2>2. UsedType
      BY <1>0, <1>6, MishapType DEF FinishDisable
    <2>3. OpType
      BY <1>0, <1>6, <2>1, EndType, GotoLemma DEF FinishDisable, TypeOK
    <2> QED BY <1>0, <1>6, <2>2, <2>3, ModeType DEF FinishDisable, TypeInv, TypeOK, Operation, Application
  <1>7. CASE Erase(w)
    <2>1. OpType /\ UsedType
      BY <1>0, <1>7, EndType, MishapType DEF Erase
    <2> QED BY <1>0, <1>7, <2>1 DEF Erase, TypeInv, TypeOK, Operation
  <1> QED BY <1>1, <1>2, <1>3, <1>4, <1>5, <1>6, <1>7 DEF Interface

\* Every step keeps the types.
LEMMA TypeNext == TypeInv /\ [Next]_vars => TypeInv'
  <1> SUFFICES ASSUME TypeInv, [Next]_vars PROVE TypeInv'
    OBVIOUS
  <1>1. CASE AutoLock
    BY <1>1, ModeType DEF AutoLock, TypeInv, TypeOK, Application
  <1>2. CASE Restart
    <2>1. app' \in Application
      BY <1>2, ModeType DEF Restart, TypeInv, TypeOK
    <2>2. op' \in [Window -> Operation] /\ \A w \in Window : Shaped(op[w])'
      BY <1>2, IdleType DEF Restart, Shaped
    <2>3. used' \in [writes : Nat, mishaps : Nat, ends : Nat]
      BY <1>2 DEF Restart, TypeInv, TypeOK
    <2> QED BY <1>2, <2>1, <2>2, <2>3 DEF Restart, TypeInv, TypeOK, Operation, Application
  <1>3. CASE UNCHANGED vars
    BY <1>3 DEF vars, TypeInv, TypeOK
  <1> QED BY <1>1, <1>2, <1>3, TypeUser, TypeAsk, TypeWorker, TypeInterface DEF Next

\* Every variable keeps its type, and every operation is at a step that its
\* kind has and carries the passphrases that step needs.
THEOREM TypeCorrect == Spec => []TypeOK
  <1>1. TypeInv => TypeOK
    BY DEF TypeInv
  <1> QED BY <1>1, TypeInit, TypeNext, PTL DEF Spec

-----------------------------------------------------------------------------
(* The inductive invariant.                                                *)

\* Where operations cannot meet: on Android, whose data layer runs one at a
\* time, and in a single window while no secret is saved meanwhile.
Exclusive ==
  \/ Android
  \/ ~scene.meanwhile /\ \A v, w \in scene.windows : v = w

Flag(kind) ==
  CASE kind = "None" -> {}
    [] kind = "Disable" -> {"disable"}
    [] OTHER -> {"unlock"}

\* One window at most has an operation, and its flag says so.
OneOperation ==
  /\ Exclusive
  /\ \A v, w \in Window : op[v] # Idle /\ op[w] # Idle => v = w
  /\ \A w \in Window :
       /\ op[w] # Idle => w \in scene.windows
       /\ busy[w] = Flag(op[w].kind)

\* The passphrase of the file has been changed, that of the session not yet.
Rotated(o) == o.kind = "Change" /\ o.at \in {"reopen", "finish", "relock"}

\* The mode of the application agrees with the settings and the file.
ModeMatches ==
  /\ Portable => enabled /\ keyring = Empty
  /\ ~enabled => app = [mode |-> "Disabled", secrets |-> Keyring]
  /\ enabled =>
       \/ Portable /\ app = [mode |-> "Disabled", secrets |-> LockedBackend]
       \/ file # None /\ app = [mode |-> "Locked", secrets |-> LockedBackend]
       \/ /\ file # None
          /\ \E p \in Passphrase : app = Unlocked(p)
          /\ (\A w \in Window : ~Rotated(op[w])) => file.pass = app.secrets.pass

\* A store holds every secret the user has saved, those of todo apart.
Holds(store, todo) == \A s \in Secret \ todo : saved[s] # None => store[s] = saved[s]

\* How far an operation has come.
EnableGoes(o) ==
  /\ o.at # "delete" => app.mode = "Disabled" /\ (Portable \/ ~enabled)
  /\ o.at = "open" /\ ~Portable => o.source = Keyring /\ o.todo = Secret
  /\ o.at \in {"copy", "discard"} => ~Portable
  /\ o.at \in {"copy", "finish", "delete"} => file # None /\ file.pass = o.pass
  /\ o.at = "copy" => o.source = Keyring /\ Holds(Contents, o.todo)
  /\ o.at = "finish" => Holds(Contents, {})
  /\ o.at = "delete" =>
       /\ enabled
       /\ app = Unlocked(o.pass)
       /\ o.source = IF Portable THEN LockedBackend ELSE Keyring

DisableGoes(o) ==
  /\ ~Portable
  /\ IF o.at = "erase" THEN ~enabled ELSE enabled
  /\ o.at = "copy" => o.source.kind = "vault" /\ Holds(keyring, o.todo)
  /\ o.at = "finish" => Holds(keyring, {})

UnlockGoes(o) ==
  /\ enabled
  /\ app.mode # "Disabled"
  /\ o.at = "finish" => file.pass = o.pass

ChangeGoes(o) ==
  /\ enabled
  /\ app.mode # "Disabled"
  /\ o.at \in {"reopen", "finish", "relock"} => file.pass = o.new

Goes(o) ==
  /\ o.kind = "Enable" => EnableGoes(o)
  /\ o.kind = "Disable" => DisableGoes(o)
  /\ o.kind = "Unlock" => UnlockGoes(o)
  /\ o.kind = "Change" => ChangeGoes(o)

Inv ==
  /\ TypeInv
  /\ OneOperation
  /\ ModeMatches
  /\ \A w \in Window : Goes(op[w])
  /\ NoSecretLost

\* What nothing but a failure or an end of the application can spoil.
Clean(o) ==
  /\ o.kind = "Enable" =>
       /\ o.at = "open" => file = None
       /\ o.at = "copy" =>
            Contents = [s \in Secret |-> IF s \in o.todo THEN None ELSE saved[s]]
       /\ o.at = "finish" => Contents = saved
       /\ o.at \notin {"discard", "failed"}
       /\ o.at = "delete" => \A s \in Secret \ o.todo : keyring[s] = None
  /\ o.kind = "Disable" =>
       /\ o.at = "copy" =>
            /\ o.source = VaultOf(file.pass)
            /\ keyring = [s \in Secret |-> IF s \in o.todo THEN None ELSE saved[s]]
       /\ o.at = "finish" => keyring = saved
       /\ o.at # "failed"

CleanState ==
  /\ Kept = saved
  /\ app.mode = "Disabled" /\ AtRest => file = None
  /\ (\A w \in Window : op[w].kind \notin {"Enable", "Disable"}) =>
       /\ enabled => keyring = Empty
       /\ ~enabled => file = None
  /\ \A w \in Window : Clean(op[w])

CleanInv == used.mishaps = 0 /\ used.ends = 0 => CleanState

-----------------------------------------------------------------------------
(* Lemmas about one operation at a time.                                   *)

\* A vault written with the same contents holds them.
LEMMA FileWritten ==
  ASSUME TypeOK, NEW p \in Passphrase, file' = [pass |-> p, doc |-> Contents]
  PROVE  file' # None /\ file'.pass = p /\ Contents' = Contents
  BY ContentsType, VaultType DEF Contents

\* A window at rest asks nothing of the invariant.
LEMMA IdleGoes == Shaped(Idle) /\ Goes(Idle) /\ Goes(Idle)' /\ ~Rotated(Idle) /\ Flag(Idle.kind) = {}
  BY DEF Idle, Goes, Rotated, Flag, Shaped

\* A window is busy exactly when it has an operation.
LEMMA BusyLemma ==
  ASSUME TypeInv, OneOperation, NEW w \in Window
  PROVE  busy[w] = {} <=> op[w] = Idle
  <1>1. Shaped(op[w]) /\ busy[w] = Flag(op[w].kind)
    BY DEF TypeInv, OneOperation
  <1>2. op[w] # Idle => Flag(op[w].kind) # {}
    BY <1>1 DEF Shaped, Flag
  <1> QED BY <1>1, <1>2, IdleGoes

\* A step of the only operation leaves the others idle.
LEMMA OneLemma ==
  ASSUME TypeInv, OneOperation, NEW w \in Window, NEW o,
         \A v \in Window \ {w} : op[v] = Idle,
         o # Idle => w \in scene.windows,
         op' = [op EXCEPT ![w] = o], busy' = [busy EXCEPT ![w] = Flag(o.kind)],
         UNCHANGED scene
  PROVE  /\ OneOperation'
         /\ (\A v \in Window : ~Rotated(op[v])) <=> ~Rotated(op[w])
         /\ (\A v \in Window : ~Rotated(op[v]))' <=> ~Rotated(o)
         /\ Goes(o)' => (\A v \in Window : Goes(op[v]))'
  <1>1. op \in [Window -> Operation] /\ busy \in [Window -> SUBSET {"unlock", "disable"}]
    BY DEF TypeInv, TypeOK, Operation
  <1>2. op'[w] = o /\ busy'[w] = Flag(o.kind)
    BY <1>1
  <1>3. \A v \in Window \ {w} : op'[v] = Idle /\ busy'[v] = {}
    BY <1>1, IdleGoes, BusyLemma
  <1>4. Exclusive'
    BY DEF OneOperation, Exclusive, Android
  <1>5. OneOperation'
    BY <1>2, <1>3, <1>4, IdleGoes DEF OneOperation
  <1>6. (\A v \in Window : Rotated(op[v])' <=> (v = w /\ Rotated(o)))
    BY <1>2, <1>3, IdleGoes DEF Rotated
  <1>7. (\A v \in Window : Goes(op[v])' <=> (v = w => Goes(o)'))
    BY <1>2, <1>3, IdleGoes
  <1> QED BY <1>5, <1>6, <1>7, IdleGoes

\* One operation at a time: the other windows are at rest.
LEMMA OthersIdle ==
  ASSUME TypeInv, OneOperation, NEW w \in Window, op[w] # Idle
  PROVE  \A v \in Window \ {w} : op[v] = Idle
  BY DEF OneOperation

\* A step of the only operation moves it alone.
LEMMA GotoOne ==
  ASSUME TypeInv, OneOperation, NEW w \in Window, op[w] # Idle, NEW at, Goto(w, at),
         UNCHANGED <<busy, scene>>
  PROVE  \E o : /\ o = [op[w] EXCEPT !.at = at]
                /\ o.kind = op[w].kind /\ o.at = at /\ o.pass = op[w].pass /\ o.new = op[w].new
                /\ o.source = op[w].source /\ o.todo = op[w].todo
                /\ op' = [op EXCEPT ![w] = o] /\ busy' = [busy EXCEPT ![w] = Flag(o.kind)]
  <1>1. op \in [Window -> Operation] /\ op[w] \in Operation
        /\ busy \in [Window -> SUBSET {"unlock", "disable"}]
    BY DEF TypeInv, TypeOK, Operation
  <1>2. [op[w] EXCEPT !.at = at].kind = op[w].kind
    BY <1>1 DEF Operation
  <1>3. busy' = [busy EXCEPT ![w] = Flag(op[w].kind)]
    BY <1>1 DEF OneOperation
  <1> QED BY <1>1, <1>2, <1>3 DEF Goto, Operation

\* When the only operation ends every window is at rest.
LEMMA EndOne ==
  ASSUME TypeInv, OneOperation, NEW w \in Window, op[w] # Idle, End(w), UNCHANGED scene
  PROVE  /\ \A v \in Window : op'[v] = Idle
         /\ OneOperation'
         /\ (\A v \in Window : Goes(op[v]))'
         /\ (\A v \in Window : ~Rotated(op[v]))'
         /\ (\A v \in Window : ~Rotated(op[v])) <=> ~Rotated(op[w])
  <1>1. Cleared(w) /\ op' = [op EXCEPT ![w] = Idle] /\ op \in [Window -> Operation]
        /\ busy \in [Window -> SUBSET {"unlock", "disable"}]
    BY DEF End, TypeInv, TypeOK, Operation
  <1>2. busy' = [busy EXCEPT ![w] = {}]
    <2>1. busy' = [busy EXCEPT ![w] = busy[w] \ {IF op[w].kind = "Disable" THEN "disable" ELSE "unlock"}]
      BY <1>1 DEF Cleared
    <2>2. Shaped(op[w]) /\ busy[w] = Flag(op[w].kind)
      BY DEF TypeInv, OneOperation
    <2>3. busy[w] \ {IF op[w].kind = "Disable" THEN "disable" ELSE "unlock"} = {}
      BY <2>2 DEF Shaped, Flag
    <2> QED BY <2>1, <2>3
  <1>3. \A v \in Window \ {w} : op[v] = Idle
    BY OthersIdle
  <1>4. \A v \in Window : op'[v] = Idle
    BY <1>1, <1>3
  <1>5. busy' = [busy EXCEPT ![w] = Flag(Idle.kind)]
    BY <1>2, IdleGoes
  <1>6. PICK o : o = Idle
    OBVIOUS
  <1>7. OneOperation' /\ ((\A v \in Window : ~Rotated(op[v])) <=> ~Rotated(op[w]))
    BY <1>1, <1>3, <1>5, <1>6, OneLemma
  <1> QED BY <1>4, <1>7, IdleGoes

-----------------------------------------------------------------------------
(* The invariant holds at first, and every step keeps it.                  *)

\* The invariant holds at first.
LEMMA InvInit == Init /\ Exclusive => Inv
  <1> SUFFICES ASSUME Init, Exclusive PROVE Inv
    OBVIOUS
  <1>1. \A w \in Window : op[w] = Idle /\ busy[w] = {}
    BY DEF Init
  <1>2. TypeInv
    BY TypeInit
  <1>3. OneOperation
    BY <1>1, IdleGoes DEF OneOperation
  <1>4. enabled /\ ~Portable => file # None
    BY <1>2, VaultAssumption, VaultType DEF Init, TypeInv, TypeOK, Document, Empty
  <1>5. ModeMatches
    BY <1>4 DEF Init, ModeMatches, StartsAs
  <1>6. \A w \in Window : Goes(op[w])
    BY <1>1, IdleGoes
  <1>7. NoSecretLost
    <2>1. CASE ~enabled
      BY <2>1 DEF Init, NoSecretLost, Kept
    <2>2. CASE enabled /\ file = None
      BY <1>2, <2>2, VaultAssumption, VaultType DEF TypeInv, TypeOK, Document, Init, NoSecretLost, Kept, Empty
    <2>3. CASE enabled /\ file # None
      BY <2>3 DEF Init, NoSecretLost, Kept, Contents
    <2> QED BY <2>1, <2>2, <2>3
  <1> QED BY <1>2, <1>3, <1>5, <1>6, <1>7 DEF Inv

\* Secrets are saved and removed between operations, where the application and
\* its next start look for them.
LEMMA WriteLemma ==
  ASSUME Inv, NEW s \in Secret, NEW v \in Value \cup {None}, Write(s, v)
  PROVE  /\ \A w \in Window : op[w] = Idle
         /\ UNCHANGED <<enabled, app, op, busy, scene>>
         /\ app.secrets # LockedBackend
         /\ saved' = [saved EXCEPT ![s] = v]
         /\ Kept' = [Kept EXCEPT ![s] = v]
         /\ IF enabled
              THEN /\ UNCHANGED keyring
                   /\ file' # None
                   /\ file # None => file'.pass = file.pass
                   /\ app.mode = "Unlocked" => file # None
              ELSE UNCHANGED file
  <1>1. TypeInv /\ OneOperation /\ TypeOK /\ app.secrets \in Backend
    BY ScenarioType DEF Inv, TypeInv, TypeOK
  <1>2. \A w \in Window : op[w] = Idle
    BY <1>1, BusyLemma DEF Write, OneOperation, Exclusive
  <1>3. Usable(app.secrets) /\ Put(app.secrets, s, v)
    BY DEF Write
  <1>4. IF enabled THEN app.secrets # Keyring ELSE app.secrets = Keyring
    BY BackendType DEF Inv, ModeMatches, Unlocked
  <1>5. enabled /\ app.mode = "Unlocked" => file # None
    BY DEF Inv, ModeMatches
  <1>6. IF enabled
          THEN /\ UNCHANGED keyring
               /\ file' # None
               /\ file # None => file'.pass = file.pass
               /\ Contents' = [Contents EXCEPT ![s] = v]
          ELSE UNCHANGED file /\ keyring' = [keyring EXCEPT ![s] = v]
    BY <1>1, <1>3, <1>4, PutLemma
  <1>7. app.secrets # LockedBackend
    BY <1>3, BackendType DEF Usable
  <1> QED BY <1>2, <1>5, <1>6, <1>7 DEF Write, Kept

\* What the user does besides keeps the invariant.
LEMMA InvUser ==
  ASSUME Inv, TypeInv',
         \/ \E s \in Secret, v \in Value : Save(s, v)
         \/ \E s \in Secret : Remove(s)
  PROVE  Inv'
  <1>1. PICK s \in Secret, v \in Value \cup {None} : Write(s, v)
    BY DEF Save, Remove
  <1>2. /\ \A w \in Window : op[w] = Idle
        /\ UNCHANGED <<enabled, app, op, busy, scene>>
    BY <1>1, WriteLemma
  <1>3. OneOperation' /\ (\A w \in Window : Goes(op[w]))' /\ (\A w \in Window : ~Rotated(op[w]))
    BY <1>2, IdleGoes DEF Inv, OneOperation, Exclusive, Android
  <1>4. ModeMatches'
    <2>1. IF enabled
            THEN /\ UNCHANGED keyring
                 /\ file' # None
                 /\ file # None => file'.pass = file.pass
                 /\ app.mode = "Unlocked" => file # None
            ELSE UNCHANGED file
      BY <1>1, WriteLemma
    <2> QED BY <1>2, <1>3, <2>1 DEF Inv, ModeMatches, Portable, Rotated, Unlocked
  <1>5. NoSecretLost'
    <2>1. Kept' = [Kept EXCEPT ![s] = v] /\ saved' = [saved EXCEPT ![s] = v]
      BY <1>1, WriteLemma
    <2>2. Kept \in Document /\ saved \in Document
      BY ContentsType DEF Kept, Inv, TypeInv, TypeOK
    <2> QED BY <2>1, <2>2 DEF Inv, NoSecretLost, Document
  <1> QED BY <1>3, <1>4, <1>5 DEF Inv

\* A step that changes nothing but the only operation keeps the invariant when
\* that operation goes on as it may.
LEMMA SameStores ==
  ASSUME Inv, TypeInv', NEW w \in Window, NEW o,
         \A v \in Window \ {w} : op[v] = Idle, w \in scene.windows,
         op' = [op EXCEPT ![w] = o], busy' = [busy EXCEPT ![w] = Flag(o.kind)],
         UNCHANGED <<keyring, file, enabled, app, saved, scene>>,
         Goes(o)', Rotated(op[w]) => Rotated(o)
  PROVE  Inv'
  <1>1. OneOperation' /\ (\A v \in Window : Goes(op[v]))'
        /\ ((\A v \in Window : ~Rotated(op[v])) <=> ~Rotated(op[w]))
        /\ ((\A v \in Window : ~Rotated(op[v]))' <=> ~Rotated(o))
    BY OneLemma DEF Inv
  <1>2. ModeMatches'
    BY <1>1 DEF Inv, ModeMatches, Portable, Unlocked
  <1>3. NoSecretLost'
    BY DEF Inv, NoSecretLost, Kept, Contents
  <1> QED BY <1>1, <1>2, <1>3 DEF Inv

\* An operation that ends with the disk as it was keeps the invariant.
LEMMA EndKeepsInv ==
  ASSUME Inv, TypeInv', NEW w \in Window, op[w] # Idle, End(w), ~Rotated(op[w]),
         UNCHANGED <<keyring, file, enabled, app, saved, scene>>
  PROVE  Inv'
  <1>1. /\ OneOperation' /\ (\A v \in Window : Goes(op[v]))'
        /\ \A v \in Window : ~Rotated(op[v])
    BY EndOne DEF Inv
  <1>2. ModeMatches'
    BY <1>1 DEF Inv, ModeMatches, Portable, Unlocked
  <1>3. NoSecretLost'
    BY DEF Inv, NoSecretLost, Kept, Contents
  <1> QED BY <1>1, <1>2, <1>3 DEF Inv

\* Locking keeps the invariant.
LEMMA LockKeepsInv ==
  ASSUME Inv, TypeInv', Free, app.mode = "Unlocked", app' = LockTransition,
         UNCHANGED <<disk, op, busy, saved, scene>>
  PROVE  Inv'
  <1>1. enabled /\ file # None /\ app' = [mode |-> "Locked", secrets |-> LockedBackend]
    BY DEF Inv, ModeMatches, LockTransition
  <1>2. OneOperation'
    BY DEF Inv, OneOperation, Exclusive, Android
  <1>3. ModeMatches'
    BY <1>1 DEF Inv, ModeMatches, Portable
  <1>4. ASSUME NEW w \in Window PROVE Goes(op[w])'
    BY <1>1 DEF Inv, Goes, EnableGoes, DisableGoes, UnlockGoes, ChangeGoes, Holds, Contents,
                Portable, Free, Ending
  <1>5. NoSecretLost'
    BY DEF Inv, NoSecretLost, Kept, Contents
  <1> QED BY <1>2, <1>3, <1>4, <1>5 DEF Inv

\* Every request keeps the invariant.
LEMMA InvAsk ==
  ASSUME Inv, TypeInv', NEW w \in Window, Ask(w)
  PROVE  Inv'
  <1>1. TypeInv /\ OneOperation /\ TypeOK /\ app.secrets \in Backend /\ scene.typed \subseteq Passphrase
    BY ScenarioType DEF Inv, TypeInv
  <1>2. ASSUME NEW kind \in {"Enable", "Unlock", "Disable", "Change"}, NEW at,
               NEW p, NEW q, NEW todo, Begin(w, kind, at, p, q, todo)
        PROVE  /\ \A v \in Window : op[v] = Idle
               /\ Goes([kind |-> kind, at |-> at, pass |-> p, new |-> q,
                        source |-> app.secrets, todo |-> todo]) /\ at \notin {"reopen", "finish", "relock"} => Inv'
    <2>1. \A v \in Window : op[v] = Idle
      BY <1>1, <1>2, BusyLemma DEF Begin, OneOperation, Exclusive
    <2>2. UNCHANGED <<keyring, file, enabled, app, saved, scene>>
      BY <1>2 DEF Begin
    <2>3. PICK o : o = [kind |-> kind, at |-> at, pass |-> p, new |-> q,
                        source |-> app.secrets, todo |-> todo]
      OBVIOUS
    <2>4. op' = [op EXCEPT ![w] = o] /\ busy' = [busy EXCEPT ![w] = Flag(o.kind)] /\ w \in scene.windows
      BY <1>2, <2>3 DEF Begin, Flag
    <2>5. ASSUME Goes(o), ~Rotated(o) PROVE Inv'
      <3>1. Goes(o)'
        BY <2>2, <2>5 DEF Goes, EnableGoes, DisableGoes, UnlockGoes, ChangeGoes, Holds, Contents, Portable
      <3>2. OneOperation' /\ (\A v \in Window : Goes(op[v]))'
            /\ ((\A v \in Window : ~Rotated(op[v])) <=> ~Rotated(op[w]))
        BY <1>1, <2>1, <2>2, <2>4, <3>1, OneLemma
      <3>3. ModeMatches'
        BY <2>1, <2>2, <3>2, IdleGoes DEF Inv, ModeMatches, Portable, Unlocked
      <3>4. NoSecretLost'
        BY <2>2 DEF Inv, NoSecretLost, Kept, Contents
      <3> QED BY <3>2, <3>3, <3>4 DEF Inv
    <2> QED BY <2>1, <2>3, <2>5 DEF Rotated
  <1>3. ASSUME NEW p \in scene.typed, StartEnable(w, p)
        PROVE  Inv'
    <2>1. app.mode = "Disabled" => app.secrets = (IF enabled THEN LockedBackend ELSE Keyring) /\ (enabled => Portable)
      BY DEF Inv, ModeMatches, Unlocked
    <2> QED BY <1>2, <1>3, <2>1 DEF StartEnable, Goes, EnableGoes
  <1>4. ASSUME NEW p \in scene.typed, StartUnlock(w, p)
        PROVE  Inv'
    <2>1. app.mode # "Disabled" => enabled
      BY DEF Inv, ModeMatches
    <2> QED BY <1>2, <1>4, <2>1 DEF StartUnlock, Goes, UnlockGoes
  <1>5. ASSUME NEW p \in scene.typed, NEW q \in scene.typed, StartChange(w, p, q)
        PROVE  Inv'
    <2>1. app.mode # "Disabled" => enabled
      BY DEF Inv, ModeMatches
    <2> QED BY <1>2, <1>5, <2>1 DEF StartChange, Goes, ChangeGoes
  <1>6. CASE StartDisable(w)
    <2>1. app.mode = "Unlocked" => enabled /\ app.secrets.kind = "vault"
      BY DEF Inv, ModeMatches, Unlocked, VaultOf
    <2>2. Holds(keyring, Secret)
      BY DEF Holds
    <2> QED BY <1>2, <1>6, <2>1, <2>2 DEF StartDisable, Goes, DisableGoes
  <1>7. CASE Lock(w)
    BY <1>1, <1>7, LockKeepsInv DEF Lock
  <1> QED BY <1>3, <1>4, <1>5, <1>6, <1>7 DEF Ask

\* Every step of a worker keeps the invariant.
LEMMA InvWorker ==
  ASSUME Inv, TypeInv', NEW w \in Window, Worker(w)
  PROVE  Inv'
  <1>1. TypeInv /\ OneOperation /\ TypeOK /\ op[w] \in Operation /\ Shaped(op[w]) /\ Goes(op[w])
    BY ScenarioType DEF Inv, TypeInv
  <1>2. op[w] # Idle
    <2>1. op[w].at \in {"open", "reopen", "copy", "discard", "rotate"}
      BY DEF Worker, Open, Copy, Discard, Rotate
    <2> QED BY <2>1 DEF Idle
  <1>3. \A v \in Window \ {w} : op[v] = Idle
    BY <1>1, <1>2, OthersIdle
  <1>4. w \in scene.windows /\ UNCHANGED <<enabled, app, busy, saved, scene>>
    BY <1>1, <1>2 DEF Worker, Open, Copy, Discard, Rotate, OneOperation
  <1>5. CASE Open(w)
    <2> DEFINE p == IF op[w].at = "open" THEN op[w].pass ELSE op[w].new
               failed == IF op[w].at = "open" THEN "failed" ELSE "relock"
               next == IF op[w].kind = "Enable" /\ ~Portable THEN "copy" ELSE "finish"
    <2>1. p \in Passphrase /\ UNCHANGED keyring
      BY <1>1, <1>5 DEF Open, Shaped, Steps, Idle
    <2>2. \/ op[w].kind \in {"Enable", "Unlock"} /\ op[w].at = "open"
          \/ op[w].kind = "Change" /\ op[w].at = "reopen"
      BY <1>1, <1>5 DEF Open, Shaped, Steps, Idle
    <2>3. CASE /\ Opens(p)
               /\ file' = [pass |-> p, doc |-> Contents]
               /\ Goto(w, next)
      <3>1. file' # None /\ file'.pass = p /\ Contents' = Contents /\ (file # None => file'.pass = file.pass)
        BY <1>1, <2>1, <2>3, FileWritten DEF Opens
      <3>2. PICK o : /\ o.kind = op[w].kind /\ o.at = next /\ o.pass = op[w].pass /\ o.new = op[w].new
                     /\ o.source = op[w].source /\ o.todo = op[w].todo
                     /\ op' = [op EXCEPT ![w] = o] /\ busy' = [busy EXCEPT ![w] = Flag(o.kind)]
        BY <1>1, <1>2, <1>4, <2>3, GotoOne
      <3>3. NoSecretLost'
        BY <1>4, <2>1, <3>1 DEF Inv, NoSecretLost, Kept
      <3>4. Goes(o)'
        <4>1. o.at = "copy" => Holds(Contents, o.todo)'
          BY <1>1, <2>2, <3>2 DEF Holds, Goes, EnableGoes
        <4>2. Portable => enabled
          BY DEF Inv, ModeMatches
        <4>3. o.at = "finish" /\ enabled => Holds(Contents, {})'
          BY <1>4, <3>1 DEF Holds, Inv, NoSecretLost, Kept
        <4> QED BY <1>1, <1>4, <2>2, <3>1, <3>2, <4>1, <4>2, <4>3
              DEF Goes, EnableGoes, UnlockGoes, ChangeGoes, Portable
      <3>5. /\ OneOperation' /\ (\A v \in Window : Goes(op[v]))'
            /\ (\A v \in Window : ~Rotated(op[v])) <=> ~Rotated(op[w])
            /\ (\A v \in Window : ~Rotated(op[v]))' <=> ~Rotated(o)
        BY <1>1, <1>3, <1>4, <3>2, <3>4, OneLemma
      <3>6. Rotated(o) <=> Rotated(op[w])
        BY <2>2, <3>2 DEF Rotated
      <3>7. ModeMatches'
        BY <1>4, <2>1, <3>1, <3>5, <3>6 DEF Inv, ModeMatches, Portable, Unlocked
      <3> QED BY <3>3, <3>5, <3>7 DEF Inv
    <2>4. CASE Goto(w, failed) /\ UNCHANGED file
      <3>1. PICK o : /\ o.kind = op[w].kind /\ o.at = failed /\ o.pass = op[w].pass /\ o.new = op[w].new
                     /\ o.source = op[w].source /\ o.todo = op[w].todo
                     /\ op' = [op EXCEPT ![w] = o] /\ busy' = [busy EXCEPT ![w] = Flag(o.kind)]
        BY <1>1, <1>2, <1>4, <2>4, GotoOne
      <3>2. Goes(o)' /\ (Rotated(o) <=> Rotated(op[w]))
        BY <1>1, <1>4, <2>2, <2>4, <3>1 DEF Goes, EnableGoes, UnlockGoes, ChangeGoes, Portable, Rotated
      <3> QED BY <1>1, <1>3, <1>4, <2>1, <2>4, <3>1, <3>2, SameStores
    <2> QED BY <1>5, <2>3, <2>4 DEF Open
  <1>6. ASSUME NEW s \in Secret, Copy(w, s)
        PROVE  Inv'
    <2> DEFINE failed == IF op[w].kind = "Enable" THEN "discard" ELSE "failed"
               from == op[w].source
    <2>1. op[w].at = "copy" /\ op[w].kind \in {"Enable", "Disable"} /\ s \in op[w].todo
      BY <1>1, <1>2, <1>6 DEF Copy, Shaped, Steps
    <2>2. CASE Goto(w, failed) /\ UNCHANGED <<keyring, file>>
      <3>1. PICK o : /\ o.kind = op[w].kind /\ o.at = failed /\ o.pass = op[w].pass /\ o.new = op[w].new
                     /\ o.source = op[w].source /\ o.todo = op[w].todo
                     /\ op' = [op EXCEPT ![w] = o] /\ busy' = [busy EXCEPT ![w] = Flag(o.kind)]
        BY <1>1, <1>2, <1>4, <2>2, GotoOne
      <3>2. Goes(o)' /\ ~Rotated(op[w])
        BY <1>1, <1>4, <2>1, <2>2, <3>1 DEF Goes, EnableGoes, DisableGoes, Portable, Rotated
      <3> QED BY <1>1, <1>3, <1>4, <2>2, <3>1, <3>2, SameStores
    <2>3. CASE /\ Usable(from) /\ Usable(Target(w))
               /\ IF In(from, s) = None THEN UNCHANGED <<keyring, file>>
                                        ELSE Put(Target(w), s, In(from, s))
               /\ op' = [op EXCEPT ![w].todo = @ \ {s},
                                   ![w].at = IF op[w].todo = {s} THEN "finish" ELSE @]
      <3>1. PICK o : /\ o.kind = op[w].kind /\ o.pass = op[w].pass /\ o.source = from
                     /\ o.todo = op[w].todo \ {s}
                     /\ o.at = IF op[w].todo = {s} THEN "finish" ELSE "copy"
                     /\ op' = [op EXCEPT ![w] = o]
        <4> DEFINE r == [op[w] EXCEPT !.todo = @ \ {s},
                                      !.at = IF op[w].todo = {s} THEN "finish" ELSE @]
        <4>1. op' = [op EXCEPT ![w] = r]
          BY <2>3
        <4>2. /\ r.kind = op[w].kind /\ r.pass = op[w].pass /\ r.source = from
              /\ r.todo = op[w].todo \ {s} /\ r.at = IF op[w].todo = {s} THEN "finish" ELSE "copy"
          BY <1>1, <2>1 DEF Operation
        <4> HIDE DEF r
        <4> QED BY <4>1, <4>2
      <3>2. busy' = [busy EXCEPT ![w] = Flag(o.kind)] /\ o # Idle
        BY <1>1, <1>4, <2>1, <3>1 DEF OneOperation, TypeOK, Idle
      <3>3. ASSUME Goes(o)' PROVE OneOperation' /\ (\A v \in Window : Goes(op[v]))'
        BY <1>1, <1>3, <1>4, <3>1, <3>2, <3>3, OneLemma
      <3>4. (\A v \in Window : ~Rotated(op[v]))
        BY <1>1, <1>3, <2>1, IdleGoes DEF Rotated
      <3>5. In(from, s) \in Value \cup {None}
        BY <1>1, InType
      <3>6. CASE op[w].kind = "Enable"
        <4>1. /\ ~Portable /\ ~enabled /\ from = Keyring
              /\ file # None /\ file.pass = op[w].pass /\ Holds(Contents, op[w].todo)
          BY <1>1, <2>1, <3>6 DEF Goes, EnableGoes
        <4>2. Target(w) = VaultOf(op[w].pass) /\ Target(w) \in Backend /\ Target(w) # Keyring /\ In(from, s) = keyring[s]
          BY <1>1, <1>2, <3>6, <4>1, BackendType DEF Target, Shaped, In
        <4>3. /\ UNCHANGED keyring
              /\ file' # None /\ file'.pass = file.pass
              /\ Contents' = IF keyring[s] = None THEN Contents ELSE [Contents EXCEPT ![s] = keyring[s]]
          <5>1. CASE In(from, s) = None
            BY <2>3, <4>1, <4>2, <5>1 DEF Contents
          <5>2. CASE In(from, s) # None
            BY <1>1, <2>3, <3>5, <4>1, <4>2, <5>2, PutLemma
          <5> QED BY <5>1, <5>2
        <4>4. NoSecretLost'
          BY <1>4, <4>1, <4>3 DEF Inv, NoSecretLost, Kept
        <4>5. Holds(Contents, o.todo)'
          <5>1. \A r \in Secret : saved[r] # None => keyring[r] = saved[r]
            BY <4>1 DEF Inv, NoSecretLost, Kept
          <5>2. Contents \in Document
            BY <1>1, ContentsType
          <5> QED BY <1>4, <3>1, <4>1, <4>3, <5>1, <5>2 DEF Holds, Document
        <4>6. op[w].todo = {s} => Holds(Contents, {})'
          BY <3>1, <4>5 DEF Holds
        <4>7. Goes(o)'
          BY <1>1, <1>4, <2>1, <3>1, <3>6, <4>1, <4>3, <4>5, <4>6 DEF Goes, EnableGoes, Portable
        <4>8. ModeMatches'
          BY <1>4, <4>1, <4>3 DEF Inv, ModeMatches, Portable
        <4> QED BY <3>3, <4>4, <4>7, <4>8 DEF Inv
      <3>7. CASE op[w].kind = "Disable"
        <4>1. /\ ~Portable /\ enabled /\ from.kind = "vault" /\ Holds(keyring, op[w].todo)
          BY <1>1, <2>1, <3>7 DEF Goes, DisableGoes
        <4>2. Target(w) = Keyring /\ Target(w) \in Backend /\ In(from, s) = Contents[s]
          BY <3>7, <4>1, BackendType DEF Target, In
        <4>3. /\ UNCHANGED file
              /\ keyring' = IF Contents[s] = None THEN keyring ELSE [keyring EXCEPT ![s] = Contents[s]]
          <5>1. CASE In(from, s) = None
            BY <2>3, <4>1, <4>2, <5>1
          <5>2. CASE In(from, s) # None
            BY <1>1, <2>3, <3>5, <4>1, <4>2, <5>2, PutLemma
          <5> QED BY <4>2, <5>1, <5>2
        <4>4. NoSecretLost'
          BY <1>4, <4>1, <4>3 DEF Inv, NoSecretLost, Kept, Contents
        <4>5. Holds(keyring, o.todo)'
          <5>1. \A r \in Secret : saved[r] # None => Contents[r] = saved[r]
            BY <4>1 DEF Inv, NoSecretLost, Kept
          <5> QED BY <1>1, <1>4, <3>1, <4>1, <4>3, <5>1 DEF Holds, TypeOK, Document
        <4>6. op[w].todo = {s} => Holds(keyring, {})'
          BY <3>1, <4>5 DEF Holds
        <4>7. Goes(o)'
          BY <1>1, <1>4, <2>1, <3>1, <3>7, <4>1, <4>3, <4>5, <4>6 DEF Goes, DisableGoes, Portable
        <4>8. ModeMatches'
          BY <1>4, <3>4, <4>1, <4>3 DEF Inv, ModeMatches, Portable, Unlocked
        <4> QED BY <3>3, <4>4, <4>7, <4>8 DEF Inv
      <3> QED BY <2>1, <3>6, <3>7
    <2> QED BY <1>6, <2>2, <2>3 DEF Copy
  <1>7. CASE Discard(w)
    <2>1. op[w].at = "discard" /\ op[w].kind = "Enable" /\ Goto(w, "failed") /\ UNCHANGED keyring
      BY <1>1, <1>2, <1>7 DEF Discard, Shaped, Steps
    <2>2. ~Portable /\ ~enabled /\ app.mode = "Disabled"
      BY <1>1, <2>1 DEF Goes, EnableGoes
    <2>3. PICK o : /\ o.kind = op[w].kind /\ o.at = "failed" /\ o.pass = op[w].pass /\ o.new = op[w].new
                   /\ o.source = op[w].source /\ o.todo = op[w].todo
                   /\ op' = [op EXCEPT ![w] = o] /\ busy' = [busy EXCEPT ![w] = Flag(o.kind)]
      BY <1>1, <1>2, <1>4, <2>1, GotoOne
    <2>4. Goes(o)'
      BY <1>4, <2>1, <2>2, <2>3 DEF Goes, EnableGoes, Portable
    <2>5. OneOperation' /\ (\A v \in Window : Goes(op[v]))'
      BY <1>1, <1>3, <1>4, <2>3, <2>4, OneLemma
    <2>6. ModeMatches' /\ NoSecretLost'
      BY <1>4, <2>1, <2>2 DEF Inv, ModeMatches, NoSecretLost, Kept, Portable
    <2> QED BY <2>5, <2>6 DEF Inv
  <1>8. CASE Rotate(w)
    <2>1. op[w].at = "rotate" /\ op[w].kind = "Change" /\ op[w].new \in Passphrase /\ UNCHANGED keyring
      BY <1>1, <1>2, <1>8 DEF Rotate, Shaped, Steps
    <2>2. CASE Opens(op[w].pass) /\ file' = [pass |-> op[w].new, doc |-> Contents] /\ Goto(w, "reopen")
      <3>1. file' # None /\ file'.pass = op[w].new /\ Contents' = Contents
        BY <1>1, <2>1, <2>2, FileWritten
      <3>2. PICK o : /\ o.kind = op[w].kind /\ o.at = "reopen" /\ o.pass = op[w].pass /\ o.new = op[w].new
                     /\ o.source = op[w].source /\ o.todo = op[w].todo
                     /\ op' = [op EXCEPT ![w] = o] /\ busy' = [busy EXCEPT ![w] = Flag(o.kind)]
        BY <1>1, <1>2, <1>4, <2>2, GotoOne
      <3>3. Goes(o)' /\ Rotated(o)
        BY <1>1, <1>4, <2>1, <3>1, <3>2 DEF Goes, ChangeGoes, Rotated
      <3>4. OneOperation' /\ (\A v \in Window : Goes(op[v]))' /\ ((\A v \in Window : ~Rotated(op[v]))' <=> ~Rotated(o))
        BY <1>1, <1>3, <1>4, <3>2, <3>3, OneLemma
      <3>5. ModeMatches'
        BY <1>4, <2>1, <3>1, <3>3, <3>4 DEF Inv, ModeMatches, Portable, Unlocked
      <3>6. NoSecretLost'
        BY <1>4, <2>1, <3>1 DEF Inv, NoSecretLost, Kept
      <3> QED BY <3>4, <3>5, <3>6 DEF Inv
    <2>3. CASE Goto(w, "failed") /\ UNCHANGED file
      <3>1. PICK o : /\ o.kind = op[w].kind /\ o.at = "failed" /\ o.pass = op[w].pass /\ o.new = op[w].new
                     /\ o.source = op[w].source /\ o.todo = op[w].todo
                     /\ op' = [op EXCEPT ![w] = o] /\ busy' = [busy EXCEPT ![w] = Flag(o.kind)]
        BY <1>1, <1>2, <1>4, <2>3, GotoOne
      <3>2. Goes(o)' /\ ~Rotated(op[w])
        BY <1>1, <1>4, <2>1, <2>3, <3>1 DEF Goes, ChangeGoes, Rotated
      <3> QED BY <1>1, <1>3, <1>4, <2>1, <2>3, <3>1, <3>2, SameStores
    <2> QED BY <1>8, <2>2, <2>3 DEF Rotate
  <1> QED BY <1>5, <1>6, <1>7, <1>8 DEF Worker

\* Every step of the interface keeps the invariant.
LEMMA InvInterface ==
  ASSUME Inv, TypeInv', NEW w \in Window, Interface(w)
  PROVE  Inv'
  <1>1. TypeInv /\ OneOperation /\ TypeOK /\ op[w] \in Operation /\ Shaped(op[w]) /\ Goes(op[w])
    BY ScenarioType DEF Inv, TypeInv
  <1>2. op[w] # Idle
    <2>1. op[w].at \in {"failed", "relock", "finish", "delete", "erase"}
      BY DEF Interface, Failed, Relock, FinishOpen, FinishEnable, Delete, FinishDisable, Erase, Finish
    <2> QED BY <2>1 DEF Idle
  <1>3. \A v \in Window \ {w} : op[v] = Idle
    BY <1>1, <1>2, OthersIdle
  <1>4. w \in scene.windows /\ UNCHANGED <<saved, scene>>
    BY <1>1, <1>2 DEF OneOperation, Interface, Failed, Relock, FinishOpen, FinishEnable,
                      Delete, FinishDisable, Erase
  <1>5. CASE Failed(w)
    <2>1. ~Rotated(op[w])
      BY <1>5 DEF Failed, Rotated
    <2>2. UNCHANGED <<keyring, file, enabled, app>> /\ End(w)
      BY <1>5 DEF Failed
    <2> QED BY <1>1, <1>2, <1>4, <2>1, <2>2, EndKeepsInv
  <1>6. CASE Relock(w)
    <2>1. op[w].kind = "Change" /\ enabled /\ app.mode # "Disabled" /\ End(w)
          /\ UNCHANGED <<keyring, file, enabled>> /\ app' = [mode |-> "Locked", secrets |-> LockedBackend]
      BY <1>1, <1>2, <1>6 DEF Relock, Shaped, Steps, Goes, ChangeGoes
    <2>2. ModeMatches'
      BY <1>4, <2>1 DEF Inv, ModeMatches, Portable
    <2> QED BY <1>1, <1>2, <1>4, <2>1, <2>2, EndOne DEF Inv, NoSecretLost, Kept, Contents
  <1>7. CASE FinishOpen(w)
    <2> DEFINE p == IF op[w].kind = "Unlock" THEN op[w].pass ELSE op[w].new
    <2>1. p \in Passphrase /\ file.pass = p /\ enabled /\ app.mode # "Disabled"
      BY <1>1, <1>2, <1>7 DEF FinishOpen, Finish, Shaped, Goes, UnlockGoes, ChangeGoes
    <2>2. UNCHANGED <<keyring, file, enabled>> /\ End(w) /\ app' = Unlocked(p)
      BY <1>7 DEF FinishOpen
    <2>3. app'.secrets.pass = p
      BY <2>2 DEF Unlocked, VaultOf
    <2>4. ModeMatches'
      BY <1>4, <2>1, <2>2, <2>3 DEF Inv, ModeMatches, Portable
    <2> QED BY <1>1, <1>2, <1>4, <2>2, <2>4, EndOne DEF Inv, NoSecretLost, Kept, Contents
  <1>8. CASE FinishEnable(w)
    <2>1. /\ op[w].kind = "Enable" /\ op[w].pass \in Passphrase /\ UNCHANGED keyring
          /\ app.mode = "Disabled" /\ (Portable \/ ~enabled)
          /\ file # None /\ file.pass = op[w].pass /\ Holds(Contents, {})
      BY <1>1, <1>2, <1>8 DEF FinishEnable, Finish, Shaped, Goes, EnableGoes
    <2>2. ~Rotated(op[w])
      BY <2>1 DEF Rotated
    <2>3. CASE /\ enabled' = TRUE
               /\ app' = Unlocked(op[w].pass)
               /\ op' = [op EXCEPT ![w].at = "delete", ![w].todo = Secret, ![w].source = app.secrets]
               /\ UNCHANGED <<file, busy>>
      <3>1. PICK o : /\ o.kind = "Enable" /\ o.at = "delete" /\ o.pass = op[w].pass /\ o.source = app.secrets
                     /\ op' = [op EXCEPT ![w] = o]
        <4> DEFINE r == [op[w] EXCEPT !.at = "delete", !.todo = Secret, !.source = app.secrets]
        <4>1. op' = [op EXCEPT ![w] = r]
          BY <2>3
        <4>2. r.kind = "Enable" /\ r.at = "delete" /\ r.pass = op[w].pass /\ r.source = app.secrets
          BY <1>1, <2>1 DEF Operation
        <4> HIDE DEF r
        <4> QED BY <4>1, <4>2
      <3>2. busy' = [busy EXCEPT ![w] = Flag(o.kind)]
        BY <1>1, <2>1, <2>3, <3>1 DEF OneOperation, TypeOK
      <3>3. app.secrets = IF Portable THEN LockedBackend ELSE Keyring
        BY <2>1 DEF Inv, ModeMatches, Unlocked
      <3>4. Goes(o)' /\ ~Rotated(o)
        BY <1>4, <2>1, <2>3, <3>1, <3>3 DEF Goes, EnableGoes, Portable, Rotated
      <3>5. OneOperation' /\ (\A v \in Window : Goes(op[v]))'
        BY <1>1, <1>3, <1>4, <3>1, <3>2, <3>4, OneLemma
      <3>6. app'.secrets.pass = op[w].pass
        BY <2>3 DEF Unlocked, VaultOf
      <3>7. ModeMatches'
        BY <1>4, <2>1, <2>3, <3>6 DEF Inv, ModeMatches, Portable
      <3>8. NoSecretLost'
        BY <1>4, <2>1, <2>3 DEF NoSecretLost, Kept, Contents, Holds
      <3> QED BY <3>5, <3>7, <3>8 DEF Inv
    <2>4. CASE End(w) /\ UNCHANGED <<file, enabled, app>>
      BY <1>1, <1>2, <1>4, <2>1, <2>2, <2>4, EndKeepsInv
    <2>5. CASE Android /\ Goto(w, "discard") /\ UNCHANGED <<busy, file, enabled, app>>
      <3>1. PICK o : /\ o.kind = op[w].kind /\ o.at = "discard" /\ o.pass = op[w].pass /\ o.new = op[w].new
                     /\ o.source = op[w].source /\ o.todo = op[w].todo
                     /\ op' = [op EXCEPT ![w] = o] /\ busy' = [busy EXCEPT ![w] = Flag(o.kind)]
        BY <1>1, <1>2, <1>4, <2>5, GotoOne
      <3>2. Goes(o)'
        BY <1>4, <2>1, <2>5, <3>1 DEF Goes, EnableGoes, Portable, Android
      <3> QED BY <1>1, <1>3, <1>4, <2>1, <2>2, <2>5, <3>1, <3>2, SameStores
    <2> QED BY <1>8, <2>3, <2>4, <2>5 DEF FinishEnable
  <1>9. CASE Delete(w)
    <2>1. /\ op[w].kind = "Enable" /\ enabled /\ app = Unlocked(op[w].pass) /\ op[w].pass \in Passphrase
          /\ file # None /\ file.pass = op[w].pass
          /\ op[w].source = IF Portable THEN LockedBackend ELSE Keyring
      BY <1>1, <1>2, <1>9 DEF Delete, Shaped, Steps, Goes, EnableGoes
    <2>2. UNCHANGED <<enabled, app>>
      BY <1>9 DEF Delete
    <2>3. PICK s \in op[w].todo :
            /\ \/ /\ Usable(op[w].source)
                  /\ Put(op[w].source, s, None)
               \/ UNCHANGED <<keyring, file>>
            /\ IF op[w].todo = {s} THEN End(w)
               ELSE op' = [op EXCEPT ![w].todo = @ \ {s}] /\ UNCHANGED busy
      BY <1>9 DEF Delete
    <2>4. UNCHANGED file /\ (Portable => UNCHANGED keyring)
      <3>1. CASE Usable(op[w].source) /\ Put(op[w].source, s, None)
        <4>1. ~Portable /\ op[w].source = Keyring /\ s \in Secret
          BY <1>1, <2>1, <3>1, BackendType, ScenarioType DEF Usable
        <4> QED BY <1>1, <3>1, <4>1, BackendType, PutLemma
      <3> QED BY <2>3, <3>1
    <2>5. NoSecretLost'
      BY <1>4, <2>1, <2>2, <2>4 DEF Inv, NoSecretLost, Kept, Contents
    <2>6. ASSUME OneOperation', (\A v \in Window : Goes(op[v]))' PROVE Inv'
      <3>1. app.secrets.pass = op[w].pass
        BY <2>1 DEF Unlocked, VaultOf
      <3>2. ModeMatches'
        BY <1>4, <2>1, <2>2, <2>4, <3>1 DEF Inv, ModeMatches, Portable
      <3> QED BY <2>5, <2>6, <3>2 DEF Inv
    <2>7. CASE End(w)
      BY <1>1, <1>2, <1>4, <2>6, <2>7, EndOne
    <2>8. CASE op' = [op EXCEPT ![w].todo = @ \ {s}] /\ UNCHANGED busy
      <3>1. PICK o : /\ o.kind = "Enable" /\ o.at = "delete" /\ o.pass = op[w].pass /\ o.source = op[w].source
                     /\ op' = [op EXCEPT ![w] = o]
        <4> DEFINE r == [op[w] EXCEPT !.todo = @ \ {s}]
        <4>1. op' = [op EXCEPT ![w] = r]
          BY <2>8
        <4>2. r.kind = "Enable" /\ r.at = "delete" /\ r.pass = op[w].pass /\ r.source = op[w].source
          BY <1>1, <1>9, <2>1 DEF Operation, Delete
        <4> HIDE DEF r
        <4> QED BY <4>1, <4>2
      <3>2. busy' = [busy EXCEPT ![w] = Flag(o.kind)]
        BY <1>1, <2>1, <2>8, <3>1 DEF OneOperation, TypeOK
      <3>3. Goes(o)'
        BY <1>4, <2>1, <2>2, <2>4, <3>1 DEF Goes, EnableGoes, Portable
      <3> QED BY <1>1, <1>3, <1>4, <2>6, <3>1, <3>2, <3>3, OneLemma
    <2> QED BY <2>3, <2>7, <2>8
  <1>10. CASE FinishDisable(w)
    <2>1. /\ op[w].kind = "Disable" /\ UNCHANGED <<keyring, file>>
          /\ ~Portable /\ enabled /\ Holds(keyring, {})
      BY <1>1, <1>2, <1>10 DEF FinishDisable, Finish, Goes, DisableGoes
    <2>2. ~Rotated(op[w])
      BY <2>1 DEF Rotated
    <2>3. CASE /\ enabled' = FALSE
               /\ app' = [mode |-> "Disabled", secrets |-> Keyring]
               /\ Goto(w, "erase")
               /\ UNCHANGED busy
      <3>1. PICK o : /\ o.kind = op[w].kind /\ o.at = "erase" /\ o.pass = op[w].pass /\ o.new = op[w].new
                     /\ o.source = op[w].source /\ o.todo = op[w].todo
                     /\ op' = [op EXCEPT ![w] = o] /\ busy' = [busy EXCEPT ![w] = Flag(o.kind)]
        BY <1>1, <1>2, <1>4, <2>3, GotoOne
      <3>2. Goes(o)'
        BY <1>4, <2>1, <2>3, <3>1 DEF Goes, DisableGoes, Portable
      <3>3. OneOperation' /\ (\A v \in Window : Goes(op[v]))'
        BY <1>1, <1>3, <1>4, <3>1, <3>2, OneLemma
      <3>4. ModeMatches'
        BY <1>4, <2>1, <2>3 DEF ModeMatches, Portable
      <3>5. NoSecretLost'
        BY <1>4, <2>1, <2>3 DEF NoSecretLost, Kept, Holds
      <3> QED BY <3>3, <3>4, <3>5 DEF Inv
    <2>4. CASE End(w) /\ UNCHANGED <<enabled, app>>
      BY <1>1, <1>2, <1>4, <2>1, <2>2, <2>4, EndKeepsInv
    <2> QED BY <1>10, <2>3, <2>4 DEF FinishDisable
  <1>11. CASE Erase(w)
    <2>1. ~Portable /\ ~enabled /\ End(w) /\ UNCHANGED <<keyring, enabled, app>>
      BY <1>1, <1>2, <1>11 DEF Erase, Shaped, Steps, Goes, DisableGoes
    <2>2. ModeMatches' /\ NoSecretLost'
      BY <1>4, <2>1 DEF Inv, ModeMatches, Portable, NoSecretLost, Kept
    <2> QED BY <1>1, <1>2, <1>4, <2>1, <2>2, EndOne DEF Inv
  <1> QED BY <1>5, <1>6, <1>7, <1>8, <1>9, <1>10, <1>11 DEF Interface

\* Every step keeps the invariant.
LEMMA InvNext == Inv /\ [Next]_vars => Inv'
  <1> SUFFICES ASSUME Inv, [Next]_vars PROVE Inv'
    OBVIOUS
  <1>1. TypeInv'
    BY TypeNext DEF Inv
  <1>2. CASE AutoLock
    BY <1>1, <1>2, LockKeepsInv DEF AutoLock
  <1>3. CASE Restart
    <2>1. UNCHANGED <<keyring, file, enabled, saved, scene>> /\ app' = StartsAs(enabled)
          /\ \A w \in Window : op'[w] = Idle /\ busy'[w] = {}
      BY <1>3 DEF Restart
    <2>2. OneOperation' /\ \A w \in Window : Goes(op[w])'
      BY <2>1, IdleGoes DEF Inv, OneOperation, Exclusive, Android
    <2>3. ModeMatches'
      BY <2>1 DEF Inv, ModeMatches, Portable, StartsAs
    <2>4. NoSecretLost'
      BY <2>1 DEF Inv, NoSecretLost, Kept, Contents
    <2> QED BY <1>1, <2>2, <2>3, <2>4 DEF Inv
  <1>4. CASE UNCHANGED vars
    <2>1. OneOperation' /\ ModeMatches'
      BY <1>4 DEF Inv, vars, OneOperation, Exclusive, Android, ModeMatches, Portable, Unlocked
    <2>2. ASSUME NEW w \in Window PROVE Goes(op[w])'
      BY <1>4 DEF Inv, vars, Goes, EnableGoes, DisableGoes, UnlockGoes, ChangeGoes, Holds, Contents, Portable
    <2>3. NoSecretLost'
      BY <1>4 DEF Inv, vars, NoSecretLost, Kept, Contents
    <2> QED BY <1>1, <2>1, <2>2, <2>3 DEF Inv
  <1> QED BY <1>1, <1>2, <1>3, <1>4, InvUser, InvAsk, InvWorker, InvInterface DEF Next

\* The invariant holds in every behaviour.
LEMMA InvHolds == Exclusive /\ Spec => []Inv
  BY InvInit, InvNext, PTL DEF Spec

\* Where operations cannot meet, no secret the user has saved is ever away from
\* where the application looks for it after its next start, at whatever step an
\* operation fails or the application ends.
THEOREM SecretsKept == Exclusive /\ Spec => []NoSecretLost
  <1>1. Inv => NoSecretLost
    BY DEF Inv
  <1> QED BY <1>1, InvHolds, PTL

\* Between operations, the running application and the next start agree on the
\* store, and an unlocked vault opens with the passphrase of the session.
THEOREM SessionAgrees == Exclusive /\ Spec => []SessionMatchesDisk
  <1>1. Inv => SessionMatchesDisk
    BY IdleGoes DEF Inv, ModeMatches, SessionMatchesDisk, AtRest, Unlocked
  <1> QED BY <1>1, InvHolds, PTL

-----------------------------------------------------------------------------
(* Nothing stays behind when nothing fails.                                *)

\* A window at rest leaves nothing behind.
LEMMA IdleClean == Clean(Idle) /\ Clean(Idle)' /\ Idle.kind = "None"
  BY DEF Clean, Idle

\* Failures and ends are only counted up.
LEMMA UsedLemma ==
  ASSUME Inv, [Next]_vars, ~Mishap, ~Restart
  PROVE  used'.mishaps = used.mishaps /\ used'.ends = used.ends
  <1>1. used \in [writes : Nat, mishaps : Nat, ends : Nat]
    BY DEF Inv, TypeInv, TypeOK
  <1>2. \/ UNCHANGED used
        \/ used' = [used EXCEPT !.writes = @ + 1]
    BY DEF Next, vars, Save, Remove, Write, Ask, StartEnable, StartUnlock, StartChange, StartDisable, Begin,
           Lock, AutoLock, Worker, Open, Copy, Discard, Rotate, Interface, Failed, Relock, FinishOpen,
           FinishEnable, Delete, FinishDisable, Erase
  <1> QED BY <1>1, <1>2

\* Nothing is left behind at first.
LEMMA CleanInit == Init /\ Exclusive => CleanInv
  <1> SUFFICES ASSUME Init, Exclusive PROVE CleanState
    BY DEF CleanInv
  <1>1. \A w \in Window : op[w] = Idle
    BY DEF Init
  <1>2. Inv /\ TypeOK
    BY InvInit DEF Inv, TypeInv
  <1>3. Kept = saved
    <2>1. file = None \/ file.doc = saved
      BY DEF Init
    <2> QED BY <1>2, <2>1, VaultAssumption, VaultType DEF Init, Kept, Contents, TypeOK, Document
  <1>4. app.mode = "Disabled" => file = None
    BY DEF Init, StartsAs
  <1>5. (enabled => keyring = Empty) /\ (~enabled => file = None)
    BY DEF Init
  <1> QED BY <1>1, <1>3, <1>4, <1>5, IdleClean DEF CleanState

\* What CleanState says after a step of the only operation.
LEMMA CleanOne ==
  ASSUME TypeInv, NEW w \in Window, NEW o,
         \A v \in Window \ {w} : op[v] = Idle, op' = [op EXCEPT ![w] = o]
  PROVE  /\ (\A v \in Window : Clean(op[v]))' <=> Clean(o)'
         /\ AtRest' <=> o = Idle
         /\ (\A v \in Window : op[v].kind \notin {"Enable", "Disable"})'
              <=> o.kind \notin {"Enable", "Disable"}
         /\ (\A v \in Window : op[v].kind \notin {"Enable", "Disable"})
              <=> op[w].kind \notin {"Enable", "Disable"}
  <1>1. op \in [Window -> Operation]
    BY DEF TypeInv, TypeOK, Operation
  <1>2. op'[w] = o /\ \A v \in Window \ {w} : op'[v] = Idle
    BY <1>1
  <1>3. \A v \in Window : Clean(op[v])' <=> (v = w => Clean(o)')
    BY <1>2, IdleClean
  <1> QED BY <1>2, <1>3, IdleClean DEF AtRest

\* What the user does besides leaves nothing behind.
LEMMA CleanUser ==
  ASSUME Inv, CleanState,
         \/ \E s \in Secret, v \in Value : Save(s, v)
         \/ \E s \in Secret : Remove(s)
  PROVE  CleanState'
  <1>1. PICK s \in Secret, v \in Value \cup {None} : Write(s, v)
    BY DEF Save, Remove
  <1>2. /\ \A w \in Window : op[w] = Idle
        /\ UNCHANGED <<enabled, app, op>>
        /\ app.secrets # LockedBackend
        /\ Kept' = [Kept EXCEPT ![s] = v] /\ saved' = [saved EXCEPT ![s] = v]
        /\ IF enabled THEN UNCHANGED keyring ELSE UNCHANGED file
    BY <1>1, WriteLemma
  <1>3. enabled => app.mode # "Disabled"
    BY <1>2 DEF Inv, ModeMatches, Unlocked
  <1> QED BY <1>2, <1>3, IdleClean DEF CleanState, AtRest

\* Locking leaves nothing behind.
LEMMA LockClean ==
  ASSUME Inv, CleanState, app.mode = "Unlocked", app' = LockTransition,
         UNCHANGED <<disk, op, saved>>
  PROVE  CleanState'
  <1>1. app'.mode = "Locked"
    BY DEF Inv, ModeMatches, LockTransition
  <1>2. Kept' = Kept /\ \A w \in Window : Clean(op[w])'
    BY DEF CleanState, Clean, Kept, Contents
  <1> QED BY <1>1, <1>2 DEF CleanState

\* A request leaves nothing behind.
LEMMA CleanAsk ==
  ASSUME Inv, CleanState, NEW w \in Window, Ask(w)
  PROVE  CleanState'
  <1>1. TypeInv /\ OneOperation /\ TypeOK
    BY DEF Inv, TypeInv
  <1>2. ASSUME NEW kind \in {"Enable", "Unlock", "Disable", "Change"}, NEW at,
               NEW p, NEW q, NEW todo, Begin(w, kind, at, p, q, todo)
        PROVE  /\ \A v \in Window : op[v] = Idle
               /\ Clean([kind |-> kind, at |-> at, pass |-> p, new |-> q,
                         source |-> app.secrets, todo |-> todo]) => CleanState'
    <2>1. \A v \in Window : op[v] = Idle
      BY <1>1, <1>2, BusyLemma DEF Begin, OneOperation, Exclusive
    <2>2. UNCHANGED <<keyring, file, enabled, app, saved>>
      BY <1>2 DEF Begin
    <2>3. PICK o : o = [kind |-> kind, at |-> at, pass |-> p, new |-> q,
                        source |-> app.secrets, todo |-> todo]
      OBVIOUS
    <2>4. op' = [op EXCEPT ![w] = o] /\ o.kind # "None"
      BY <1>2, <2>3 DEF Begin
    <2>5. Clean(o) => Clean(o)'
      BY <2>2 DEF Clean, Contents
    <2>6. Kept' = Kept
      BY <2>2 DEF Kept, Contents
    <2> QED BY <1>1, <2>1, <2>2, <2>3, <2>4, <2>5, <2>6, CleanOne, IdleClean DEF CleanState
  <1>3. ASSUME NEW p \in scene.typed, StartEnable(w, p)
        PROVE  CleanState'
    BY <1>2, <1>3 DEF StartEnable, Clean, CleanState, AtRest
  <1>4. ASSUME NEW p \in scene.typed, StartUnlock(w, p)
        PROVE  CleanState'
    BY <1>2, <1>4 DEF StartUnlock, Clean
  <1>5. ASSUME NEW p \in scene.typed, NEW q \in scene.typed, StartChange(w, p, q)
        PROVE  CleanState'
    BY <1>2, <1>5 DEF StartChange, Clean
  <1>6. CASE StartDisable(w)
    <2>1. \A v \in Window : op[v] = Idle
      BY <1>2, <1>6 DEF StartDisable
    <2>2. app.secrets = VaultOf(file.pass) /\ enabled
      <3>1. enabled /\ \E p \in Passphrase : app = Unlocked(p) /\ file.pass = app.secrets.pass
        BY <1>6, <2>1, IdleGoes DEF StartDisable, Inv, ModeMatches
      <3> QED BY <3>1 DEF Unlocked, VaultOf
    <2>3. keyring = [s \in Secret |-> IF s \in Secret THEN None ELSE saved[s]]
      BY <2>1, <2>2, IdleClean DEF CleanState, Empty
    <2> QED BY <1>2, <1>6, <2>2, <2>3 DEF StartDisable, Clean
  <1>7. CASE Lock(w)
    BY <1>7, LockClean DEF Lock
  <1> QED BY <1>3, <1>4, <1>5, <1>6, <1>7 DEF Ask

\* A step of a worker that succeeds leaves nothing behind.
LEMMA CleanWorker ==
  ASSUME Inv, CleanState, NEW w \in Window, Worker(w), ~Mishap
  PROVE  CleanState'
  <1>1. TypeInv /\ OneOperation /\ TypeOK /\ op[w] \in Operation /\ Shaped(op[w]) /\ Goes(op[w])
        /\ Clean(op[w]) /\ saved \in Document /\ keyring \in Document
    BY ScenarioType DEF Inv, TypeInv, TypeOK, CleanState
  <1>2. op[w] # Idle
    <2>1. op[w].at \in {"open", "reopen", "copy", "discard", "rotate"}
      BY DEF Worker, Open, Copy, Discard, Rotate
    <2> QED BY <2>1 DEF Idle
  <1>3. \A v \in Window \ {w} : op[v] = Idle
    BY <1>1, <1>2, OthersIdle
  <1>4. UNCHANGED <<enabled, app, busy, saved, scene>>
    BY DEF Worker, Open, Copy, Discard, Rotate
  <1>5. CASE Open(w)
    <2> DEFINE p == IF op[w].at = "open" THEN op[w].pass ELSE op[w].new
               failed == IF op[w].at = "open" THEN "failed" ELSE "relock"
               next == IF op[w].kind = "Enable" /\ ~Portable THEN "copy" ELSE "finish"
    <2>1. p \in Passphrase /\ UNCHANGED keyring
      BY <1>1, <1>5 DEF Open, Shaped, Steps, Idle
    <2>2. \/ op[w].kind \in {"Enable", "Unlock"} /\ op[w].at = "open"
          \/ op[w].kind = "Change" /\ op[w].at = "reopen"
      BY <1>1, <1>5 DEF Open, Shaped, Steps, Idle
    <2>3. Contents' = Contents /\ Kept' = Kept /\ (file = None \/ file # None)
      BY <1>1, <1>4, <1>5, <2>1, FileWritten DEF Open, Kept, Contents
    <2>4. PICK o : /\ o.kind = op[w].kind /\ o.at \in {next, failed} /\ o.todo = op[w].todo
                   /\ op' = [op EXCEPT ![w] = o]
                   /\ o.at = failed => ~Opens(p) \/ (op[w].kind = "Unlock" /\ file = None)
      BY <1>1, <1>2, <1>4, <1>5, GotoOne DEF Open
    <2>5. CASE op[w].kind = "Enable"
      <3>1. file = None /\ o.at = next
        BY <1>1, <2>2, <2>4, <2>5 DEF Clean, Opens
      <3>2. Portable => enabled
        BY DEF Inv, ModeMatches
      <3>3. ~Portable => op[w].todo = Secret
        BY <1>1, <2>2, <2>5 DEF Goes, EnableGoes
      <3>4. Contents = [s \in Secret |-> IF s \in Secret THEN None ELSE saved[s]]
        BY <3>1 DEF Contents, Empty
      <3>5. o.at = "finish" => Contents = saved
        BY <2>2, <2>5, <3>1, <3>2 DEF CleanState, Kept
      <3>6. Clean(o)'
        BY <1>4, <2>3, <2>4, <2>5, <3>1, <3>3, <3>4, <3>5 DEF Clean
      <3> QED BY <1>1, <1>3, <1>4, <2>3, <2>4, <2>5, <3>6, CleanOne, IdleClean DEF CleanState
    <2>6. CASE op[w].kind \in {"Unlock", "Change"}
      <3>1. Clean(o)'
        BY <2>4, <2>6 DEF Clean
      <3>2. enabled
        BY <1>1, <2>6 DEF Goes, UnlockGoes, ChangeGoes
      <3> QED BY <1>1, <1>3, <1>4, <2>1, <2>3, <2>4, <2>6, <3>1, <3>2, CleanOne, IdleClean DEF CleanState
    <2> QED BY <2>2, <2>5, <2>6
  <1>6. ASSUME NEW s \in Secret, Copy(w, s)
        PROVE  CleanState'
    <2> DEFINE from == op[w].source
    <2>1. op[w].at = "copy" /\ op[w].kind \in {"Enable", "Disable"} /\ s \in op[w].todo
      BY <1>1, <1>2, <1>6 DEF Copy, Shaped, Steps
    <2>2. In(from, s) \in Value \cup {None}
      BY <1>1, InType
    <2>3. ASSUME Usable(from), Usable(Target(w))
          PROVE  /\ IF In(from, s) = None THEN UNCHANGED <<keyring, file>>
                                          ELSE Put(Target(w), s, In(from, s))
                 /\ \E o : /\ o.kind = op[w].kind /\ o.pass = op[w].pass /\ o.source = from
                           /\ o.todo = op[w].todo \ {s}
                           /\ o.at = IF op[w].todo = {s} THEN "finish" ELSE "copy"
                           /\ op' = [op EXCEPT ![w] = o]
      <3> DEFINE r == [op[w] EXCEPT !.todo = @ \ {s},
                                    !.at = IF op[w].todo = {s} THEN "finish" ELSE @]
      <3>1. op' = [op EXCEPT ![w] = r]
        BY <1>6, <2>3 DEF Copy
      <3>2. /\ r.kind = op[w].kind /\ r.pass = op[w].pass /\ r.source = from
            /\ r.todo = op[w].todo \ {s} /\ r.at = IF op[w].todo = {s} THEN "finish" ELSE "copy"
        BY <1>1, <2>1 DEF Operation
      <3> HIDE DEF r
      <3> QED BY <1>6, <2>3, <3>1, <3>2 DEF Copy
    <2>4. CASE op[w].kind = "Enable"
      <3>1. /\ ~Portable /\ ~enabled /\ from = Keyring /\ op[w].pass \in Passphrase
            /\ file # None /\ file.pass = op[w].pass
            /\ Contents = [r \in Secret |-> IF r \in op[w].todo THEN None ELSE saved[r]]
            /\ keyring = saved
        BY <1>1, <1>2, <2>1, <2>4 DEF Goes, EnableGoes, Clean, CleanState, Kept, Shaped
      <3>2. Target(w) = VaultOf(op[w].pass) /\ Target(w) \in Backend /\ Target(w) # Keyring /\ In(from, s) = saved[s]
            /\ Usable(from) /\ Usable(Target(w))
        BY <2>4, <3>1, BackendType DEF Target, In, Usable, Opens
      <3>3. PICK o : /\ o.kind = op[w].kind /\ o.pass = op[w].pass /\ o.source = from
                     /\ o.todo = op[w].todo \ {s}
                     /\ o.at = IF op[w].todo = {s} THEN "finish" ELSE "copy"
                     /\ op' = [op EXCEPT ![w] = o]
        BY <2>3, <3>2
      <3>4. UNCHANGED keyring /\ Contents' = [Contents EXCEPT ![s] = saved[s]]
        <4>1. CASE saved[s] = None
          <5>1. Contents' = Contents /\ UNCHANGED keyring
            BY <2>3, <3>2, <4>1 DEF Contents
          <5>2. Contents = [Contents EXCEPT ![s] = saved[s]]
            BY <2>1, <3>1, <4>1
          <5> QED BY <5>1, <5>2
        <4>2. CASE saved[s] # None
          BY <1>1, <2>2, <2>3, <3>2, <4>2, PutLemma
        <4> QED BY <4>1, <4>2
      <3>5. Contents' = [r \in Secret |-> IF r \in o.todo THEN None ELSE saved[r]]
        BY <3>1, <3>3, <3>4
      <3>6. o.at = "finish" => Contents' = saved
        <4>1. o.at = "finish" => o.todo = {}
          BY <3>3
        <4>2. saved = [r \in Secret |-> saved[r]]
          BY <1>1 DEF Document
        <4> QED BY <3>5, <4>1, <4>2
      <3>7. Clean(o)'
        BY <1>4, <2>4, <3>3, <3>5, <3>6 DEF Clean
      <3>8. Kept' = saved
        BY <1>4, <3>1, <3>4 DEF Kept
      <3>9. (\A v \in Window : Clean(op[v]))' /\ ~AtRest'
            /\ ~(\A v \in Window : op[v].kind \notin {"Enable", "Disable"})'
        <4>1. /\ (\A v \in Window : Clean(op[v]))' <=> Clean(o)'
              /\ AtRest' <=> o = Idle
              /\ (\A v \in Window : op[v].kind \notin {"Enable", "Disable"})'
                   <=> o.kind \notin {"Enable", "Disable"}
          BY <1>1, <1>3, <3>3, CleanOne
        <4>2. o.kind = "Enable" /\ o # Idle
          BY <2>4, <3>3, IdleClean
        <4> QED BY <3>7, <4>1, <4>2
      <3> QED BY <1>4, <3>8, <3>9 DEF CleanState
    <2>5. CASE op[w].kind = "Disable"
      <3>1. /\ ~Portable /\ enabled /\ from = VaultOf(file.pass) /\ from.kind = "vault"
            /\ keyring = [r \in Secret |-> IF r \in op[w].todo THEN None ELSE saved[r]]
            /\ Contents = saved
        BY <1>1, <2>1, <2>5 DEF Goes, DisableGoes, Clean, CleanState, Kept
      <3>2. Target(w) = Keyring /\ Target(w) \in Backend /\ In(from, s) = saved[s]
            /\ Usable(from) /\ Usable(Target(w))
        BY <2>5, <3>1, BackendType DEF Target, In, Usable, Opens, VaultOf
      <3>3. PICK o : /\ o.kind = op[w].kind /\ o.pass = op[w].pass /\ o.source = from
                     /\ o.todo = op[w].todo \ {s}
                     /\ o.at = IF op[w].todo = {s} THEN "finish" ELSE "copy"
                     /\ op' = [op EXCEPT ![w] = o]
        BY <2>3, <3>2
      <3>4. UNCHANGED file /\ keyring' = [keyring EXCEPT ![s] = saved[s]]
        <4>1. CASE saved[s] = None
          <5>1. keyring = [keyring EXCEPT ![s] = saved[s]]
            BY <2>1, <3>1, <4>1
          <5> QED BY <2>3, <3>2, <4>1, <5>1
        <4>2. CASE saved[s] # None
          BY <1>1, <2>2, <2>3, <3>2, <4>2, PutLemma
        <4> QED BY <4>1, <4>2
      <3>5. keyring' = [r \in Secret |-> IF r \in o.todo THEN None ELSE saved[r]]
        BY <3>1, <3>3, <3>4
      <3>6. o.at = "finish" => keyring' = saved
        <4>1. o.at = "finish" => o.todo = {}
          BY <3>3
        <4>2. saved = [r \in Secret |-> saved[r]]
          BY <1>1 DEF Document
        <4> QED BY <3>5, <4>1, <4>2
      <3>7. Clean(o)'
        BY <1>4, <2>5, <3>1, <3>3, <3>4, <3>5, <3>6 DEF Clean
      <3>8. Kept' = saved
        BY <1>4, <3>1, <3>4 DEF Kept, Contents
      <3>9. (\A v \in Window : Clean(op[v]))' /\ ~AtRest'
            /\ ~(\A v \in Window : op[v].kind \notin {"Enable", "Disable"})'
        <4>1. /\ (\A v \in Window : Clean(op[v]))' <=> Clean(o)'
              /\ AtRest' <=> o = Idle
              /\ (\A v \in Window : op[v].kind \notin {"Enable", "Disable"})'
                   <=> o.kind \notin {"Enable", "Disable"}
          BY <1>1, <1>3, <3>3, CleanOne
        <4>2. o.kind = "Disable" /\ o # Idle
          BY <2>5, <3>3, IdleClean
        <4> QED BY <3>7, <4>1, <4>2
      <3> QED BY <1>4, <3>8, <3>9 DEF CleanState
    <2> QED BY <2>1, <2>4, <2>5
  <1>7. CASE Discard(w)
    <2>1. op[w].at = "discard" /\ op[w].kind = "Enable"
      BY <1>1, <1>2, <1>7 DEF Discard, Shaped, Steps
    <2> QED BY <1>1, <2>1 DEF Clean
  <1>8. CASE Rotate(w)
    <2>1. op[w].kind = "Change" /\ op[w].new \in Passphrase /\ UNCHANGED keyring /\ enabled
      BY <1>1, <1>2, <1>8 DEF Rotate, Shaped, Steps, Goes, ChangeGoes
    <2>2. Contents' = Contents
      BY <1>1, <1>8, <2>1, FileWritten DEF Rotate, Contents
    <2>3. PICK o : o.kind = "Change" /\ op' = [op EXCEPT ![w] = o]
      BY <1>1, <1>2, <1>4, <1>8, <2>1, GotoOne DEF Rotate
    <2>4. Clean(o)' /\ Kept' = Kept
      BY <1>4, <2>1, <2>2, <2>3 DEF Clean, Kept
    <2> QED BY <1>1, <1>3, <1>4, <2>1, <2>3, <2>4, CleanOne, IdleClean DEF CleanState
  <1> QED BY <1>5, <1>6, <1>7, <1>8 DEF Worker

\* A step of the interface that succeeds leaves nothing behind.
LEMMA CleanInterface ==
  ASSUME Inv, CleanState, NEW w \in Window, Interface(w), ~Mishap
  PROVE  CleanState'
  <1>1. TypeInv /\ OneOperation /\ TypeOK /\ op[w] \in Operation /\ Shaped(op[w]) /\ Goes(op[w])
        /\ Clean(op[w]) /\ saved \in Document /\ keyring \in Document
    BY ScenarioType DEF Inv, TypeInv, TypeOK, CleanState
  <1>2. op[w] # Idle
    <2>1. op[w].at \in {"failed", "relock", "finish", "delete", "erase"}
      BY DEF Interface, Failed, Relock, FinishOpen, FinishEnable, Delete, FinishDisable, Erase, Finish
    <2> QED BY <2>1 DEF Idle
  <1>3. \A v \in Window \ {w} : op[v] = Idle
    BY <1>1, <1>2, OthersIdle
  <1>4. UNCHANGED <<saved, scene>>
    BY DEF Interface, Failed, Relock, FinishOpen, FinishEnable, Delete, FinishDisable, Erase
  <1>5. ASSUME End(w),
               Kept' = saved, app'.mode = "Disabled" => file' = None,
               enabled' => keyring' = Empty, ~enabled' => file' = None
        PROVE  CleanState'
    BY <1>1, <1>2, <1>4, <1>5, EndOne, IdleClean DEF CleanState
  <1>6. (\A v \in Window : op[v].kind \notin {"Enable", "Disable"}) <=> op[w].kind \notin {"Enable", "Disable"}
    BY <1>3, IdleClean
  <1>7. CASE Failed(w) \/ Relock(w) \/ FinishOpen(w)
    <2>1. op[w].kind \in {"Unlock", "Change"} /\ enabled /\ End(w) /\ UNCHANGED <<keyring, file, enabled>>
          /\ app'.mode # "Disabled"
      BY <1>1, <1>2, <1>7 DEF Failed, Relock, FinishOpen, Finish, Shaped, Steps, Clean, Unlocked,
                              Goes, UnlockGoes, ChangeGoes
    <2>2. Kept' = saved /\ keyring = Empty
      BY <1>6, <2>1 DEF CleanState, Kept, Contents
    <2> QED BY <1>5, <2>1, <2>2
  <1>8. CASE FinishEnable(w)
    <2>1. /\ enabled' = TRUE
          /\ app' = Unlocked(op[w].pass)
          /\ op' = [op EXCEPT ![w].at = "delete", ![w].todo = Secret, ![w].source = app.secrets]
          /\ UNCHANGED <<file, keyring>>
      BY <1>8 DEF FinishEnable
    <2>2. op[w].kind = "Enable" /\ Contents = saved
      BY <1>1, <1>8 DEF FinishEnable, Finish, Clean
    <2>3. PICK o : /\ o.kind = "Enable" /\ o.at = "delete" /\ o.todo = Secret
                   /\ op' = [op EXCEPT ![w] = o]
      <3> DEFINE r == [op[w] EXCEPT !.at = "delete", !.todo = Secret, !.source = app.secrets]
      <3>1. op' = [op EXCEPT ![w] = r]
        BY <2>1
      <3>2. r.kind = "Enable" /\ r.at = "delete" /\ r.todo = Secret
        BY <1>1, <2>2 DEF Operation
      <3> HIDE DEF r
      <3> QED BY <3>1, <3>2
    <2>4. Clean(o)' /\ Kept' = saved /\ app'.mode = "Unlocked"
      BY <2>1, <2>2, <2>3 DEF Clean, Kept, Contents, Unlocked
    <2> QED BY <1>1, <1>3, <1>4, <2>3, <2>4, CleanOne, IdleClean DEF CleanState
  <1>9. CASE Delete(w)
    <2>1. /\ op[w].kind = "Enable" /\ op[w].at = "delete" /\ enabled /\ app = Unlocked(op[w].pass)
          /\ op[w].source = IF Portable THEN LockedBackend ELSE Keyring
          /\ UNCHANGED <<enabled, app>>
          /\ \A r \in Secret \ op[w].todo : keyring[r] = None
      BY <1>1, <1>2, <1>9 DEF Delete, Shaped, Steps, Goes, EnableGoes, Clean
    <2>2. PICK s \in op[w].todo :
            /\ \/ /\ Usable(op[w].source)
                  /\ Put(op[w].source, s, None)
               \/ ~Usable(op[w].source) /\ UNCHANGED <<keyring, file>>
            /\ IF op[w].todo = {s} THEN End(w)
               ELSE op' = [op EXCEPT ![w].todo = @ \ {s}] /\ UNCHANGED busy
      BY <1>9 DEF Delete
    <2>3. s \in Secret
      BY <1>1, <2>2, ScenarioType
    <2>4. UNCHANGED file /\ (IF Portable THEN UNCHANGED keyring ELSE keyring' = [keyring EXCEPT ![s] = None])
      <3>1. CASE Portable
        BY <2>1, <2>2, <3>1, BackendType DEF Usable
      <3>2. CASE ~Portable
        BY <1>1, <2>1, <2>2, <2>3, <3>2, BackendType, PutLemma DEF Usable
      <3> QED BY <3>1, <3>2
    <2>5. keyring' \in Document /\ (Portable => keyring = Empty)
          /\ \A r \in Secret \ (op[w].todo \ {s}) : keyring'[r] = None
      <3>1. Portable => keyring = Empty
        BY DEF Inv, ModeMatches
      <3> QED BY <1>1, <2>1, <2>3, <2>4, <3>1 DEF Document, Empty
    <2>6. Kept' = saved /\ app'.mode = "Unlocked"
      BY <2>1, <2>4 DEF CleanState, Kept, Contents, Unlocked
    <2>7. CASE op[w].todo = {s} /\ End(w)
      <3>1. keyring' = Empty
        BY <2>5, <2>7 DEF Document, Empty
      <3> QED BY <1>5, <2>1, <2>6, <2>7, <3>1
    <2>8. CASE op' = [op EXCEPT ![w].todo = @ \ {s}]
      <3>1. PICK o : /\ o.kind = "Enable" /\ o.at = "delete" /\ o.todo = op[w].todo \ {s}
                     /\ op' = [op EXCEPT ![w] = o]
        <4> DEFINE r == [op[w] EXCEPT !.todo = @ \ {s}]
        <4>1. op' = [op EXCEPT ![w] = r]
          BY <2>8
        <4>2. r.kind = "Enable" /\ r.at = "delete" /\ r.todo = op[w].todo \ {s}
          BY <1>1, <2>1 DEF Operation
        <4> HIDE DEF r
        <4> QED BY <4>1, <4>2
      <3>2. Clean(o)'
        BY <2>5, <3>1 DEF Clean
      <3> QED BY <1>1, <1>3, <1>4, <2>6, <3>1, <3>2, CleanOne, IdleClean DEF CleanState
    <2> QED BY <2>2, <2>7, <2>8
  <1>10. CASE FinishDisable(w)
    <2>1. op[w].kind = "Disable" /\ keyring = saved /\ UNCHANGED <<keyring, file>>
      BY <1>1, <1>10 DEF FinishDisable, Finish, Clean
    <2>2. enabled' = FALSE /\ Goto(w, "erase") /\ UNCHANGED busy
      BY <1>10 DEF FinishDisable
    <2>3. PICK o : o.kind = "Disable" /\ o.at = "erase" /\ op' = [op EXCEPT ![w] = o]
      BY <1>1, <1>2, <1>4, <2>1, <2>2, GotoOne
    <2>4. Clean(o)' /\ Kept' = saved
      BY <2>1, <2>2, <2>3 DEF Clean, Kept
    <2> QED BY <1>1, <1>3, <1>4, <2>3, <2>4, CleanOne, IdleClean DEF CleanState
  <1>11. CASE Erase(w)
    <2>1. ~enabled /\ End(w) /\ UNCHANGED <<keyring, enabled, app>> /\ file' = None
      BY <1>1, <1>2, <1>11 DEF Erase, Shaped, Steps, Goes, DisableGoes
    <2>2. Kept' = saved
      BY <2>1 DEF CleanState, Kept
    <2> QED BY <1>5, <2>1, <2>2
  <1> QED BY <1>7, <1>8, <1>9, <1>10, <1>11 DEF Interface

\* Every step that succeeds leaves nothing behind.
LEMMA CleanNext == Inv /\ CleanInv /\ [Next]_vars => CleanInv'
  <1> SUFFICES ASSUME Inv, CleanInv, [Next]_vars, used'.mishaps = 0, used'.ends = 0
               PROVE  CleanState'
    BY DEF CleanInv
  <1>1. used \in [writes : Nat, mishaps : Nat, ends : Nat]
    BY DEF Inv, TypeInv, TypeOK
  <1>2. ~Mishap /\ ~Restart
    BY <1>1 DEF Mishap, Restart
  <1>3. used.mishaps = 0 /\ used.ends = 0
    BY <1>1, <1>2, UsedLemma DEF Inv
  <1>4. CleanState
    BY <1>3 DEF CleanInv
  <1>5. CASE AutoLock
    BY <1>4, <1>5, LockClean DEF AutoLock
  <1>6. CASE UNCHANGED vars
    <2>1. ASSUME NEW w \in Window PROVE Clean(op[w])'
      BY <1>4, <1>6 DEF CleanState, vars, Clean, Contents
    <2> QED BY <1>4, <1>6, <2>1 DEF CleanState, vars, Kept, Contents, AtRest
  <1> QED BY <1>2, <1>4, <1>5, <1>6, CleanUser, CleanAsk, CleanWorker, CleanInterface DEF Next

\* When nothing has failed and the application has not ended in between, no copy
\* of a secret stays where it was, and a secret removed stays removed.
THEOREM NothingStaysBehind == Exclusive /\ Spec => []NothingBehind
  <1>1. CleanInv => NothingBehind
    BY IdleClean DEF CleanInv, CleanState, NothingBehind, AtRest
  <1> QED BY <1>1, InvHolds, CleanInit, CleanNext, PTL DEF Spec

=============================================================================
