----------------------------- MODULE LocalVault -----------------------------
(***************************************************************************)
(* Where the secrets of the application are kept: in the keyring of the    *)
(* system, or in a file encrypted with a passphrase, the local vault.      *)
(*                                                                         *)
(* Enabling and disabling the vault moves them: a worker thread copies     *)
(* one secret after another, then the user interface stores the new mode   *)
(* in the settings, replaces the credentials of the running application    *)
(* and removes the copies left behind.  Any of these steps may fail, and   *)
(* the application may end between two of them.  Meanwhile the vault locks *)
(* itself, and the user may save and remove secrets.                       *)
(*                                                                         *)
(* On a desktop every window runs such operations of its own, guarded by   *)
(* flags of its own.  On Android the data layer runs one at a time under   *)
(* the lock that saving takes, too.  A portable installation has no        *)
(* keyring: its secrets are in the vault or nowhere.                       *)
(*                                                                         *)
(* (crates/miaominal-secrets, miaominal-services/src/services/             *)
(* settings_service.rs, miaominal-sync/src/sync/credential_migration.rs,   *)
(* miaominal-ui/src/ui/shell/controllers/local_vault_root.rs,              *)
(* miaominal-android/src/data.rs)                                          *)
(***************************************************************************)
EXTENDS Naturals, FiniteSets

CONSTANTS
  Window,      \* windows of the application
  Secret,      \* the secrets the catalogs name
  Value,       \* what a secret may be
  Passphrase,  \* what the user may type
  None,        \* no secret, no file, no passphrase
  Scenarios    \* the platform; its windows; the passphrases typed; whether
               \* secrets are saved while an operation runs; bounds: secrets
               \* saved or removed, steps that fail, ends of the application

Platform == {"desktop", "portable", "android"}

ASSUME VaultAssumption ==
  /\ None \notin Value \cup Passphrase \cup [pass : Passphrase, doc : [Secret -> Value \cup {None}]]
  /\ \A s \in Scenarios :
       /\ s.platform \in Platform
       /\ s.windows \subseteq Window
       /\ s.typed \subseteq Passphrase
       /\ {s.meanwhile, s.removals} \subseteq BOOLEAN
       /\ {s.writes, s.mishaps, s.ends} \subseteq Nat

VARIABLES
  keyring,  \* the secrets in the keyring of the system
  file,     \* the vault: the passphrase it opens with, and its document
  enabled,  \* local_vault_enabled, in the settings on disk
  app,      \* the running application: its mode, its credentials
  op,       \* the operation of each window, and how far it is
  busy,     \* the flags local_vault_..._in_progress of each window
  saved,    \* each secret as the user left it
  used,     \* writes, failures and ends so far
  scene     \* the scenario

disk == <<keyring, file, enabled>>
vars == <<disk, app, op, busy, saved, used, scene>>

Document == [Secret -> Value \cup {None}]
Vault == [pass : Passphrase, doc : Document]
Empty == [s \in Secret |-> None]

Keyring == [kind |-> "keyring", pass |-> None]
LockedBackend == [kind |-> "locked", pass |-> None]
VaultOf(p) == [kind |-> "vault", pass |-> p]
Backend == {Keyring, LockedBackend} \cup {VaultOf(p) : p \in Passphrase}

Idle == [kind |-> "None", at |-> "idle", pass |-> None, new |-> None,
         source |-> LockedBackend, todo |-> {}]

Portable == scene.platform = "portable"
Android == scene.platform = "android"

-----------------------------------------------------------------------------
\* The vault file.  A vault that is not there reads as an empty one.

Opens(p) == file # None => file.pass = p
Contents == IF file = None THEN Empty ELSE file.doc

\* What a store of secrets can do: the locked one nothing, the vault only with
\* the passphrase that opens the file.
Usable(b) == b.kind = "keyring" \/ (b.kind = "vault" /\ Opens(b.pass))
In(b, s) == IF b.kind = "keyring" THEN keyring[s] ELSE Contents[s]

Put(b, s, v) ==
  IF b.kind = "keyring"
    THEN /\ keyring' = [keyring EXCEPT ![s] = v]
         /\ UNCHANGED file
    ELSE /\ file' = [pass |-> b.pass, doc |-> [Contents EXCEPT ![s] = v]]
         /\ UNCHANGED keyring

\* The mode an application starts in, and the one it returns to when it locks.
StartsAs(on) ==
  IF ~on THEN [mode |-> "Disabled", secrets |-> Keyring]
  ELSE [mode |-> IF Portable /\ file = None THEN "Disabled" ELSE "Locked",
        secrets |-> LockedBackend]
LockTransition ==
  IF enabled THEN [mode |-> "Locked", secrets |-> LockedBackend]
             ELSE [mode |-> "Disabled", secrets |-> Keyring]

Unlocked(p) == [mode |-> "Unlocked", secrets |-> VaultOf(p)]

Init ==
  /\ scene \in Scenarios
  /\ saved \in [Secret -> Value] \cup {Empty}
  /\ enabled \in BOOLEAN
  /\ Portable => enabled
  /\ IF enabled
       THEN /\ keyring = Empty
            /\ \/ \E p \in scene.typed : file = [pass |-> p, doc |-> saved]
               \/ Portable /\ saved = Empty /\ file = None
       ELSE /\ keyring = saved
            /\ file = None
  /\ app = StartsAs(enabled)
  /\ op = [w \in Window |-> Idle]
  /\ busy = [w \in Window |-> {}]
  /\ used = [writes |-> 0, mishaps |-> 0, ends |-> 0]

-----------------------------------------------------------------------------
\* The thread of the user interface is in the middle of an operation's end.
Ending(w) == op[w].at \in {"delete", "erase"}
Free == \A w \in Window : ~Ending(w)

\* A step fails: a file cannot be written, the keyring refuses, ...
Mishap ==
  /\ used.mishaps < scene.mishaps
  /\ used' = [used EXCEPT !.mishaps = @ + 1]

\* What the user, or a synchronisation for them, does with a secret.  A locked
\* vault refuses.
Write(s, v) ==
  /\ used.writes < scene.writes
  /\ used' = [used EXCEPT !.writes = @ + 1]
  /\ Free
  /\ Android \/ ~scene.meanwhile => \A w \in Window : busy[w] = {}
  /\ Usable(app.secrets)
  /\ v # In(app.secrets, s)
  /\ Put(app.secrets, s, v)
  /\ saved' = [saved EXCEPT ![s] = v]
  /\ UNCHANGED <<enabled, app, op, busy, scene>>

Save(s, v) == v # None /\ Write(s, v)
Remove(s) == scene.removals /\ Write(s, None)

\* The secrets to move: those the catalogs name when the operation starts.
Begin(w, kind, at, p, q, todo) ==
  /\ w \in scene.windows
  /\ Free
  /\ busy[w] = {}
  /\ Android => \A v \in Window : busy[v] = {}
  /\ busy' = [busy EXCEPT ![w] = {IF kind = "Disable" THEN "disable" ELSE "unlock"}]
  /\ op' = [op EXCEPT ![w] = [kind |-> kind, at |-> at, pass |-> p, new |-> q,
                              source |-> app.secrets, todo |-> todo]]
  /\ UNCHANGED <<disk, app, saved, used, scene>>

StartEnable(w, p) ==
  /\ app.mode = "Disabled"
  /\ Begin(w, "Enable", "open", p, None, IF Portable THEN {} ELSE Secret)

StartUnlock(w, p) ==
  /\ app.mode = "Locked" \/ (Android /\ app.mode = "Unlocked")
  /\ Begin(w, "Unlock", "open", p, None, {})

StartDisable(w) ==
  /\ app.mode = "Unlocked"
  /\ ~Portable
  /\ Begin(w, "Disable", "copy", None, None, Secret)

StartChange(w, p, q) ==
  /\ app.mode = "Unlocked" \/ (Android /\ app.mode = "Locked")
  /\ Begin(w, "Change", "rotate", p, q, {})

\* The button, and the timer, which asks no window.
Lock(w) ==
  /\ w \in scene.windows
  /\ Free
  /\ busy[w] = {}
  /\ app.mode = "Unlocked"
  /\ app' = LockTransition
  /\ UNCHANGED <<disk, op, busy, saved, used, scene>>

AutoLock ==
  /\ Free
  /\ Android => \A w \in Window : busy[w] = {}
  /\ app.mode = "Unlocked"
  /\ app' = LockTransition
  /\ UNCHANGED <<disk, op, busy, saved, used, scene>>

-----------------------------------------------------------------------------
\* The worker.

Goto(w, at) == op' = [op EXCEPT ![w].at = at]
Aside == <<enabled, app, busy, saved, scene>>

\* An operation that opens the vault creates the file when it is missing, which
\* only unlocking takes for an error.
Open(w) ==
  /\ op[w].at \in {"open", "reopen"}
  /\ UNCHANGED <<Aside, keyring>>
  /\ LET p == IF op[w].at = "open" THEN op[w].pass ELSE op[w].new
         failed == IF op[w].at = "open" THEN "failed" ELSE "relock"
     IN  \/ /\ Opens(p)
            /\ op[w].kind = "Unlock" => file # None
            /\ file' = [pass |-> p, doc |-> Contents]
            /\ Goto(w, IF op[w].kind = "Enable" /\ ~Portable THEN "copy" ELSE "finish")
            /\ UNCHANGED used
         \/ /\ ~Opens(p) \/ (op[w].kind = "Unlock" /\ file = None)
            /\ Goto(w, failed)
            /\ UNCHANGED <<file, used>>
         \/ Mishap /\ Goto(w, failed) /\ UNCHANGED file

Target(w) == IF op[w].kind = "Enable" THEN VaultOf(op[w].pass) ELSE Keyring

\* Mutant: a secret that cannot be copied is only logged.
CopyLogged(w, s) ==
  /\ op[w].at = "copy"
  /\ s \in op[w].todo
  /\ op' = [op EXCEPT ![w].todo = @ \ {s},
                      ![w].at = IF op[w].todo = {s} THEN "finish" ELSE @]
  /\ UNCHANGED Aside
  /\ \/ /\ Usable(op[w].source) /\ Usable(Target(w)) /\ In(op[w].source, s) # None
        /\ Put(Target(w), s, In(op[w].source, s))
        /\ UNCHANGED used
     \/ Mishap /\ UNCHANGED <<keyring, file>>

\* A secret that is missing is skipped.  When copying into the vault fails, the
\* file is erased; what was copied into the keyring stays there.
Copy(w, s) ==
  /\ op[w].at = "copy"
  /\ s \in op[w].todo
  /\ UNCHANGED Aside
  /\ LET from == op[w].source
         failed == IF op[w].kind = "Enable" THEN "discard" ELSE "failed"
     IN  \/ /\ Usable(from) /\ Usable(Target(w))
            /\ IF In(from, s) = None THEN UNCHANGED <<keyring, file>>
                                     ELSE Put(Target(w), s, In(from, s))
            /\ op' = [op EXCEPT ![w].todo = @ \ {s},
                                ![w].at = IF op[w].todo = {s} THEN "finish" ELSE @]
            /\ UNCHANGED used
         \/ /\ ~(Usable(from) /\ Usable(Target(w)))
            /\ Goto(w, failed)
            /\ UNCHANGED <<keyring, file, used>>
         \/ Mishap /\ Goto(w, failed) /\ UNCHANGED <<keyring, file>>

\* Erasing the file of an enable that failed may fail, too.
Discard(w) ==
  /\ op[w].at = "discard"
  /\ Goto(w, "failed")
  /\ \/ file' = None /\ UNCHANGED used
     \/ Mishap /\ UNCHANGED file
  /\ UNCHANGED <<Aside, keyring>>

\* The document is read and written again under the lock of the file.
Rotate(w) ==
  /\ op[w].at = "rotate"
  /\ \/ /\ Opens(op[w].pass)
        /\ file' = [pass |-> op[w].new, doc |-> Contents]
        /\ Goto(w, "reopen")
        /\ UNCHANGED used
     \/ ~Opens(op[w].pass) /\ Goto(w, "failed") /\ UNCHANGED <<file, used>>
     \/ Mishap /\ Goto(w, "failed") /\ UNCHANGED file
  /\ UNCHANGED <<Aside, keyring>>

Worker(w) ==
  \/ Open(w)
  \/ \E s \in Secret : Copy(w, s)
  \/ Discard(w)
  \/ Rotate(w)

-----------------------------------------------------------------------------
\* The result, on the thread of the user interface.

\* Mutant: every operation clears the flag of unlocking.
ClearedUnlock(w) == busy' = [busy EXCEPT ![w] = @ \ {"unlock"}]

Cleared(w) == busy' = [busy EXCEPT ![w] = @ \ {IF op[w].kind = "Disable" THEN "disable" ELSE "unlock"}]
End(w) == Cleared(w) /\ op' = [op EXCEPT ![w] = Idle]

Failed(w) ==
  /\ op[w].at = "failed"
  /\ Free
  /\ End(w)
  /\ UNCHANGED <<disk, app, saved, used, scene>>

\* Mutant: the session goes on with the old passphrase.
RelockNothing(w) ==
  /\ op[w].at = "relock"
  /\ Free
  /\ End(w)
  /\ UNCHANGED <<disk, app, saved, used, scene>>

\* The passphrase has been changed, but the vault does not open with it.
Relock(w) ==
  /\ op[w].at = "relock"
  /\ Free
  /\ End(w)
  /\ app' = [mode |-> "Locked", secrets |-> LockedBackend]
  /\ UNCHANGED <<disk, saved, used, scene>>

Finish(w, kinds) == op[w].at = "finish" /\ op[w].kind \in kinds /\ Free

\* Mutant: the session takes the other of the two passphrases.
FinishOpenSwapped(w) ==
  /\ Finish(w, {"Unlock", "Change"})
  /\ End(w)
  /\ app' = Unlocked(IF op[w].kind = "Unlock" THEN op[w].new ELSE op[w].pass)
  /\ UNCHANGED <<disk, saved, used, scene>>

FinishOpen(w) ==
  /\ Finish(w, {"Unlock", "Change"})
  /\ End(w)
  /\ app' = Unlocked(IF op[w].kind = "Unlock" THEN op[w].pass ELSE op[w].new)
  /\ UNCHANGED <<disk, saved, used, scene>>

\* When the settings cannot be written the file stays, except on Android.  The
\* copies to delete are those of the store the application has used until now.
FinishEnable(w) ==
  /\ Finish(w, {"Enable"})
  /\ UNCHANGED <<keyring, saved, scene>>
  /\ \/ /\ enabled' = TRUE
        /\ app' = Unlocked(op[w].pass)
        /\ op' = [op EXCEPT ![w].at = "delete", ![w].todo = Secret, ![w].source = app.secrets]
        /\ UNCHANGED <<file, busy, used>>
     \/ /\ Mishap
        /\ IF Android THEN Goto(w, "discard") /\ UNCHANGED busy ELSE End(w)
        /\ UNCHANGED <<file, enabled, app>>

\* One secret after another; a deletion that fails is only logged.
Delete(w) ==
  /\ op[w].at = "delete"
  /\ \E s \in op[w].todo :
       /\ \/ /\ Usable(op[w].source)
             /\ Put(op[w].source, s, None)
             /\ UNCHANGED used
          \/ ~Usable(op[w].source) /\ UNCHANGED <<keyring, file, used>>
          \/ Mishap /\ UNCHANGED <<keyring, file>>
       /\ IF op[w].todo = {s} THEN End(w)
          ELSE op' = [op EXCEPT ![w].todo = @ \ {s}] /\ UNCHANGED busy
  /\ UNCHANGED <<enabled, app, saved, scene>>

\* Mutant: the file is not erased.
FinishDisableOnly(w) ==
  /\ Finish(w, {"Disable"})
  /\ End(w)
  /\ UNCHANGED <<keyring, file, saved, scene>>
  /\ \/ /\ enabled' = FALSE
        /\ app' = [mode |-> "Disabled", secrets |-> Keyring]
        /\ UNCHANGED used
     \/ Mishap /\ UNCHANGED <<enabled, app>>

FinishDisable(w) ==
  /\ Finish(w, {"Disable"})
  /\ UNCHANGED <<keyring, file, saved, scene>>
  /\ \/ /\ enabled' = FALSE
        /\ app' = [mode |-> "Disabled", secrets |-> Keyring]
        /\ Goto(w, "erase")
        /\ UNCHANGED <<busy, used>>
     \/ Mishap /\ End(w) /\ UNCHANGED <<enabled, app>>

\* An old file that cannot be erased is only logged.
Erase(w) ==
  /\ op[w].at = "erase"
  /\ End(w)
  /\ \/ file' = None /\ UNCHANGED used
     \/ Mishap /\ UNCHANGED file
  /\ UNCHANGED <<keyring, enabled, app, saved, scene>>

Interface(w) ==
  \/ Failed(w)
  \/ Relock(w)
  \/ FinishOpen(w)
  \/ FinishEnable(w)
  \/ Delete(w)
  \/ FinishDisable(w)
  \/ Erase(w)

\* The application ends, at any moment, and starts again.
Restart ==
  /\ used.ends < scene.ends
  /\ used' = [used EXCEPT !.ends = @ + 1]
  /\ app' = StartsAs(enabled)
  /\ op' = [w \in Window |-> Idle]
  /\ busy' = [w \in Window |-> {}]
  /\ UNCHANGED <<disk, saved, scene>>

Ask(w) ==
  \/ \E p \in scene.typed : StartEnable(w, p) \/ StartUnlock(w, p)
  \/ \E p, q \in scene.typed : StartChange(w, p, q)
  \/ StartDisable(w)
  \/ Lock(w)

Next ==
  \/ \E s \in Secret, v \in Value : Save(s, v)
  \/ \E s \in Secret : Remove(s)
  \/ \E w \in Window : Ask(w) \/ Worker(w) \/ Interface(w)
  \/ AutoLock
  \/ Restart

Spec == Init /\ [][Next]_vars
FairSpec == Spec /\ \A w \in Window : WF_vars(Worker(w)) /\ WF_vars(Interface(w))

-----------------------------------------------------------------------------
\* Properties

TypeOK ==
  /\ keyring \in Document
  /\ file \in Vault \cup {None}
  /\ enabled \in BOOLEAN
  /\ app \in [mode : {"Disabled", "Locked", "Unlocked"}, secrets : Backend]
  /\ op \in [Window -> [kind : {"None", "Enable", "Unlock", "Disable", "Change"},
                        at : {"idle", "open", "reopen", "copy", "discard", "rotate", "finish",
                              "failed", "relock", "delete", "erase"},
                        pass : Passphrase \cup {None}, new : Passphrase \cup {None},
                        source : Backend, todo : SUBSET Secret]]
  /\ busy \in [Window -> SUBSET {"unlock", "disable"}]
  /\ saved \in Document
  /\ used \in [writes : Nat, mishaps : Nat, ends : Nat]
  /\ scene \in Scenarios

\* Where the application, started now, would look for its secrets.
Kept == IF enabled THEN Contents ELSE keyring

\* Whatever moves, fails or ends, a secret the user has saved is where the
\* application looks for it after its next start.
NoSecretLost == \A s \in Secret : saved[s] # None => Kept[s] = saved[s]

AtRest == \A w \in Window : op[w] = Idle

\* Between operations, the running application and the next start agree on the
\* store, and an unlocked vault opens with the passphrase of the session.
SessionMatchesDisk ==
  AtRest =>
    /\ app.mode = "Unlocked" => enabled /\ file # None /\ file.pass = app.secrets.pass
    /\ app.mode = "Locked" => enabled
    /\ app.mode = "Disabled" /\ ~Portable => ~enabled

\* When nothing has failed, no copy stays behind, and a secret the user has
\* removed stays removed.
NothingBehind ==
  AtRest /\ used.mishaps = 0 /\ used.ends = 0 =>
    /\ enabled => keyring = Empty
    /\ ~enabled => file = None
    /\ Kept = saved

\* The flags that refuse every other operation are cleared in the end.
OperationsEnd == \A w \in Window : busy[w] # {} ~> busy[w] = {}
=============================================================================
