-------------------------- MODULE FileReplacement --------------------------
(***************************************************************************)
(* What the file transfers of crates/miaominal-sftp promise of the files   *)
(* they replace: some whole file can always be found under the             *)
(* destination or the backup made of it, a file gives way only to one that *)
(* was transferred, and a transfer is reported done only when each of its  *)
(* files has been put in place, cancelled only when one has not.           *)
(***************************************************************************)
EXTENDS FiniteSets

CONSTANTS
  Path,      \* destinations
  Transfer   \* transfers; a file is named by the transfer that brings it

VARIABLES
  goal,     \* for each transfer: its destinations
  saved,    \* for each destination: the files found there or in its backups
  brought,  \* for each transfer: the destinations it put its file in place at
  told      \* what was reported of each transfer

Outcome == {"done", "cancelled", "failed"}

\* A file is brought; what it replaces may be gone with the same step, and the
\* transfer may not come to know.
Bring(t, p) ==
  /\ told[t] = "nothing"
  /\ \E S \in SUBSET saved[p] : saved' = [saved EXCEPT ![p] = S \cup {t}]
  /\ brought' \in {brought, [brought EXCEPT ![t] = @ \cup {p}]}
  /\ UNCHANGED <<goal, told>>

\* What was there before is removed in favour of a file brought by a transfer.
Forget(p) ==
  /\ \E x \in saved[p] :
       /\ (saved[p] \ {x}) \cap Transfer # {}
       /\ saved' = [saved EXCEPT ![p] = @ \ {x}]
  /\ UNCHANGED <<goal, brought, told>>

Tell(t, o) ==
  /\ told[t] = "nothing"
  /\ o = "done" => brought[t] = goal[t]
  /\ o = "cancelled" => brought[t] # goal[t]
  /\ told' = [told EXCEPT ![t] = o]
  /\ UNCHANGED <<goal, saved, brought>>

Init ==
  /\ goal \in [Transfer -> SUBSET Path]
  /\ saved \in [Path -> SUBSET {"old"}]
  /\ brought = [t \in Transfer |-> {}]
  /\ told = [t \in Transfer |-> "nothing"]

Next ==
  \/ \E t \in Transfer : \E p \in goal[t] : Bring(t, p)
  \/ \E p \in Path : Forget(p)
  \/ \E t \in Transfer, o \in Outcome : Tell(t, o)

Spec == Init /\ [][Next]_<<goal, saved, brought, told>>
=============================================================================
