-------------------------- MODULE MCDataDirectory --------------------------
(* Instances of DataDirectory for TLC. *)
EXTENDS DataDirectory, TLC

CONSTANTS p1, p2, f1, f2, d1, d2

Symmetry == Permutations({f1, f2}) \cup Permutations({d1, d2})

Scenario(processes, homes, failing, saves, moves, faults, crashes) ==
  [processes |-> processes, homes |-> homes, failing |-> failing, saves |-> saves,
   moves |-> moves, faults |-> faults, crashes |-> crashes]

\* One process at a time, ended and failing anywhere but where it renames the
\* directory of older releases or records the switch.
Alone == Scenario({p1}, Place, Step \ {"rename", "switch"}, 2, 2, 2, 2)

\* The rename fails, but nothing is moved; the record of the switch cannot be
\* written, but nothing is saved; two processes start, but nothing is moved.
Unrenamed == Scenario({p1}, {"legacy"}, {"rename"}, 2, 0, 2, 2)
Unrecorded == Scenario({p1}, Place, Step \ {"rename"}, 0, 1, 2, 2)
Together == Scenario({p1, p2}, Place \ {"legacy"}, {}, 2, 0, 0, 2)

Everything == {Alone, Unrenamed, Unrecorded, Together}

\* What those four leave out: each loses a file.
RenameFails == {Scenario({p1}, {"legacy"}, {"rename"}, 0, 1, 1, 0)}
SwitchFails == {Scenario({p1}, {"default"}, {"switch"}, 1, 1, 1, 0)}
Overlap == {Scenario({p1, p2}, {"default"}, {}, 0, 1, 0, 0)}
=============================================================================
