----------------------------- MODULE MCAutoSync -----------------------------
(* Instances of AutoSync for TLC. *)
EXTENDS AutoSync, TLC

Symmetry == Permutations(Data)

Scenario(providers, servers, watcher, commands, edits, asks, faults) ==
  [providers |-> providers, servers |-> servers, watcher |-> watcher,
   commands |-> commands, edits |-> edits, asks |-> asks, faults |-> faults]

Both == {"WebDav", "GithubGist"}
AllCommands == {"switch", "recheck", "lock", "manual", "setting"}

\* One of everything, ...
Mixed == Scenario(Both, {"conditional"}, TRUE, AllCommands, 1, 1, 1)

\* ... and repeated checks, with and without a verdict against the server.
Checks == Scenario({"WebDav"}, {"conditional", "plain"}, FALSE,
                   {"switch", "recheck"}, 0, 4, 0)

MixedAndChecks == {Mixed, Checks}

\* The switch and an edit, without failures.
Switching == {Scenario(Both, {"conditional"}, TRUE, {"switch"}, 1, 1, 0)}

\* Turned on and off.
OnAndOff == {Scenario({"WebDav"}, {"conditional"}, TRUE, {"switch"}, 0, 2, 0)}

\* A failure and nothing else.
OneFault == {Scenario({"WebDav"}, {"conditional"}, TRUE, {"switch"}, 0, 0, 1)}

\* A setting is changed around an edit.
SettingAndEdit ==
  {Scenario({"GithubGist"}, {"conditional"}, TRUE, {"setting"}, 1, 1, 0)}
=============================================================================
