---------------------------- MODULE MCLocalVault ----------------------------
(* Instances of LocalVault for TLC. *)
EXTENDS LocalVault, TLC

CONSTANTS w1, w2, p1, p2, s1, s2

Scenario(platform, windows, typed, meanwhile, removals, writes, mishaps, ends) ==
  [platform |-> platform, windows |-> windows, typed |-> typed, meanwhile |-> meanwhile,
   removals |-> removals, writes |-> writes, mishaps |-> mishaps, ends |-> ends]

\* One window, where two steps fail and the application ends once, ...
Desktop == Scenario("desktop", {w1}, {p1, p2}, FALSE, TRUE, 2, 2, 1)

\* ... the data layer of Android, ...
Phone == Scenario("android", {w1}, {p1, p2}, TRUE, TRUE, 2, 2, 1)

\* ... and a portable installation.
Stick == Scenario("portable", {w1}, {p1, p2}, FALSE, TRUE, 2, 2, 1)

Everything == {Desktop, Phone, Stick}

\* A secret is saved while the vault is being enabled or disabled.
Meanwhile == {Scenario("desktop", {w1}, {p1}, TRUE, FALSE, 1, 0, 0)}

\* Two windows.
Windows == {Scenario("desktop", {w1, w2}, {p1}, FALSE, FALSE, 0, 0, 0)}

=============================================================================
