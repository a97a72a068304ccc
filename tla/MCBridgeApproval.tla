-------------------------- MODULE MCBridgeApproval --------------------------
(* Instances of BridgeApproval for TLC. *)
EXTENDS BridgeApproval, TLC

CONSTANTS c1, c2, c3, h1, h2, h3

Scenario(clients, levels, policies, secrets, changes) ==
  [clients |-> clients, levels |-> levels, policies |-> policies,
   secrets |-> secrets, changes |-> changes]

\* One client amid everything the user may do, ...
Alone == Scenario(c1 :> h1, Level, 1, 1, 1)

\* ... the bridge switched off and on again around it, ...
Switched == Scenario(c1 :> h1, {"RequireApproval"}, 0, 1, 2)

\* ... two that ask for one host under a changing policy, ...
Together == Scenario(c1 :> h1 @@ c2 :> h1, {"Standard", "RequireApproval"}, 1, 0, 0)

\* ... and three for as many hosts, with two pending requests.
Crowd == Scenario(c1 :> h1 @@ c2 :> h2 @@ c3 :> h3, {"RequireApproval"}, 0, 0, 0)

Everything == {Alone, Switched, Together, Crowd}

\* A vault is unlocked while its request is cancelled.
Unlocking == {Scenario(c1 :> h1, {"Standard"}, 0, 1, 0)}
=============================================================================
