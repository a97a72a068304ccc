------------------------ MODULE BridgeApprovalProofs ------------------------
(* Theorems about BridgeApproval, for every number of clients and hosts and *)
(* every limit on pending requests and connections. *)
EXTENDS BridgeApproval, FiniteSetTheorems, TLAPS

-----------------------------------------------------------------------------
(* The inductive invariant.  What concerns one request is said of its task x *)
(* and its mail m, in a world of a stored policy s, a policy in memory p and *)
(* a vault v.                                                               *)

\* Where a task may hold a waiter; where consent has been given.
Asking == {"asked", "approved", "loop", "read", "ready", "locked", "vault"}
Begun == {"approved", "loop", "read", "ready", "locked", "vault", "connecting", "active"}
Consents == {"Approve", "SystemAuthVerified"}

\* A waiter and its entry: an entry that is gone has left its reason behind,
\* and one that is there belongs to this request and to the policy in force.
Waiter(x, m, p) ==
  /\ x.waits => x.at \in Asking
  /\ x.at \in {"asked", "vault"} => x.waits
  /\ x.unlocking => x.waits
  /\ x.at = "asked" => ~x.unlocking
  /\ x.at = "vault" => x.unlocking
  /\ ~x.waits => m = NoMail
  /\ x.waits /\ m.entry = None => m.events # <<>> /\ m.events[Len(m.events)] \notin Decision
  /\ m.entry # None =>
       /\ m.entry.gen = x.gen /\ m.entry.gen = p.gen
       /\ x.at = "asked" => m.entry.phase # "AwaitingVaultUnlock"
       /\ x.unlocking => m.entry.phase = "AwaitingVaultUnlock"

\* The policy a request was made under is the stored one as long as the
\* generations agree, and what lets the request go on is the user's consent.
Consent(x, m, s) ==
  /\ x.at \in Asking \cup Begun \cup {"authorize"} =>
       x.gen <= s.gen /\ (x.gen = s.gen => x.level = s.level)
  /\ \A i \in DOMAIN m.events : m.events[i] \in Consents => x.allowed = x.gen + 1
  /\ x.at \in Begun => x.level = "Standard" \/ x.allowed = x.gen + 1

\* A task that has found the vault locked knows of no generation of the
\* secrets after the one it was locked in.
Wakes(x, v) ==
  /\ x.seen <= v.gen
  /\ x.at \in {"locked", "vault"} /\ v.open => x.seen # v.gen

Good(x, m, s, p, v) == Waiter(x, m, p) /\ Consent(x, m, s) /\ Wakes(x, v)

\* The limits on what is pending, in the mail d of all requests.
OfProfile(d, p) == {b \in Shown(d) : client[b].profile = p}
Limits(d) ==
  /\ Cardinality(Shown(d)) <= MaxPending
  /\ \A p \in Profile : Cardinality(OfProfile(d, p)) <= MaxPerProfile

\* The listener and its tasks: nobody is served without an accept loop, and
\* whoever holds the operation lock knows what the loop is doing.
Counts ==
  /\ service.loop \in {"accepting", "draining"} => active = Cardinality(Alive)
  /\ service.loop = "none" => active = 0
  /\ service.loop \in {"none", "ended"} => Alive = {}
Locked ==
  /\ op.at \in {"idle", "load", "bind", "compare"} =>
       ~service.cancel /\ service.loop \in {"none", "accepting"}
  /\ op.at = "bind" => service.loop = "none"
  /\ op.at \in {"idle", "load", "compare"} /\ service.loop = "accepting" =>
       service.status = "Running"
  /\ service.status = "Disabled" => service.loop = "none"

Inv ==
  /\ TypeOK
  /\ \A c \in Client : Good(client[c], desk[c], store, policy, vault)
  /\ Limits(desk) /\ Counts /\ Locked
-----------------------------------------------------------------------------
(* Requests and their mail.                                                *)

Mail == [entry : Entry \cup {None}, events : Seq(Event)]

\* The mail of a request when the policy p comes into force.
UnderPolicy(m, p) ==
  IF m.entry # None /\ m.entry.gen # p.gen
  THEN [entry |-> None, events |-> Append(m.events, "PolicyChanged")] ELSE m

\* A request is shown.
Asks(phase, gen) == [phase |-> phase, gen |-> gen, decided |-> FALSE]

\* An entry is not the absence of one.
LEMMA EntryLemma ==
  ASSUME NEW phase \in Phase, NEW gen \in Nat
  PROVE  /\ Asks(phase, gen) \in Entry /\ Asks(phase, gen) # None
         /\ Asks(phase, gen).phase = phase /\ Asks(phase, gen).gen = gen
  <1>1. Asks(phase, gen) \in Entry /\ Asks(phase, gen).phase = phase /\ Asks(phase, gen).gen = gen
    BY DEF Asks, Entry
  <1>2. \A e \in Entry : e # None
    BY NoneAssumption
  <1> QED BY <1>1, <1>2

\* A request without mail.
LEMMA NoMailLemma == NoMail \in Mail /\ NoMail.entry = None /\ NoMail.events = <<>>
  BY DEF NoMail, Mail

\* A task that has not begun or has ended.
LEMMA IdleLemma ==
  ASSUME NEW p \in Profile, NEW at \in {"new", "done"}, NEW s, NEW q, NEW v, v.gen \in Nat
  PROVE  /\ Idle(p, at) \in Task /\ Good(Idle(p, at), NoMail, s, q, v)
         /\ Idle(p, at).profile = p /\ Idle(p, at).at = at
  <1>1. Idle(p, at) \in Task
    BY DEF Idle, Task, Level
  <1>2. /\ Idle(p, at).at = at /\ Idle(p, at).profile = p /\ Idle(p, at).waits = FALSE
        /\ Idle(p, at).unlocking = FALSE /\ Idle(p, at).seen = 0
    BY DEF Idle
  <1>3. Waiter(Idle(p, at), NoMail, q)
    BY <1>2, NoMailLemma DEF Waiter, Asking
  <1>4. Consent(Idle(p, at), NoMail, s)
    BY <1>2, NoMailLemma DEF Consent, Asking, Begun
  <1>5. Wakes(Idle(p, at), v)
    BY <1>2 DEF Wakes
  <1> QED BY <1>1, <1>2, <1>3, <1>4, <1>5 DEF Good

\* An entry that is withdrawn leaves the reason, under whatever policy.
LEMMA WithdrawGood ==
  ASSUME NEW x, NEW m \in Mail, NEW s, NEW p, NEW q, NEW v,
         Good(x, m, s, p, v), m.entry # None, NEW why \in Event \ Decision
  PROVE  /\ Good(x, [entry |-> None, events |-> Append(m.events, why)], s, q, v)
         /\ [entry |-> None, events |-> Append(m.events, why)] \in Mail
  <1> DEFINE n == [entry |-> None, events |-> Append(m.events, why)]
  <1>1. m.events \in Seq(Event) /\ Len(m.events) \in Nat
    BY DEF Mail
  <1>2. n.entry = None /\ n.events = Append(m.events, why)
    OBVIOUS
  <1>3. n \in Mail
    BY <1>1 DEF Mail
  <1>4. n.events # <<>> /\ n.events[Len(n.events)] = why
    BY <1>1, <1>2
  <1>5. \A i \in DOMAIN n.events : n.events[i] \in Consents => i \in DOMAIN m.events /\ m.events[i] = n.events[i]
    BY <1>1, <1>2 DEF Consents, Decision
  <1>6. m # NoMail
    BY NoMailLemma
  <1> HIDE DEF n
  <1>7. Waiter(x, n, q)
    BY <1>2, <1>4, <1>6 DEF Good, Waiter
  <1>8. Consent(x, n, s)
    BY <1>5 DEF Good, Consent
  <1> QED BY <1>3, <1>7, <1>8 DEF Good, n

\* The limits follow from those on a larger page.
LEMMA LimitsLemma ==
  ASSUME NEW d, NEW e, Limits(d), Shown(e) \subseteq Shown(d)
  PROVE  Limits(e)
  <1>1. IsFiniteSet(Client)
    BY BridgeAssumption
  <1>2. IsFiniteSet(Shown(d)) /\ IsFiniteSet(Shown(e))
    BY <1>1, FS_Subset DEF Shown
  <1>3. Cardinality(Shown(e)) <= Cardinality(Shown(d))
    BY <1>2, FS_Subset
  <1>4. Cardinality(Shown(e)) \in Nat /\ Cardinality(Shown(d)) \in Nat /\ MaxPending \in Nat /\ MaxPerProfile \in Nat
    BY <1>2, FS_CardinalityType, BridgeAssumption
  <1>5. ASSUME NEW p \in Profile
        PROVE  Cardinality(OfProfile(e, p)) <= MaxPerProfile
    <2>1. OfProfile(e, p) \subseteq OfProfile(d, p) /\ OfProfile(d, p) \subseteq Client
      BY DEF OfProfile, Shown
    <2>2. IsFiniteSet(OfProfile(d, p))
      BY <1>1, <2>1, FS_Subset
    <2>3. Cardinality(OfProfile(e, p)) <= Cardinality(OfProfile(d, p)) /\ IsFiniteSet(OfProfile(e, p))
      BY <2>1, <2>2, FS_Subset
    <2>4. Cardinality(OfProfile(e, p)) \in Nat /\ Cardinality(OfProfile(d, p)) \in Nat
      BY <2>2, <2>3, FS_CardinalityType
    <2>5. Cardinality(OfProfile(d, p)) <= MaxPerProfile
      BY DEF Limits
    <2> QED BY <1>4, <2>3, <2>4, <2>5
  <1>6. Cardinality(Shown(d)) <= MaxPending
    BY DEF Limits
  <1>7. Cardinality(Shown(e)) <= MaxPending
    BY <1>3, <1>4, <1>6
  <1> QED BY <1>5, <1>7 DEF Limits

\* Withdrawing entries, for a reason that is no decision.
LEMMA WithdrawnLemma ==
  ASSUME NEW d \in [Client -> Mail], NEW S, NEW why \in Event \ Decision
  PROVE  /\ Withdrawn(d, S, why) \in [Client -> [entry : Entry \cup {None}, events : Seq(Event)]]
         /\ Shown(Withdrawn(d, S, why)) \subseteq Shown(d)
         /\ \A c \in Client : Withdrawn(d, S, why)[c] =
              IF c \in S THEN [entry |-> None, events |-> Append(d[c].events, why)] ELSE d[c]
  <1>1. \A c \in Client : Withdrawn(d, S, why)[c] =
              IF c \in S THEN [entry |-> None, events |-> Append(d[c].events, why)] ELSE d[c]
    BY DEF Withdrawn
  <1>2. ASSUME NEW c \in Client
        PROVE  [entry |-> None, events |-> Append(d[c].events, why)] \in Mail
    <2>1. d[c].events \in Seq(Event)
      BY DEF Mail
    <2> QED BY <2>1 DEF Mail
  <1>3. Withdrawn(d, S, why) \in [Client -> Mail]
    BY <1>2 DEF Withdrawn
  <1>4. Shown(Withdrawn(d, S, why)) \subseteq Shown(d)
    <2> SUFFICES ASSUME NEW c \in Client, Withdrawn(d, S, why)[c].entry # None
                 PROVE  d[c].entry # None
      BY DEF Shown
    <2>1. CASE c \in S
      <3>1. Withdrawn(d, S, why)[c] = [entry |-> None, events |-> Append(d[c].events, why)]
        BY <1>1, <2>1
      <3> QED BY <3>1
    <2>2. CASE c \notin S
      BY <1>1, <2>2
    <2> QED BY <2>1, <2>2
  <1> QED BY <1>1, <1>3, <1>4 DEF Mail

\* A policy comes into force, which may be the one there was already: requests
\* of another are withdrawn, the others stay good.
LEMMA CurrentLemma ==
  ASSUME NEW d \in [Client -> Mail], NEW s \in Policy, NEW p, NEW v, NEW x \in Task,
         NEW c \in Client, Good(x, d[c], s, p, v), NEW z \in Policy,
         z = s \/ z.gen = s.gen + 1
  PROVE  Good(x, Current(d, z)[c], z, z, v)
  <1>0. PICK S : S = {b \in Client : d[b].entry # None /\ d[b].entry.gen # z.gen}
    OBVIOUS
  <1>1. Current(d, z) = Withdrawn(d, S, "PolicyChanged")
    <2>1. {b \in Shown(d) : d[b].entry.gen # z.gen} = S
      BY <1>0 DEF Shown
    <2> QED BY <2>1 DEF Current
  <1>2. "PolicyChanged" \in Event \ Decision
    BY DEF Event, Decision
  <1>3. Current(d, z)[c] = IF c \in S THEN [entry |-> None, events |-> Append(d[c].events, "PolicyChanged")] ELSE d[c]
    BY <1>1 DEF Withdrawn
  <1>4. c \in S <=> d[c].entry # None /\ d[c].entry.gen # z.gen
    BY <1>0
  <1>5. d[c] \in Mail /\ s.gen \in Nat /\ z.gen \in Nat /\ x.gen \in Nat
    BY DEF Policy, Task
  <1>6. Good(x, d[c], z, p, v)
    <2>1. CASE z = s
      BY <2>1
    <2>2. CASE z.gen = s.gen + 1
      <3>1. x.gen <= s.gen => x.gen <= z.gen /\ x.gen # z.gen
        <4> SUFFICES ASSUME x.gen <= s.gen PROVE x.gen <= z.gen /\ x.gen # z.gen
          OBVIOUS
        <4> QED BY <1>5, <2>2
      <3> QED BY <3>1 DEF Good, Consent
    <2> QED BY <2>1, <2>2
  <1>7. CASE c \in S
    <2>1. d[c].entry # None
      BY <1>4, <1>7
    <2>2. Good(x, [entry |-> None, events |-> Append(d[c].events, "PolicyChanged")], z, z, v)
      BY <1>2, <1>5, <1>6, <2>1, WithdrawGood
    <2> QED BY <1>3, <1>7, <2>2
  <1>8. CASE c \notin S
    <2>1. d[c].entry # None => d[c].entry.gen = z.gen
      BY <1>4, <1>8
    <2>2. Waiter(x, d[c], z)
      BY <1>6, <2>1 DEF Good, Waiter
    <2> QED BY <1>3, <1>6, <1>8, <2>2 DEF Good
  <1> QED BY <1>7, <1>8

\* What a step of a task finds when it has read the policy on disk.
LEMMA CurrentFacts ==
  ASSUME Inv
  PROVE  /\ Current(desk, store) \in [Client -> Mail]
         /\ Shown(Current(desk, store)) \subseteq Shown(desk)
         /\ Limits(Current(desk, store))
         /\ \A c \in Client : Good(client[c], Current(desk, store)[c], store, store, vault)
  <1>1. desk \in [Client -> Mail] /\ store \in Policy
    BY DEF Inv, TypeOK, Mail
  <1>2. "PolicyChanged" \in Event \ Decision
    BY DEF Event, Decision
  <1>3. Current(desk, store) \in [Client -> Mail] /\ Shown(Current(desk, store)) \subseteq Shown(desk)
    BY <1>1, <1>2, WithdrawnLemma DEF Current, Mail
  <1>4. Limits(Current(desk, store))
    BY <1>3, LimitsLemma DEF Inv
  <1>5. ASSUME NEW c \in Client
        PROVE  Good(client[c], Current(desk, store)[c], store, store, vault)
    <2>1. client[c] \in Task /\ Good(client[c], desk[c], store, policy, vault)
      BY DEF Inv, TypeOK
    <2> QED BY <1>1, <2>1, CurrentLemma
  <1> QED BY <1>3, <1>4, <1>5

\* The page and the tasks are finite.
LEMMA Finite ==
  /\ IsFiniteSet(Alive) /\ Cardinality(Alive) \in Nat
  /\ \A c \in Client : /\ Cardinality(Alive \ {c}) = IF c \in Alive THEN Cardinality(Alive) - 1 ELSE Cardinality(Alive)
                       /\ Cardinality(Alive \cup {c}) = IF c \in Alive THEN Cardinality(Alive) ELSE Cardinality(Alive) + 1
                       /\ c \in Alive => Cardinality(Alive) >= 1
  <1>1. IsFiniteSet(Alive)
    BY BridgeAssumption, FS_Subset DEF Alive
  <1>2. Cardinality(Alive) \in Nat
    BY <1>1, FS_CardinalityType
  <1>3. ASSUME NEW c \in Client
        PROVE  /\ Cardinality(Alive \ {c}) = IF c \in Alive THEN Cardinality(Alive) - 1 ELSE Cardinality(Alive)
               /\ Cardinality(Alive \cup {c}) = IF c \in Alive THEN Cardinality(Alive) ELSE Cardinality(Alive) + 1
    BY <1>1, FS_RemoveElement, FS_AddElement
  <1>4. ASSUME NEW c \in Alive
        PROVE  Cardinality(Alive) >= 1
    <2>1. IsFiniteSet(Alive \ {c})
      BY <1>1, FS_Subset
    <2>2. Cardinality(Alive \ {c}) \in Nat
      BY <2>1, FS_CardinalityType
    <2>3. Cardinality(Alive \ {c}) = Cardinality(Alive) - 1
      BY <1>3 DEF Alive
    <2> QED BY <1>2, <2>2, <2>3
  <1> QED BY <1>1, <1>2, <1>3, <1>4

\* The clients keep their hosts, so the limits carry over to the next state.
LEMMA LimitsNext ==
  ASSUME Limits(desk'), \A c \in Client : client'[c].profile = client[c].profile
  PROVE  Limits(desk)'
  <1>1. Shown(desk)' = Shown(desk')
    BY DEF Shown
  <1>2. \A p \in Profile : OfProfile(desk, p)' = OfProfile(desk', p)
    BY <1>1 DEF OfProfile, Shown
  <1> QED BY <1>1, <1>2 DEF Limits

\* A task goes on.
LEMMA ProceedLemma ==
  ASSUME Inv, NEW c \in Client, client[c].at \in Awaiting \cup Running, NEW x \in Task,
         x.profile = client[c].profile, x.at \in Awaiting \cup Running,
         NEW d \in [Client -> Mail], Limits(d), policy' \in {policy, store},
         \A b \in Client \ {c} : Good(client[b], d[b], store, policy', vault),
         Good(x, d[c], store, policy', vault),
         Proceed(c, x, d), Step
  PROVE  Inv'
  <1>1. client' = [client EXCEPT ![c] = x] /\ desk' = d /\ active' = active
        /\ UNCHANGED <<store, profiles, vault, service, op, ui>>
    BY DEF Proceed, Step, control
  <1>2. client \in [Client -> Task]
    BY DEF Inv, TypeOK
  <1>3. client'[c] = x /\ \A b \in Client \ {c} : client'[b] = client[b]
    BY <1>1, <1>2
  <1>4. client' \in [Client -> Task]
    BY <1>1, <1>2
  <1>5. policy' \in Policy
    BY DEF Inv, TypeOK
  <1>6. TypeOK'
    BY <1>1, <1>4, <1>5 DEF Inv, TypeOK, Mail
  <1>7. \A b \in Client : Good(client'[b], desk'[b], store', policy', vault')
    BY <1>1, <1>3
  <1>8. Alive' = Alive
    BY <1>3 DEF Alive
  <1>9. Limits(desk)'
    <2>1. \A b \in Client : client'[b].profile = client[b].profile
      BY <1>3
    <2> QED BY <1>1, <2>1, LimitsNext
  <1>10. Counts' /\ Locked'
    BY <1>1, <1>8 DEF Inv, Counts, Locked
  <1> QED BY <1>6, <1>7, <1>9, <1>10 DEF Inv

\* A task ends.
LEMMA FinishLemma ==
  ASSUME Inv, NEW c \in Client, client[c].at \in Awaiting \cup Running,
         NEW d \in [Client -> Mail], Shown(d) \ {c} \subseteq Shown(desk), policy' \in {policy, store},
         \A b \in Client \ {c} : Good(client[b], d[b], store, policy', vault),
         Finish(c, d), Step
  PROVE  Inv'
  <1> DEFINE x == Idle(client[c].profile, "done")
             e == Dropped(d, c)
  <1>1. client' = [client EXCEPT ![c] = x] /\ desk' = e /\ active' = active - 1
        /\ UNCHANGED <<store, profiles, vault, service, op, ui>>
    BY DEF Finish, Step, control
  <1>2. client \in [Client -> Task] /\ vault.gen \in Nat /\ client[c].profile \in Profile
    BY DEF Inv, TypeOK, Task
  <1>3. x \in Task /\ Good(x, NoMail, store, policy', vault) /\ x.profile = client[c].profile /\ x.at = "done"
    BY <1>2, IdleLemma
  <1>4. e \in [Client -> Mail] /\ e[c] = NoMail /\ \A b \in Client \ {c} : e[b] = d[b]
    BY NoMailLemma DEF Dropped
  <1>5. Shown(e) \subseteq Shown(desk)
    BY <1>4, NoMailLemma DEF Shown
  <1> HIDE DEF x, e
  <1>6. client'[c] = x /\ \A b \in Client \ {c} : client'[b] = client[b]
    BY <1>1, <1>2
  <1>7. client' \in [Client -> Task]
    BY <1>1, <1>2, <1>3
  <1>8. policy' \in Policy
    BY DEF Inv, TypeOK
  <1>9. \A b \in Client : Good(client'[b], desk'[b], store', policy', vault')
    BY <1>1, <1>3, <1>4, <1>6
  <1>10. Alive' = Alive \ {c} /\ c \in Alive
    BY <1>3, <1>6 DEF Alive, Awaiting, Running
  <1>11. Limits(desk)'
    <2>1. \A b \in Client : client'[b].profile = client[b].profile
      BY <1>3, <1>6
    <2>2. Limits(e)
      BY <1>5, LimitsLemma DEF Inv
    <2> QED BY <1>1, <2>1, <2>2, LimitsNext
  <1>12. active = Cardinality(Alive) /\ service.loop \in {"accepting", "draining"}
    BY <1>10 DEF Inv, Counts, TypeOK
  <1>13. active' = Cardinality(Alive') /\ active' \in 0 .. MaxConnections
    <2>1. Cardinality(Alive \ {c}) = Cardinality(Alive) - 1 /\ Cardinality(Alive) >= 1 /\ Cardinality(Alive) \in Nat
      BY <1>10, Finite
    <2>2. MaxConnections \in Nat /\ active \in 0 .. MaxConnections
      BY BridgeAssumption DEF Inv, TypeOK
    <2> QED BY <1>1, <1>10, <1>12, <2>1, <2>2
  <1>14. TypeOK'
    BY <1>1, <1>4, <1>7, <1>8, <1>13 DEF Inv, TypeOK, Mail
  <1>15. Counts' /\ Locked'
    BY <1>1, <1>12, <1>13 DEF Inv, Counts, Locked
  <1> QED BY <1>9, <1>11, <1>14, <1>15 DEF Inv

\* A task reads the policy again and goes on or ends.
LEMMA EnsureLemma ==
  ASSUME Inv, NEW c \in Client, client[c].at \in Awaiting \cup Running, NEW x \in Task,
         x.profile = client[c].profile, x.at \in Awaiting \cup Running,
         NEW d \in [Client -> Mail], Limits(d), Shown(d) \ {c} \subseteq Shown(desk),
         \A b \in Client \ {c} : Good(client[b], d[b], store, store, vault),
         store.gen = client[c].gen => Good(x, d[c], store, store, vault),
         Ensure(c, x, d), Step
  PROVE  Inv'
  <1>1. policy' = store
    BY DEF Ensure
  <1>2. CASE store.gen = client[c].gen
    BY <1>1, <1>2, ProceedLemma DEF Ensure
  <1>3. CASE store.gen # client[c].gen
    BY <1>1, <1>3, FinishLemma DEF Ensure
  <1> QED BY <1>2, <1>3

\* A request is shown: it has a waiter, and an entry under the policy it was
\* made under; the limits leave room for it.
LEMMA InsertLemma ==
  ASSUME Inv, NEW c \in Client, client[c].at \in Awaiting \cup Running, NEW phase \in Phase,
         NEW x, NEW y, y = [x EXCEPT !.waits = TRUE], y \in Task,
         y.profile = client[c].profile, y.at \in Awaiting \cup Running,
         store.gen = client[c].gen =>
           Good(y, [entry |-> [phase |-> phase, gen |-> client[c].gen, decided |-> FALSE], events |-> <<>>],
                store, store, vault),
         Insert(c, phase, x), Step
  PROVE  Inv'
  <1>1. PICK d : d = Current(desk, store)
    OBVIOUS
  <1>2. /\ d \in [Client -> Mail] /\ Shown(d) \subseteq Shown(desk) /\ Limits(d)
        /\ \A b \in Client : Good(client[b], d[b], store, store, vault)
    BY <1>1, CurrentFacts
  <1>3. CASE Full(d, c)
    <2>1. Finish(c, d) /\ policy' = store
      BY <1>1, <1>3 DEF Insert
    <2> QED BY <1>2, <2>1, FinishLemma
  <1>4. CASE ~Full(d, c)
    <2>1. PICK n : n = [entry |-> [phase |-> phase, gen |-> client[c].gen, decided |-> FALSE], events |-> <<>>]
      OBVIOUS
    <2>2. n \in Mail /\ n.entry # None
      <3>1. client[c].gen \in Nat
        BY DEF Inv, TypeOK, Task
      <3>2. Asks(phase, client[c].gen) \in Entry /\ Asks(phase, client[c].gen) # None
        BY <3>1, EntryLemma
      <3>3. n = [entry |-> Asks(phase, client[c].gen), events |-> <<>>]
        BY <2>1 DEF Asks
      <3> QED BY <3>2, <3>3 DEF Mail
    <2>3. PICK e : e = [d EXCEPT ![c] = n]
      OBVIOUS
    <2>4. e \in [Client -> Mail] /\ e[c] = n /\ \A b \in Client \ {c} : e[b] = d[b]
      BY <1>2, <2>2, <2>3
    <2>5. Shown(e) = Shown(d) \cup {c}
      BY <2>2, <2>4 DEF Shown
    <2>6. Limits(e)
      <3>1. IsFiniteSet(Shown(d)) /\ \A p \in Profile : IsFiniteSet(OfProfile(d, p))
        BY BridgeAssumption, FS_Subset DEF Shown, OfProfile
      <3>2. MaxPending \in Nat /\ MaxPerProfile \in Nat
        BY BridgeAssumption
      <3>3. Cardinality(Shown(d)) \in Nat /\ \A p \in Profile : Cardinality(OfProfile(d, p)) \in Nat
        BY <3>1, FS_CardinalityType
      <3>4. client[c].profile \in Profile
        BY DEF Inv, TypeOK, Task
      <3>5. ~(Cardinality(Shown(d)) >= MaxPending) /\ ~(Cardinality(OfProfile(d, client[c].profile)) >= MaxPerProfile)
        BY <1>4 DEF Full, OfProfile
      <3>6. Cardinality(Shown(e)) <= MaxPending
        <4>1. Cardinality(Shown(e)) = Cardinality(Shown(d)) \/ Cardinality(Shown(e)) = Cardinality(Shown(d)) + 1
          BY <2>5, <3>1, FS_AddElement
        <4> QED BY <3>2, <3>3, <3>5, <4>1
      <3>7. ASSUME NEW p \in Profile
            PROVE  Cardinality(OfProfile(e, p)) <= MaxPerProfile
        <4>1. CASE p = client[c].profile
          <5>1. OfProfile(e, p) = OfProfile(d, p) \cup {c}
            BY <2>5, <4>1 DEF OfProfile
          <5>2. Cardinality(OfProfile(e, p)) = Cardinality(OfProfile(d, p))
                \/ Cardinality(OfProfile(e, p)) = Cardinality(OfProfile(d, p)) + 1
            BY <3>1, <5>1, FS_AddElement
          <5> QED BY <3>2, <3>3, <3>5, <4>1, <5>2
        <4>2. CASE p # client[c].profile
          <5>1. OfProfile(e, p) = OfProfile(d, p)
            BY <2>5, <4>2 DEF OfProfile
          <5> QED BY <1>2, <5>1 DEF Limits
        <4> QED BY <4>1, <4>2
      <3> QED BY <3>6, <3>7 DEF Limits
    <2>7. Shown(e) \ {c} \subseteq Shown(desk)
      BY <1>2, <2>5
    <2>8. Ensure(c, y, e)
      BY <1>1, <1>4, <2>1, <2>3 DEF Insert
    <2>9. store.gen = client[c].gen => Good(y, e[c], store, store, vault)
      BY <2>1, <2>4
    <2>10. \A b \in Client \ {c} : Good(client[b], e[b], store, store, vault)
      BY <1>2, <2>4
    <2> QED BY <2>4, <2>6, <2>7, <2>8, <2>9, <2>10, EnsureLemma
  <1> QED BY <1>3, <1>4

\* A task that ends without having read the policy.
LEMMA EndLemma ==
  ASSUME Inv, NEW c \in Client, client[c].at \in Awaiting \cup Running, policy' = policy,
         Finish(c, desk), Step
  PROVE  Inv'
  <1>1. desk \in [Client -> Mail] /\ \A b \in Client : Good(client[b], desk[b], store, policy, vault)
    BY DEF Inv, TypeOK, Mail
  <1> QED BY <1>1, FinishLemma

\* A task that goes on without having read the policy, its mail untouched.
LEMMA GoLemma ==
  ASSUME Inv, NEW c \in Client, client[c].at \in Awaiting \cup Running, policy' = policy,
         NEW x \in Task, x.profile = client[c].profile, x.at \in Awaiting \cup Running,
         Good(x, desk[c], store, policy, vault),
         Proceed(c, x, desk), Step
  PROVE  Inv'
  <1>1. desk \in [Client -> Mail] /\ \A b \in Client : Good(client[b], desk[b], store, policy, vault)
        /\ Limits(desk)
    BY DEF Inv, TypeOK, Mail
  <1> QED BY <1>1, ProceedLemma

\* A task that goes on if the policy is still the request's.
LEMMA ReadLemma ==
  ASSUME Inv, NEW c \in Client, client[c].at \in Awaiting \cup Running,
         NEW x \in Task, x.profile = client[c].profile, x.at \in Awaiting \cup Running,
         store.gen = client[c].gen => Good(x, Current(desk, store)[c], store, store, vault),
         Ensure(c, x, Current(desk, store)), Step
  PROVE  Inv'
  BY CurrentFacts, EnsureLemma

-----------------------------------------------------------------------------
(* The steps of a task.                                                    *)

\* Where a task goes, its request unchanged.
LEMMA ToLemma ==
  ASSUME Inv, NEW c \in Client, NEW at \in Awaiting \cup Running
  PROVE  /\ client[c] \in Task /\ To(c, at) \in Task /\ To(c, at).at = at
         /\ To(c, at).profile = client[c].profile /\ To(c, at).level = client[c].level
         /\ To(c, at).gen = client[c].gen /\ To(c, at).waits = client[c].waits
         /\ To(c, at).unlocking = client[c].unlocking /\ To(c, at).seen = client[c].seen
         /\ To(c, at).allowed = client[c].allowed
  <1>1. client[c] \in Task
    BY DEF Inv, TypeOK
  <1> QED BY <1>1 DEF To, Task

\* accept_loop: a client gets a free slot, and the count keeps up.
LEMMA AcceptStep ==
  ASSUME Inv, NEW c \in Client, Accept(c)
  PROVE  Inv'
  <1>1. client \in [Client -> Task] /\ client[c] \in Task /\ client[c].at = "new" /\ service.loop = "accepting"
        /\ UNCHANGED <<store, policy, desk, profiles, vault, service, op, ui>>
    BY DEF Accept, At, Step, control, Inv, TypeOK
  <1>2. PICK at : at \in {"accepted", "done"} /\ client' = [client EXCEPT ![c].at = at]
                  /\ (at = "accepted" => Cardinality(Alive) < MaxConnections /\ active' = active + 1)
                  /\ (at = "done" => active' = active)
    BY DEF Accept
  <1>3. PICK x : x = [client[c] EXCEPT !.at = at]
    OBVIOUS
  <1>4. /\ x \in Task /\ x.at = at /\ x.profile = client[c].profile /\ x.waits = client[c].waits
        /\ x.unlocking = client[c].unlocking /\ x.seen = client[c].seen /\ x.gen = client[c].gen
        /\ x.allowed = client[c].allowed
    BY <1>1, <1>2, <1>3 DEF Task, Awaiting
  <1>5. client' = [client EXCEPT ![c] = x]
    BY <1>1, <1>2, <1>3
  <1>6. client' \in [Client -> Task] /\ client'[c] = x /\ \A b \in Client \ {c} : client'[b] = client[b]
    BY <1>1, <1>4, <1>5
  <1>7. Good(x, desk[c], store, policy, vault)
    <2>1. Good(client[c], desk[c], store, policy, vault) /\ ~client[c].waits
      BY <1>1 DEF Inv, Good, Waiter, Asking
    <2> QED BY <1>2, <1>4, <2>1 DEF Good, Waiter, Consent, Wakes, Asking, Begun
  <1>8. \A b \in Client : Good(client'[b], desk'[b], store', policy', vault')
    BY <1>1, <1>6, <1>7 DEF Inv
  <1>9. Limits(desk)'
    <2>1. \A b \in Client : client'[b].profile = client[b].profile
      BY <1>4, <1>6
    <2> QED BY <1>1, <2>1, LimitsNext DEF Inv
  <1>10. c \notin Alive /\ active = Cardinality(Alive)
    BY <1>1 DEF Alive, Awaiting, Running, Inv, Counts
  <1>11. active' = Cardinality(Alive') /\ active' \in 0 .. MaxConnections
    <2>1. Cardinality(Alive) \in Nat /\ Cardinality(Alive \cup {c}) = Cardinality(Alive) + 1 /\ MaxConnections \in Nat
          /\ active \in 0 .. MaxConnections
      BY <1>10, Finite, BridgeAssumption DEF Inv, TypeOK
    <2>2. CASE at = "accepted"
      <3>1. Alive' = Alive \cup {c}
        BY <1>4, <1>6, <2>2 DEF Alive, Awaiting
      <3> QED BY <1>2, <1>10, <2>1, <2>2, <3>1
    <2>3. CASE at = "done"
      <3>1. Alive' = Alive
        BY <1>4, <1>6, <1>10, <2>3 DEF Alive, Awaiting, Running
      <3> QED BY <1>2, <1>10, <2>1, <2>3, <3>1
    <2> QED BY <1>2, <2>2, <2>3
  <1>12. TypeOK'
    BY <1>1, <1>6, <1>11 DEF Inv, TypeOK
  <1>13. Counts' /\ Locked'
    BY <1>1, <1>11 DEF Inv, Counts, Locked
  <1> QED BY <1>8, <1>9, <1>12, <1>13 DEF Inv

\* The client names a route; its request is made under the policy on disk.
LEMMA RequestStep ==
  ASSUME Inv, NEW c \in Client, Request(c)
  PROVE  Inv'
  <1>1. client[c].at = "accepted" /\ policy' = store /\ Step /\ store \in Policy
    BY DEF Request, At, Inv, TypeOK
  <1>2. PICK y : y = To(c, "authorize")
    OBVIOUS
  <1>3. PICK x : x = [y EXCEPT !.level = store.level, !.gen = store.gen]
    OBVIOUS
  <1>4. y \in Task /\ y.at = "authorize" /\ y.profile = client[c].profile /\ y.waits = client[c].waits
        /\ y.unlocking = client[c].unlocking /\ y.seen = client[c].seen
    BY <1>2, ToLemma DEF Running
  <1>5. /\ x \in Task /\ x.at = "authorize" /\ x.profile = client[c].profile /\ x.waits = client[c].waits
        /\ x.unlocking = client[c].unlocking /\ x.seen = client[c].seen /\ x.level = store.level /\ x.gen = store.gen
    BY <1>1, <1>3, <1>4 DEF Task, Policy
  <1>6. PICK d : d = Current(desk, store)
    OBVIOUS
  <1>7. /\ d \in [Client -> Mail] /\ Limits(d)
        /\ \A b \in Client : Good(client[b], d[b], store, store, vault)
    BY <1>6, CurrentFacts
  <1>8. ~client[c].waits /\ ~client[c].unlocking /\ d[c] = NoMail
    BY <1>1, <1>7 DEF Good, Waiter, Asking
  <1>9. Good(x, d[c], store, store, vault)
    <2>1. Waiter(x, d[c], store)
      BY <1>5, <1>8, NoMailLemma DEF Waiter, Asking
    <2>2. Consent(x, d[c], store)
      BY <1>1, <1>5, <1>8, NoMailLemma DEF Consent, Asking, Begun, Policy
    <2>3. Wakes(x, vault)
      BY <1>5, <1>7 DEF Good, Wakes
    <2> QED BY <2>1, <2>2, <2>3 DEF Good
  <1>10. Proceed(c, x, d)
    BY <1>2, <1>3, <1>6 DEF Request
  <1> QED BY <1>1, <1>5, <1>7, <1>9, <1>10, ProceedLemma DEF Awaiting, Running

\* authorize: a request goes on under the standard level and is shown under the others.
LEMMA AuthorizeStep ==
  ASSUME Inv, NEW c \in Client, Authorize(c)
  PROVE  Inv'
  <1>1. client[c].at = "authorize" /\ Step /\ client[c] \in Task
    BY DEF Authorize, At, Inv, TypeOK
  <1>2. Good(client[c], desk[c], store, policy, vault) /\ Good(client[c], Current(desk, store)[c], store, store, vault)
    BY CurrentFacts DEF Inv
  <1>3. client[c].at \in Awaiting \cup Running
    BY <1>1 DEF Running
  <1>4. ~client[c].waits /\ ~client[c].unlocking
    BY <1>1, <1>2 DEF Good, Waiter, Asking
  <1>5. CASE client[c].level = "Standard" /\ Ensure(c, To(c, "approved"), Current(desk, store))
    <2>1. PICK x : x = To(c, "approved")
      OBVIOUS
    <2>2. x \in Task /\ x.at = "approved" /\ x.profile = client[c].profile /\ x.waits = client[c].waits
          /\ x.unlocking = client[c].unlocking /\ x.seen = client[c].seen /\ x.gen = client[c].gen
          /\ x.level = client[c].level /\ x.allowed = client[c].allowed
      BY <2>1, ToLemma DEF Running
    <2>3. Good(x, Current(desk, store)[c], store, store, vault)
      <3>1. Waiter(x, Current(desk, store)[c], store)
        BY <1>2, <1>4, <2>2 DEF Good, Waiter
      <3>2. Consent(x, Current(desk, store)[c], store)
        BY <1>1, <1>2, <1>5, <2>2 DEF Good, Consent
      <3>3. Wakes(x, vault)
        BY <1>2, <2>2 DEF Good, Wakes
      <3> QED BY <3>1, <3>2, <3>3 DEF Good
    <2> QED BY <1>1, <1>3, <1>5, <2>1, <2>2, <2>3, ReadLemma DEF Running
  <1>6. ASSUME NEW phase \in {"AwaitingApproval", "AwaitingSystemAuth"}, Insert(c, phase, To(c, "asked"))
        PROVE  Inv'
    <2>1. PICK x : x = To(c, "asked")
      OBVIOUS
    <2>2. x \in Task /\ x.at = "asked" /\ x.profile = client[c].profile
          /\ x.unlocking = client[c].unlocking /\ x.seen = client[c].seen /\ x.gen = client[c].gen
          /\ x.level = client[c].level
      BY <2>1, ToLemma DEF Awaiting
    <2>3. PICK y : y = [x EXCEPT !.waits = TRUE]
      OBVIOUS
    <2>4. y \in Task /\ y.at = "asked" /\ y.profile = client[c].profile /\ y.waits = TRUE
          /\ y.unlocking = client[c].unlocking /\ y.seen = client[c].seen /\ y.gen = client[c].gen
          /\ y.level = client[c].level
      BY <2>2, <2>3 DEF Task
    <2>5. PICK n : n = [entry |-> [phase |-> phase, gen |-> client[c].gen, decided |-> FALSE], events |-> <<>>]
      OBVIOUS
    <2>6. n.entry = Asks(phase, client[c].gen) /\ n.events = <<>>
      BY <2>5 DEF Asks
    <2>7. n.entry # None /\ n.entry.phase = phase /\ n.entry.gen = client[c].gen
      <3>1. phase \in Phase /\ client[c].gen \in Nat
        BY <1>1 DEF Phase, Task
      <3> QED BY <2>6, <3>1, EntryLemma
    <2>8. store.gen = client[c].gen => Good(y, n, store, store, vault)
      <3> HAVE store.gen = client[c].gen
      <3>1. Waiter(y, n, store)
        BY <1>4, <2>4, <2>7 DEF Waiter, Asking
      <3>2. Consent(y, n, store)
        BY <1>1, <1>2, <2>4, <2>6 DEF Good, Consent, Begun
      <3>3. Wakes(y, vault)
        BY <1>2, <2>4 DEF Good, Wakes
      <3> QED BY <3>1, <3>2, <3>3 DEF Good
    <2>9. phase \in Phase /\ y.at \in Awaiting \cup Running
      BY <2>4 DEF Phase, Awaiting
    <2>10. Insert(c, phase, x)
      BY <1>6, <2>1
    <2> QED BY <1>1, <1>3, <2>3, <2>4, <2>5, <2>8, <2>9, <2>10, InsertLemma
  <1>7. \/ client[c].level = "Standard" /\ Ensure(c, To(c, "approved"), Current(desk, store))
        \/ Insert(c, "AwaitingApproval", To(c, "asked")) \/ Insert(c, "AwaitingSystemAuth", To(c, "asked"))
    BY <1>1 DEF Authorize, Task, Level
  <1> QED BY <1>5, <1>6, <1>7

\* A task ends: a deadline, the client, the end of the service, or an event that lets nothing go on.
LEMMA EndSteps ==
  ASSUME Inv, NEW c \in Client, Unsupported(c) \/ VaultEvent(c) \/ Fails(c) \/ Leave(c) \/ Stopped(c)
  PROVE  Inv'
  <1>1. client[c].at \in Awaiting \cup Running
    BY DEF Unsupported, VaultEvent, Fails, Leave, Stopped, At, Awaiting, Running
  <1>2. policy' = policy /\ Finish(c, desk) /\ Step
    BY DEF Unsupported, VaultEvent, Fails, Leave, Stopped
  <1> QED BY <1>1, <1>2, EndLemma

\* A task moves on towards the connection, its request unchanged.
LEMMA MoveGood ==
  ASSUME NEW x, NEW y, NEW m, NEW s, NEW p, NEW v, Good(x, m, s, p, v), x.at \in Begun,
         y.at \in {"loop", "read", "ready", "locked"},
         y.waits = x.waits, y.unlocking = x.unlocking, y.gen = x.gen, y.level = x.level,
         y.allowed = x.allowed, Wakes(y, v)
  PROVE  Good(y, m, s, p, v)
  <1>1. Waiter(y, m, p)
    BY DEF Good, Waiter, Asking
  <1>2. Consent(y, m, s)
    BY DEF Good, Consent, Begun
  <1> QED BY <1>1, <1>2 DEF Good

\* The head of the mail is the user's consent.
LEMMA ConsentGood ==
  ASSUME NEW x, NEW y, NEW m \in Mail, NEW s, NEW p, NEW v, Good(x, m, s, p, v), x.at = "asked",
         m.events # <<>>, Head(m.events) \in Consents, y.at = "approved",
         y.waits = x.waits, y.unlocking = x.unlocking, y.gen = x.gen, y.level = x.level,
         y.allowed = x.allowed, y.seen = x.seen
  PROVE  Good(y, [m EXCEPT !.events = Tail(@)], s, p, v)
  <1>1. PICK n : n = [m EXCEPT !.events = Tail(@)]
    OBVIOUS
  <1>2. m.events \in Seq(Event) /\ Len(m.events) \in Nat /\ Len(m.events) >= 1
    BY DEF Mail
  <1>3. n.entry = m.entry /\ n.events = Tail(m.events)
    BY <1>1 DEF Mail
  <1>4. /\ DOMAIN n.events = 1 .. (Len(m.events) - 1) /\ Len(n.events) = Len(m.events) - 1
        /\ \A i \in DOMAIN n.events : i + 1 \in DOMAIN m.events /\ n.events[i] = m.events[i + 1]
        /\ 1 \in DOMAIN m.events /\ m.events[1] = Head(m.events)
    BY <1>2, <1>3
  <1>5. x.allowed = x.gen + 1
    BY <1>4 DEF Good, Consent
  <1>6. m.entry = None => n.events # <<>> /\ n.events[Len(n.events)] \notin Decision
    <2> HAVE m.entry = None
    <2>1. m.events[Len(m.events)] \notin Decision
      BY DEF Good, Waiter
    <2>2. Len(m.events) # 1
      BY <1>4, <2>1 DEF Consents, Decision
    <2>3. PICK k : k = Len(m.events)
      OBVIOUS
    <2>4. k \in Nat /\ k # 1 /\ k >= 1 /\ Len(n.events) = k - 1 /\ DOMAIN n.events = 1 .. (k - 1)
      BY <1>2, <1>4, <2>2, <2>3
    <2>5. k - 1 \in 1 .. (k - 1) /\ (k - 1) + 1 = k /\ k - 1 # 0
      BY <2>4
    <2>6. n.events[k - 1] = m.events[(k - 1) + 1]
      BY <1>4, <2>4, <2>5
    <2>7. n.events[Len(n.events)] = m.events[Len(m.events)]
      BY <2>3, <2>4, <2>5, <2>6
    <2>8. n.events # <<>>
      BY <2>4, <2>5
    <2> QED BY <2>1, <2>7, <2>8
  <1>7. Waiter(y, n, p)
    BY <1>3, <1>6 DEF Good, Waiter, Asking
  <1>8. Consent(y, n, s)
    <2>1. y.gen <= s.gen /\ (y.gen = s.gen => y.level = s.level)
      BY DEF Good, Consent, Asking
    <2> QED BY <1>5, <2>1 DEF Consent
  <1>9. Wakes(y, v)
    BY DEF Good, Wakes
  <1> QED BY <1>1, <1>7, <1>8, <1>9 DEF Good

\* An event arrives: only the consent of this request lets the task go on.
LEMMA DecidedStep ==
  ASSUME Inv, NEW c \in Client, Decided(c)
  PROVE  Inv'
  <1>1. client[c].at = "asked" /\ Step /\ desk[c].events # <<>> /\ desk \in [Client -> Mail]
    BY DEF Decided, At, Inv, TypeOK, Mail
  <1>2. PICK e : e = Head(desk[c].events)
    OBVIOUS
  <1>3. PICK k : k = Current(desk, store)
    OBVIOUS
  <1>4. /\ k \in [Client -> Mail] /\ Shown(k) \subseteq Shown(desk) /\ Limits(k)
        /\ \A b \in Client : Good(client[b], k[b], store, store, vault)
    BY <1>3, CurrentFacts
  <1>5. k[c].events # <<>> /\ Head(k[c].events) = e
    <2>1. k[c] \in {desk[c], [entry |-> None, events |-> Append(desk[c].events, "PolicyChanged")]}
      BY <1>3 DEF Current, Withdrawn
    <2>2. desk[c].events \in Seq(Event)
      BY <1>1 DEF Mail
    <2>3. "PolicyChanged" \in Event
      BY DEF Event
    <2>4. PICK a : a = Append(desk[c].events, "PolicyChanged")
      OBVIOUS
    <2>5. a # <<>> /\ Head(a) = Head(desk[c].events)
      BY <1>1, <2>2, <2>3, <2>4
    <2>6. k[c].events = desk[c].events \/ k[c].events = a
      BY <2>1, <2>4
    <2> QED BY <1>1, <1>2, <2>5, <2>6
  <1>6. PICK n : n = [k[c] EXCEPT !.events = Tail(@)]
    OBVIOUS
  <1>7. n \in Mail /\ n.entry = k[c].entry
    <2>1. k[c] \in Mail /\ k[c].events \in Seq(Event)
      BY <1>4 DEF Mail
    <2>2. Tail(k[c].events) \in Seq(Event)
      BY <1>5, <2>1
    <2> QED BY <1>6, <2>1, <2>2 DEF Mail
  <1>8. PICK d : d = [k EXCEPT ![c] = n]
    OBVIOUS
  <1>9. d = [k EXCEPT ![c].events = Tail(@)]
    BY <1>4, <1>6, <1>8
  <1>10. d \in [Client -> Mail] /\ d[c] = n /\ \A b \in Client \ {c} : d[b] = k[b]
    BY <1>4, <1>7, <1>8
  <1>11. Shown(d) \subseteq Shown(k)
    BY <1>7, <1>10 DEF Shown
  <1>12. Limits(d) /\ Shown(d) \ {c} \subseteq Shown(desk)
    BY <1>4, <1>11, LimitsLemma
  <1>13. client[c].at \in Awaiting \cup Running
    BY <1>1 DEF Awaiting
  <1>14. CASE Grants(client[c].level, e) /\ Ensure(c, To(c, "approved"), d)
    <2>1. e \in Consents
      BY <1>14 DEF Grants, Consents
    <2>2. PICK x : x = To(c, "approved")
      OBVIOUS
    <2>3. x \in Task /\ x.at = "approved" /\ x.profile = client[c].profile /\ x.waits = client[c].waits
          /\ x.unlocking = client[c].unlocking /\ x.seen = client[c].seen /\ x.gen = client[c].gen
          /\ x.level = client[c].level /\ x.allowed = client[c].allowed
      BY <2>2, ToLemma DEF Running
    <2>4. k[c] \in Mail /\ Good(client[c], k[c], store, store, vault)
      BY <1>4
    <2>5. Good(x, n, store, store, vault)
      BY <1>1, <1>5, <1>6, <2>1, <2>3, <2>4, ConsentGood
    <2>6. Good(x, d[c], store, store, vault)
      BY <1>10, <2>5
    <2>7. \A b \in Client \ {c} : Good(client[b], d[b], store, store, vault)
      BY <1>4, <1>10
    <2> QED BY <1>1, <1>10, <1>12, <1>13, <1>14, <2>2, <2>3, <2>6, <2>7, EnsureLemma DEF Running
  <1>15. CASE policy' = store /\ Finish(c, d)
    <2>1. \A b \in Client \ {c} : Good(client[b], d[b], store, policy', vault)
      BY <1>4, <1>10, <1>15
    <2> QED BY <1>1, <1>10, <1>12, <1>13, <1>15, <2>1, FinishLemma
  <1>16. \/ Grants(client[c].level, e) /\ Ensure(c, To(c, "approved"), d)
         \/ policy' = store /\ Finish(c, d)
    BY <1>2, <1>3, <1>9 DEF Decided
  <1> QED BY <1>14, <1>15, <1>16

\* Every 200 ms a waiting task looks whether its policy is still in force.
LEMMA TickStep ==
  ASSUME Inv, NEW c \in Client, PolicyTick(c)
  PROVE  Inv'
  <1>1. client[c].at \in Awaiting \cup Running /\ client[c] \in Task /\ Step
        /\ Ensure(c, client[c], Current(desk, store))
    BY DEF PolicyTick, Awaiting, Inv, TypeOK
  <1>2. Good(client[c], Current(desk, store)[c], store, store, vault)
    BY CurrentFacts
  <1> QED BY <1>1, <1>2, ReadLemma

\* connect_after_authorization: the task notes the generation of the secrets before it reads them.
LEMMA SubscribeStep ==
  ASSUME Inv, NEW c \in Client, Subscribe(c) \/ Loop(c)
  PROVE  Inv'
  <1>1. client[c].at \in {"approved", "loop"} /\ client[c] \in Task /\ Step /\ vault.gen \in Nat
    BY DEF Subscribe, Loop, At, Inv, TypeOK
  <1>2. PICK m : m = Current(desk, store)[c]
    OBVIOUS
  <1>3. Good(client[c], m, store, store, vault)
    BY <1>2, CurrentFacts
  <1>4. PICK at \in {"loop", "read"}, seen \in {client[c].seen, vault.gen} :
          Ensure(c, [To(c, at) EXCEPT !.seen = seen], Current(desk, store))
    <2>1. CASE Subscribe(c)
      BY <2>1 DEF Subscribe
    <2>2. CASE Loop(c)
      <3>1. To(c, "read") \in Task /\ To(c, "read").seen = client[c].seen
        BY ToLemma DEF Running
      <3>2. To(c, "read") = [To(c, "read") EXCEPT !.seen = client[c].seen]
        BY <3>1 DEF Task
      <3> QED BY <2>2, <3>2 DEF Loop
    <2> QED BY <2>1, <2>2
  <1>5. PICK y : y = To(c, at)
    OBVIOUS
  <1>6. y \in Task /\ y.at = at /\ y.profile = client[c].profile /\ y.waits = client[c].waits
        /\ y.unlocking = client[c].unlocking /\ y.gen = client[c].gen
        /\ y.level = client[c].level /\ y.allowed = client[c].allowed
    BY <1>5, ToLemma DEF Running
  <1>7. PICK x : x = [y EXCEPT !.seen = seen]
    OBVIOUS
  <1>8. x \in Task /\ x.at = at /\ x.profile = client[c].profile /\ x.waits = client[c].waits
        /\ x.unlocking = client[c].unlocking /\ x.seen = seen /\ x.gen = client[c].gen
        /\ x.level = client[c].level /\ x.allowed = client[c].allowed
    BY <1>1, <1>6, <1>7 DEF Task
  <1>9. Wakes(x, vault)
    BY <1>1, <1>3, <1>8 DEF Good, Wakes
  <1>10. Good(x, m, store, store, vault)
    BY <1>1, <1>3, <1>8, <1>9, MoveGood DEF Begun
  <1>11. x.at \in Awaiting \cup Running /\ client[c].at \in Awaiting \cup Running
    BY <1>1, <1>8 DEF Running
  <1> QED BY <1>1, <1>2, <1>4, <1>5, <1>7, <1>8, <1>10, <1>11, ReadLemma

\* A task goes where its host and the vault lead it.
LEMMA MoveStep ==
  ASSUME Inv, NEW c \in Client, Read(c) \/ VaultLockedError(c) \/ SecretsChanged(c)
  PROVE  Inv'
  <1>1. client[c].at \in {"read", "connecting", "vault"} /\ client[c] \in Task /\ Step /\ vault.gen \in Nat
        /\ policy' = policy
    BY DEF Read, VaultLockedError, SecretsChanged, At, Inv, TypeOK
  <1>2. Good(client[c], desk[c], store, policy, vault)
    BY DEF Inv
  <1>3. client[c].at \in Awaiting \cup Running
    BY <1>1 DEF Awaiting, Running
  <1>4. CASE Finish(c, desk)
    BY <1>1, <1>3, <1>4, EndLemma
  <1>5. CASE ~Finish(c, desk)
    <2>1. PICK at \in {"ready", "locked", "loop"}, seen \in {client[c].seen, vault.gen} :
            /\ Proceed(c, [To(c, at) EXCEPT !.seen = seen], desk)
            /\ at = "locked" => ~vault.open
      <3>1. \A at \in {"ready", "locked"} : To(c, at) = [To(c, at) EXCEPT !.seen = client[c].seen]
        <4> SUFFICES ASSUME NEW at \in {"ready", "locked"}
                     PROVE  To(c, at) = [To(c, at) EXCEPT !.seen = client[c].seen]
          OBVIOUS
        <4>1. To(c, at) \in Task /\ To(c, at).seen = client[c].seen
          BY ToLemma DEF Running
        <4> QED BY <4>1 DEF Task
      <3>2. CASE Read(c)
        <4>1. (vault.open /\ Proceed(c, To(c, "ready"), desk)) \/ (~vault.open /\ Proceed(c, To(c, "locked"), desk))
          BY <1>5, <3>2 DEF Read
        <4>2. CASE vault.open /\ Proceed(c, To(c, "ready"), desk)
          BY <3>1, <4>2
        <4>3. CASE ~vault.open /\ Proceed(c, To(c, "locked"), desk)
          BY <3>1, <4>3
        <4> QED BY <4>1, <4>2, <4>3
      <3>3. CASE VaultLockedError(c)
        <4>1. ~vault.open /\ Proceed(c, To(c, "locked"), desk)
          BY <3>3 DEF VaultLockedError
        <4> QED BY <3>1, <4>1
      <3>4. CASE SecretsChanged(c)
        <4>1. Proceed(c, [To(c, "loop") EXCEPT !.seen = vault.gen], desk)
          BY <3>4 DEF SecretsChanged
        <4> QED BY <4>1
      <3> QED BY <3>2, <3>3, <3>4
    <2>2. PICK y : y = To(c, at)
      OBVIOUS
    <2>3. y \in Task /\ y.at = at /\ y.profile = client[c].profile /\ y.waits = client[c].waits
          /\ y.unlocking = client[c].unlocking /\ y.gen = client[c].gen
          /\ y.level = client[c].level /\ y.allowed = client[c].allowed
      BY <2>2, ToLemma DEF Running
    <2>4. PICK x : x = [y EXCEPT !.seen = seen]
      OBVIOUS
    <2>5. x \in Task /\ x.at = at /\ x.profile = client[c].profile /\ x.waits = client[c].waits
          /\ x.unlocking = client[c].unlocking /\ x.seen = seen /\ x.gen = client[c].gen
          /\ x.level = client[c].level /\ x.allowed = client[c].allowed
      BY <1>1, <2>3, <2>4 DEF Task
    <2>6. Wakes(x, vault)
      BY <1>1, <1>2, <2>1, <2>5 DEF Good, Wakes
    <2>7. Good(x, desk[c], store, policy, vault)
      BY <1>1, <1>2, <2>5, <2>6, MoveGood DEF Begun
    <2>8. x.at \in Awaiting \cup Running
      BY <2>5 DEF Running
    <2> QED BY <1>1, <1>3, <2>1, <2>2, <2>4, <2>5, <2>7, <2>8, GoLemma
  <1> QED BY <1>4, <1>5

\* Credentials are ready: the waiter is dropped with its entry.
LEMMA ConnectStep ==
  ASSUME Inv, NEW c \in Client, Connect(c)
  PROVE  Inv'
  <1>1. client[c].at = "ready" /\ Step
    BY DEF Connect, At
  <1>2. PICK y : y = To(c, "connecting")
    OBVIOUS
  <1>3. y \in Task /\ y.at = "connecting" /\ y.profile = client[c].profile /\ y.gen = client[c].gen
        /\ y.level = client[c].level /\ y.allowed = client[c].allowed /\ y.seen = client[c].seen
    BY <1>2, ToLemma DEF Awaiting
  <1>4. PICK x : x = [y EXCEPT !.waits = FALSE, !.unlocking = FALSE]
    OBVIOUS
  <1>5. x \in Task /\ x.at = "connecting" /\ x.profile = client[c].profile /\ x.gen = client[c].gen
        /\ x.level = client[c].level /\ x.allowed = client[c].allowed /\ x.seen = client[c].seen
        /\ ~x.waits /\ ~x.unlocking
    BY <1>3, <1>4 DEF Task
  <1>6. PICK k : k = Current(desk, store)
    OBVIOUS
  <1>7. /\ k \in [Client -> Mail] /\ Shown(k) \subseteq Shown(desk) /\ Limits(k)
        /\ \A b \in Client : Good(client[b], k[b], store, store, vault)
    BY <1>6, CurrentFacts
  <1>8. PICK d : d = Dropped(k, c)
    OBVIOUS
  <1>9. d \in [Client -> Mail] /\ d[c] = NoMail /\ \A b \in Client \ {c} : d[b] = k[b]
    BY <1>7, <1>8, NoMailLemma DEF Dropped
  <1>10. Shown(d) \subseteq Shown(k)
    BY <1>9, NoMailLemma DEF Shown
  <1>11. Limits(d) /\ Shown(d) \ {c} \subseteq Shown(desk)
    BY <1>7, <1>10, LimitsLemma
  <1>12. Good(x, NoMail, store, store, vault)
    <2>1. Waiter(x, NoMail, store)
      BY <1>5, NoMailLemma DEF Waiter
    <2>2. Consent(x, NoMail, store)
      BY <1>1, <1>5, <1>7, NoMailLemma DEF Good, Consent, Begun
    <2>3. Wakes(x, vault)
      BY <1>5, <1>7 DEF Good, Wakes
    <2> QED BY <2>1, <2>2, <2>3 DEF Good
  <1>13. \A b \in Client \ {c} : Good(client[b], d[b], store, store, vault)
    BY <1>7, <1>9
  <1>14. Ensure(c, x, d)
    BY <1>2, <1>4, <1>6, <1>8 DEF Connect
  <1>15. x.at \in Awaiting \cup Running /\ client[c].at \in Awaiting \cup Running
    BY <1>1, <1>5 DEF Awaiting, Running
  <1> QED BY <1>1, <1>5, <1>9, <1>11, <1>12, <1>13, <1>14, <1>15, EnsureLemma

\* The connection stands; nothing is pending for it.
LEMMA ConnectedStep ==
  ASSUME Inv, NEW c \in Client, Connected(c)
  PROVE  Inv'
  <1>1. client[c].at = "connecting" /\ Step /\ policy' = policy
    BY DEF Connected, At
  <1>2. PICK x : x = To(c, "active")
    OBVIOUS
  <1>3. x \in Task /\ x.at = "active" /\ x.profile = client[c].profile /\ x.gen = client[c].gen
        /\ x.level = client[c].level /\ x.allowed = client[c].allowed /\ x.seen = client[c].seen
        /\ x.waits = client[c].waits /\ x.unlocking = client[c].unlocking
    BY <1>2, ToLemma DEF Awaiting
  <1>4. Good(client[c], desk[c], store, policy, vault)
    BY DEF Inv
  <1>5. Good(x, desk[c], store, policy, vault)
    BY <1>1, <1>3, <1>4 DEF Good, Waiter, Consent, Wakes, Asking, Begun
  <1>6. x.at \in Awaiting \cup Running /\ client[c].at \in Awaiting \cup Running
    BY <1>1, <1>3 DEF Awaiting, Running
  <1>7. Proceed(c, x, desk)
    BY <1>2 DEF Connected
  <1> QED BY <1>1, <1>3, <1>5, <1>6, <1>7, GoLemma

\* The vault is waited for, with the entry the request has or with a new one.
LEMMA UnlockStep ==
  ASSUME Inv, NEW c \in Client, AwaitUnlock(c)
  PROVE  Inv'
  <1>1. client[c].at = "locked" /\ Step /\ client[c] \in Task /\ desk \in [Client -> Mail] /\ desk[c] \in Mail
        /\ vault.gen \in Nat
    BY DEF AwaitUnlock, At, Inv, TypeOK, Mail
  <1>2. PICK y : y = To(c, "vault")
    OBVIOUS
  <1>3. y \in Task /\ y.at = "vault" /\ y.profile = client[c].profile /\ y.gen = client[c].gen
        /\ y.level = client[c].level /\ y.allowed = client[c].allowed /\ y.seen = client[c].seen
        /\ y.waits = client[c].waits
    BY <1>2, ToLemma DEF Awaiting
  <1>4. PICK x : x = [y EXCEPT !.unlocking = TRUE]
    OBVIOUS
  <1>5. x \in Task /\ x.at = "vault" /\ x.profile = client[c].profile /\ x.gen = client[c].gen
        /\ x.level = client[c].level /\ x.allowed = client[c].allowed /\ x.seen = client[c].seen
        /\ x.waits = client[c].waits /\ x.unlocking
    BY <1>3, <1>4 DEF Task
  <1>6. Good(client[c], desk[c], store, policy, vault)
    BY DEF Inv
  <1>7. x.at \in Awaiting \cup Running /\ client[c].at \in Awaiting \cup Running
    BY <1>1, <1>5 DEF Awaiting, Running
  <1>8. Wakes(x, vault)
    BY <1>1, <1>5, <1>6 DEF Good, Wakes
  <1>9. CASE client[c].unlocking /\ Proceed(c, x, desk) /\ policy' = policy
    <2>1. Waiter(x, desk[c], policy)
      BY <1>5, <1>6, <1>9 DEF Good, Waiter, Asking
    <2>2. Consent(x, desk[c], store)
      BY <1>1, <1>5, <1>6 DEF Good, Consent, Asking, Begun
    <2>3. Good(x, desk[c], store, policy, vault)
      BY <1>8, <2>1, <2>2 DEF Good
    <2> QED BY <1>1, <1>5, <1>7, <1>9, <2>3, GoLemma
  <1>10. CASE ~client[c].waits /\ Insert(c, "AwaitingVaultUnlock", x)
    <2>1. PICK z : z = [x EXCEPT !.waits = TRUE]
      OBVIOUS
    <2>2. z \in Task /\ z.at = "vault" /\ z.profile = client[c].profile /\ z.gen = client[c].gen
          /\ z.level = client[c].level /\ z.allowed = client[c].allowed /\ z.seen = client[c].seen
          /\ z.waits /\ z.unlocking
      BY <1>5, <2>1 DEF Task
    <2>3. PICK n : n = [entry |-> [phase |-> "AwaitingVaultUnlock", gen |-> client[c].gen, decided |-> FALSE],
                        events |-> <<>>]
      OBVIOUS
    <2>4. n.entry = Asks("AwaitingVaultUnlock", client[c].gen) /\ n.events = <<>>
      BY <2>3 DEF Asks
    <2>5. "AwaitingVaultUnlock" \in Phase /\ client[c].gen \in Nat
      BY <1>1 DEF Phase, Task
    <2>6. n.entry # None /\ n.entry.phase = "AwaitingVaultUnlock" /\ n.entry.gen = client[c].gen
      BY <2>4, <2>5, EntryLemma
    <2>7. store.gen = client[c].gen => Good(z, n, store, store, vault)
      <3> HAVE store.gen = client[c].gen
      <3>1. Waiter(z, n, store)
        BY <2>2, <2>6 DEF Waiter, Asking
      <3>2. Consent(z, n, store)
        BY <1>1, <1>6, <2>2, <2>4 DEF Good, Consent, Begun, Asking
      <3>3. Wakes(z, vault)
        BY <1>5, <1>8, <2>2 DEF Wakes
      <3> QED BY <3>1, <3>2, <3>3 DEF Good
    <2>8. z.at \in Awaiting \cup Running
      BY <2>2 DEF Awaiting
    <2> QED BY <1>1, <1>7, <1>10, <2>1, <2>2, <2>3, <2>5, <2>7, <2>8, InsertLemma
  <1>11. CASE client[c].waits /\ Transition(c, x) /\ policy' = policy
    <2>1. CASE desk[c].entry = None
      <3>1. Finish(c, desk)
        BY <1>11, <2>1 DEF Transition
      <3> QED BY <1>1, <1>7, <1>11, <3>1, EndLemma
    <2>2. CASE desk[c].entry # None
      <3>1. PICK f : f = [desk[c].entry EXCEPT !.phase = "AwaitingVaultUnlock"]
        OBVIOUS
      <3>2. desk[c].entry \in Entry
        BY <1>1, <2>2 DEF Mail
      <3>3. f \in Entry /\ f.phase = "AwaitingVaultUnlock" /\ f.gen = desk[c].entry.gen
        BY <3>1, <3>2 DEF Entry, Phase
      <3>4. f # None
        BY <3>3, NoneAssumption
      <3>5. PICK n : n = [desk[c] EXCEPT !.entry = f]
        OBVIOUS
      <3>6. n \in Mail /\ n.entry = f /\ n.events = desk[c].events
        BY <1>1, <3>3, <3>5 DEF Mail
      <3>7. PICK d : d = [desk EXCEPT ![c] = n]
        OBVIOUS
      <3>8. d = [desk EXCEPT ![c].entry.phase = "AwaitingVaultUnlock"]
        BY <1>1, <3>1, <3>5, <3>7
      <3>9. d \in [Client -> Mail] /\ d[c] = n /\ \A b \in Client \ {c} : d[b] = desk[b]
        BY <1>1, <3>6, <3>7
      <3>10. Shown(d) \subseteq Shown(desk)
        BY <2>2, <3>9 DEF Shown
      <3>11. Limits(d)
        BY <3>10, LimitsLemma DEF Inv
      <3>12. Good(x, n, store, policy, vault)
        <4>1. Waiter(x, n, policy)
          BY <1>5, <1>6, <1>11, <2>2, <3>3, <3>4, <3>6 DEF Good, Waiter, Asking
        <4>2. Consent(x, n, store)
          BY <1>1, <1>5, <1>6, <3>6 DEF Good, Consent, Asking, Begun
        <4> QED BY <1>8, <4>1, <4>2 DEF Good
      <3>13. Proceed(c, x, d)
        BY <1>11, <2>2, <3>8 DEF Transition
      <3>14. \A b \in Client \ {c} : Good(client[b], d[b], store, policy, vault)
        BY <3>9 DEF Inv
      <3> QED BY <1>1, <1>5, <1>7, <1>11, <3>9, <3>11, <3>12, <3>13, <3>14, ProceedLemma
    <2> QED BY <2>1, <2>2
  <1>12. \/ client[c].unlocking /\ Proceed(c, x, desk) /\ policy' = policy
         \/ ~client[c].waits /\ Insert(c, "AwaitingVaultUnlock", x)
         \/ client[c].waits /\ Transition(c, x) /\ policy' = policy
    BY <1>2, <1>4 DEF AwaitUnlock
  <1> QED BY <1>9, <1>10, <1>11, <1>12

-----------------------------------------------------------------------------
(* The service and the user interface.                                     *)

Service == [desired : BOOLEAN,
            status : {"Disabled", "Starting", "Running", "Stopping", "Error"},
            loop : {"none", "accepting", "draining", "ended"},
            cancel : BOOLEAN]
Operation == [at : {"idle", "load", "bind", "withdraw", "join", "compare"},
              wants : BOOLEAN, queued : Nat]
Interface == [at : {"idle", "withdraw", "publish", "send"}, changes : Nat,
              scenario : Scenarios]

\* A step that leaves the tasks, their mail, the policy and the vault alone.
LEMMA QuietLemma ==
  ASSUME Inv, UNCHANGED <<client, desk, store, policy, vault>>,
         profiles' \subseteq Profile, service' \in Service, active' \in 0 .. MaxConnections,
         op' \in Operation, ui' \in Interface,
         service'.loop \in {"accepting", "draining"} => active' = Cardinality(Alive),
         service'.loop = "none" => active' = 0,
         service'.loop \in {"none", "ended"} => Alive = {},
         Locked'
  PROVE  Inv'
  <1>1. TypeOK'
    BY DEF Inv, TypeOK, Service, Operation, Interface
  <1>2. \A c \in Client : Good(client'[c], desk'[c], store', policy', vault')
    BY DEF Inv
  <1>3. Limits(desk)'
    BY LimitsNext DEF Inv
  <1>4. Alive' = Alive
    BY DEF Alive
  <1>5. Counts'
    BY <1>4 DEF Counts
  <1> QED BY <1>1, <1>2, <1>3, <1>5 DEF Inv

\* The types and what is known of the listener, at the places they are needed.
LEMMA Facts ==
  ASSUME Inv
  PROVE  /\ service \in Service /\ op \in Operation /\ ui \in Interface /\ profiles \subseteq Profile
         /\ active \in 0 .. MaxConnections /\ MaxConnections \in Nat /\ 0 \in 0 .. MaxConnections
         /\ service.loop \in {"accepting", "draining"} => active = Cardinality(Alive)
         /\ service.loop = "none" => active = 0
         /\ service.loop \in {"none", "ended"} => Alive = {}
         /\ Cardinality({}) = 0
  BY BridgeAssumption, FS_EmptySet DEF Inv, TypeOK, Counts, Service, Operation, Interface

\* The accept loop stops accepting and, when its tasks have ended, ends.
LEMMA LoopSteps ==
  ASSUME Inv, StopAccepting \/ Drained
  PROVE  Inv'
  <1>1. UNCHANGED <<client, desk, store, policy, vault, profiles, active, op, ui>>
    BY DEF StopAccepting, Drained, bridge
  <1>2. PICK to \in {"draining", "ended"} :
          /\ service' = [service EXCEPT !.loop = to]
          /\ service.loop \in {"accepting", "draining"}
          /\ service.cancel \/ service.loop = "draining"
          /\ to = "ended" => Alive = {}
    BY DEF StopAccepting, Drained
  <1>3. service' \in Service /\ service'.loop = to /\ service'.status = service.status
        /\ service'.cancel = service.cancel
    BY <1>2, Facts DEF Service
  <1>4. op.at \notin {"idle", "load", "bind", "compare"}
    BY <1>2 DEF Inv, Locked
  <1>5. Locked'
    BY <1>1, <1>2, <1>3, <1>4 DEF Inv, Locked
  <1> QED BY <1>1, <1>2, <1>3, <1>5, Facts, QuietLemma

\* The operation lock is taken, and given back or kept for another round.
LEMMA LockSteps ==
  ASSUME Inv, TakeLock \/ Compare
  PROVE  Inv'
  <1>1. UNCHANGED <<client, desk, store, policy, vault, profiles, active, service, ui>>
    BY DEF TakeLock, Compare, bridge
  <1>2. PICK at \in {"load", "idle"}, n \in Nat :
          op' = [op EXCEPT !.at = at, !.queued = n] /\ op.at \in {"idle", "compare"}
    <2>1. CASE TakeLock
      <3>1. op.queued - 1 \in Nat
        BY <2>1, Facts DEF TakeLock, Operation
      <3> QED BY <2>1, <3>1 DEF TakeLock
    <2>2. CASE Compare
      <3>1. op.queued \in Nat
        BY Facts DEF Operation
      <3>2. PICK at \in {"load", "idle"} : op' = [op EXCEPT !.at = at]
        BY <2>2 DEF Compare
      <3>3. op' = [op EXCEPT !.at = at, !.queued = op.queued]
        BY <3>2, Facts DEF Operation
      <3> QED BY <2>2, <3>1, <3>3 DEF Compare
    <2> QED BY <2>1, <2>2
  <1>3. op' \in Operation /\ op'.at = at
    BY <1>2, Facts DEF Operation
  <1>4. Locked'
    BY <1>1, <1>2, <1>3 DEF Inv, Locked
  <1> QED BY <1>1, <1>3, <1>4, Facts, QuietLemma

\* reconcile_desired_state reads the wish and tells the accept loop to stop if there is one.
LEMMA LoadStep ==
  ASSUME Inv, LoadDesired
  PROVE  Inv'
  <1>1. UNCHANGED <<client, desk, store, policy, vault, profiles, active, ui>> /\ op.at = "load"
    BY DEF LoadDesired, bridge
  <1>2. PICK on \in BOOLEAN : on = service.desired
    BY Facts DEF Service
  <1>3. PICK idle \in BOOLEAN :
          idle <=> service.status \in (IF on THEN {"Starting", "Running"} ELSE {"Disabled"})
    <2>1. CASE service.status \in (IF on THEN {"Starting", "Running"} ELSE {"Disabled"})
      BY <2>1
    <2>2. CASE service.status \notin (IF on THEN {"Starting", "Running"} ELSE {"Disabled"})
      BY <2>2
    <2> QED BY <2>1, <2>2
  <1>4. PICK at \in {"compare", "bind", "withdraw"} :
          /\ at = IF idle THEN "compare" ELSE IF on THEN "bind" ELSE "withdraw"
          /\ op' = [op EXCEPT !.wants = on, !.at = at]
    BY <1>2, <1>3 DEF LoadDesired
  <1>5. op' \in Operation /\ op'.at = at
    BY <1>4, Facts DEF Operation
  <1>6. ~service.cancel /\ service.loop \in {"none", "accepting"}
        /\ (service.loop = "accepting" => service.status = "Running")
        /\ (service.status = "Disabled" => service.loop = "none")
    BY <1>1 DEF Inv, Locked
  <1>7. CASE idle
    <2>1. service' = service
      BY <1>2, <1>3, <1>7 DEF LoadDesired
    <2>2. Locked'
      BY <1>4, <1>5, <1>6, <1>7, <2>1 DEF Locked
    <2> QED BY <1>1, <1>5, <2>1, <2>2, Facts, QuietLemma
  <1>8. CASE ~idle /\ on
    <2>1. service' = [service EXCEPT !.status = "Starting"]
      BY <1>2, <1>3, <1>8 DEF LoadDesired
    <2>2. service' \in Service /\ service'.status = "Starting" /\ service'.loop = service.loop
          /\ service'.cancel = service.cancel
      BY <2>1, Facts DEF Service
    <2>3. service.loop = "none"
      BY <1>3, <1>6, <1>8
    <2>4. Locked'
      BY <1>4, <1>5, <1>6, <1>8, <2>2, <2>3 DEF Locked
    <2> QED BY <1>1, <1>5, <2>2, <2>4, Facts, QuietLemma
  <1>9. CASE ~idle /\ ~on
    <2>1. service' = [service EXCEPT !.status = "Stopping", !.cancel = @ \/ service.loop # "none"]
      BY <1>2, <1>3, <1>9 DEF LoadDesired
    <2>2. PICK cancel \in BOOLEAN : service' = [service EXCEPT !.status = "Stopping", !.cancel = cancel]
      BY <2>1
    <2>3. service' \in Service /\ service'.status = "Stopping" /\ service'.loop = service.loop
      BY <2>2, Facts DEF Service
    <2>4. Locked'
      BY <1>4, <1>5, <1>9, <2>3 DEF Locked
    <2> QED BY <1>1, <1>5, <2>3, <2>4, Facts, QuietLemma
  <1> QED BY <1>7, <1>8, <1>9

\* The listener is bound, only where there was none: nobody is served yet.
LEMMA BindStep ==
  ASSUME Inv, Bind
  PROVE  Inv'
  <1>1. UNCHANGED <<client, desk, store, policy, vault, profiles, active, ui>> /\ op.at = "bind"
        /\ op' = [op EXCEPT !.at = "compare"]
    BY DEF Bind, bridge
  <1>2. op' \in Operation /\ op'.at = "compare"
    BY <1>1, Facts DEF Operation
  <1>3. service.loop = "none" /\ ~service.cancel /\ active = 0 /\ Alive = {}
    BY <1>1 DEF Inv, Locked, Counts
  <1>4. CASE service' = [service EXCEPT !.loop = "accepting", !.cancel = FALSE, !.status = "Running"]
    <2>1. service' \in Service /\ service'.loop = "accepting" /\ ~service'.cancel /\ service'.status = "Running"
      BY <1>4, Facts DEF Service
    <2>2. Locked'
      BY <1>2, <2>1 DEF Locked
    <2> QED BY <1>1, <1>2, <1>3, <2>1, <2>2, Facts, QuietLemma
  <1>5. CASE service' = [service EXCEPT !.status = "Error"]
    <2>1. service' \in Service /\ service'.loop = service.loop /\ service'.cancel = service.cancel
          /\ service'.status = "Error"
      BY <1>5, Facts DEF Service
    <2>2. Locked'
      BY <1>2, <1>3, <2>1 DEF Locked
    <2> QED BY <1>1, <1>2, <1>3, <2>1, <2>2, Facts, QuietLemma
  <1> QED BY <1>4, <1>5 DEF Bind

\* The accept loop has ended, so no task is left when the count is reset.
LEMMA JoinStep ==
  ASSUME Inv, Join
  PROVE  Inv'
  <1>1. UNCHANGED <<client, desk, store, policy, vault, profiles, ui>> /\ active' = 0
        /\ op' = [op EXCEPT !.at = "compare"] /\ service.loop \in {"none", "ended"}
        /\ service' = [service EXCEPT !.loop = "none", !.cancel = FALSE, !.status = "Disabled"]
    BY DEF Join
  <1>2. op' \in Operation /\ op'.at = "compare"
    BY <1>1, Facts DEF Operation
  <1>3. service' \in Service /\ service'.loop = "none" /\ ~service'.cancel /\ service'.status = "Disabled"
    BY <1>1, Facts DEF Service
  <1>4. Locked'
    BY <1>2, <1>3 DEF Locked
  <1> QED BY <1>1, <1>2, <1>3, <1>4, Facts, QuietLemma

\* The switch is moved, or publish_running replaces the status it read before.
LEMMA SwitchSteps ==
  ASSUME Inv, Toggle \/ SendRunning
  PROVE  Inv'
  <1>1. UNCHANGED <<client, desk, store, policy, vault, profiles, active>>
    BY DEF Toggle, SendRunning, bridge
  <1>2. CASE Toggle
    <2>1. ui' = [ui EXCEPT !.changes = @ + 1] /\ op' = [op EXCEPT !.queued = @ + 1]
          /\ service' = [service EXCEPT !.desired = ~@]
      BY <1>2 DEF Toggle
    <2>2. ui' \in Interface
      BY <2>1, Facts DEF Interface
    <2>3. op' \in Operation /\ op'.at = op.at
      BY <2>1, Facts DEF Operation
    <2>4. PICK on \in BOOLEAN : service' = [service EXCEPT !.desired = on]
      BY <2>1
    <2>5. service' \in Service /\ service'.loop = service.loop /\ service'.cancel = service.cancel
          /\ service'.status = service.status
      BY <2>4, Facts DEF Service
    <2>6. Locked'
      BY <2>3, <2>5 DEF Inv, Locked
    <2> QED BY <1>1, <2>2, <2>3, <2>5, <2>6, Facts, QuietLemma
  <1>3. CASE SendRunning
    <2>1. ui' = [ui EXCEPT !.at = "idle"] /\ op' = op /\ service' = [service EXCEPT !.status = "Running"]
      BY <1>3 DEF SendRunning
    <2>2. ui' \in Interface
      BY <2>1, Facts DEF Interface
    <2>3. service' \in Service /\ service'.loop = service.loop /\ service'.cancel = service.cancel
          /\ service'.status = "Running"
      BY <2>1, Facts DEF Service
    <2>4. Locked'
      BY <2>1, <2>3 DEF Inv, Locked
    <2> QED BY <1>1, <2>1, <2>2, <2>3, <2>4, Facts, QuietLemma
  <1> QED BY <1>2, <1>3

\* refresh_routes replaces the snapshot of the hosts and reads the status.
LEMMA RouteSteps ==
  ASSUME Inv, RefreshRoutes \/ PublishRunning
  PROVE  Inv'
  <1>1. UNCHANGED <<client, desk, store, policy, vault, active, service, op>>
    BY DEF RefreshRoutes, PublishRunning, bridge, control
  <1>2. Locked'
    BY <1>1 DEF Inv, Locked
  <1>3. CASE RefreshRoutes
    <2>1. ui' = [ui EXCEPT !.at = "withdraw", !.changes = @ + 1]
      BY <1>3 DEF RefreshRoutes
    <2>2. ui' \in Interface
      <3>1. ui \in Interface
        BY Facts
      <3>2. PICK n \in Nat : n = ui.changes + 1
        BY <3>1 DEF Interface
      <3>3. ui' = [ui EXCEPT !.at = "withdraw", !.changes = n]
        BY <2>1, <3>2
      <3> QED BY <3>1, <3>3 DEF Interface
    <2>3. PICK c \in DOMAIN ui.scenario.clients :
            profiles' = IF client[c].profile \in profiles THEN profiles \ {client[c].profile}
                        ELSE profiles \cup {client[c].profile}
      BY <1>3 DEF RefreshRoutes
    <2>4. c \in Client
      BY Facts, BridgeAssumption DEF Interface
    <2>5. client[c].profile \in Profile
      BY <2>4 DEF Inv, TypeOK, Task
    <2>6. profiles' \subseteq Profile
      BY <2>3, <2>5, Facts
    <2> QED BY <1>1, <1>2, <2>2, <2>6, Facts, QuietLemma
  <1>4. CASE PublishRunning
    <2>1. PICK at \in {"send", "idle"} : profiles' = profiles /\ ui' = [ui EXCEPT !.at = at]
      BY <1>4 DEF PublishRunning
    <2>2. ui' \in Interface
      <3>1. ui \in Interface
        BY Facts
      <3> QED BY <2>1, <3>1 DEF Interface
    <2> QED BY <1>1, <1>2, <2>1, <2>2, Facts, QuietLemma
  <1> QED BY <1>3, <1>4

\* A step that leaves the listener, and where its tasks are, alone.
LEMMA MailLemma ==
  ASSUME Inv, client' \in [Client -> Task],
         \A c \in Client : client'[c].profile = client[c].profile /\ client'[c].at = client[c].at,
         desk' \in [Client -> Mail], Limits(desk'), store' \in Policy, policy' \in Policy,
         vault' \in [open : BOOLEAN, gen : Nat],
         \A c \in Client : Good(client'[c], desk'[c], store', policy', vault'),
         UNCHANGED <<active, service, profiles>>, op' \in Operation, ui' \in Interface, Locked'
  PROVE  Inv'
  <1>1. TypeOK'
    BY DEF Inv, TypeOK, Mail, Operation, Interface
  <1>2. Limits(desk)'
    BY LimitsNext
  <1>3. Alive' = Alive
    BY DEF Alive
  <1>4. Counts'
    BY <1>3 DEF Inv, Counts
  <1> QED BY <1>1, <1>2, <1>4 DEF Inv

\* Entries are withdrawn from the page.
LEMMA WithdrawsLemma ==
  ASSUME Inv, NEW S \in SUBSET Shown(desk), NEW why \in Event \ Decision
  PROVE  /\ Withdrawn(desk, S, why) \in [Client -> Mail] /\ Limits(Withdrawn(desk, S, why))
         /\ \A c \in Client : Good(client[c], Withdrawn(desk, S, why)[c], store, policy, vault)
  <1>1. desk \in [Client -> Mail]
    BY DEF Inv, TypeOK, Mail
  <1>2. PICK d : d = Withdrawn(desk, S, why)
    OBVIOUS
  <1>3. /\ d \in [Client -> Mail] /\ Shown(d) \subseteq Shown(desk)
        /\ \A c \in Client : d[c] = IF c \in S THEN [entry |-> None, events |-> Append(desk[c].events, why)]
                                    ELSE desk[c]
    <2>1. /\ d \in [Client -> [entry : Entry \cup {None}, events : Seq(Event)]] /\ Shown(d) \subseteq Shown(desk)
          /\ \A c \in Client : d[c] = IF c \in S THEN [entry |-> None, events |-> Append(desk[c].events, why)]
                                      ELSE desk[c]
      BY <1>1, <1>2, WithdrawnLemma
    <2> QED BY <2>1 DEF Mail
  <1>4. Limits(d)
    BY <1>3, LimitsLemma DEF Inv
  <1>5. ASSUME NEW c \in Client
        PROVE  Good(client[c], d[c], store, policy, vault)
    <2>1. Good(client[c], desk[c], store, policy, vault) /\ desk[c] \in Mail
      BY <1>1 DEF Inv
    <2>2. CASE c \in S
      <3>1. desk[c].entry # None
        BY <2>2 DEF Shown
      <3> QED BY <1>3, <2>1, <2>2, <3>1, WithdrawGood
    <2>3. CASE c \notin S
      BY <1>3, <2>1, <2>3
    <2> QED BY <2>2, <2>3
  <1> QED BY <1>2, <1>3, <1>4, <1>5

\* The accept loop aborts its tasks after seven seconds and ends: none is left, nor their entries.
LEMMA AbortStep ==
  ASSUME Inv, Abort
  PROVE  Inv'
  <1>1. /\ UNCHANGED <<store, policy, active, profiles, vault, op, ui>>
        /\ service.loop = "draining" /\ service' = [service EXCEPT !.loop = "ended"]
        /\ client' = [c \in Client |-> IF c \in Alive THEN Idle(client[c].profile, "done") ELSE client[c]]
        /\ desk' = [c \in Client |-> IF c \in Alive THEN NoMail ELSE desk[c]]
    BY DEF Abort
  <1>2. service' \in Service /\ service'.loop = "ended" /\ service'.status = service.status
        /\ service'.cancel = service.cancel
    BY <1>1, Facts DEF Service
  <1>3. Locked'
    BY <1>1, <1>2 DEF Inv, Locked
  <1>4. vault.gen \in Nat /\ client \in [Client -> Task] /\ desk \in [Client -> Mail]
    BY DEF Inv, TypeOK, Mail
  <1>5. ASSUME NEW c \in Client
        PROVE  /\ client'[c] \in Task /\ desk'[c] \in Mail
               /\ client'[c].profile = client[c].profile
               /\ c \in Alive => client'[c].at = "done" /\ desk'[c].entry = None
               /\ c \notin Alive => client'[c] = client[c] /\ desk'[c] = desk[c]
               /\ Good(client'[c], desk'[c], store', policy', vault')
    <2>1. client[c].profile \in Profile /\ client[c] \in Task /\ desk[c] \in Mail
      BY <1>4 DEF Task
    <2>2. CASE c \in Alive
      <3>1. client'[c] = Idle(client[c].profile, "done") /\ desk'[c] = NoMail
        BY <1>1, <2>2
      <3> QED BY <1>1, <1>4, <2>1, <2>2, <3>1, IdleLemma, NoMailLemma
    <2>3. CASE c \notin Alive
      <3>1. client'[c] = client[c] /\ desk'[c] = desk[c]
        BY <1>1, <2>3
      <3>2. Good(client[c], desk[c], store, policy, vault)
        BY DEF Inv
      <3> QED BY <1>1, <2>1, <2>3, <3>1, <3>2
    <2> QED BY <2>2, <2>3
  <1>6. client' \in [Client -> Task] /\ desk' \in [Client -> Mail]
    BY <1>1, <1>5
  <1>7. Alive' = {}
    <2>1. \A c \in Client : client'[c].at \notin Awaiting \cup Running
      BY <1>5 DEF Alive, Awaiting, Running
    <2> QED BY <2>1 DEF Alive
  <1>8. Limits(desk)'
    <2>1. Shown(desk') \subseteq Shown(desk)
      BY <1>5 DEF Shown
    <2>2. Limits(desk')
      BY <2>1, LimitsLemma DEF Inv
    <2> QED BY <1>5, <2>2, LimitsNext
  <1>9. TypeOK'
    BY <1>1, <1>2, <1>6 DEF Inv, TypeOK, Mail, Service
  <1>10. Counts'
    BY <1>2, <1>7 DEF Counts
  <1> QED BY <1>3, <1>5, <1>8, <1>9, <1>10 DEF Inv

\* All requests, or those for deleted hosts, are withdrawn with their reason.
LEMMA WithdrawSteps ==
  ASSUME Inv, WithdrawAll \/ WithdrawMissing
  PROVE  Inv'
  <1>1. UNCHANGED <<store, policy, client, active, profiles, vault, service>>
    BY DEF WithdrawAll, WithdrawMissing, control
  <1>2. PICK S \in SUBSET Shown(desk), why \in Event \ Decision : desk' = Withdrawn(desk, S, why)
    <2>1. CASE WithdrawAll
      <3>1. "ServiceStopping" \in Event \ Decision
        BY DEF Event, Decision
      <3>2. desk' = Withdrawn(desk, Shown(desk), "ServiceStopping")
        BY <2>1 DEF WithdrawAll
      <3> QED BY <3>1, <3>2
    <2>2. CASE WithdrawMissing
      <3>1. "ProfileUnavailable" \in Event \ Decision
        BY DEF Event, Decision
      <3>2. desk' = Withdrawn(desk, {c \in Shown(desk) : client[c].profile \notin profiles}, "ProfileUnavailable")
        BY <2>2 DEF WithdrawMissing
      <3>3. {c \in Shown(desk) : client[c].profile \notin profiles} \in SUBSET Shown(desk)
        OBVIOUS
      <3> QED BY <3>1, <3>2, <3>3
    <2> QED BY <2>1, <2>2
  <1>3. op' \in Operation /\ ui' \in Interface /\ Locked'
    <2>1. CASE WithdrawAll
      <3>1. op' = [op EXCEPT !.at = "join"] /\ ui' = ui
        BY <2>1 DEF WithdrawAll
      <3>2. op' \in Operation /\ op'.at = "join"
        BY <3>1, Facts DEF Operation
      <3>3. Locked'
        BY <1>1, <3>2 DEF Inv, Locked
      <3> QED BY <3>1, <3>2, <3>3, Facts
    <2>2. CASE WithdrawMissing
      <3>1. ui' = [ui EXCEPT !.at = "publish"] /\ op' = op
        BY <2>2 DEF WithdrawMissing, control
      <3>2. ui \in Interface
        BY Facts
      <3>3. ui' \in Interface
        BY <3>1, <3>2 DEF Interface
      <3>4. Locked'
        BY <1>1, <3>1 DEF Inv, Locked
      <3> QED BY <3>1, <3>3, <3>4, Facts
    <2> QED BY <2>1, <2>2
  <1>4. /\ desk' \in [Client -> Mail] /\ Limits(desk')
        /\ \A c \in Client : Good(client[c], desk'[c], store, policy, vault)
    BY <1>2, WithdrawsLemma
  <1>5. client \in [Client -> Task] /\ store \in Policy /\ policy \in Policy /\ vault \in [open : BOOLEAN, gen : Nat]
    BY DEF Inv, TypeOK
  <1> QED BY <1>1, <1>3, <1>4, <1>5, MailLemma

\* What the user does to the requests happens in the user interface alone.
LEMMA AsideLemma ==
  ASSUME Inv, UNCHANGED <<service, op, ui>>
  PROVE  Locked' /\ op' \in Operation /\ ui' \in Interface
  BY Facts DEF Inv, Locked

\* A new policy, here or by another instance: no request of an older generation can be taken for one of the new.
LEMMA PolicySteps ==
  ASSUME Inv, NEW l \in ui.scenario.levels, SetPolicy(l) \/ OtherInstance(l)
  PROVE  Inv'
  <1>1. UNCHANGED <<client, active, profiles, vault, service, op, ui>>
    BY DEF SetPolicy, OtherInstance, control
  <1>2. client \in [Client -> Task] /\ store \in Policy /\ policy \in Policy /\ vault \in [open : BOOLEAN, gen : Nat]
        /\ desk \in [Client -> Mail] /\ store.gen \in Nat
    BY DEF Inv, TypeOK, Mail, Policy
  <1>3. PICK z : z = [level |-> l, gen |-> store.gen + 1]
    OBVIOUS
  <1>4. l \in Level
    <2>1. ui.scenario \in Scenarios
      BY Facts DEF Interface
    <2> QED BY <2>1, BridgeAssumption DEF Level
  <1>5. z \in Policy /\ z.gen = store.gen + 1
    BY <1>2, <1>3, <1>4 DEF Policy
  <1>6. CASE SetPolicy(l)
    <2>1. store' = z /\ policy' = z /\ desk' = Current(desk, z)
      BY <1>3, <1>6 DEF SetPolicy
    <2>2. "PolicyChanged" \in Event \ Decision
      BY DEF Event, Decision
    <2>3. desk' \in [Client -> Mail] /\ Shown(desk') \subseteq Shown(desk)
      BY <1>2, <2>1, <2>2, WithdrawnLemma DEF Current, Mail
    <2>4. Limits(desk')
      BY <2>3, LimitsLemma DEF Inv
    <2>5. ASSUME NEW c \in Client
          PROVE  Good(client[c], desk'[c], z, z, vault)
      <3>1. client[c] \in Task /\ Good(client[c], desk[c], store, policy, vault)
        BY <1>2 DEF Inv
      <3> QED BY <1>2, <1>5, <2>1, <3>1, CurrentLemma
    <2> QED BY <1>1, <1>2, <1>5, <2>1, <2>3, <2>4, <2>5, AsideLemma, MailLemma
  <1>7. CASE OtherInstance(l)
    <2>1. store' = z /\ policy' = policy /\ desk' = desk
      BY <1>3, <1>7 DEF OtherInstance
    <2>2. ASSUME NEW c \in Client
          PROVE  Good(client[c], desk[c], z, policy, vault)
      <3>1. client[c].gen \in Nat /\ Good(client[c], desk[c], store, policy, vault)
        BY <1>2 DEF Inv, Task
      <3>2. client[c].gen <= store.gen => client[c].gen <= z.gen /\ client[c].gen # z.gen
        BY <1>2, <1>5, <3>1
      <3>3. Consent(client[c], desk[c], z)
        BY <3>1, <3>2 DEF Good, Consent
      <3> QED BY <3>1, <3>3 DEF Good
    <2> QED BY <1>1, <1>2, <1>5, <2>1, <2>2, AsideLemma, MailLemma DEF Inv
  <1> QED BY <1>6, <1>7

\* replace_secrets makes a new generation, which no task knows of yet.
LEMMA SecretsStep ==
  ASSUME Inv, ReplaceSecrets
  PROVE  Inv'
  <1>1. UNCHANGED <<store, policy, desk, client, active, profiles, service, op, ui>>
    BY DEF ReplaceSecrets, bridge, control
  <1>2. client \in [Client -> Task] /\ store \in Policy /\ policy \in Policy /\ vault \in [open : BOOLEAN, gen : Nat]
        /\ desk \in [Client -> Mail] /\ vault.gen \in Nat
    BY DEF Inv, TypeOK, Mail
  <1>3. PICK open \in BOOLEAN : vault' = [open |-> open, gen |-> vault.gen + 1]
    BY DEF ReplaceSecrets
  <1>4. vault' \in [open : BOOLEAN, gen : Nat] /\ vault'.gen = vault.gen + 1
    BY <1>2, <1>3
  <1>5. ASSUME NEW c \in Client
        PROVE  Good(client[c], desk[c], store, policy, vault')
    <2>1. client[c].seen \in Nat /\ Good(client[c], desk[c], store, policy, vault)
      BY <1>2 DEF Inv, Task
    <2>2. client[c].seen <= vault'.gen /\ client[c].seen # vault'.gen
      BY <1>2, <1>4, <2>1 DEF Good, Wakes
    <2> QED BY <2>1, <2>2 DEF Good, Wakes
  <1> QED BY <1>1, <1>2, <1>4, <1>5, AsideLemma, MailLemma DEF Inv

\* The invariant looks at what decides the fate of a request, not at history.
LEMMA SameGood ==
  ASSUME NEW x, NEW y, NEW m, NEW s, NEW p, NEW v, Good(x, m, s, p, v),
         y.at = x.at, y.waits = x.waits, y.unlocking = x.unlocking, y.gen = x.gen,
         y.level = x.level, y.seen = x.seen, y.allowed = x.allowed
  PROVE  Good(y, m, s, p, v)
  <1>1. Waiter(y, m, p)
    BY DEF Good, Waiter
  <1>2. Consent(y, m, s)
    BY DEF Good, Consent
  <1>3. Wakes(y, v)
    BY DEF Good, Wakes
  <1> QED BY <1>1, <1>2, <1>3 DEF Good

\* cancel_pending_request: the entry goes and leaves its reason.
LEMMA CancelStep ==
  ASSUME Inv, NEW c \in Client, CancelRequest(c)
  PROVE  Inv'
  <1>1. /\ UNCHANGED <<store, policy, active, profiles, vault, service, op, ui>>
        /\ c \in Shown(desk) /\ desk' = Withdrawn(desk, {c}, "UserCancelled")
        /\ client' = [client EXCEPT ![c].cancelled = TRUE]
    BY DEF CancelRequest, control
  <1>2. client \in [Client -> Task] /\ store \in Policy /\ policy \in Policy /\ vault \in [open : BOOLEAN, gen : Nat]
    BY DEF Inv, TypeOK
  <1>3. "UserCancelled" \in Event \ Decision /\ {c} \in SUBSET Shown(desk)
    BY <1>1 DEF Event, Decision
  <1>4. /\ desk' \in [Client -> Mail] /\ Limits(desk')
        /\ \A b \in Client : Good(client[b], desk'[b], store, policy, vault)
    BY <1>1, <1>3, WithdrawsLemma
  <1>5. PICK x : x = [client[c] EXCEPT !.cancelled = TRUE]
    OBVIOUS
  <1>6. x \in Task /\ x.at = client[c].at /\ x.profile = client[c].profile /\ x.waits = client[c].waits
        /\ x.unlocking = client[c].unlocking /\ x.gen = client[c].gen /\ x.level = client[c].level
        /\ x.seen = client[c].seen /\ x.allowed = client[c].allowed
    BY <1>2, <1>5 DEF Task
  <1>7. client' = [client EXCEPT ![c] = x]
    BY <1>1, <1>2, <1>5
  <1>8. client' \in [Client -> Task] /\ client'[c] = x /\ \A b \in Client \ {c} : client'[b] = client[b]
    BY <1>2, <1>6, <1>7
  <1>9. Good(x, desk'[c], store, policy, vault)
    BY <1>4, <1>6, SameGood
  <1>10. \A b \in Client : Good(client'[b], desk'[b], store, policy, vault)
    BY <1>4, <1>8, <1>9
  <1>11. \A b \in Client : client'[b].profile = client[b].profile /\ client'[b].at = client[b].at
    BY <1>6, <1>8
  <1> QED BY <1>1, <1>2, <1>4, <1>8, <1>10, <1>11, AsideLemma, MailLemma

\* The user decides about a request of the policy it was made under.
LEMMA DecideStep ==
  ASSUME Inv, NEW c \in Client, NEW e \in Decision, Decide(c, e)
  PROVE  Inv'
  <1>1. /\ UNCHANGED <<store, policy, active, profiles, vault, service, op, ui>>
        /\ desk[c].entry # None
        /\ desk' = [desk EXCEPT ![c].entry.decided = TRUE, ![c].events = Append(@, e)]
        /\ client' = IF e = "Reject" THEN client
                     ELSE [client EXCEPT ![c].allowed = desk[c].entry.gen + 1]
    BY DEF Decide, control, Shown
  <1>2. client \in [Client -> Task] /\ store \in Policy /\ policy \in Policy /\ vault \in [open : BOOLEAN, gen : Nat]
        /\ desk \in [Client -> Mail] /\ desk[c] \in Mail /\ client[c] \in Task
    BY DEF Inv, TypeOK, Mail
  <1>3. Good(client[c], desk[c], store, policy, vault)
    BY DEF Inv
  <1>4. desk[c].entry \in Entry /\ desk[c].events \in Seq(Event)
    BY <1>1, <1>2 DEF Mail
  <1>5. PICK f : f = [desk[c].entry EXCEPT !.decided = TRUE]
    OBVIOUS
  <1>6. f \in Entry /\ f.phase = desk[c].entry.phase /\ f.gen = desk[c].entry.gen /\ f # None
    <2>1. f \in Entry /\ f.phase = desk[c].entry.phase /\ f.gen = desk[c].entry.gen
      BY <1>4, <1>5 DEF Entry
    <2> QED BY <2>1, NoneAssumption
  <1>7. PICK n : n = [entry |-> f, events |-> Append(desk[c].events, e)]
    OBVIOUS
  <1>8. n.entry = f /\ n.events = Append(desk[c].events, e) /\ n.events \in Seq(Event)
    BY <1>4, <1>7 DEF Event
  <1>9. n \in Mail
    BY <1>4, <1>6, <1>7, <1>8 DEF Mail
  <1>10. desk' = [desk EXCEPT ![c] = n]
    <2>1. PICK m : m = [desk[c] EXCEPT !.entry = f]
      OBVIOUS
    <2>2. m \in Mail /\ m.entry = f /\ m.events = desk[c].events
      BY <1>2, <1>6, <2>1 DEF Mail
    <2>3. PICK d : d = [desk EXCEPT ![c] = m]
      OBVIOUS
    <2>4. d = [desk EXCEPT ![c].entry.decided = TRUE]
      BY <1>2, <1>5, <2>1, <2>3
    <2>5. desk' = [d EXCEPT ![c].events = Append(@, e)]
      BY <1>1, <2>4
    <2>6. d[c] = m /\ d \in [Client -> Mail]
      BY <1>2, <2>2, <2>3
    <2>7. [m EXCEPT !.events = Append(desk[c].events, e)] = n
      <3>1. PICK k : k = Append(desk[c].events, e)
        OBVIOUS
      <3>2. m = [entry |-> f, events |-> m.events]
        BY <2>2 DEF Mail
      <3>3. n = [entry |-> f, events |-> k]
        BY <1>7, <3>1
      <3>4. [m EXCEPT !.events = k] = [entry |-> f, events |-> k]
        BY <3>2
      <3> QED BY <3>1, <3>3, <3>4
    <2>8. desk' = [d EXCEPT ![c] = n]
      BY <2>2, <2>5, <2>6, <2>7
    <2> QED BY <1>2, <2>3, <2>8
  <1>11. desk' \in [Client -> Mail] /\ desk'[c] = n /\ \A b \in Client \ {c} : desk'[b] = desk[b]
    BY <1>2, <1>9, <1>10
  <1>12. Shown(desk') \subseteq Shown(desk)
    BY <1>1, <1>11 DEF Shown
  <1>13. Limits(desk')
    BY <1>12, LimitsLemma DEF Inv
  <1>14. PICK allowed \in Nat :
           /\ allowed = IF e = "Reject" THEN client[c].allowed ELSE desk[c].entry.gen + 1
           /\ client' = [client EXCEPT ![c] = [client[c] EXCEPT !.allowed = allowed]]
    <2>1. CASE e = "Reject"
      <3>1. client[c].allowed \in Nat /\ [client[c] EXCEPT !.allowed = client[c].allowed] = client[c]
        BY <1>2 DEF Task
      <3>2. client' = [client EXCEPT ![c] = client[c]]
        BY <1>1, <1>2, <2>1
      <3> QED BY <2>1, <3>1, <3>2
    <2>2. CASE e # "Reject"
      <3>1. desk[c].entry.gen + 1 \in Nat
        BY <1>4 DEF Entry
      <3>2. client' = [client EXCEPT ![c] = [client[c] EXCEPT !.allowed = desk[c].entry.gen + 1]]
        BY <1>1, <1>2, <2>2
      <3> QED BY <2>2, <3>1, <3>2
    <2> QED BY <2>1, <2>2
  <1>15. PICK x : x = [client[c] EXCEPT !.allowed = allowed]
    OBVIOUS
  <1>16. x \in Task /\ x.at = client[c].at /\ x.profile = client[c].profile /\ x.waits = client[c].waits
         /\ x.unlocking = client[c].unlocking /\ x.gen = client[c].gen /\ x.level = client[c].level
         /\ x.seen = client[c].seen /\ x.allowed = allowed
    BY <1>2, <1>14, <1>15 DEF Task
  <1>17. client' \in [Client -> Task] /\ client'[c] = x /\ \A b \in Client \ {c} : client'[b] = client[b]
    BY <1>2, <1>14, <1>15, <1>16
  <1>18. desk[c].entry.gen = client[c].gen
    BY <1>1, <1>3 DEF Good, Waiter
  <1>19. allowed = client[c].allowed \/ allowed = client[c].gen + 1
    BY <1>14, <1>18
  <1>20. Good(x, n, store, policy, vault)
    <2>1. Waiter(x, n, policy)
      <3>1. client[c].waits
        BY <1>1, <1>3, NoMailLemma DEF Good, Waiter
      <3> QED BY <1>1, <1>3, <1>6, <1>8, <1>16, <3>1 DEF Good, Waiter
    <2>2. \A i \in DOMAIN n.events : n.events[i] \in Consents => x.allowed = x.gen + 1
      <3> SUFFICES ASSUME NEW i \in DOMAIN n.events, n.events[i] \in Consents
                   PROVE  allowed = client[c].gen + 1
        BY <1>16
      <3>1. CASE e = "Reject"
        <4>1. i \in DOMAIN desk[c].events /\ n.events[i] = desk[c].events[i]
          BY <1>4, <1>8, <3>1 DEF Consents
        <4>2. client[c].allowed = client[c].gen + 1
          BY <1>3, <4>1 DEF Good, Consent
        <4> QED BY <1>14, <3>1, <4>2
      <3>2. CASE e # "Reject"
        BY <1>14, <1>18, <3>2
      <3> QED BY <3>1, <3>2
    <2>3. Consent(x, n, store)
      <3>1. x.at \in Begun => x.level = "Standard" \/ x.allowed = x.gen + 1
        BY <1>3, <1>16, <1>19 DEF Good, Consent
      <3>2. x.at \in Asking \cup Begun \cup {"authorize"} =>
              x.gen <= store.gen /\ (x.gen = store.gen => x.level = store.level)
        BY <1>3, <1>16 DEF Good, Consent
      <3> QED BY <2>2, <3>1, <3>2 DEF Consent
    <2>4. Wakes(x, vault)
      BY <1>3, <1>16 DEF Good, Wakes
    <2> QED BY <2>1, <2>3, <2>4 DEF Good
  <1>21. \A b \in Client : Good(client'[b], desk'[b], store, policy, vault)
    BY <1>11, <1>17, <1>20 DEF Inv
  <1>22. \A b \in Client : client'[b].profile = client[b].profile /\ client'[b].at = client[b].at
    BY <1>16, <1>17
  <1> QED BY <1>1, <1>2, <1>11, <1>13, <1>17, <1>21, <1>22, AsideLemma, MailLemma
-----------------------------------------------------------------------------
(* The invariant and what follows from it.                                 *)

\* The application starts with the invariant.
LEMMA InitLemma ==
  ASSUME Init
  PROVE  Inv
  <1>1. PICK s \in Scenarios :
          /\ ui = [at |-> "idle", changes |-> 0, scenario |-> s]
          /\ store \in [level : s.levels, gen : {0}]
    BY DEF Init
  <1>2. ui \in Interface /\ ui.scenario = s
    BY <1>1 DEF Interface
  <1>3. store \in Policy /\ policy = store
    <2>1. s.levels \subseteq Level
      BY BridgeAssumption DEF Level
    <2> QED BY <1>1, <2>1 DEF Init, Policy
  <1>4. desk \in [Client -> Mail] /\ \A c \in Client : desk[c] = NoMail
    BY NoMailLemma DEF Init
  <1>5. vault \in [open : BOOLEAN, gen : Nat] /\ vault.gen = 0
    BY DEF Init
  <1>6. PICK first \in Profile : first = CHOOSE p \in Profile : TRUE
    BY BridgeAssumption
  <1>7. ASSUME NEW c \in Client
        PROVE  \E p \in Profile, at \in {"new", "done"} : client[c] = Idle(p, at)
    <2>1. client[c] = IF c \in DOMAIN s.clients THEN Idle(s.clients[c], "new") ELSE Idle(first, "done")
      BY <1>2, <1>6 DEF Init
    <2>2. CASE c \in DOMAIN s.clients
      <3>1. s.clients[c] \in Profile
        BY <2>2, BridgeAssumption
      <3> QED BY <2>1, <2>2, <3>1
    <2>3. CASE c \notin DOMAIN s.clients
      BY <2>1, <2>3
    <2> QED BY <2>2, <2>3
  <1>8. ASSUME NEW c \in Client
        PROVE  /\ client[c] \in Task /\ client[c].at \in {"new", "done"}
               /\ Good(client[c], desk[c], store, policy, vault)
    <2>1. PICK p \in Profile, at \in {"new", "done"} : client[c] = Idle(p, at)
      BY <1>7
    <2>2. vault.gen \in Nat /\ desk[c] = NoMail
      BY <1>4, <1>5
    <2> QED BY <2>1, <2>2, IdleLemma
  <1>9. client \in [Client -> Task]
    <2>1. client = [c \in Client |-> IF c \in DOMAIN s.clients THEN Idle(s.clients[c], "new")
                                     ELSE Idle(first, "done")]
      BY <1>2, <1>6 DEF Init
    <2> QED BY <1>8, <2>1
  <1>10. Alive = {}
    BY <1>8 DEF Alive, Awaiting, Running
  <1>11. Shown(desk) = {}
    BY <1>4, NoMailLemma DEF Shown
  <1>12. Limits(desk)
    <2>1. \A p \in Profile : OfProfile(desk, p) = {}
      BY <1>11 DEF OfProfile
    <2>2. MaxPending \in Nat /\ MaxPerProfile \in Nat /\ Cardinality({}) = 0
      BY BridgeAssumption, FS_EmptySet
    <2> QED BY <1>11, <2>1, <2>2 DEF Limits
  <1>13. PICK on \in BOOLEAN :
           /\ service = [desired |-> on, status |-> "Disabled", loop |-> "none", cancel |-> FALSE]
           /\ op = [at |-> "idle", wants |-> FALSE, queued |-> IF on THEN 1 ELSE 0]
    BY DEF Init
  <1>14. service \in Service /\ op \in Operation /\ service.loop = "none" /\ ~service.cancel
         /\ service.status = "Disabled" /\ op.at = "idle"
    <2>1. PICK n \in Nat : op = [at |-> "idle", wants |-> FALSE, queued |-> n]
      <3>1. CASE on
        BY <1>13, <3>1
      <3>2. CASE ~on
        BY <1>13, <3>2
      <3> QED BY <3>1, <3>2
    <2> QED BY <1>13, <2>1 DEF Service, Operation
  <1>15. active = 0 /\ active \in 0 .. MaxConnections /\ profiles = Profile
    BY BridgeAssumption DEF Init
  <1>16. TypeOK
    BY <1>2, <1>3, <1>4, <1>5, <1>9, <1>14, <1>15 DEF TypeOK, Mail, Service, Operation, Interface
  <1>17. Counts /\ Locked
    BY <1>10, <1>14, <1>15 DEF Counts, Locked
  <1> QED BY <1>8, <1>12, <1>16, <1>17 DEF Inv

\* Every step keeps the invariant.
LEMMA NextLemma ==
  ASSUME Inv, Next
  PROVE  Inv'
  <1>1. ASSUME NEW c \in Client,
               \/ Accept(c) \/ Serving(c) \/ Unsupported(c)
               \/ VaultLockedError(c) \/ Fails(c) \/ Leave(c)
        PROVE  Inv'
    <2>1. CASE Accept(c)
      BY <2>1, AcceptStep
    <2>2. CASE Unsupported(c) \/ VaultEvent(c) \/ Fails(c) \/ Leave(c) \/ Stopped(c)
      BY <2>2, EndSteps
    <2>3. CASE Request(c) \/ Authorize(c) \/ Decided(c) \/ PolicyTick(c)
      BY <2>3, RequestStep, AuthorizeStep, DecidedStep, TickStep
    <2>4. CASE Subscribe(c) \/ Loop(c)
      BY <2>4, SubscribeStep
    <2>5. CASE Read(c) \/ VaultLockedError(c) \/ SecretsChanged(c)
      BY <2>5, MoveStep
    <2>6. CASE Connect(c) \/ Connected(c) \/ AwaitUnlock(c)
      BY <2>6, ConnectStep, ConnectedStep, UnlockStep
    <2> QED BY <1>1, <2>1, <2>2, <2>3, <2>4, <2>5, <2>6 DEF Serving
  <1>2. CASE ServiceStep
    BY <1>2, LoopSteps, AbortStep, LockSteps, LoadStep, BindStep, WithdrawSteps, JoinStep DEF ServiceStep
  <1>3. CASE PublishStep
    BY <1>3, WithdrawSteps, RouteSteps, SwitchSteps DEF PublishStep
  <1>4. CASE UserStep
    <2>1. CASE Toggle \/ RefreshRoutes \/ ReplaceSecrets
      BY <2>1, SwitchSteps, RouteSteps, SecretsStep
    <2>2. ASSUME NEW l \in ui.scenario.levels, SetPolicy(l) \/ OtherInstance(l)
          PROVE  Inv'
      BY <2>2, PolicySteps
    <2>3. ASSUME NEW c \in Client, CancelRequest(c) \/ \E e \in Decision : Decide(c, e)
          PROVE  Inv'
      BY <2>3, CancelStep, DecideStep
    <2> QED BY <1>4, <2>1, <2>2, <2>3 DEF UserStep
  <1> QED BY <1>1, <1>2, <1>3, <1>4 DEF Next

\* A step that changes nothing keeps the invariant.
LEMMA StutterLemma ==
  ASSUME Inv, UNCHANGED vars
  PROVE  Inv'
  <1>1. UNCHANGED <<store, policy, desk, client, active, profiles, vault, service, op, ui>>
    BY DEF vars, bridge, control
  <1>2. Locked'
    BY <1>1 DEF Inv, Locked
  <1> QED BY <1>1, <1>2, Facts, QuietLemma

\* The inductive invariant holds in every reachable state.
THEOREM Invariant == Spec => []Inv
  <1>1. Inv /\ [Next]_vars => Inv'
    BY NextLemma, StutterLemma
  <1> QED BY <1>1, InitLemma, PTL DEF Spec

\* Every variable of the bridge keeps its type; active_connections stays
\* between 0 and the size of the semaphore.
THEOREM TypeCorrect == Spec => []TypeOK
  <1>1. Inv => TypeOK
    BY DEF Inv
  <1> QED BY <1>1, Invariant, PTL

\* Answerable: in every reachable state a task that waits has its entry on the
\* page or the event that took it from there, no entry outlives its task or its
\* policy, and MAX_PENDING_AUTHORIZATIONS and its share per host are kept.
THEOREM Answered == Spec => []Answerable
  <1>1. ASSUME Inv, NEW c \in Client
        PROVE  /\ client[c].at \in {"asked", "vault"} =>
                    desk[c].entry # None \/ desk[c].events # <<>>
               /\ desk[c].entry # None =>
                    /\ client[c].waits /\ c \in Alive
                    /\ At(c, "vault") => desk[c].entry.phase = "AwaitingVaultUnlock"
                    /\ At(c, "asked") => desk[c].entry.phase # "AwaitingVaultUnlock"
                    /\ desk[c].entry.gen = policy.gen
               /\ Cardinality(Shown(desk)) <= MaxPending
               /\ Cardinality({b \in Shown(desk) : client[b].profile = client[c].profile})
                    <= MaxPerProfile
    <2>1. Waiter(client[c], desk[c], policy) /\ client[c].profile \in Profile
      BY <1>1 DEF Inv, Good, TypeOK, Task
    <2>2. desk[c].entry # None => client[c].waits
      BY <2>1, NoMailLemma DEF Waiter
    <2>3. client[c].waits => c \in Alive
      BY <2>1 DEF Waiter, Asking, Alive, Awaiting, Running
    <2>4. /\ Cardinality(Shown(desk)) <= MaxPending
          /\ Cardinality(OfProfile(desk, client[c].profile)) <= MaxPerProfile
      BY <1>1, <2>1 DEF Inv, Limits
    <2>5. client[c].at \in {"asked", "vault"} => desk[c].entry # None \/ desk[c].events # <<>>
      BY <2>1 DEF Waiter
    <2>6. desk[c].entry # None =>
            /\ At(c, "vault") => desk[c].entry.phase = "AwaitingVaultUnlock"
            /\ At(c, "asked") => desk[c].entry.phase # "AwaitingVaultUnlock"
            /\ desk[c].entry.gen = policy.gen
      BY <2>1 DEF Waiter, At
    <2> QED BY <2>2, <2>3, <2>4, <2>5, <2>6 DEF OfProfile
  <1>2. Inv => Answerable
    BY <1>1 DEF Answerable
  <1> QED BY <1>2, Invariant, PTL

\* NoLostUnlock: no task waits for a change of the secrets that has already
\* happened, because it notes their generation before it reads them.
THEOREM NoUnlockLost == Spec => []NoLostUnlock
  <1>1. Inv => NoLostUnlock
    BY DEF Inv, Good, Wakes, NoLostUnlock, At
  <1> QED BY <1>1, Invariant, PTL

\* StoppedIsQuiet: once the accept loop has ended nobody is served and nothing
\* is pending, and active_connections is right while the bridge accepts.
THEOREM StoppedQuiet == Spec => []StoppedIsQuiet
  <1>1. ASSUME Inv
        PROVE  StoppedIsQuiet
    <2>1. ASSUME NEW c \in Shown(desk)
          PROVE  c \in Alive
      <3>1. Waiter(client[c], desk[c], policy) /\ desk[c].entry # None /\ c \in Client
        BY <1>1, <2>1 DEF Inv, Good, Shown
      <3>2. client[c].waits
        BY <3>1, NoMailLemma DEF Waiter
      <3> QED BY <3>1, <3>2 DEF Waiter, Asking, Alive, Awaiting, Running
    <2>2. service.loop \in {"none", "ended"} => Alive = {} /\ Shown(desk) = {}
      BY <1>1, <2>1 DEF Inv, Counts
    <2>3. service.loop = "accepting" => active = Cardinality(Alive)
      BY <1>1 DEF Inv, Counts
    <2>4. service.status = "Disabled" => active = 0
      BY <1>1 DEF Inv, Counts, Locked
    <2> QED BY <2>2, <2>3, <2>4 DEF StoppedIsQuiet
  <1> QED BY <1>1, Invariant, PTL

\* A step of one task that does not lead it to its connection leads no task there.
LEMMA ElsewhereLemma ==
  ASSUME Inv, NEW b \in Client, client[b].at # "connecting", NEW c \in Client, NEW x, NEW d,
         x.at # "connecting", Proceed(c, x, d) \/ Finish(c, d) \/ Ensure(c, x, d)
  PROVE  client'[b].at # "connecting"
  <1>1. client \in [Client -> Task]
    BY DEF Inv, TypeOK
  <1>2. Idle(client[c].profile, "done").at # "connecting"
    BY DEF Idle
  <1>3. PICK y : y.at # "connecting" /\ client' = [client EXCEPT ![c] = y]
    BY <1>2 DEF Proceed, Finish, Ensure
  <1> QED BY <1>1, <1>3

\* Only Connect leads to a connection, and only past the last look at the policy.
LEMMA OnlyConnect ==
  ASSUME Inv, Next, NEW b \in Client, client[b].at # "connecting", client'[b].at = "connecting"
  PROVE  client[b].at = "ready" /\ store.gen = client[b].gen
  <1>1. client \in [Client -> Task]
    BY DEF Inv, TypeOK
  <1>2. ASSUME NEW c \in Client, NEW x, NEW d, x.at # "connecting",
               Proceed(c, x, d) \/ Finish(c, d) \/ Ensure(c, x, d)
        PROVE  FALSE
    BY <1>2, ElsewhereLemma
  <1>3. ASSUME NEW c \in Client, NEW at \in Awaiting \cup Running
        PROVE  To(c, at) \in Task /\ To(c, at).at = at
    BY <1>1, <1>3, ToLemma
  <1>4. ASSUME NEW c \in Client, NEW phase, NEW x \in Task, x.at # "connecting", Insert(c, phase, x)
        PROVE  FALSE
    <2>1. PICK y : y = [x EXCEPT !.waits = TRUE]
      OBVIOUS
    <2>2. y.at # "connecting"
      BY <1>4, <2>1 DEF Task
    <2>3. \E d : Finish(c, d) \/ Ensure(c, y, d)
      BY <1>4, <2>1 DEF Insert
    <2> QED BY <1>2, <2>2, <2>3
  <1>5. ASSUME NEW c \in Client, Accept(c)
        PROVE  FALSE
    <2>1. client' = [client EXCEPT ![c].at = "accepted"] \/ client' = [client EXCEPT ![c].at = "done"]
      BY <1>5 DEF Accept
    <2>2. CASE b = c
      <3>1. client[b] \in Task
        BY <1>1
      <3>2. client'[b] = [client[b] EXCEPT !.at = "accepted"] \/ client'[b] = [client[b] EXCEPT !.at = "done"]
        BY <1>1, <2>1, <2>2
      <3>3. client'[b].at \in {"accepted", "done"}
        BY <3>1, <3>2 DEF Task
      <3> QED BY <3>3
    <2>3. CASE b # c
      BY <1>1, <2>1, <2>3
    <2> QED BY <2>2, <2>3
  <1>6. ASSUME NEW c \in Client, Request(c)
        PROVE  FALSE
    <2>1. PICK y : y = To(c, "authorize")
      OBVIOUS
    <2>2. y \in Task /\ y.at = "authorize"
      BY <1>3, <2>1 DEF Running
    <2>3. PICK x : x = [y EXCEPT !.level = store.level, !.gen = store.gen]
      OBVIOUS
    <2>4. x.at # "connecting"
      BY <2>2, <2>3 DEF Task
    <2>5. Proceed(c, x, Current(desk, store))
      BY <1>6, <2>1, <2>3 DEF Request
    <2> QED BY <1>2, <2>4, <2>5
  <1>7. ASSUME NEW c \in Client, Authorize(c)
        PROVE  FALSE
    <2>1. /\ To(c, "approved").at # "connecting"
          /\ To(c, "asked") \in Task /\ To(c, "asked").at # "connecting"
      BY <1>3 DEF Awaiting, Running
    <2>2. client[c].level \in Level
      BY <1>1 DEF Task
    <2>3. \/ Ensure(c, To(c, "approved"), Current(desk, store))
          \/ Insert(c, "AwaitingApproval", To(c, "asked"))
          \/ Insert(c, "AwaitingSystemAuth", To(c, "asked"))
      BY <1>7, <2>2 DEF Authorize, Level
    <2> QED BY <1>2, <1>4, <2>1, <2>3
  <1>8. ASSUME NEW c \in Client, Unsupported(c) \/ VaultEvent(c) \/ Fails(c) \/ Leave(c) \/ Stopped(c)
        PROVE  FALSE
    <2>1. Finish(c, desk)
      BY <1>8 DEF Unsupported, VaultEvent, Fails, Leave, Stopped
    <2>2. Idle(client[c].profile, "done").at # "connecting"
      BY DEF Idle
    <2> QED BY <1>2, <2>1, <2>2
  <1>9. ASSUME NEW c \in Client, Decided(c)
        PROVE  FALSE
    <2>1. To(c, "approved").at # "connecting"
      BY <1>3 DEF Running
    <2>2. \E d : Ensure(c, To(c, "approved"), d) \/ Finish(c, d)
      BY <1>9 DEF Decided
    <2> QED BY <1>2, <2>1, <2>2
  <1>10. ASSUME NEW c \in Client, PolicyTick(c)
         PROVE  FALSE
    <2>1. client[c].at # "connecting" /\ Ensure(c, client[c], Current(desk, store))
      BY <1>10 DEF PolicyTick
    <2> QED BY <1>2, <2>1
  <1>11. ASSUME NEW c \in Client, Subscribe(c) \/ SecretsChanged(c)
         PROVE  FALSE
    <2>1. PICK y : y = To(c, "loop")
      OBVIOUS
    <2>2. y \in Task /\ y.at = "loop"
      BY <1>3, <2>1 DEF Running
    <2>3. PICK x : x = [y EXCEPT !.seen = vault.gen]
      OBVIOUS
    <2>4. x.at # "connecting"
      BY <2>2, <2>3 DEF Task
    <2>5. \E d : Ensure(c, x, d) \/ Proceed(c, x, d)
      BY <1>11, <2>1, <2>3 DEF Subscribe, SecretsChanged
    <2> QED BY <1>2, <2>4, <2>5
  <1>12. ASSUME NEW c \in Client, Loop(c) \/ Read(c) \/ VaultLockedError(c) \/ Connected(c)
         PROVE  FALSE
    <2>1. PICK at, d :
            /\ at \in {"read", "ready", "locked", "active"}
            /\ Ensure(c, To(c, at), d) \/ Finish(c, d) \/ Proceed(c, To(c, at), d)
      <3>1. CASE Loop(c)
        BY <3>1 DEF Loop
      <3>2. CASE Read(c)
        <4>1. Finish(c, desk) \/ Proceed(c, To(c, "ready"), desk) \/ Proceed(c, To(c, "locked"), desk)
          BY <3>2 DEF Read
        <4> QED BY <4>1
      <3>3. CASE VaultLockedError(c)
        BY <3>3 DEF VaultLockedError
      <3>4. CASE Connected(c)
        BY <3>4 DEF Connected
      <3> QED BY <1>12, <3>1, <3>2, <3>3, <3>4
    <2>2. To(c, at).at # "connecting"
      BY <1>3, <2>1 DEF Awaiting, Running
    <2> QED BY <1>2, <2>1, <2>2
  <1>13. ASSUME NEW c \in Client, AwaitUnlock(c)
         PROVE  FALSE
    <2>1. PICK y : y = To(c, "vault")
      OBVIOUS
    <2>2. y \in Task /\ y.at = "vault"
      BY <1>3, <2>1 DEF Awaiting
    <2>3. PICK x : x = [y EXCEPT !.unlocking = TRUE]
      OBVIOUS
    <2>4. x \in Task /\ x.at # "connecting"
      BY <2>2, <2>3 DEF Task
    <2>5. \/ Insert(c, "AwaitingVaultUnlock", x)
          \/ \E d : Proceed(c, x, d) \/ Finish(c, d)
      BY <1>13, <2>1, <2>3 DEF AwaitUnlock, Transition
    <2> QED BY <1>2, <1>4, <2>4, <2>5
  <1>14. ASSUME NEW c \in Client, Connect(c)
         PROVE  client[b].at = "ready" /\ store.gen = client[b].gen
    <2>1. b = c
      <3>1. PICK y : client' = [client EXCEPT ![c] = y]
        BY <1>14 DEF Connect, Ensure, Proceed, Finish
      <3> QED BY <1>1, <3>1
    <2>2. CASE store.gen # client[c].gen
      <3>1. \E d : Finish(c, d)
        BY <1>14, <2>2 DEF Connect, Ensure
      <3>2. Idle(client[c].profile, "done").at # "connecting"
        BY DEF Idle
      <3> QED BY <1>2, <3>1, <3>2
    <2> QED BY <1>14, <2>1, <2>2 DEF Connect, At
  <1>15. ASSUME client' = client
         PROVE  FALSE
    BY <1>15
  <1>16. ASSUME Abort
         PROVE  FALSE
    <2>1. client'[b] = client[b] \/ client'[b] = Idle(client[b].profile, "done")
      BY <1>16 DEF Abort
    <2>2. Idle(client[b].profile, "done").at # "connecting"
      BY DEF Idle
    <2> QED BY <2>1, <2>2
  <1>17. ASSUME NEW c \in Client, NEW e \in Decision, Decide(c, e)
         PROVE  FALSE
    <2>1. PICK y : y = [client[c] EXCEPT !.allowed = desk[c].entry.gen + 1]
      OBVIOUS
    <2>2. y.at = client[c].at
      BY <1>1, <2>1 DEF Task
    <2>3. client' = client \/ client' = [client EXCEPT ![c] = y]
      BY <1>17, <2>1 DEF Decide
    <2> QED BY <1>1, <2>2, <2>3
  <1>18. ASSUME NEW c \in Client, CancelRequest(c)
         PROVE  FALSE
    <2>1. PICK y : y = [client[c] EXCEPT !.cancelled = TRUE]
      OBVIOUS
    <2>2. y.at = client[c].at
      BY <1>1, <2>1 DEF Task
    <2>3. client' = [client EXCEPT ![c] = y]
      BY <1>18, <2>1 DEF CancelRequest
    <2> QED BY <1>1, <2>2, <2>3
  <1>19. ServiceStep => Abort \/ client' = client
    BY DEF ServiceStep, StopAccepting, Drained, TakeLock, LoadDesired, Bind, WithdrawAll, Join, Compare, bridge
  <1>20. PublishStep => client' = client
    BY DEF PublishStep, WithdrawMissing, PublishRunning, SendRunning, bridge
  <1>21. \/ Toggle \/ RefreshRoutes \/ ReplaceSecrets
         \/ \E l \in ui.scenario.levels : SetPolicy(l) \/ OtherInstance(l)
         => client' = client
    BY DEF Toggle, RefreshRoutes, ReplaceSecrets, SetPolicy, OtherInstance, bridge
  <1>22. CASE \E c \in Client : \/ Accept(c) \/ Serving(c) \/ Unsupported(c)
                                \/ VaultLockedError(c) \/ Fails(c) \/ Leave(c)
    BY <1>5, <1>6, <1>7, <1>8, <1>9, <1>10, <1>11, <1>12, <1>13, <1>14, <1>22 DEF Serving
  <1>23. CASE ServiceStep \/ PublishStep
    BY <1>15, <1>16, <1>19, <1>20, <1>23
  <1>24. CASE UserStep
    BY <1>15, <1>17, <1>18, <1>21, <1>24 DEF UserStep
  <1> QED BY <1>22, <1>23, <1>24 DEF Next

\* ConnectsWithConsent: no connection begins without the consent that the
\* policy on disk at that moment asks for, whoever wrote it and whenever.
THEOREM ConsentFirst == Spec => ConnectsWithConsent
  <1>1. ASSUME Inv, [Next]_vars, NEW c \in Client, ~At(c, "connecting"), client'[c].at = "connecting"
        PROVE  store.level = "Standard" \/ client[c].allowed = store.gen + 1
    <2>1. Next
      BY <1>1 DEF vars, bridge, At
    <2>2. client[c].at = "ready" /\ store.gen = client[c].gen
      BY <1>1, <2>1, OnlyConnect DEF At
    <2>3. Consent(client[c], desk[c], store)
      BY <1>1 DEF Inv, Good
    <2> QED BY <2>2, <2>3 DEF Consent, Asking, Begun
  <1>2. Inv /\ [Next]_vars =>
          [\A c \in Client : ~At(c, "connecting") /\ client'[c].at = "connecting" =>
             store.level = "Standard" \/ client[c].allowed = store.gen + 1]_vars
    BY <1>1
  <1> QED BY <1>2, Invariant, PTL DEF Spec, ConnectsWithConsent

=============================================================================
