---------------------------- MODULE MCSyncEngine ----------------------------
(* Small instances of SyncEngine for TLC. *)
EXTENDS SyncEngine, TLC

\* Devices, contents, and remotes are interchangeable: no action or property names one.
Symmetry == Permutations(Device) \cup Permutations(Data)
              \cup Permutations(Resource)

Automatic == {"Automatic"}
One == {{d} : d \in Device}
Two == {{x, y} : x, y \in Data} \ {{x} : x \in Data}

\* All devices, two contents and one passphrase, automatic requests only.
Shared(provider, server) ==
  [provider : {provider}, server : {server}, consent : {FALSE},
   unsupported : {FALSE}, users : {Device}, contents : Two,
   keys : {{CHOOSE k \in Passphrase : TRUE}},
   pushModes : {Automatic}, pullModes : {Automatic}, meddling : {{}},
   versions : {3}, mishaps : {1}]

\* Servers with and without entity tags, and one that refuses every condition.
Servers ==
  Shared("WebDav", "strong") \cup Shared("WebDav", "untagged")
    \cup Shared("WebDav", "rejecting") \cup Shared("GithubGist", "untagged")

\* Preconditions are broken: the probe found out, the user consented to do
\* without.  Three contents where two versions are stored, two where three are.
Broken ==
  LET Consented ==
        {[s EXCEPT !.consent = TRUE, !.unsupported = TRUE, !.mishaps = 0,
                   !.pushModes = {"Automatic", "Manual"}] :
           s \in Shared("WebDav", "strong")}
  IN Consented \cup {[s EXCEPT !.contents = Data, !.versions = 2] : s \in Consented}

\* One device on a conforming WebDAV server, whose settings change.
Settings ==
  [provider : {"WebDav"}, server : {"strong"}, consent : {FALSE},
   unsupported : {FALSE}, users : One, contents : Two, keys : {Passphrase},
   pushModes : {{"Automatic", "Force"}}, pullModes : {{"Manual", "Force"}},
   meddling : {{"retag"}}, versions : {2}, mishaps : {1}]

Everything == Servers \cup Broken \cup Settings

\* The passphrase changes around a push.
FirstPush ==
  {[s EXCEPT !.pushModes = Automatic, !.pullModes = Automatic, !.meddling = {},
             !.contents = {CHOOSE c \in Data : TRUE}, !.versions = 1] :
     s \in Settings}

\* Remotes that guard what they should.
SoundRemotes ==
  [provider : {"WebDav", "GithubGist"}, server : {"strong"}, consent : {FALSE},
   unsupported : {FALSE}, users : One, contents : Two, keys : {Passphrase},
   pushModes : {{"Automatic", "Manual"}}, pullModes : {Automatic},
   meddling : {{"remove"}}, versions : {2}, mishaps : {0}]
=============================================================================
