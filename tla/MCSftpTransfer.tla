--------------------------- MODULE MCSftpTransfer ---------------------------
(* Instances of SftpTransfer for TLC. *)
EXTENDS SftpTransfer

CONSTANTS t1, t2, p1, p2

Each(x, y) == [t \in Transfer |-> IF t = t1 THEN x ELSE y]
Alone == <<t1>>
Both == <<t1, t2>>

\* Two uploads to one destination at a time, on a server of either kind: where
\* a rename replaces, the second fault could let a rollback replace the other
\* upload.
Contest ==
  [order : {Both}, upload : {Each(TRUE, TRUE)}, paths : {Each(<<p1>>, <<p1>>)},
   before : {{}, {p1}}, replaces : {FALSE},
   permits : {2}, chunks : {0}, reports : {FALSE}, presses : {0}, faults : {2}]
  \cup
  [order : {Both}, upload : {Each(TRUE, TRUE)}, paths : {Each(<<p1>>, <<p1>>)},
   before : {{}, {p1}}, replaces : {TRUE},
   permits : {2}, chunks : {0}, reports : {FALSE}, presses : {0}, faults : {1}]

\* An upload and a download for one permit, under the user's hands.
Handled ==
  [order : {Both}, upload : {Each(TRUE, FALSE)}, paths : {Each(<<p1>>, <<p2>>)},
   before : {{p1}}, replaces : {FALSE},
   permits : {1}, chunks : {0}, reports : {FALSE}, presses : {2}, faults : {0}]

\* A directory of two files, from or to a server of either kind, that may be
\* cancelled and fail.
Directory ==
  [order : {Alone}, upload : {Each(TRUE, TRUE), Each(FALSE, FALSE)},
   paths : {Each(<<p1, p2>>, <<>>)}, before : SUBSET {p1}, replaces : BOOLEAN,
   permits : {1}, chunks : {1}, reports : {FALSE}, presses : {1}, faults : {1}]

\* A download that reports its progress.
Reported ==
  [order : {Alone}, upload : {Each(FALSE, FALSE)}, paths : {Each(<<p1>>, <<>>)},
   before : {{}}, replaces : {FALSE},
   permits : {1}, chunks : {2}, reports : {TRUE}, presses : {2}, faults : {1}]

Everything == Contest \cup Handled \cup Directory \cup Reported

\* A transfer is paused as it ends.
PausedLate ==
  [order : {Alone}, upload : {Each(FALSE, FALSE)}, paths : {Each(<<p1>>, <<>>)},
   before : {{}}, replaces : {FALSE},
   permits : {1}, chunks : {0}, reports : {FALSE}, presses : {1}, faults : {0}]
=============================================================================
