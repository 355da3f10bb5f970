--------------------------- MODULE SnapshotCases ---------------------------
(***************************************************************************)
(* What SnapshotRunner.run() promises, with each test case taken as one   *)
(* atomic step: run() starts every case (clearing the snapshot directory  *)
(* in write mode); a case either writes its command's serialization to    *)
(* its file or compares it with the file; the returned promise resolves   *)
(* once every case succeeded and rejects once one failed.                  *)
(*                                                                         *)
(* The concurrent runner, its client sends, retries and trace buffers are *)
(* SnapshotRunner; SnapshotRunner.tla shows that it implements this.      *)
(***************************************************************************)
EXTENDS Naturals

CONSTANTS
  Cases,          \* the operations of the run
  Modes,          \* the values options.mode may take
  Files,          \* the names of snapshot files
  Path(_),        \* the file of each case
  Serialized(_),  \* what each case's command serializes to, as file contents
  Absent,         \* the contents of a missing file
  Contents        \* what a file may hold before run(), Absent included

VARIABLES
  mode,       \* options.mode
  runState,   \* "idle" before run(), then the state of the returned promise
  status,     \* each case: "idle", "pending", "done" or "failed"
  disk        \* the snapshot files

avars == <<mode, runState, status, disk>>

Init ==
  /\ mode \in Modes
  /\ runState = "idle"
  /\ status = [c \in Cases |-> "idle"]
  /\ disk \in [Files -> Contents]

(* run(): the directory is removed in write mode and every case starts.  *)
Start ==
  /\ runState = "idle"
  /\ runState' = "pending"
  /\ status' = [c \in Cases |-> "pending"]
  /\ disk' = IF mode = "write" THEN [f \in Files |-> Absent] ELSE disk
  /\ UNCHANGED mode

(* One case, at once: write its serialization or compare it with its file. *)
Complete(c) ==
  /\ status[c] = "pending"
  /\ IF mode = "write"
       THEN /\ disk' = [disk EXCEPT ![Path(c)] = Serialized(c)]
            /\ status' = [status EXCEPT ![c] = "done"]
       ELSE /\ status' = [status EXCEPT ![c] =
                            IF disk[Path(c)] = Serialized(c) THEN "done" ELSE "failed"]
            /\ UNCHANGED disk
  /\ UNCHANGED <<mode, runState>>

(* The promise run() returns.                                              *)
Settle ==
  /\ runState = "pending"
  /\ \/ /\ \A c \in Cases : status[c] = "done"
        /\ runState' = "resolved"
     \/ /\ \E c \in Cases : status[c] = "failed"
        /\ runState' = "rejected"
  /\ UNCHANGED <<mode, status, disk>>

Next == Start \/ (\E c \in Cases : Complete(c)) \/ Settle

Spec ==
  /\ Init /\ [][Next]_avars
  /\ WF_avars(Start) /\ (\A c \in Cases : WF_avars(Complete(c))) /\ WF_avars(Settle)

=============================================================================
