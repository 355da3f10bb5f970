--------------------------- MODULE SnapshotRunner ---------------------------
(***************************************************************************)
(* SnapshotRunner.run() (snapshot-testing/src/SnapshotRunner.ts) with the *)
(* SnapshotRequestHandler it installs in every client.                     *)
(*                                                                         *)
(* run() starts one test case per (schema, command) entry.  With the      *)
(* default testCase every case is an async function started in the loop;  *)
(* the cases interleave at their awaits (client.send, the retry after an   *)
(* EndpointError) and share the snapshot directory on disk.  Each case    *)
(* sends its command through a client whose request handler traces the    *)
(* serialized request into the case's buffer and throws                    *)
(* RequestSnapshotCompleted; the case then writes the buffer to            *)
(* req/<operation>.txt ("write" mode) or compares it with that file        *)
(* ("compare" mode).  run() returns Promise.all of the cases.              *)
(*                                                                         *)
(* Data is abstracted: a command constructor name is a base followed by a *)
(* number of "Command" suffixes, a trace is the kind of text traced and    *)
(* the case it belongs to, a file is absent or holds a buffer.            *)
(***************************************************************************)
EXTENDS Naturals, Sequences, FiniteSets

CONSTANTS
  Cases,             \* the entries of options.schemas (one per operation schema)
  Bases,             \* constructor names with their trailing "Command"s removed
  MaxSuffix,         \* the most "Command" suffixes a constructor name carries
  CtorName,          \* CommandCtor.name of each case, as [base, suffixes]
  Modes,             \* the values options.mode may take in the runs
  NeedsEndpoint,     \* cases whose client fails endpoint resolution without an endpoint
  RejectsMockEndpoint, \* cases whose client still fails with the mock endpoint
  FailsBeforeHandler,  \* cases whose send fails before the request handler runs
  MaxRetryDepth      \* bound on the nesting of executeCommand retries

Names == [base : Bases, suffixes : 0 .. MaxSuffix]

ASSUME ConstantsAssumption ==
  /\ Cases # {}
  /\ MaxSuffix \in Nat
  /\ MaxRetryDepth \in Nat
  /\ CtorName \in [Cases -> Names]
  /\ Modes \subseteq {"write", "compare"} /\ Modes # {}
  /\ NeedsEndpoint \subseteq Cases
  /\ RejectsMockEndpoint \subseteq NeedsEndpoint
  /\ FailsBeforeHandler \subseteq Cases

(* Generated command classes are named <Operation>Command and distinct.    *)
ASSUME GeneratedCtorNames ==
  /\ \A c \in Cases : CtorName[c].suffixes >= 1
  /\ \A c, d \in Cases : CtorName[c] = CtorName[d] => c = d

(* Mutant: replace(/Command/g, ""), every "Command" removed.               *)
OperationNameAllStripped(n) == [n EXCEPT !.suffixes = 0]

(***************************************************************************)
(* CommandCtor.name.replace(/Command$/, ""): one trailing "Command" is     *)
(* removed.                                                                *)
(***************************************************************************)
OperationName(n) ==
  IF n.suffixes > 0 THEN [n EXCEPT !.suffixes = @ - 1] ELSE n

SnapshotPath(c) == OperationName(CtorName[c])

(* What a case's logger.trace receives.                                    *)
Traces == [kind : {"request", "commandError"}, case : Cases]

(***************************************************************************)
(* SnapshotRequestHandler.handle traces serializeHttpRequest(request) and *)
(* throws RequestSnapshotCompleted; a send that fails before the handler   *)
(* is caught in run() and traces "[CommandError]" and the stack.           *)
(***************************************************************************)
RequestTrace(c) == [kind |-> "request", case |-> c]

CommandErrorTrace(c) == [kind |-> "commandError", case |-> c]

Outcome(c) ==
  IF c \in FailsBeforeHandler THEN CommandErrorTrace(c) ELSE RequestTrace(c)

(* A missing file; a buffer is never empty when it is filed.              *)
Absent == <<>>

FileContents == {Absent} \cup {<<t>> : t \in Traces}

(***************************************************************************)
(* client.send rejects with an EndpointError when endpoint resolution     *)
(* fails; executeCommand(endpoint) decides which.                          *)
(***************************************************************************)
EndpointFails(c, ep) ==
  /\ c \in NeedsEndpoint
  /\ (ep = "none" \/ c \in RejectsMockEndpoint)

VARIABLES
  mode,       \* options.mode
  runState,   \* "idle" before run(), then the state of Promise.all(promises)
  pc,         \* where each case's async function is
  endpoint,   \* the endpoint argument of the case's current executeCommand
  depth,      \* how many executeCommand calls are nested in the case
  buf,        \* the case's trace buffer
  disk,       \* the snapshot files: operation name -> contents
  reqDir      \* does the req/ folder exist?

vars == <<mode, runState, pc, endpoint, depth, buf, disk, reqDir>>

Finished == {"done", "failed"}

TypeOK ==
  /\ mode \in Modes
  /\ runState \in {"idle", "pending", "resolved", "rejected"}
  /\ pc \in [Cases -> {"idle", "sending", "filing", "done", "failed"}]
  /\ endpoint \in [Cases -> {"none", "mock"}]
  /\ depth \in [Cases -> 0 .. MaxRetryDepth]
  /\ buf \in [Cases -> Seq(Traces)]
  /\ disk \in [Names -> FileContents]
  /\ reqDir \in BOOLEAN

(***************************************************************************)
(* Before run(): in compare mode the disk holds whatever a previous write *)
(* run left there, possibly from an older version of the client.           *)
(***************************************************************************)
Init ==
  /\ mode \in Modes
  /\ runState = "idle"
  /\ pc = [c \in Cases |-> "idle"]
  /\ endpoint = [c \in Cases |-> "none"]
  /\ depth = [c \in Cases |-> 0]
  /\ buf = [c \in Cases |-> <<>>]
  /\ disk \in [Names -> FileContents]
  /\ reqDir = (\E n \in Names : disk[n] # Absent)

(***************************************************************************)
(* run(): in write mode the snapshot directory is removed; then the loop  *)
(* starts every case, each running synchronously up to client.send.       *)
(***************************************************************************)
(* Mutant: the directory is removed whatever the mode.                    *)
RunClearsAlways ==
  /\ runState = "idle"
  /\ runState' = "pending"
  /\ pc' = [c \in Cases |-> "sending"]
  /\ disk' = [n \in Names |-> Absent] /\ reqDir' = FALSE
  /\ UNCHANGED <<mode, endpoint, depth, buf>>

Run ==
  /\ runState = "idle"
  /\ runState' = "pending"
  /\ pc' = [c \in Cases |-> "sending"]
  /\ IF mode = "write"
       THEN disk' = [n \in Names |-> Absent] /\ reqDir' = FALSE
       ELSE UNCHANGED <<disk, reqDir>>
  /\ UNCHANGED <<mode, endpoint, depth, buf>>

EndpointRetryTraced(c) ==
  /\ pc[c] = "sending"
  /\ EndpointFails(c, endpoint[c])
  /\ depth[c] < MaxRetryDepth
  /\ endpoint' = [endpoint EXCEPT ![c] = "mock"]
  /\ depth' = [depth EXCEPT ![c] = @ + 1]
  /\ buf' = [buf EXCEPT ![c] = Append(@, CommandErrorTrace(c))]
  /\ UNCHANGED <<mode, runState, pc, disk, reqDir>>

EndpointRetry(c) ==
  /\ pc[c] = "sending"
  /\ EndpointFails(c, endpoint[c])
  /\ depth[c] < MaxRetryDepth
  /\ endpoint' = [endpoint EXCEPT ![c] = "mock"]
  /\ depth' = [depth EXCEPT ![c] = @ + 1]
  /\ UNCHANGED <<mode, runState, pc, buf, disk, reqDir>>

Send(c) ==
  /\ pc[c] = "sending"
  /\ ~EndpointFails(c, endpoint[c])
  /\ buf' = [buf EXCEPT ![c] = Append(@, Outcome(c))]
  /\ pc' = [pc EXCEPT ![c] = "filing"]
  /\ UNCHANGED <<mode, runState, endpoint, depth, disk, reqDir>>

(***************************************************************************)
(* The rest of the case, synchronous: create req/ if missing, then compare *)
(* with the file on disk (a missing file makes readFileSync throw, a       *)
(* different one makes assertions throw) or write the buffer.             *)
(***************************************************************************)
File(c) ==
  /\ pc[c] = "filing"
  /\ reqDir' = TRUE
  /\ \/ /\ mode = "compare"
        /\ pc' = [pc EXCEPT ![c] =
                    IF disk[SnapshotPath(c)] = buf[c] THEN "done" ELSE "failed"]
        /\ UNCHANGED disk
     \/ /\ mode = "write"
        /\ disk' = [disk EXCEPT ![SnapshotPath(c)] = buf[c]]
        /\ pc' = [pc EXCEPT ![c] = "done"]
  /\ UNCHANGED <<mode, runState, endpoint, depth, buf>>

(* Mutant: the combinator resolves once some case has resolved.           *)
SettleOnFirstResolved ==
  /\ runState = "pending"
  /\ \/ /\ \E c \in Cases : pc[c] = "done"
        /\ runState' = "resolved"
     \/ /\ \E c \in Cases : pc[c] = "failed"
        /\ runState' = "rejected"
  /\ UNCHANGED <<mode, pc, endpoint, depth, buf, disk, reqDir>>

(***************************************************************************)
(* Promise.all(promises): resolves when every case has resolved, rejects  *)
(* as soon as one case has rejected.                                       *)
(***************************************************************************)
Settle ==
  /\ runState = "pending"
  /\ \/ /\ \A c \in Cases : pc[c] = "done"
        /\ runState' = "resolved"
     \/ /\ \E c \in Cases : pc[c] = "failed"
        /\ runState' = "rejected"
  /\ UNCHANGED <<mode, pc, endpoint, depth, buf, disk, reqDir>>

Next ==
  \/ Run
  \/ \E c \in Cases : EndpointRetry(c) \/ Send(c) \/ File(c)
  \/ Settle

(***************************************************************************)
(* Node's event loop runs every settled continuation, so each case and   *)
(* the Promise.all combinator are weakly fair.                             *)
(***************************************************************************)
Fairness ==
  /\ WF_vars(Run)
  /\ \A c \in Cases : WF_vars(EndpointRetry(c) \/ Send(c) \/ File(c))
  /\ WF_vars(Settle)

Spec == Init /\ [][Next]_vars /\ Fairness

-----------------------------------------------------------------------------
(***************************************************************************)
(* Every case that completed has its own outcome, and only that, in its  *)
(* snapshot file: in write mode it wrote it and no other case overwrote  *)
(* it, in compare mode the file it found there matched.  Catches two      *)
(* commands mapped to one file by the operation-name derivation, and a     *)
(* retry that leaves its failure in the buffer.                            *)
(***************************************************************************)
SnapshotFaithful ==
  \A c \in Cases :
    pc[c] = "done" => disk[SnapshotPath(c)] = <<Outcome(c)>>

(***************************************************************************)
(* A run() that resolved certifies the whole snapshot directory: every    *)
(* operation's file holds exactly what its command produces now.  This is *)
(* what a caller relies on when run() resolves in compare mode.            *)
(***************************************************************************)
RunCertifiesSnapshots ==
  runState = "resolved" =>
    \A c \in Cases : disk[SnapshotPath(c)] = <<Outcome(c)>>

(***************************************************************************)
(* Only the owner writes a snapshot file, and only once it is complete:  *)
(* a step that changes a file is either run() removing the directory in   *)
(* write mode, or the case whose operation name the file bears completing *)
(* by writing exactly its own outcome.  Catches a compare run that alters *)
(* snapshots and a buffer filed with what a retried send left in it.      *)
(***************************************************************************)
OwnedWrite ==
  \A n \in Names :
       disk'[n] # disk[n] =>
         \/ runState = "idle" /\ mode = "write"
         \/ \E c \in Cases : /\ SnapshotPath(c) = n
                            /\ pc[c] = "filing" /\ pc'[c] = "done"
                            /\ disk'[n] = <<Outcome(c)>>

SnapshotWritesOwned == [][OwnedWrite]_vars

(***************************************************************************)
(* Every test case eventually completes (the EndpointError retry does not *)
(* go on forever) and run()'s promise settles.                             *)
(***************************************************************************)
EveryCaseCompletes ==
  /\ \A c \in Cases : <>(pc[c] \in Finished)
  /\ <>(runState \in {"resolved", "rejected"})

-----------------------------------------------------------------------------
(***************************************************************************)
(* The refinement mapping to SnapshotCases: a case is pending from run()  *)
(* until its synchronous rest has filed or compared, which is its atomic  *)
(* step there; the sends, retries and traces are stutters.                *)
(***************************************************************************)
CaseStatus ==
  [c \in Cases |-> IF pc[c] \in {"sending", "filing"} THEN "pending" ELSE pc[c]]

Atomic == INSTANCE SnapshotCases
            WITH Files <- Names, Path <- SnapshotPath,
                 Serialized <- LAMBDA c : <<Outcome(c)>>,
                 Contents <- FileContents, status <- CaseStatus

(***************************************************************************)
(* The concurrent run() behaves as if every test case ran at once, on its *)
(* own, between run() and the settling of Promise.all: the interleaving   *)
(* of sends, EndpointError retries and file writes of different cases is  *)
(* invisible in the files and in how run() settles, and every case and    *)
(* run() itself complete as the atomic cases do.                           *)
(***************************************************************************)
ImplementsAtomicCases == Atomic!Spec

=============================================================================
