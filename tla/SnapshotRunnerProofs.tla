------------------------ MODULE SnapshotRunnerProofs ------------------------
(***************************************************************************)
(* Proofs about SnapshotRunner for every set of cases, constructor names  *)
(* and modes: the type invariant, and that a resolved run() certifies the *)
(* snapshot directory.                                                     *)
(***************************************************************************)
EXTENDS SnapshotRunner, TLAPS

(* The buffer of a case is empty until its send settles, and then holds   *)
(* exactly the outcome of its command.                                     *)
BufInv ==
  \A c \in Cases :
    /\ pc[c] \in {"idle", "sending"} => buf[c] = <<>>
    /\ pc[c] \in {"filing", "done", "failed"} => buf[c] = <<Outcome(c)>>

(* Promise.all resolved only after every case resolved.                   *)
ResolvedInv ==
  runState = "resolved" => \A c \in Cases : pc[c] = "done"

(* Before run() no case has started.                                       *)
IdleInv ==
  runState = "idle" => \A c \in Cases : pc[c] = "idle"

IInv == TypeOK /\ BufInv /\ IdleInv /\ ResolvedInv /\ SnapshotFaithful

-----------------------------------------------------------------------------
(* Distinct generated commands get distinct snapshot files.               *)
LEMMA SnapshotPathInjective ==
  \A c, d \in Cases : SnapshotPath(c) = SnapshotPath(d) => c = d
  <1> SUFFICES ASSUME NEW c \in Cases, NEW d \in Cases,
                      SnapshotPath(c) = SnapshotPath(d)
               PROVE  c = d
    OBVIOUS
  <1>1. CtorName[c] \in Names /\ CtorName[d] \in Names
    BY ConstantsAssumption
  <1>2. CtorName[c].suffixes >= 1 /\ CtorName[d].suffixes >= 1
    BY GeneratedCtorNames
  <1>3. CtorName[c] = CtorName[d]
    BY <1>1, <1>2, ConstantsAssumption DEF SnapshotPath, OperationName, Names
  <1>4. QED
    BY <1>3, GeneratedCtorNames

LEMMA OutcomeType ==
  \A c \in Cases : <<Outcome(c)>> \in FileContents /\ Outcome(c) \in Traces
  BY DEF Outcome, RequestTrace, CommandErrorTrace, Traces, FileContents

-----------------------------------------------------------------------------
LEMMA InitIInv == Init => IInv
  <1> SUFFICES ASSUME Init PROVE IInv
    OBVIOUS
  <1>1. TypeOK
    BY ConstantsAssumption DEF Init, TypeOK
  <1>2. BufInv /\ IdleInv /\ ResolvedInv /\ SnapshotFaithful
    BY DEF Init, BufInv, IdleInv, ResolvedInv, SnapshotFaithful
  <1>3. QED
    BY <1>1, <1>2 DEF IInv

LEMMA NextIInv == IInv /\ [Next]_vars => IInv'
  <1> SUFFICES ASSUME IInv, [Next]_vars PROVE IInv'
    OBVIOUS
  <1> USE DEF IInv
  <1>1. CASE Run
    <2>1. TypeOK'
      BY <1>1, ConstantsAssumption DEF Run, TypeOK, FileContents
    <2>2. BufInv'
      BY <1>1 DEF Run, BufInv, IdleInv, TypeOK
    <2>3. (IdleInv /\ ResolvedInv /\ SnapshotFaithful)'
      BY <1>1, ConstantsAssumption DEF Run, IdleInv, ResolvedInv, SnapshotFaithful
    <2>4. QED
      BY <2>1, <2>2, <2>3
  <1>2. ASSUME NEW c \in Cases, EndpointRetry(c)
        PROVE  IInv'
    <2>1. TypeOK'
      BY <1>2, ConstantsAssumption DEF EndpointRetry, TypeOK
    <2>2. (BufInv /\ IdleInv /\ ResolvedInv /\ SnapshotFaithful)'
      BY <1>2 DEF EndpointRetry, BufInv, IdleInv, ResolvedInv, SnapshotFaithful
    <2>3. QED
      BY <2>1, <2>2
  <1>3. ASSUME NEW c \in Cases, Send(c)
        PROVE  IInv'
    <2>1. buf[c] = <<>>
      BY <1>3 DEF Send, BufInv
    <2>2. buf'[c] = <<Outcome(c)>>
      BY <1>3, <2>1 DEF Send, TypeOK
    <2>3. TypeOK'
      <3>1. Outcome(c) \in Traces
        BY OutcomeType
      <3>2. buf' \in [Cases -> Seq(Traces)]
        BY <1>3, <3>1 DEF Send, TypeOK
      <3>3. pc' \in [Cases -> {"idle", "sending", "filing", "done", "failed"}]
        BY <1>3 DEF Send, TypeOK
      <3>4. QED
        BY <1>3, <3>2, <3>3 DEF Send, TypeOK
    <2>4. BufInv'
      BY <1>3, <2>2 DEF Send, BufInv, TypeOK
    <2>5. (IdleInv /\ ResolvedInv /\ SnapshotFaithful)'
      BY <1>3 DEF Send, IdleInv, ResolvedInv, SnapshotFaithful, TypeOK
    <2>6. QED
      BY <2>3, <2>4, <2>5
  <1>4. ASSUME NEW c \in Cases, File(c)
        PROVE  IInv'
    <2>1. buf[c] = <<Outcome(c)>>
      BY <1>4 DEF File, BufInv
    <2>2. runState # "idle" /\ runState # "resolved"
      BY <1>4 DEF File, IdleInv, ResolvedInv
    <2>3. TypeOK'
      <3>1. buf[c] \in FileContents
        BY <2>1, OutcomeType
      <3>2. disk' \in [Names -> FileContents]
        BY <1>4, <3>1 DEF File, TypeOK
      <3>3. pc' \in [Cases -> {"idle", "sending", "filing", "done", "failed"}]
        BY <1>4 DEF File, TypeOK
      <3>4. QED
        BY <1>4, <3>2, <3>3 DEF File, TypeOK
    <2>4. (BufInv /\ IdleInv /\ ResolvedInv)'
      BY <1>4, <2>2 DEF File, BufInv, IdleInv, ResolvedInv, TypeOK
    <2>5. SnapshotFaithful'
      <3> SUFFICES ASSUME NEW d \in Cases, pc'[d] = "done"
                   PROVE  disk'[SnapshotPath(d)] = <<Outcome(d)>>
        BY DEF SnapshotFaithful
      <3>0. SnapshotPath(d) \in Names
        BY ConstantsAssumption DEF SnapshotPath, OperationName, Names
      <3>1. CASE d = c
        <4>1. CASE mode = "compare"
          BY <1>4, <2>1, <3>1, <4>1 DEF File, TypeOK
        <4>2. CASE mode = "write"
          BY <1>4, <2>1, <3>0, <3>1, <4>2 DEF File, TypeOK
        <4>3. QED
          BY <1>4, <4>1, <4>2 DEF File
      <3>2. CASE d # c
        <4>1. SnapshotPath(d) # SnapshotPath(c)
          BY <3>2, SnapshotPathInjective
        <4>2. pc[d] = "done"
          BY <1>4, <3>2 DEF File, TypeOK
        <4>3. QED
          BY <1>4, <3>0, <4>1, <4>2 DEF File, SnapshotFaithful, TypeOK
      <3>3. QED
        BY <3>1, <3>2
    <2>6. QED
      BY <2>3, <2>4, <2>5
  <1>5. CASE Settle
    <2>1. TypeOK'
      BY <1>5 DEF Settle, TypeOK
    <2>2. (BufInv /\ IdleInv /\ ResolvedInv /\ SnapshotFaithful)'
      BY <1>5 DEF Settle, BufInv, IdleInv, ResolvedInv, SnapshotFaithful
    <2>3. QED
      BY <2>1, <2>2
  <1>6. CASE UNCHANGED vars
    BY <1>6 DEF vars, TypeOK, BufInv, IdleInv, ResolvedInv, SnapshotFaithful
  <1>7. QED
    BY <1>1, <1>2, <1>3, <1>4, <1>5, <1>6 DEF Next

-----------------------------------------------------------------------------
(* The state of every variable stays within its type.                     *)
THEOREM TypeCorrect == Spec => []TypeOK
  <1>1. IInv => TypeOK
    BY DEF IInv
  <1>2. QED
    BY <1>1, InitIInv, NextIInv, PTL DEF Spec

(* Every completed test case's snapshot file holds exactly its command's  *)
(* outcome, whatever the number of cases and their names.                  *)
THEOREM SnapshotsFaithful == Spec => []SnapshotFaithful
  <1>1. IInv => SnapshotFaithful
    BY DEF IInv
  <1>2. QED
    BY <1>1, InitIInv, NextIInv, PTL DEF Spec

(* When run()'s promise resolves, every operation's snapshot file holds   *)
(* exactly what its command produces, in write and in compare mode.       *)
THEOREM ResolvedRunCertifies == Spec => []RunCertifiesSnapshots
  <1>1. IInv => RunCertifiesSnapshots
    BY DEF IInv, ResolvedInv, SnapshotFaithful, RunCertifiesSnapshots
  <1>2. QED
    BY <1>1, InitIInv, NextIInv, PTL DEF Spec


(* Only run() in write mode, or the owning case completing with exactly   *)
(* its own outcome, ever changes a snapshot file.                          *)
LEMMA OwnedWriteStep == IInv /\ [Next]_vars => OwnedWrite
  <1> SUFFICES ASSUME IInv, [Next]_vars, NEW n \in Names, disk'[n] # disk[n]
               PROVE  \/ runState = "idle" /\ mode = "write"
                      \/ \E c \in Cases : /\ SnapshotPath(c) = n
                                         /\ pc[c] = "filing" /\ pc'[c] = "done"
                                         /\ disk'[n] = <<Outcome(c)>>
    BY DEF OwnedWrite
  <1> USE DEF IInv
  <1>1. CASE Run
    BY <1>1 DEF Run
  <1>2. ASSUME NEW c \in Cases, File(c)
        PROVE  \E d \in Cases : /\ SnapshotPath(d) = n
                               /\ pc[d] = "filing" /\ pc'[d] = "done"
                               /\ disk'[n] = <<Outcome(d)>>
    <2>1. mode = "write" /\ disk' = [disk EXCEPT ![SnapshotPath(c)] = buf[c]]
          /\ pc' = [pc EXCEPT ![c] = "done"]
      BY <1>2 DEF File
    <2>2. SnapshotPath(c) = n
      BY <2>1 DEF TypeOK
    <2>3. buf[c] = <<Outcome(c)>> /\ pc[c] = "filing"
      BY <1>2 DEF File, BufInv
    <2>4. QED
      BY <2>1, <2>2, <2>3 DEF TypeOK
  <1>3. ASSUME NEW c \in Cases, EndpointRetry(c) \/ Send(c)
        PROVE  FALSE
    BY <1>3 DEF EndpointRetry, Send
  <1>4. CASE Settle \/ UNCHANGED vars
    BY <1>4 DEF Settle, vars
  <1>5. QED
    BY <1>1, <1>2, <1>3, <1>4 DEF Next

(* Every step of the runner leaves each snapshot file alone unless it is  *)
(* run() clearing the directory in write mode or the file's own case      *)
(* writing its command's outcome as it completes.                          *)
THEOREM WritesOwned == Spec => SnapshotWritesOwned
  <1>1. []IInv /\ [][Next]_vars => [][OwnedWrite]_vars
    BY OwnedWriteStep, PTL
  <1>2. QED
    BY <1>1, InitIInv, NextIInv, PTL DEF Spec, SnapshotWritesOwned

-----------------------------------------------------------------------------
(* The status the refinement mapping gives a case, from its pc.            *)
LEMMA CaseStatusOf ==
  ASSUME TypeOK, NEW c \in Cases
  PROVE  /\ CaseStatus[c] = "pending" <=> pc[c] \in {"sending", "filing"}
         /\ CaseStatus[c] = "done" <=> pc[c] = "done"
         /\ CaseStatus[c] = "failed" <=> pc[c] = "failed"
         /\ CaseStatus[c] = "idle" <=> pc[c] = "idle"
  BY DEF CaseStatus, TypeOK

LEMMA InitRefines == Init => Atomic!Init
  <1> SUFFICES ASSUME Init PROVE Atomic!Init
    OBVIOUS
  <1>1. CaseStatus = [c \in Cases |-> "idle"]
    BY DEF Init, CaseStatus
  <1>2. QED
    BY <1>1 DEF Init, Atomic!Init

LEMMA NextRefines == IInv /\ [Next]_vars => [Atomic!Next]_Atomic!avars
  <1> SUFFICES ASSUME IInv, [Next]_vars PROVE [Atomic!Next]_Atomic!avars
    OBVIOUS
  <1> USE DEF IInv
  <1>1. CASE Run
    <2>1. CaseStatus' = [c \in Cases |-> "pending"]
      BY <1>1 DEF Run, CaseStatus
    <2>2. Atomic!Start
      BY <1>1, <2>1 DEF Run, Atomic!Start
    <2>3. QED
      BY <2>2 DEF Atomic!Next
  <1>2. ASSUME NEW c \in Cases, EndpointRetry(c) \/ Send(c)
        PROVE  UNCHANGED Atomic!avars
    <2>1. pc[c] = "sending" /\ pc'[c] \in {"sending", "filing"}
      BY <1>2 DEF EndpointRetry, Send, TypeOK
    <2>2. \A d \in Cases \ {c} : pc'[d] = pc[d]
      BY <1>2 DEF EndpointRetry, Send, TypeOK
    <2>3. CaseStatus' = CaseStatus
      BY <2>1, <2>2 DEF CaseStatus
    <2>4. QED
      BY <1>2, <2>3 DEF EndpointRetry, Send, Atomic!avars
  <1>3. ASSUME NEW c \in Cases, File(c)
        PROVE  Atomic!Complete(c)
    <2>1. buf[c] = <<Outcome(c)>> /\ pc[c] = "filing"
      BY <1>3 DEF File, BufInv
    <2>2. CaseStatus[c] = "pending"
      BY <2>1 DEF CaseStatus
    <2>3. CaseStatus' = [CaseStatus EXCEPT ![c] = pc'[c]]
      BY <1>3 DEF File, CaseStatus, TypeOK
    <2>4. CASE mode = "write"
      <3>1. /\ pc' = [pc EXCEPT ![c] = "done"]
            /\ disk' = [disk EXCEPT ![SnapshotPath(c)] = buf[c]]
            /\ UNCHANGED <<mode, runState>>
        BY <1>3, <2>4 DEF File
      <3>2. pc'[c] = "done"
        BY <3>1 DEF TypeOK
      <3>3. QED
        BY <2>1, <2>2, <2>3, <2>4, <3>1, <3>2 DEF Atomic!Complete
    <2>5. CASE mode = "compare"
      <3> DEFINE r == IF disk[SnapshotPath(c)] = buf[c] THEN "done" ELSE "failed"
      <3>1. /\ pc' = [pc EXCEPT ![c] = r]
            /\ UNCHANGED <<disk, mode, runState>>
        BY <1>3, <2>5 DEF File
      <3>2. pc'[c] = r
        BY <3>1 DEF TypeOK
      <3>3. QED
        BY <2>1, <2>2, <2>3, <2>5, <3>1, <3>2 DEF Atomic!Complete
    <2>6. QED
      BY <2>4, <2>5, ConstantsAssumption DEF TypeOK
  <1>4. CASE Settle
    <2>1. \A c \in Cases : /\ CaseStatus[c] = "done" <=> pc[c] = "done"
                           /\ CaseStatus[c] = "failed" <=> pc[c] = "failed"
      BY CaseStatusOf
    <2>2. CaseStatus' = CaseStatus
      BY <1>4 DEF Settle, CaseStatus
    <2>3. Atomic!Settle
      BY <1>4, <2>1, <2>2 DEF Settle, Atomic!Settle
    <2>4. QED
      BY <2>3 DEF Atomic!Next
  <1>5. CASE UNCHANGED vars
    BY <1>5 DEF vars, CaseStatus, Atomic!avars
  <1>6. QED
    BY <1>1, <1>2, <1>3, <1>4, <1>5 DEF Next, Atomic!Next

(***************************************************************************)
(* The concurrent run() implements the atomic-case specification: started *)
(* from any snapshot directory, every step of the runner is a step of     *)
(* SnapshotCases or leaves its state alone, for any number of cases and  *)
(* any EndpointError retries.                                             *)
(***************************************************************************)
THEOREM RefinesAtomicCases ==
  Spec => Atomic!Init /\ [][Atomic!Next]_Atomic!avars
  BY InitIInv, NextIInv, InitRefines, NextRefines, PTL DEF Spec

=============================================================================
