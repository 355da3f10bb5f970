------------------------- MODULE MCSnapshotRunner -------------------------
(***************************************************************************)
(* Model-checking instance of SnapshotRunner: two commands of one client, *)
(* named like HttpLabelCommandCommand and HttpLabelCommand in the         *)
(* my-local-model-schema snapshot test, both modes, one case needing the *)
(* mock endpoint and one failing before the request handler.              *)
(***************************************************************************)
EXTENDS SnapshotRunner

CONSTANTS c1, c2, HttpLabel

MCCases == {c1, c2}

MCBases == {HttpLabel}

\* c1 is HttpLabelCommandCommand, c2 is HttpLabelCommand
MCCtorName == [c \in MCCases |->
                 IF c = c1 THEN [base |-> HttpLabel, suffixes |-> 2]
                           ELSE [base |-> HttpLabel, suffixes |-> 1]]

=============================================================================
