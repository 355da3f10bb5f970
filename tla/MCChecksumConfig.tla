------------------------- MODULE MCChecksumConfig -------------------------
(***************************************************************************)
(* Model-checking instance of ChecksumConfig: two known algorithms, one   *)
(* novel algorithm id and two constructors, as in checksum.integ.spec.    *)
(***************************************************************************)
EXTENDS ChecksumConfig, TLC

CONSTANTS R1, Sha256Custom, NoCtor

MCKnown == {"md5", "sha256"}

\* AlgorithmId declares MD5 before SHA256
MCAlgOrder == <<"md5", "sha256">>

MCUpper == ("md5" :> "MD5") @@ ("sha256" :> "SHA256")

MCCtors == {R1, Sha256Custom}

=============================================================================
