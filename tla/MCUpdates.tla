------------------------------ MODULE MCUpdates ------------------------------
(* Instances of Updates for TLC.                                           *)
EXTENDS Updates

\* Two channels by priority.
TwoChannels == <<"oficial", "comunidade">>

\* The recipe changes in every release, its version only in the third.
MCVersion == [r \in 1 .. MaxRelease |-> IF r < 3 THEN 1 ELSE 2]

MCFingerprint == [r \in 1 .. MaxRelease |-> r]

=============================================================================
