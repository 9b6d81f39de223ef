------------------------------ MODULE MCClient ------------------------------
(* Instances of Client for TLC. *)
EXTENDS Client, TLC

CONSTANTS d1, d2, e1, e2, f1, f2

OneDevice == {d1}
TwoDevices == {d1, d2}
OneEndpoint == {e1}
TwoEndpoints == {e1, e2}
OneFingerprint == {f2}
TwoFingerprints == {f1, f2}
FirstIsValid == {f1}
NoneIsValid == {}
NoTrust == {[e \in Endpoints |-> NoFingerprint]}
AnyTrust == [Endpoints -> Fingerprints \cup {NoFingerprint}]

\* Neither devices nor endpoints are told apart by anything but their name.
NameSymmetry == Permutations(TwoDevices) \cup Permutations(TwoEndpoints)

=============================================================================
