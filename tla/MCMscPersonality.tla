-------------------------- MODULE MCMscPersonality --------------------------
(* Small instances of MscPersonalityProperties for TLC. *)
EXTENDS MscPersonalityProperties

ThreeDrives == {3, 4, 5}
FatOrOther == {"Fat", "Other"}
OneFaulty == {4}
MayRefuse == {KErrNone, KErrInUse}
=============================================================================
