------------------------------ MODULE MCDevCon ------------------------------
(* Small instances of DevConProperties for TLC. *)
EXTENDS DevConProperties

TwoIds == {"PCSuite", "MassStorage"}
Chosen == {"1", "2", "9"}
Mapped == [ i \in Chosen |-> CASE i = "1" -> "PCSuite" [] i = "2" -> "MassStorage" [] OTHER -> i ]

Asks(name, id) == [name |-> name, id |-> id, plain |-> TRUE, length |-> FALSE, toHost |-> FALSE]
Reads(name) == [Asks(name, "1") EXCEPT !.length = TRUE, !.toHost = TRUE]
SomeRequests == { Reads("GetAllPersonalities"), Reads("GetLastResult"),
                  Asks("SetPersonality", "1"), Asks("SetPersonality", "2"),
                  Asks("SetPersonality", "9"),
                  [Asks("SetPersonality", "1") EXCEPT !.length = TRUE] }
MaySet == {KErrNone, KErrNotSupported, KErrInUse}
=============================================================================
