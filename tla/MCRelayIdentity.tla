-------------------------- MODULE MCRelayIdentity --------------------------
(* Instances of RelayIdentity for TLC.                                     *)
EXTENDS RelayIdentity, TLC

CONSTANTS c1, c2, c3, c4, sA, sB, kDisk, kMem, i1, i2, i3, i4

\* Three calls share the store object sA over a durable entry; the fourth
\* uses sB, over another entry (an in-memory one).  MCTwoObjects, a second
\* object over the same durable entry, and MCBlanked, a payload emptied by
\* another program, are for the disagreements the README describes.
MCStoreOf == (c1 :> sA) @@ (c2 :> sA) @@ (c3 :> sA) @@ (c4 :> sB)
MCOneObjectPerKey == (sA :> kDisk) @@ (sB :> kMem)
MCTwoObjects == (sA :> kDisk) @@ (sB :> kDisk)
MCDamaged == {"unreadable"}
MCBlanked == {"blank"}
MCOneGiven == [c \in Call |-> IF c = c3 THEN i4 ELSE None]
=============================================================================
