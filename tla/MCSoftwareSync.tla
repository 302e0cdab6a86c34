--------------------------- MODULE MCSoftwareSync ---------------------------
(* Small instance of SoftwareSync.  The contents are interchangeable, so   *)
(* that one of them will do for the release that is there to begin with.   *)
EXTENDS SoftwareSync

MCInit == Init /\ rel[1] \in {NoRow, CHOOSE d \in Contents : TRUE}

MCSpec == MCInit /\ [][Next]_vars /\ Fairness
=============================================================================
