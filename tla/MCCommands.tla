------------------------------ MODULE MCCommands ------------------------------
(***************************************************************************)
(* The pure functions of the commands over their small inputs, and, in a   *)
(* turn of its own, the process that they share caches in.                 *)
(***************************************************************************)
EXTENDS MCImages, MCReports, MCInventory, MCTables,
        MCColumns, MCRecords, MCCaches

CachesTurn == [of |-> "caches"]

Init == CachesInit /\ (subject = CachesTurn \/ \E n \in Turns : Turn(n))

LookAtAnInput ==
    \/ ScanAFile
    \/ FindImages
    \/ CarveAFile
    \/ RetainARun
    \/ ReportAFile
    \/ CompareTwo
    \/ DiscoverAFile
    \/ ListAFile
    \/ ExtractSheets
    \/ ExtractOthers
    \/ ReadAPayload
    \/ ReadAFile
    \/ ReadAColumn
    \/ BuildAProject

Next ==
    \/ LookAtAnInput /\ UNCHANGED parseVars
    \/ subject = CachesTurn /\ Serve /\ UNCHANGED subject

Spec == Init /\ [][Next]_<<subject, parseVars>>
==============================================================================
