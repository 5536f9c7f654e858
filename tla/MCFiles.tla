------------------------------ MODULE MCFiles ------------------------------
(* File security: the detection's life, the scans with their receipts, and  *)
(* the arrival queue share no state at this level of detail (one passes the *)
(* other a detection or a receipt, an input of the module that gets it), so *)
(* a behaviour of all three is an interleaving of one of each.  part says   *)
(* which of them a behaviour is about; the other two stay as they began.    *)
EXTENDS Quarantine, FileScans, ArrivalScanner, TLC

CONSTANTS threat, other, q1, q2, s1, s2, f1, f2

MCContents == {threat, other}
MCQuarantineIds == {q1, q2}
MCScans == {s1, s2}
MCFileNames == {f1, f2}
MCRootOf == (f1 :> "home") @@ (f2 :> "usb")

VARIABLE part

filesVars == <<part, quarantineVars, scanVars, arrivalVars>>

FilesInit ==
    /\ part \in {"quarantine", "scans", "arrivals"}
    /\ QuarantineInit /\ ScanInit /\ ArrivalInit

FilesNext ==
    /\ UNCHANGED part
    /\ \/ part = "quarantine" /\ QuarantineNext /\ UNCHANGED <<scanVars, arrivalVars>>
       \/ part = "scans" /\ ScanNext /\ UNCHANGED <<quarantineVars, arrivalVars>>
       \/ part = "arrivals" /\ ArrivalNext /\ UNCHANGED <<quarantineVars, scanVars>>

FilesSpec == FilesInit /\ [][FilesNext]_filesVars
=============================================================================
