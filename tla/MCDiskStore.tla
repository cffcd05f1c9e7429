---------------------------- MODULE MCDiskStore ----------------------------
(* Small instances of DiskStore for TLC.                                   *)
EXTENDS DiskStore, TLC

(* All names in one folder, the case in which calls get in each other's    *)
(* way.                                                                    *)
OneFolder == [k \in Keys |-> CHOOSE f \in Folders : TRUE]
=============================================================================
