-------------------------------- MODULE Parts --------------------------------
(* The composition of the parts that share no state (PartState): those of    *)
(* MountParts, StreamParts and StateParts.                                   *)
EXTENDS MountParts, StreamParts, StateParts

Init == MountInit \/ StreamInit \/ StateInit

Next == MountNext \/ StreamNext \/ StateNext

Spec == Init /\ [][Next]_vars

(* The records of each part are well formed: the TypeOK of each module. *)
TypeOK == MountTypeOK /\ StreamTypeOK /\ StateTypeOK

=============================================================================
