----------------------------- MODULE MCUefiVar -----------------------------
(* UefiVar with names of which one is a prefix of the other, one of them   *)
(* under two guids.                                                        *)
EXTENDS UefiVar

MCLonger == {<<"Boot", "BootOrder">>}

MCEntry == <<[name |-> "Boot", guid |-> 1], [name |-> "Boot", guid |-> 2],
             [name |-> "BootOrder", guid |-> 1]>>

=============================================================================
