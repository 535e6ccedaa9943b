----------------------------- MODULE MCNotesLock -----------------------------
(* Instances of NotesLock for TLC: two or three processes on one host, a   *)
(* commit for receipts, a commit with a disputed record, one signature.    *)
EXTENDS NotesLock

CONSTANTS w1, w2, w3, c1, c2, s1, p1, hostA

AllHome == [p \in Parked |-> c2]
OneHost == [w \in Writers |-> hostA]

Appending == [kind |-> "append", at |-> c1, ref |-> NoRef]
Retaining == [kind |-> "retain", at |-> c1, ref |-> NoRef]
Resolving == [kind |-> "resolve", at |-> c1, ref |-> s1]
Replacing == [kind |-> "replace", at |-> c2, ref |-> p1]

MixedJobs == [w \in Writers |->
    IF w = w1 THEN {Resolving} ELSE {Appending, Resolving, Replacing, Retaining}]
BackfillJobs == [w \in Writers |-> IF w = w1 THEN {Appending} ELSE {Retaining}]
AppendJobs == [w \in Writers |-> {Appending}]
=============================================================================
