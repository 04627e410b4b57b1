---------------------------- MODULE MCTaskSwitch ----------------------------
(***************************************************************************)
(* Two processors, their boot tasks, the caretaker and one structure that  *)
(* is created, reaped and recycled over and over.                          *)
(***************************************************************************)
EXTENDS TaskSwitch

CONSTANTS c0, c1, boot0, boot1

MCBootTask == [c \in {c0, c1} |-> IF c = c0 THEN boot0 ELSE boot1]

=============================================================================
