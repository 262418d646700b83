---------------------------- MODULE MCSettings ----------------------------
(* Texts for TLC: a legacy table, and two commented tables, one of them     *)
(* without an id and with the old alias beside the mode.                    *)
EXTENDS Settings

Old == [NoTable EXCEPT !.bongo = "tall", !.note = "old"]
One == [NoTable EXCEPT !.mode = "drag", !.alias = "drag", !.note = "one"]
Two == [NoTable EXCEPT !.id = 3, !.bongo = "tall", !.note = "two"]

MCFiles == {[legacy |-> TRUE, tables |-> <<Old>>],
            [legacy |-> FALSE, tables |-> <<One, Two>>]}
===========================================================================
