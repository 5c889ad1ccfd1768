------------------------------ MODULE MCPicker ------------------------------
(* A small instance of Picker.                                             *)
EXTENDS Picker

CONSTANTS a, b

MCCopies == {a, b}
MCKind == [copy \in MCCopies |-> IF copy = a THEN "text" ELSE "link"]
MCHits == {a}
=============================================================================
