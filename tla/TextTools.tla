----------------------------- MODULE TextTools ------------------------------
(***************************************************************************)
(* The two pure parts of the text tools next to each other: the transforms *)
(* of an edit and the views of a stream.  They share no state and call     *)
(* nothing but each other's results, so a behaviour exercises one of them. *)
(***************************************************************************)
EXTENDS LogViews

CONSTANTS Char, Files, Batches, Seds

VARIABLES
    tool,           \* "edit" or "view"
    lines, eol, answer
editVars == <<lines, eol, answer>>

Edits == INSTANCE EditTransforms

ASSUME InputsAssumption == Edits!InputsAreTyped

TextInit ==
    /\ tool \in {"edit", "view"}
    /\ Init /\ Edits!Init
    /\ tool = "edit" => first = 1
    /\ tool = "view" => [lines |-> lines, eol |-> eol] = CHOOSE f \in Files : TRUE

EditStep == tool = "edit" /\ Edits!Next /\ UNCHANGED <<vars, tool>>
ViewStep == tool = "view" /\ Next /\ UNCHANGED <<editVars, tool>>

TextNext == EditStep \/ ViewStep

TextSpec == TextInit /\ [][TextNext]_<<vars, editVars, tool>>

(* The properties of EditTransforms, of the sessions that edit. *)
EditsExact == Edits!EditsExact
=============================================================================
