----------------------------- MODULE MCSwitches -----------------------------
(* The engines and the commands of the checked instance of Switches. *)
EXTENDS Switches

MCEngines == {"anchors", "rogue"}
MCTexts == [engine : {"anchors"}, on : BOOLEAN] \cup {[engine |-> "rogue", on |-> FALSE]}
=============================================================================
