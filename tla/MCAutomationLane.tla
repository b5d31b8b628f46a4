--------------------------- MODULE MCAutomationLane ---------------------------
(* The constants of AutomationLane get their values in the configuration.     *)
EXTENDS AutomationLaneProps

=============================================================================
