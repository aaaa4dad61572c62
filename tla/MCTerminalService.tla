-------------------------- MODULE MCTerminalService --------------------------
(* Instances of TerminalService.                                           *)
EXTENDS TerminalService

AllFaults == {"kill", "interrupt", "pipe", "disk", "encode", "executor"}

=============================================================================
