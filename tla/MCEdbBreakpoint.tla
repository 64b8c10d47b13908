-------------------------- MODULE MCEdbBreakpoint --------------------------
(* A program of four instructions, one of them a BREAK 3 of its own, and a *)
(* shorter one for the runs that look for a counterexample.                *)
EXTENDS EdbBreakpoint

MCProgram == <<17, 18, BREAK3, 20>>
MCProgram3 == <<17, 18, BREAK3>>
=============================================================================
