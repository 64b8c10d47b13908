----------------------------- MODULE MCEdbHook -----------------------------
(* Three programs.  In MCRecursive main calls f, which calls itself or not. *)
(* In MCLoop main calls native code in addition.  In MCNative main calls    *)
(* native code, which may call f or main again, and then f.                 *)
EXTENDS EdbHook

MCInstr(op, target) == [Op |-> op, Target |-> target]

MCRecursive ==
  << MCInstr("CALL", 3), MCInstr("RET", 1),
     MCInstr("JMP", 5), MCInstr("CALL", 3), MCInstr("RET", 1) >>

MCLoop ==
  << MCInstr("CALL", 4), MCInstr("CALLEX", 1), MCInstr("RET", 1),
     MCInstr("JMP", 6), MCInstr("CALL", 4), MCInstr("RET", 1) >>

MCNative ==
  << MCInstr("CALLEX", 1), MCInstr("CALL", 4), MCInstr("RET", 1),
     MCInstr("JMP", 6), MCInstr("OTHER", 1), MCInstr("RET", 1) >>
=============================================================================
