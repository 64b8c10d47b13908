----------------------------- MODULE EdbListing -----------------------------
(***************************************************************************)
(* The interpreter and the disassembler over the same program: what a      *)
(* session lists is what the context then does.                            *)
(***************************************************************************)
EXTENDS EbcExecute, EdbDisasm

\* Control transfers: all others go on after themselves.
Transfers(c, i) ==
  \/ Opcode(i) = OP.JMP  /\ ~ NotTaken(c, i.operands)
  \/ Opcode(i) = OP.JMP8 /\ ~ NotTaken(c, i.opcode)
  \/ Opcode(i) = OP.CALL /\ ~ Bit(i.operands, 5)
  \/ Opcode(i) = OP.RET

\* The second line of the listing a session begins with is the instruction that
\* is executed next, unless control is transferred or the first one is refused:
\* the lengths of the disassembler are those of the interpreter.
ListedIsExecuted ==
  [][ LET next == EdbShowDisasm(code, vm.Ip)
      IN ( /\ next # -1
           /\ ~ Transfers(vm, Current)
           /\ vm'.Status = "SUCCESS"
           /\ Opcode(Current) \notin NoFunction
           /\ ~ Traps(vm, Current) ) =>
         vm'.Ip = Natural(next) ]_vars

\* The debugger prints the natural and constant units the interpreter computes
\* with, for every index but those whose natural units take more than 12 bits.
IndexesAgree ==
  \A r \in 0 .. 7 :
    LET index == vm.Gpr[r] % 2^16
        shown == EdbGetNaturalIndex16(index)
        used  == VmReadIndex16(index)
        Value(x) == IF shown.Sign THEN -x ELSE x
    IN ~ Overlong(index) =>
         /\ used.NaturalUnits = Value(shown.NaturalUnits)
         /\ used.ConstUnits = Value(shown.ConstantUnits)

\* The text of every instruction but MOVqq, whose indexes have 64 bits, is printed
\* inside its two fields, whatever the numbers.
TextInField ==
  ~ Ended /\ Opcode(Current) # OP.MOVQQ => TextFits(Current)
=============================================================================
