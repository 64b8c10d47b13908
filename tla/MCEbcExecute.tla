---- MODULE MCEbcExecute ----
EXTENDS EdbListing, TLC

\* Contents of registers: addresses of any alignment, and the numbers at the
\* ends of both ranges.
MCStarts ==
  {[Gpr |-> [r \in 0 .. 7 |-> <<196, 33, 5, 65533, 9, 0, 7, 64>>[r + 1]], On |-> TRUE],
   [Gpr |-> [r \in 0 .. 7 |-> <<196, 128, 255, 65535, 32768, 3, 0, 61>>[r + 1]], On |-> FALSE]}

\* Two values of a datum of every kind.
Values(kind) ==
  CASE kind = 0 -> <<24, -4>>
    [] kind = 2 -> <<24, 32768 + 4096 + 9>>
    [] OTHER -> <<[Sign |-> 1, NBits |-> 0, Rest |-> 24], [Sign |-> -1, NBits |-> 1, Rest |-> 17]>>

Instruction(opcode, operands, n) ==
  LET i == [opcode |-> opcode, operands |-> operands, data |-> <<>>]
      k == Kinds(i)
  IN [i EXCEPT !.data = [j \in DOMAIN k |-> Values(k[j])[n]]]

\* Programs of one instruction: every opcode with every modifier, on a choice of
\* operands, with the two choices of data in turn.
Operands == {r1 + 8 * a + 16 * r2 + 128 * b : r1 \in {0, 1}, a, b \in {0, 1}, r2 \in {0, 1, 2, 4}}

Single == {2 :> Instruction(op, operands, 1 + ((op \div 64 + operands \div 16) % 2)) :
             op \in 0 .. 255, operands \in Operands \cup 2 .. 7}

RET    == Instruction(OP.RET, 0, 1)
I(op, modifiers, operands, data) == [opcode |-> op + modifiers, operands |-> operands, data |-> data]

\* Instructions one after the other from EntryPoint.
Placed(i, addrs) == [a \in {addrs[n] : n \in DOMAIN addrs} |->
                       i[CHOOSE n \in DOMAIN addrs : addrs[n] = a]]

\* A call of a function that pushes, calls a second one by register, and pops,
\* after R0 is moved, so that the stack has other alignments: even, then odd.
Calls(by) == Placed(
  << I(OP.ADD, 128 + 64, 16 * 5, <<by>>), I(OP.CALL, 128, 16, <<4>>), RET,
     I(OP.PUSH, 0, 1, <<>>), I(OP.MOVI, 128, 32 + 5, <<32>>), I(OP.CALL, 0, 5, <<>>),
     I(OP.POP, 0, 2, <<>>), RET,
     I(OP.CALL, 192, 0, <<46>>), RET, RET >>,
  << 2, 6, 12, 16, 18, 24, 26, 28, 32, 42, 46 >>)

\* A function that calls itself; a number written over the magic word, then more.
Recursion == Placed(<< I(OP.CALL, 128, 16, <<-6>>) >>, << 2 >>)
Overwrite == Placed(<< I(OP.MOVI, 64, 8 + 64 + 32, <<24, 7>>), I(OP.ADD, 0, 18, <<>>), RET >>,
                    << 2, 8, 10 >>)

\* The stack moves out of its pool and back, with pushes in between.
Relocate == Placed(
  << I(OP.PUSHN, 0, 1, <<>>), I(OP.MOVI, 192, 48, <<248>>), I(OP.PUSH, 64, 1, <<>>),
     I(OP.POP, 64, 3, <<>>), I(OP.MOVI, 192, 48, <<192>>), I(OP.POPN, 0, 2, <<>>), RET >>,
  << 2, 4, 14, 16, 18, 28, 30 >>)

\* Single step, on and off.
Step == Placed(
  << I(OP.LOADSP, 0, 16 * 7, <<>>), I(OP.STORESP, 0, 3, <<>>),
     I(OP.CMPEQ, 64, 16 * 3 + 3, <<>>), RET >>, << 2, 4, 6, 8 >>)

MCPrograms == Single \cup {Calls(0), Calls(-2), Calls(-3), Recursion, Overwrite, Relocate, Step}
====
