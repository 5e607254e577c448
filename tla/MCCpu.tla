------------------------------- MODULE MCCpu -------------------------------
(***************************************************************************)
(* The programs that Cpu runs here: an exerciser for each instruction, and *)
(* those of CpuPrograms from a few words and stacks.                       *)
(***************************************************************************)
EXTENDS CpuPrograms

Edge == {0, 1, 15, 16, 127, 128, 255}

\* Assembly.
MviTo(i, v)  == <<8 * i + 6, v, 0>>       \* 3 bytes long for this machine
LxiSp(w)     == <<49, Lo(w), Hi(w)>>
Halt         == <<118>>
Words(h, l)  == MviTo(R_H, Hi(h)) \o MviTo(R_L, Lo(h)) \o MviTo(0, Hi(l)) \o MviTo(1, Lo(l))
-----------------------------------------------------------------------------
(***************************************************************************)
(* Exerciser: sets every register and the carry, then executes one         *)
(* instruction.  The restart vectors below 64 lead back to the start.      *)
(***************************************************************************)
Exercise(op, byte1, byte2, sp, hl, a, b, carry) ==
  For(<<195, 64, 0>> \o [i \in 1..61 |-> 0]
        \o LxiSp(sp) \o Words(hl, 256 * b + 72) \o MviTo(2, 2) \o MviTo(3, 60)
        \o MviTo(R_A, a) \o (IF carry THEN <<55>> ELSE <<0>>)
        \o <<op, byte1, byte2>> \o Halt \o Halt)

\* A and B at every boundary for the operations on registers and immediates;
\* every opcode with the stack and HL on a page, across two, and on none (no
\* instruction uses both).
Exercises ==
  {Exercise(8 * i + 128, 118, 118, 3840, 64, a, b, c) :
       i \in 0..7, a \in Edge, b \in Edge, c \in BOOLEAN}
    \cup {Exercise(8 * i + 198, n, b, 3840, 64, a, 0, FALSE) :
            i \in 0..7, n \in {118, 240}, a \in Edge, b \in Edge}
    \cup {Exercise(op, 100, 0, at[1], at[2], a, 130, c) :
            op \in 0..255, at \in {<<3840, 64>>, <<1, 4095>>, <<57345, 61000>>},
            a \in {18, 154}, c \in BOOLEAN}
-----------------------------------------------------------------------------
WideSums == {Adder(h, l) : h \in {256 * i + j : i \in Edge, j \in Edge},
                           l \in {256 * i + j : i \in Edge, j \in Edge}}

\* The stack at the start and the end of memory and across its pages.
Stacks == {Stacker(sp, de) :
             sp \in {0, 1, 255, 3840, 4097, 4098, 4099, 28672, 32769, 32770, 57344, 61443, 61541},
             de \in {0, 1, 255, 256, 32768, 65535}}

AllPrograms == Exercises \cup WideSums \cup Stacks \cup {Echo, ForkHex}
=============================================================================
