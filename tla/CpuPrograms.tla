---------------------------- MODULE CpuPrograms ----------------------------
(***************************************************************************)
(* Programs for the processor, and what each of them should come to,       *)
(* however its instructions fall between keys and other processes.         *)
(***************************************************************************)
EXTENDS Cpu

CONSTANT p1   \* the process that runs the program

For(program) == [o \in {p1} |-> program]

\* The program has come to its HLT, n bytes from its start.
EndsAt(n) == P[p1].state = "halted" /\ P[p1].pc = n
-----------------------------------------------------------------------------
\* Loads h into HL and l into BC, and adds them twice: a byte at a time into DE,
\* then by DAD into HL.  MVI is 3 bytes long for this machine.
Adder(h, l) == For(<<38, Hi(h), 0, 46, Lo(h), 0, 6, Hi(l), 0, 14, Lo(l), 0,
                     125, 129, 95, 124, 136, 87, 9, 118>>)

(***************************************************************************)
(* A program that adds two words a byte at a time, low bytes with ADD and  *)
(* high bytes with ADC, finds in DE what DAD finds in HL, whatever the     *)
(* words: the carry crosses the MOVs in between (lib8080.c:165-202,        *)
(* 425-446).                                                               *)
(***************************************************************************)
WideSum == EndsAt(19) => Pair(P[p1], 1) = HL(p1)
-----------------------------------------------------------------------------
Kept == 256 * 171 + 205

\* Pushes BC, which is Kept, then DE, clears BC, and pops HL, then BC.
Stacker(sp, de) ==
  For(<<49, Lo(sp), Hi(sp), 38, 0, 0, 46, 0, 0, 6, Hi(Kept), 0, 14, Lo(Kept), 0,
        22, Hi(de), 0, 30, Lo(de), 0, 197, 213, 6, 0, 0, 14, 0, 0, 225, 193, 118>>)

(***************************************************************************)
(* Two words pushed come back in the opposite order, and the stack pointer *)
(* to where it was, wherever the stack is, as the commented-out test of    *)
(* emulator.c:105-114 sets out to show (lib8080.c:377-422).                *)
(***************************************************************************)
StackRestores == EndsAt(31) => /\ HL(p1) = Pair(P[p1], 1)
                               /\ Pair(P[p1], 0) = Kept
                               /\ P[p1].sp = GetMemoryShort(p1, 1)
-----------------------------------------------------------------------------
(***************************************************************************)
(* src/intest.hex: IN, CMP D, JNZ to OUT, JMP to the start: an echo.       *)
(***************************************************************************)
Echo == For(<<219, 1, 186, 194, 15, 0, 195, 0, 0, 0, 0, 0, 0, 0, 0,
              211, 1, 195, 0, 0>>)

\* It stores nothing, and the others start with 195, 217, 38 or 49.
Echoing == GetMemory(p1, 0) = 219

(***************************************************************************)
(* The terminal is shown what was typed, in order, nothing twice and       *)
(* nothing left out, even if the process polls an empty FIFO in between    *)
(* (lib8080.c:1111-1131, libemunet.c:405-445, intest.hex).                 *)
(***************************************************************************)
EchoInOrder == Echoing => /\ Len(out[p1]) <= Len(typed[p1])
                          /\ out[p1] = SubSeq(typed[p1], 1, Len(out[p1]))

(***************************************************************************)
(* Everything typed is echoed in the end, for as long as the Out FIFO has  *)
(* room (lib8080.c:1111-1131).                                             *)
(***************************************************************************)
EchoAnswers ==
  <>[](Echoing => \/ Len(out[p1]) = Len(typed[p1])
                  \/ Len(typed[p1]) > PipeCap /\ Len(out[p1]) = PipeCap)
-----------------------------------------------------------------------------
(***************************************************************************)
(* src/fork.hex: the child puts 0x41 into A, the parent loads A from 0x13; *)
(* both write A and halt.  The child's STA is never executed, because MVI  *)
(* is 3 bytes long.                                                        *)
(***************************************************************************)
ForkHex == For(<<217, 202, 14, 0, 184, 194, 21, 0, 58, 19, 0, 195, 4, 0,
                 62, 65, 50, 20, 0, 65, 0, 211, 1, 118>>)

Forking == GetMemory(p1, 0) = 217

(***************************************************************************)
(* Parent and child tell themselves apart, each goes its own way to the    *)
(* end, and both letters arrive in the FIFO they share, whoever runs first *)
(* (lib8080.c:1140-1172, fork.hex).                                        *)
(***************************************************************************)
ForkPrints == Forking => <>[](/\ \A p \in Proc : P[p].state = "halted"
                              /\ out[p1] = <<65, 65>>)
=============================================================================
