-------------------------------- MODULE Cpu --------------------------------
(***************************************************************************)
(* The 8080 of src/src/lib8080.c: the registers, memory and pipes of the   *)
(* emulated processes, and one action per instruction handler, as the code *)
(* does it.  The scheduler's choice of the next process is any choice.     *)
(*                                                                         *)
(* Bytes are 0..255, words 0..65535.  The flags register is the set of the *)
(* bit masks that are set in it; bit operations on bytes are operations on *)
(* such sets.                                                              *)
(***************************************************************************)
EXTENDS Integers, Sequences, FiniteSets

CONSTANTS Proc,      \* the process records
          Origin,    \* those of them that CreateProcess made; Fork makes the others
          Programs,  \* the programs they may run: functions from Origin to bytes
          PipeCap,   \* how many bytes a FIFO holds
          Keys,      \* the bytes a terminal sends (external)
          MaxTyped,  \* bound: how many it sends to a process
          CodeEnd    \* bound: no instruction is fetched from here on

VARIABLES P,      \* the process records; P[p] = NoProcess: not in use
          mem,    \* mem[o]: memory of origin o, the bytes that were stored
          in,     \* in[o]: the bytes in its In FIFO
          out,    \* out[o]: the bytes in its Out FIFO
          up,     \* FALSE once the emulator has crashed
          typed   \* history: the bytes written to the In FIFOs

vars == <<P, mem, in, out, up, typed>>

Byte == 0..255
Word == 0..65535
Mask == {1, 2, 4, 8, 16, 32, 64, 128}

F_C == 1
F_P == 4
F_A == 16
F_Z == 64
F_S == 128

R_H == 4
R_L == 5
R_A == 7

\* A struct Process.  A forked process uses the PageTables, In and Out of the
\* process that CreateProcess made: its origin.
Process == [pc : Word, sp : Word, r : [0..7 -> Byte], F : SUBSET Mask,
            inte : {0, 1}, state : {"run", "halted"}, origin : Origin]
NoProcess == [state |-> "none"]

\* A program ends before the addresses that GetPage mistakes: CreateProcess
\* would crash there, or write over the first page.
ASSUME CpuAssumption ==
  /\ Origin \subseteq Proc /\ Keys \subseteq Byte
  /\ \A f \in Programs : /\ f \in [Origin -> Seq(Byte)]
                         /\ \A o \in Origin : \A i \in 1..Len(f[o]) : i > 57345 => f[o][i] = 0

TypeOK == /\ P \in [Proc -> Process \cup {NoProcess}]
          /\ DOMAIN mem = Origin
          /\ \A o \in Origin : mem[o] \in [DOMAIN mem[o] -> Byte] /\ DOMAIN mem[o] \subseteq Word
          /\ {in, out, typed} \subseteq [Origin -> Seq(Byte)]
          /\ up \in BOOLEAN

\* CreateProcess: the program at address 0, zero bytes skipped.
Loaded(prog) == [a \in {i - 1 : i \in {j \in 1..Len(prog) : prog[j] # 0}} |-> prog[a + 1]]

Created(p) == [pc |-> 0, sp |-> 3840, r |-> [i \in 0..7 |-> 0], F |-> {},
               inte |-> 1, state |-> "run", origin |-> p]

Init == /\ P = [p \in Proc |-> IF p \in Origin THEN Created(p) ELSE NoProcess]
        /\ \E f \in Programs : mem = [o \in Origin |-> Loaded(f[o])]
        /\ in = [o \in Origin |-> <<>>]
        /\ out = [o \in Origin |-> <<>>]
        /\ typed = [o \in Origin |-> <<>>]
        /\ up = TRUE
-----------------------------------------------------------------------------
(***************************************************************************)
(* Bytes and words.                                                        *)
(***************************************************************************)
Bits(n) == {m \in Mask : (n \div m) % 2 = 1}
Num(S)  == LET b(m) == IF m \in S THEN m ELSE 0
           IN  b(1) + b(2) + b(4) + b(8) + b(16) + b(32) + b(64) + b(128)

And(a, b) == Num(Bits(a) \cap Bits(b))
Or(a, b)  == Num(Bits(a) \cup Bits(b))
Differ(A, B) == (A \ B) \cup (B \ A)
Xor(a, b) == Num(Differ(Bits(a), Bits(b)))

Lo(w) == w % 256
Hi(w) == w \div 256

When(cond, m) == IF cond THEN {m} ELSE {}

\* CheckZero, CheckSign, CheckParity.
ZSP(x) == When(x = 0, F_Z) \cup When(x >= 128, F_S)
            \cup When(Cardinality(Bits(x)) % 2 = 0, F_P)

\* Mutant of CarryAdd: one too far.
CarryAddLate(a, b) == When(a + (b % 256) > 256, F_C) \cup When((a % 16) + (b % 16) > 15, F_A)

\* CheckCarryOut and CheckAuxCarryOut with Addition: both operands become
\* unsigned chars first.
CarryAdd(a, b) == When(a + (b % 256) > 255, F_C) \cup When((a % 16) + (b % 16) > 15, F_A)

\* The same with Subtraction, which adds the complement of its operand's
\* byte: there is always a carry out of the low nibble.
CarrySub(a, b) == When(a <= b % 256, F_C) \cup {F_A}
-----------------------------------------------------------------------------
(***************************************************************************)
(* Memory.  GetPage takes the address as a short and divides it by 4096,   *)
(* so the page numbers of the upper half are negative: 0xf001..0xffff are  *)
(* page 0 again, and 0xe001..0xf000 are page -1, where the page table's    *)
(* Type is taken for a pointer and the access is a SIGSEGV.  The pages     *)
(* -2..-8 are words of the table before this one: memory like any other    *)
(* as long as that table has no use for them.                              *)
(***************************************************************************)
Cell(a)  == IF a > 61440 THEN a - 61440 ELSE a
NoPage   == 57345..61440

GetMemory(p, a) == LET m == mem[P[p].origin] c == Cell(a % 65536)
                   IN  IF c \in DOMAIN m THEN m[c] ELSE 0

\* The low byte is a signed char: from 0x80 on its sign fills the high byte.
GetMemoryShort(p, a) == LET low == GetMemory(p, a)
                        IN  IF low >= 128 THEN 65280 + low
                            ELSE 256 * GetMemory(p, a + 1) + low

\* A process that is being run, and the instruction the scheduler fetches.
Opcode(p)  == GetMemory(p, P[p].pc)
Operand(p) == GetMemoryShort(p, P[p].pc + 1)

Dst(p) == (Opcode(p) \div 8) % 8    \* GetRegister(operator, 5, 3)
Src(p) == Opcode(p) % 8
RP(p)  == (Opcode(p) \div 16) % 4   \* GetRegister(operator, 5, 4)

Pair(q, i)  == IF i = 3 THEN q.sp ELSE 256 * q.r[2 * i] + q.r[2 * i + 1]
HL(p)       == Pair(P[p], 2)
Value(p, i) == IF i = 6 THEN GetMemory(p, HL(p)) ELSE P[p].r[i]

\* Memory m after a store of v to c.
Stored(m, c, v) == [b \in DOMAIN m \cup {c} |-> IF b = c THEN v ELSE m[b]]

Keep == UNCHANGED <<in, out, up, typed>>

\* The program counter wraps around.
Further(q, n) == [q EXCEPT !.pc = (@ + n) % 65536]

\* The process becomes q, n bytes further on.
Become(p, q, n) == /\ P' = [P EXCEPT ![p] = Further(q, n)]
                   /\ UNCHANGED mem /\ Keep

\* The same, with SetMemory(v, a) on the way.
SetMemory(p, q, n, a, v) ==
  /\ P' = [P EXCEPT ![p] = Further(q, n)]
  /\ mem' = [mem EXCEPT ![q.origin] = Stored(@, Cell(a % 65536), v)]
  /\ Keep

\* The same, with SetMemory(Lo(w), a); SetMemory(Hi(w), a + 1).
SetMemoryShort(p, q, n, a, w) ==
  /\ P' = [P EXCEPT ![p] = Further(q, n)]
  /\ mem' = [mem EXCEPT ![q.origin] = Stored(Stored(@, Cell(a % 65536), Lo(w)),
                                               Cell((a + 1) % 65536), Hi(w))]
  /\ Keep
-----------------------------------------------------------------------------
(***************************************************************************)
(* Which bytes of memory the instruction at pc reads and writes, and       *)
(* whether a conditional instruction's condition holds.                    *)
(***************************************************************************)
Condition(p) == LET cc == Dst(p)
                IN  (<<F_Z, F_C, F_P, F_S>>[cc \div 2 + 1] \in P[p].F) <=> (cc % 2 = 1)

Returns == {192, 200, 208, 216, 224, 232, 240, 248}
Jumps   == {op + 2 : op \in Returns}
Calls   == {op + 4 : op \in Returns}
Resets  == {op + 7 : op \in Returns}

Moves   == (64..127) \ {118}
Singles == {8 * i + 4 : i \in 0..7}    \* INR; DCR is one more, MVI two more
Pairs   == {16 * i : i \in 0..3}

\* The entries LoadInstructionSet leaves NULL.
NoHandler == {8 * i : i \in 1..7} \cup {221, 237, 253}

Sp(p, n) == (P[p].sp + 65536 + n) % 65536

Accesses(p) ==
  LET op == Opcode(p)
      memory   == \/ op \in Moves /\ 6 \in {Dst(p), Src(p)}
                  \/ op \in 128..191 /\ Src(p) = 6
                  \/ op \in {52, 53, 54}
      pushes   == \/ op \in {197, 213, 229, 245, 205}
                  \/ op \in Calls /\ Condition(p)
                  \/ op \in Resets /\ P[p].inte = 1
      pops     == \/ op \in {193, 209, 225, 241, 201, 227}
                  \/ op \in Returns /\ Condition(p)
      pointers == {2, 10, 18, 26}
  IN  (IF memory THEN {HL(p)} ELSE {})
        \cup (IF pushes THEN {Sp(p, -2), Sp(p, -1)} ELSE {})
        \cup (IF pops THEN {Sp(p, 0), Sp(p, 1)} ELSE {})
        \cup (IF op \in pointers THEN {Pair(P[p], op \div 16)} ELSE {})
        \cup (IF op \in {34, 42, 50, 58} THEN {Operand(p)} ELSE {})
        \cup (IF op \in {34, 42} THEN {(Operand(p) + 1) % 65536} ELSE {})

Fetches(p) == {(P[p].pc + i) % 65536 : i \in 0..2}

\* A page that is no page, or an opcode without a handler: SIGSEGV.
Crash(p) == /\ \/ Opcode(p) \in NoHandler
               \/ (Fetches(p) \cup Accesses(p)) \cap NoPage # {}
            /\ up' = FALSE
            /\ UNCHANGED <<P, mem, in, out, typed>>
-----------------------------------------------------------------------------
(***************************************************************************)
(* Data movement.                                                          *)
(***************************************************************************)
NOP(p) == Opcode(p) = 0 /\ Become(p, P[p], 1)

MOV(p) == /\ Opcode(p) \in Moves
          /\ \/ Dst(p) # 6 /\ Become(p, [P[p] EXCEPT !.r[Dst(p)] = Value(p, Src(p))], 1)
             \/ Dst(p) = 6 /\ SetMemory(p, P[p], 1, HL(p), Value(p, Src(p)))

\* The immediate byte is one, but the instruction is taken to be 3 bytes long.
MVI(p) == /\ Opcode(p) - 2 \in Singles
          /\ \/ Dst(p) # 6 /\ Become(p, [P[p] EXCEPT !.r[Dst(p)] = Lo(Operand(p))], 3)
             \/ Dst(p) = 6 /\ SetMemory(p, P[p], 3, HL(p), Lo(Operand(p)))

SetPair(q, i, w) == IF i = 3 THEN [q EXCEPT !.sp = w]
                    ELSE [q EXCEPT !.r[2 * i] = Hi(w), !.r[2 * i + 1] = Lo(w)]

LXI(p) == Opcode(p) - 1 \in Pairs /\ Become(p, SetPair(P[p], RP(p), Operand(p)), 3)

STAX(p) == /\ Opcode(p) \in {2, 18}
           /\ SetMemory(p, P[p], 1, Pair(P[p], RP(p)), P[p].r[R_A])

LDAX(p) == /\ Opcode(p) \in {10, 26}
           /\ Become(p, [P[p] EXCEPT !.r[R_A] = GetMemory(p, Pair(P[p], RP(p)))], 1)

STA(p) == Opcode(p) = 50 /\ SetMemory(p, P[p], 3, Operand(p), P[p].r[R_A])

LDA(p) == /\ Opcode(p) = 58
          /\ Become(p, [P[p] EXCEPT !.r[R_A] = GetMemory(p, Operand(p))], 3)

SHLD(p) == Opcode(p) = 34 /\ SetMemoryShort(p, P[p], 3, Operand(p), HL(p))

LHLD(p) == /\ Opcode(p) = 42
           /\ Become(p, [P[p] EXCEPT !.r[R_L] = GetMemory(p, Operand(p)),
                                     !.r[R_H] = GetMemory(p, Operand(p) + 1)], 3)

\* ExchangeRegisters exchanges two local variables.
XCHG(p) == Opcode(p) = 235 /\ Become(p, P[p], 1)

XTHL(p) == /\ Opcode(p) = 227
           /\ SetMemoryShort(p, [P[p] EXCEPT !.r[R_L] = GetMemory(p, P[p].sp),
                                             !.r[R_H] = GetMemory(p, P[p].sp + 1)],
                             1, P[p].sp, HL(p))

SPHL(p) == Opcode(p) = 249 /\ Become(p, [P[p] EXCEPT !.sp = HL(p)], 1)

\* Push: the flags are the high byte of PSW.
PushedBy(p) == IF RP(p) = 3 THEN 256 * Num(P[p].F) + P[p].r[R_A] ELSE Pair(P[p], RP(p))

\* Mutant of PushWord: stores above the old stack pointer.
PushWordUp(p, q, w) == SetMemoryShort(p, [q EXCEPT !.sp = Sp(p, -2)], 0, Sp(p, 0), w)

PushWord(p, q, w) == SetMemoryShort(p, [q EXCEPT !.sp = Sp(p, -2)], 0, Sp(p, -2), w)

PUSH(p) == /\ Opcode(p) - 5 \in {192 + i : i \in Pairs}
           /\ PushWord(p, [P[p] EXCEPT !.pc = (@ + 1) % 65536], PushedBy(p))

\* Mutant of Top: the bytes of the word are exchanged.
TopSwapped(p) == 256 * GetMemory(p, P[p].sp) + GetMemory(p, P[p].sp + 1)

Top(p) == 256 * GetMemory(p, P[p].sp + 1) + GetMemory(p, P[p].sp)

\* Pop: the flags are the low byte of PSW.
Popped(p, w) == IF RP(p) = 3 THEN [P[p] EXCEPT !.r[R_A] = Hi(w),
                                               !.F = (Bits(Lo(w)) \cup {2}) \ {8, 32}]
                             ELSE SetPair(P[p], RP(p), w)

POP(p) == /\ Opcode(p) - 1 \in {192 + i : i \in Pairs}
          /\ Become(p, [Popped(p, Top(p)) EXCEPT !.sp = Sp(p, 2)], 1)
-----------------------------------------------------------------------------
(***************************************************************************)
(* Arithmetic and logic.                                                   *)
(***************************************************************************)
A(p)     == P[p].r[R_A]
\* Mutant of Carry: always clear.
CarryClear(p) == 0

Carry(p) == IF F_C \in P[p].F THEN 1 ELSE 0

\* Mutant of Arith: the accumulator is not cut off at 8 bits.
ArithWide(p, a, fl, n) == Become(p, [P[p] EXCEPT !.r[R_A] = a,
                                       !.F = (@ \cap {2, 8, 32}) \cup fl \cup ZSP(a % 256)], n)

\* The accumulator becomes a; C and A become fl; Z, S and P describe a.
Arith(p, a, fl, n) == Become(p, [P[p] EXCEPT !.r[R_A] = a % 256,
                                   !.F = (@ \cap {2, 8, 32}) \cup fl \cup ZSP(a % 256)], n)

\* The same, but A is left as it was unless it is in fl.
Logic(p, a, fl, n) == Become(p, [P[p] EXCEPT !.r[R_A] = a,
                                   !.F = (@ \cap {2, 8, 16, 32}) \cup fl \cup ZSP(a)], n)

\* C is turned around whenever a bit of 0x70 is set in the accumulator or
\* bit 7 in the difference.
Compare(p, v, n) ==
  LET turned == A(p) % 128 >= 16 \/ (A(p) + 256 - v) % 256 >= 128
  IN  Become(p, [P[p] EXCEPT !.F = (@ \ {F_Z, F_C}) \cup When(A(p) = v, F_Z)
                                     \cup When((v > A(p)) # turned, F_C)], n)

Complement(v) == (256 - v) % 256

Alu(p, i) == Opcode(p) \in 8 * i + 128 .. 8 * i + 135

ADD(p) == Alu(p, 0) /\ LET v == Value(p, Src(p))
                       IN  Arith(p, A(p) + v, CarryAdd(A(p), v), 1)
ADC(p) == Alu(p, 1) /\ LET v == Value(p, Src(p)) + Carry(p)
                       IN  Arith(p, A(p) + v, CarryAdd(A(p), v), 1)
SUB(p) == Alu(p, 2) /\ LET v == Complement(Value(p, Src(p)))
                       IN  Arith(p, A(p) + v, Differ(CarryAdd(A(p), v), {F_C}), 1)
SBB(p) == Alu(p, 3) /\ LET v == Value(p, Src(p)) + Carry(p)
                       IN  Arith(p, A(p) + 256 - v, CarrySub(A(p), v), 1)
ANA(p) == Alu(p, 4) /\ Logic(p, And(A(p), Value(p, Src(p))), {}, 1)
XRA(p) == Alu(p, 5) /\ Logic(p, Xor(A(p), Value(p, Src(p))), {F_A}, 1)
ORA(p) == Alu(p, 6) /\ Logic(p, Or(A(p), Value(p, Src(p))), {F_A}, 1)
CMP(p) == Alu(p, 7) /\ Compare(p, Value(p, Src(p)), 1)

\* The immediate byte is taken from the operand's high half: the byte after
\* the instruction's own, or 255 if the instruction's own is 128 or more.
Immediate(p) == Hi(Operand(p))

ADI(p) == Opcode(p) = 198 /\ Arith(p, A(p) + Immediate(p), CarryAdd(A(p), Immediate(p)), 2)
ACI(p) == Opcode(p) = 206 /\ LET v == Immediate(p) + Carry(p)
                             IN  Arith(p, A(p) + v, CarryAdd(A(p), v), 2)
SUI(p) == Opcode(p) = 214 /\ LET v == 255 - Immediate(p)
                             IN  Arith(p, A(p) + v, CarrySub(A(p), v), 2)
SBI(p) == Opcode(p) = 222 /\ LET v == (511 - Immediate(p) - Carry(p)) % 256
                             IN  Arith(p, A(p) + v, CarrySub(A(p), v), 2)
ANI(p) == Opcode(p) = 230 /\ Logic(p, And(A(p), Immediate(p)), {}, 2)
XRI(p) == Opcode(p) = 238 /\ Logic(p, Xor(A(p), Immediate(p)), {}, 2)
ORI(p) == Opcode(p) = 246 /\ Logic(p, Or(A(p), Immediate(p)), {}, 2)
CPI(p) == Opcode(p) = 254 /\ Compare(p, Immediate(p), 2)

\* Flags after INR and DCR of register i, which becomes x: with i = 6 the
\* byte at HL is looked at, the carry is kept.
StepFlags(p, i, x, aux) == (P[p].F \cap {1, 2, 8, 32}) \cup aux
                             \cup ZSP(IF i = 6 THEN x ELSE x % 256)

\* `!Reg != 6' is always true: INR M increments registers[6].
INR(p) == /\ Opcode(p) \in Singles
          /\ LET i == Dst(p)
                 x == (P[p].r[i] + 1) % 256
             IN  Become(p, [P[p] EXCEPT !.r[i] = x,
                   !.F = StepFlags(p, i, IF i = 6 THEN GetMemory(p, HL(p)) ELSE x,
                                   When(P[p].r[i] % 16 = 15, F_A))], 1)

\* Only M and A are decremented, the other registers are incremented.
DCR(p) ==
  /\ Opcode(p) - 1 \in Singles
  /\ LET i == Dst(p)
         x == (IF i = 6 THEN GetMemory(p, HL(p)) + 255
               ELSE P[p].r[i] + (IF i = R_A THEN 255 ELSE 1)) % 256
         q == [P[p] EXCEPT !.F = StepFlags(p, i, x, {F_A})]
     IN  \/ i = 6 /\ SetMemory(p, q, 1, HL(p), x)
         \/ i # 6 /\ Become(p, [q EXCEPT !.r[i] = x], 1)

CMA(p) == Opcode(p) = 47 /\ Become(p, [P[p] EXCEPT !.r[R_A] = 255 - @], 1)
STC(p) == Opcode(p) = 55 /\ Become(p, [P[p] EXCEPT !.F = @ \cup {F_C}], 1)
CMC(p) == Opcode(p) = 63 /\ Become(p, [P[p] EXCEPT !.F = Differ(@, {F_C})], 1)

\* `0xf > 9' comes first: what is tested of the accumulator is its bit 0.
DAA(p) ==
  /\ Opcode(p) = 39
  /\ LET F  == P[p].F
         lowAdjust  == F_A \in F \/ A(p) % 16 > 9
         x  == (A(p) + 6) % 256
         highAdjust == x \div 16 > 9 \/ F_C \in F
         y  == (x + 96) % 256
         FA == (F \ {F_A}) \cup When(A(p) % 2 = 1, F_A)
         FC == (FA \ {F_C}) \cup When(x \div 16 > 9, F_C)
         Set(a, G) == [P[p] EXCEPT !.r[R_A] = a, !.F = (G \ {F_Z, F_S, F_P}) \cup ZSP(a)]
     IN  \/ ~lowAdjust /\ Become(p, Set(A(p), F), 1)
         \/ lowAdjust /\ ~highAdjust /\ Become(p, Set(x, FA), 1)
         \/ lowAdjust /\ highAdjust /\ Become(p, Set(y, FC), 1)

\* The bit rotated out is or-ed into C, which only RAR can clear.
Rotate(p, a, F) == Become(p, [P[p] EXCEPT !.r[R_A] = a % 256, !.F = F], 1)

RLC(p) == Opcode(p) = 7 /\ LET F == P[p].F \cup When(A(p) >= 128, F_C)
                           IN  Rotate(p, 2 * A(p) + (IF F_C \in F THEN 1 ELSE 0), F)
RRC(p) == Opcode(p) = 15 /\ LET F == P[p].F \cup When(A(p) % 2 = 1, F_C)
                            IN  Rotate(p, A(p) \div 2 + (IF F_C \in F THEN 128 ELSE 0), F)
RAL(p) == Opcode(p) = 23 /\ Rotate(p, 2 * A(p) + Carry(p), P[p].F \cup When(A(p) >= 128, F_C))
RAR(p) == Opcode(p) = 31 /\ Rotate(p, A(p) \div 2 + 128 * Carry(p),
                                   P[p].F \cap When(A(p) % 2 = 1, F_C))

\* Concatenate returns a short: each operand of 0x8000 or more, except SP,
\* counts 2^32 - 2^16 more in the 32-bit sum whose excess over 0xffff sets C.
DAD(p) == /\ Opcode(p) - 9 \in Pairs
          /\ LET x == Pair(P[p], RP(p))
                 y == HL(p)
                 negative == (IF RP(p) # 3 /\ x >= 32768 THEN 1 ELSE 0)
                               + (IF y >= 32768 THEN 1 ELSE 0)
                 over == \/ negative = 0 /\ x + y > 65535
                         \/ negative = 1 /\ x + y < 65536
                         \/ negative = 2
             IN  Become(p, [SetPair(P[p], 2, (x + y) % 65536)
                              EXCEPT !.F = @ \cup When(over, F_C)], 1)

\* Mutant of INX: sets the flags as INR does.
INXWithFlags(p) == /\ Opcode(p) - 3 \in Pairs
                   /\ LET w == (Pair(P[p], RP(p)) + 1) % 65536
                      IN  Become(p, [SetPair(P[p], RP(p), w) EXCEPT !.F = ZSP(Lo(w))], 1)

INX(p) == /\ Opcode(p) - 3 \in Pairs
          /\ LET i == RP(p)
                 w == (Pair(P[p], i) + 1) % 65536
             IN  Become(p, CASE i = 0 -> [P[p] EXCEPT !.r[1] = Hi(w)]
                             [] i = 1 -> [P[p] EXCEPT !.r[2] = Lo(w), !.r[3] = Hi(w)]
                             [] OTHER -> SetPair(P[p], i, w), 1)

DCX(p) == /\ Opcode(p) - 11 \in Pairs
          /\ LET i == RP(p)
                 w == (Pair(P[p], i) + 65535) % 65536
             IN  Become(p, CASE i = 0 -> [P[p] EXCEPT !.r[1] = Hi(w)]
                             [] i = 3 -> [P[p] EXCEPT !.sp = w]
                             [] OTHER -> [P[p] EXCEPT !.r[2 * i] = Lo(w),
                                                      !.r[2 * i + 1] = Hi(w)], 1)
-----------------------------------------------------------------------------
(***************************************************************************)
(* Control.                                                                *)
(***************************************************************************)
Goto(p, a) == Become(p, [P[p] EXCEPT !.pc = a], 0)

\* The word pushed is the address of the calling instruction itself.
Subroutine(p, a) == PushWord(p, [P[p] EXCEPT !.pc = a], P[p].pc)

Back(p) == Become(p, [P[p] EXCEPT !.pc = Top(p), !.sp = Sp(p, 2)], 0)

PCHL(p) == Opcode(p) = 233 /\ Goto(p, (HL(p) + 1) % 65536)
JMP(p)  == Opcode(p) \in {195, 203} /\ Goto(p, Operand(p))
CALL(p) == Opcode(p) = 205 /\ Subroutine(p, Operand(p))
RET(p)  == Opcode(p) = 201 /\ Back(p)

\* An instruction whose condition does not hold is 3 bytes long, returns too.
Skip(p, ops) == Opcode(p) \in ops /\ ~Condition(p) /\ Become(p, P[p], 3)

JumpIf(p)   == Skip(p, Jumps) \/ (Opcode(p) \in Jumps /\ Condition(p) /\ Goto(p, Operand(p)))
CallIf(p)   == Skip(p, Calls) \/ (Opcode(p) \in Calls /\ Condition(p)
                                    /\ Subroutine(p, Operand(p)))
ReturnIf(p) == Skip(p, Returns) \/ (Opcode(p) \in Returns /\ Condition(p) /\ Back(p))

RST(p) == /\ Opcode(p) \in Resets
          /\ IF P[p].inte = 0 THEN Become(p, P[p], 0) ELSE Subroutine(p, 8 * Dst(p))

EI(p) == Opcode(p) = 251 /\ Become(p, [P[p] EXCEPT !.inte = 1], 1)
DI(p) == Opcode(p) = 243 /\ Become(p, [P[p] EXCEPT !.inte = 0], 1)

HLT(p) == Opcode(p) = 118 /\ Become(p, [P[p] EXCEPT !.state = "halted"], 0)

Load(p, b) == P' = [P EXCEPT ![p] = Further([@ EXCEPT !.r[R_A] = b], 2)]

\* Mutants of Input: takes the byte that came last; waits for a second byte.
InputNewest(p) ==
  LET o == P[p].origin
  IN  /\ Opcode(p) = 219
      /\ \/ in[o] = <<>> /\ Load(p, 0) /\ UNCHANGED in
         \/ /\ in[o] # <<>>
            /\ Load(p, in[o][Len(in[o])])
            /\ in' = [in EXCEPT ![o] = SubSeq(@, 1, Len(@) - 1)]
      /\ UNCHANGED <<mem, out, up, typed>>

InputOfTwo(p) ==
  LET o == P[p].origin
  IN  /\ Opcode(p) = 219
      /\ \/ Len(in[o]) < 2 /\ Load(p, 0) /\ UNCHANGED in
         \/ Len(in[o]) >= 2 /\ Load(p, Head(in[o])) /\ in' = [in EXCEPT ![o] = Tail(@)]
      /\ UNCHANGED <<mem, out, up, typed>>

Input(p) == LET o == P[p].origin
         IN  /\ Opcode(p) = 219
             /\ \/ in[o] = <<>> /\ Load(p, 0) /\ UNCHANGED in
                \/ in[o] # <<>> /\ Load(p, Head(in[o])) /\ in' = [in EXCEPT ![o] = Tail(@)]
             /\ UNCHANGED <<mem, out, up, typed>>

\* A full FIFO does not block: the byte is lost.
Output(p) == LET o == P[p].origin
          IN  /\ Opcode(p) = 211
              /\ P' = [P EXCEPT ![p] = Further(@, 2)]
              /\ out' = IF Len(out[o]) < PipeCap THEN [out EXCEPT ![o] = Append(@, A(p))]
                                                 ELSE out
              /\ UNCHANGED <<mem, in, up, typed>>

\* Mutant of Fork: the child starts at the fork.
ForkAgain(p) ==
  /\ Opcode(p) = 217
  /\ \E c \in {d \in Proc : P[d] = NoProcess} :
       P' = [P EXCEPT ![p] = [Further(@, 1) EXCEPT !.F = @ \ {F_Z}],
                      ![c] = [P[p] EXCEPT !.F = @ \cup {F_Z}]]
  /\ UNCHANGED mem /\ Keep

\* The child gets Z, the parent loses it, and they share everything else.
\* Bound: there is a process record left.
Fork(p) == /\ Opcode(p) = 217
           /\ \E c \in {d \in Proc : P[d] = NoProcess} :
                LET q == Further(P[p], 1)
                IN  P' = [P EXCEPT ![p] = [q EXCEPT !.F = @ \ {F_Z}],
                                   ![c] = [q EXCEPT !.F = @ \cup {F_Z}]]
           /\ UNCHANGED mem /\ Keep
-----------------------------------------------------------------------------
Move(p)    == \/ NOP(p) \/ MOV(p) \/ MVI(p) \/ LXI(p) \/ STAX(p) \/ LDAX(p) \/ STA(p)
              \/ LDA(p) \/ SHLD(p) \/ LHLD(p) \/ XCHG(p) \/ XTHL(p) \/ SPHL(p)
              \/ PUSH(p) \/ POP(p)

Compute(p) == \/ ADD(p) \/ ADC(p) \/ SUB(p) \/ SBB(p) \/ ANA(p) \/ XRA(p) \/ ORA(p)
              \/ CMP(p) \/ ADI(p) \/ ACI(p) \/ SUI(p) \/ SBI(p) \/ ANI(p) \/ XRI(p)
              \/ ORI(p) \/ CPI(p) \/ INR(p) \/ DCR(p) \/ CMA(p) \/ STC(p) \/ CMC(p)
              \/ DAA(p) \/ RLC(p) \/ RRC(p) \/ RAL(p) \/ RAR(p) \/ DAD(p) \/ INX(p)
              \/ DCX(p)

Control(p) == \/ PCHL(p) \/ JMP(p) \/ CALL(p) \/ RET(p) \/ JumpIf(p) \/ CallIf(p)
              \/ ReturnIf(p) \/ RST(p) \/ EI(p) \/ DI(p) \/ HLT(p) \/ Input(p) \/ Output(p)
              \/ Fork(p)

\* The scheduler's inner loop, once, for process p.
Execute(p) == /\ up /\ P[p].state = "run" /\ P[p].pc < CodeEnd
              /\ \/ Crash(p)
                 \/ /\ (Fetches(p) \cup Accesses(p)) \cap NoPage = {}
                    /\ Move(p) \/ Compute(p) \/ Control(p)

\* WriteProcessStream with one byte of input, to a program that has an IN:
\* the others never look at their FIFO.
Key(o, b) == /\ up /\ Len(typed[o]) < MaxTyped /\ Len(in[o]) < PipeCap
             /\ \E a \in DOMAIN mem[o] : mem[o][a] = 219
             /\ in' = [in EXCEPT ![o] = Append(@, b)]
             /\ typed' = [typed EXCEPT ![o] = Append(@, b)]
             /\ UNCHANGED <<P, mem, out, up>>

Next == \/ \E p \in Proc : Execute(p)
        \/ \E o \in Origin, b \in Keys : Key(o, b)

Spec == Init /\ [][Next]_vars

\* The ready queue lets every process that runs have its turn.
FairSpec == Spec /\ \A p \in Proc : WF_vars(Execute(p))
-----------------------------------------------------------------------------
(***************************************************************************)
(* What one instruction may do.                                            *)
(***************************************************************************)
Executes(p, ops) == P[p].state = "run" /\ Opcode(p) \in ops /\ P'[p] # P[p]

\* The instructions that set flags; 241 is POP PSW, 217 Fork.
FlagSetters == (128..191) \cup {8 * i + 198 : i \in 0..7}
                 \cup Singles \cup {op + 1 : op \in Singles}
                 \cup {9, 25, 41, 57, 7, 15, 23, 31, 39, 55, 63, 241, 217}

(***************************************************************************)
(* The flags an instruction computed survive every load, store, move,      *)
(* call, return and 16-bit increment until a jump tests them: a program    *)
(* may compare first and branch later (the handlers of lib8080.c).         *)
(***************************************************************************)
FlagsSurvive ==
  [][\A p \in Proc : Executes(p, (0..255) \ FlagSetters) => P'[p].F = P[p].F]_vars

(***************************************************************************)
(* A handler stores only where the instruction points: a byte that changes *)
(* is one that HL, BC, DE, the operand or the stack pointer addresses      *)
(* before the instruction, in the memory of the process it is run for.     *)
(***************************************************************************)
StoresWhereItPoints ==
  [][\A p \in Proc : Executes(p, 0..255) =>
       \A o \in Origin : \A a \in DOMAIN mem'[o] :
         ~(a \in DOMAIN mem[o] /\ mem'[o][a] = mem[o][a])
           => o = P[p].origin /\ a \in {Cell(b) : b \in Accesses(p)}]_vars

(***************************************************************************)
(* ADD leaves the whole sum in carry and accumulator, and subtracting what *)
(* was added with SUB leaves the difference, borrow included unless the    *)
(* subtrahend is 0 (lib8080.c:165-222, 1445-1505).                         *)
(***************************************************************************)
SumExact ==
  [][\A p \in Proc :
       /\ Executes(p, 128..135) => 256 * Carry(p)' + A(p)' = A(p) + Value(p, Src(p))
       /\ Executes(p, 144..151) /\ Value(p, Src(p)) # 0
            => A(p)' = A(p) - Value(p, Src(p)) + 256 * Carry(p)']_vars
=============================================================================
