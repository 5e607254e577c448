----------------------------- MODULE CpuProofs -----------------------------
(***************************************************************************)
(* Theorems about Cpu, for every program: its registers, flags and memory  *)
(* stay within their widths, and what SumExact, FlagsSurvive and           *)
(* StoresWhereItPoints say of the handlers holds whatever is executed.     *)
(***************************************************************************)
EXTENDS CpuPrograms, TLAPS
-----------------------------------------------------------------------------
(***************************************************************************)
(* Bytes, words and flags.                                                 *)
(***************************************************************************)

\* Bytes and words by their bounds: the provers list an interval of numbers.
LEMMA InByte == ASSUME NEW a PROVE a \in Byte <=> a \in Int /\ 0 <= a /\ a <= 255
<1> DEFINE n == 255
<1>1. n \in Nat
  OBVIOUS
<1>2. Byte = 0..n
  BY DEF Byte
<1>3. n = 255
  OBVIOUS
<1> HIDE DEF n
<1>4. a \in Byte <=> a \in Int /\ 0 <= a /\ a <= n
  BY <1>1, <1>2
<1> QED BY <1>3, <1>4

\* The same for words.
LEMMA InWord == ASSUME NEW a PROVE a \in Word <=> a \in Int /\ 0 <= a /\ a <= 65535
<1> DEFINE n == 65535
<1>1. n \in Nat
  OBVIOUS
<1>2. Word = 0..n
  BY DEF Word
<1>3. n = 65535
  OBVIOUS
<1> HIDE DEF n
<1>4. a \in Word <=> a \in Int /\ 0 <= a /\ a <= n
  BY <1>1, <1>2
<1> QED BY <1>3, <1>4

\* Whatever a set of bits stands for is a byte.
LEMMA NumByte == ASSUME NEW S PROVE Num(S) \in Byte
  BY InByte DEF Num

\* The bitwise operations give bytes.
LEMMA BitwiseByte ==
  ASSUME NEW a, NEW b
  PROVE  And(a, b) \in Byte /\ Or(a, b) \in Byte /\ Xor(a, b) \in Byte
  BY NumByte DEF And, Or, Xor

\* A word is two bytes.
LEMMA Halves == ASSUME NEW w \in Word PROVE Lo(w) \in Byte /\ Hi(w) \in Byte
  BY InByte, InWord DEF Lo, Hi

\* The checks of the result set bits of the flags register.
LEMMA ChecksMask ==
  ASSUME NEW a, NEW b
  PROVE  /\ CarryAdd(a, b) \subseteq Mask /\ CarrySub(a, b) \subseteq Mask
         /\ ZSP(a) \subseteq Mask /\ Bits(a) \subseteq Mask
  BY DEF CarryAdd, CarrySub, ZSP, Bits, When, Mask, F_C, F_P, F_A, F_Z, F_S

\* The checks of zero, sign and parity leave the carries alone.
LEMMA ZSPCarry == ASSUME NEW a PROVE F_C \notin ZSP(a) /\ F_A \notin ZSP(a)
  BY DEF ZSP, When, F_C, F_P, F_A, F_Z, F_S
-----------------------------------------------------------------------------
(***************************************************************************)
(* A process that runs, and what its instruction reads.                    *)
(***************************************************************************)
Running(p) == TypeOK /\ p \in Proc /\ P[p] \in Process

\* Every address is in memory, or on a page that is none.
LEMMA CellWord == ASSUME NEW a \in Word PROVE Cell(a) \in Word
  BY InWord DEF Cell

\* What is read from memory is a byte.
LEMMA MemoryByte == ASSUME NEW p, NEW a, Running(p) PROVE GetMemory(p, a) \in Byte
<1>1. P[p].origin \in Origin
  BY DEF Running, Process
<1>2. mem[P[p].origin] \in [DOMAIN mem[P[p].origin] -> Byte]
  BY <1>1 DEF Running, TypeOK
<1>3. 0 \in Byte
  BY InByte
<1> QED BY <1>2, <1>3 DEF GetMemory

\* A word that is read is one, the sign extension of its low byte included.
LEMMA ShortWord == ASSUME NEW p, NEW a, Running(p) PROVE GetMemoryShort(p, a) \in Word
<1>1. GetMemory(p, a) \in Byte /\ GetMemory(p, a + 1) \in Byte
  BY MemoryByte
<1> QED BY <1>1, InByte, InWord DEF GetMemoryShort

\* The fields of the instruction.
LEMMA Fetched ==
  ASSUME NEW p, Running(p)
  PROVE  /\ Opcode(p) \in Byte /\ Operand(p) \in Word
         /\ Dst(p) \in 0..7 /\ Src(p) \in 0..7 /\ RP(p) \in 0..3
<1>1. Opcode(p) \in Byte /\ Operand(p) \in Word
  BY MemoryByte, ShortWord DEF Opcode, Operand
<1> QED BY <1>1, InByte DEF Dst, Src, RP

\* A register pair is a word.
LEMMA PairWord == ASSUME NEW q \in Process, NEW i \in 0..3 PROVE Pair(q, i) \in Word
<1>1. CASE i = 3
  BY <1>1 DEF Process, Pair
<1>2. CASE i # 3
  <2>1. 2 * i \in 0..7 /\ 2 * i + 1 \in 0..7
    BY <1>2
  <2>2. q.r[2 * i] \in Byte /\ q.r[2 * i + 1] \in Byte
    BY <2>1 DEF Process
  <2> QED BY <1>2, <2>2, InByte, InWord DEF Pair
<1> QED BY <1>1, <1>2

\* A register, or the byte at HL, is a byte.
LEMMA Operands ==
  ASSUME NEW p, Running(p)
  PROVE  /\ HL(p) \in Word /\ Top(p) \in Word /\ A(p) \in Byte /\ Carry(p) \in {0, 1}
         /\ P[p].sp \in Word /\ \A n \in -2..2 : Sp(p, n) \in Word
         /\ \A i \in 0..7 : Value(p, i) \in Byte /\ P[p].r[i] \in Byte
<1>1. HL(p) \in Word
  BY PairWord DEF HL, Running
<1>2. P[p].sp \in Word
  BY DEF Running, Process
<1>3. /\ GetMemory(p, P[p].sp) \in Byte /\ GetMemory(p, P[p].sp + 1) \in Byte
      /\ GetMemory(p, HL(p)) \in Byte
  BY MemoryByte
<1>4. Top(p) \in Word
  BY <1>3, InByte, InWord DEF Top
<1>5. \A i \in 0..7 : P[p].r[i] \in Byte
  BY DEF Running, Process
<1>6. \A i \in 0..7 : Value(p, i) \in Byte
  BY <1>3, <1>5 DEF Value
<1>7. \A n \in -2..2 : Sp(p, n) \in Word
  BY <1>2, InWord DEF Sp
<1> QED BY <1>1, <1>2, <1>4, <1>5, <1>6, <1>7 DEF A, R_A, Carry

\* Changes of one field.
LEMMA Changed ==
  ASSUME NEW q \in Process
  PROVE  /\ \A i \in 0..7, x \in Byte : [q EXCEPT !.r[i] = x] \in Process
         /\ \A F \in SUBSET Mask : [q EXCEPT !.F = F] \in Process
         /\ \A w \in Word : [q EXCEPT !.sp = w] \in Process /\ [q EXCEPT !.pc = w] \in Process
  BY DEF Process

\* A register pair that becomes a word.
LEMMA PairSet ==
  ASSUME NEW q \in Process, NEW i \in 0..3, NEW w \in Word
  PROVE  /\ SetPair(q, i, w) \in Process
         /\ SetPair(q, i, w).F = q.F /\ SetPair(q, i, w).origin = q.origin
<1>1. CASE i = 3
  BY <1>1, Changed DEF SetPair, Process
<1>2. CASE i # 3
  <2>1. 2 * i \in 0..7 /\ 2 * i + 1 \in 0..7
    BY <1>2
  <2> QED BY <1>2, <2>1, Halves DEF SetPair, Process
<1> QED BY <1>1, <1>2
-----------------------------------------------------------------------------
(***************************************************************************)
(* What every handler does for process p.                                  *)
(***************************************************************************)

\* The byte at a of o's memory is not what it was.
Changes(o, a) == ~(a \in DOMAIN mem[o] /\ mem'[o][a] = mem[o][a])

Did(p) ==
  /\ TypeOK'
  /\ Opcode(p) \notin FlagSetters => P'[p].F = P[p].F
  /\ \A r \in Proc : r # p /\ P[r].state # "none" => P'[r] = P[r]
  /\ \A o \in Origin : \A a \in DOMAIN mem'[o] :
       Changes(o, a) => o = P[p].origin /\ a \in {Cell(b) : b \in Accesses(p)}

\* The process q that a handler makes of P[p].
Made(p, q) == /\ q \in Process /\ q.origin = P[p].origin
              /\ Opcode(p) \notin FlagSetters => q.F = P[p].F

\* A process further on in its program.
LEMMA Forward ==
  ASSUME NEW q \in Process, NEW n \in 0..3
  PROVE  /\ Further(q, n) \in Process
         /\ Further(q, n).F = q.F /\ Further(q, n).r = q.r
<1>1. (q.pc + n) % 65536 \in Word
  BY InWord DEF Process
<1> QED BY <1>1, Changed DEF Process, Further

\* A handler that stores nothing.
LEMMA BecomeDid ==
  ASSUME NEW p, NEW q, NEW n \in 0..3, Running(p), Made(p, q), Become(p, q, n)
  PROVE  Did(p)
<1> DEFINE next == Further(q, n)
<1>1. next \in Process /\ next.F = q.F
  BY Forward DEF Made
<1>2. P' = [P EXCEPT ![p] = next] /\ UNCHANGED <<mem, in, out, up, typed>>
  BY DEF Become, Keep
<1> HIDE DEF next
<1>3. TypeOK'
  BY <1>1, <1>2 DEF Running, TypeOK
<1>4. P'[p].F = q.F /\ \A r \in Proc : r # p => P'[r] = P[r]
  BY <1>1, <1>2 DEF Running, TypeOK
<1>5. \A o \in Origin : \A a \in DOMAIN mem'[o] : ~Changes(o, a)
  BY <1>2 DEF Changes
<1> QED BY <1>3, <1>4, <1>5 DEF Did, Made

\* A store changes one byte, and leaves a memory.
LEMMA StoredByte ==
  ASSUME NEW m, m \in [DOMAIN m -> Byte], DOMAIN m \subseteq Word,
         NEW c \in Word, NEW v \in Byte
  PROVE  /\ Stored(m, c, v) \in [DOMAIN Stored(m, c, v) -> Byte]
         /\ DOMAIN Stored(m, c, v) = DOMAIN m \cup {c} /\ DOMAIN Stored(m, c, v) \subseteq Word
         /\ \A b \in DOMAIN m : b # c => Stored(m, c, v)[b] = m[b]
  BY DEF Stored

\* A handler that stores into the memory of p's family.
LEMMA StoreDid ==
  ASSUME NEW p, NEW q, NEW n \in 0..3, Running(p), Made(p, q), NEW m,
         m \in [DOMAIN m -> Byte], DOMAIN m \subseteq Word,
         \A a \in DOMAIN m : \/ a \in {Cell(b) : b \in Accesses(p)}
                             \/ a \in DOMAIN mem[P[p].origin] /\ m[a] = mem[P[p].origin][a],
         P' = [P EXCEPT ![p] = Further(q, n)],
         mem' = [mem EXCEPT ![q.origin] = m], Keep
  PROVE  Did(p)
<1> DEFINE next == Further(q, n)
<1>1. next \in Process /\ next.F = q.F
  BY Forward DEF Made
<1>2. P' = [P EXCEPT ![p] = next] /\ UNCHANGED <<in, out, up, typed>>
  BY DEF Keep
<1>3. q.origin = P[p].origin /\ q.origin \in Origin
  BY DEF Made, Process
<1> HIDE DEF next
<1>4. /\ DOMAIN mem' = Origin /\ mem'[P[p].origin] = m
      /\ \A o \in Origin : o # P[p].origin => mem'[o] = mem[o]
  BY <1>3 DEF Running, TypeOK
<1>5. TypeOK'
  <2>1. /\ P' \in [Proc -> Process \cup {NoProcess}]
        /\ {in', out', typed'} \subseteq [Origin -> Seq(Byte)] /\ up' \in BOOLEAN
    BY <1>1, <1>2 DEF Running, TypeOK
  <2>2. ASSUME NEW o \in Origin
        PROVE  mem'[o] \in [DOMAIN mem'[o] -> Byte] /\ DOMAIN mem'[o] \subseteq Word
    BY <1>4 DEF Running, TypeOK
  <2> QED BY <1>4, <2>1, <2>2 DEF TypeOK
<1>6. P'[p].F = q.F /\ \A r \in Proc : r # p => P'[r] = P[r]
  BY <1>1, <1>2 DEF Running, TypeOK
<1>7. ASSUME NEW o \in Origin, NEW a \in DOMAIN mem'[o], Changes(o, a)
      PROVE  o = P[p].origin /\ a \in {Cell(b) : b \in Accesses(p)}
  BY <1>4, <1>7 DEF Running, TypeOK, Changes
<1> QED BY <1>5, <1>6, <1>7 DEF Did, Made

\* An address is the same modulo the size of memory.
LEMMA Address == ASSUME NEW a \in Word PROVE a % 65536 = a
  BY InWord

\* A handler that stores a byte where the instruction points.
LEMMA ByteDid ==
  ASSUME NEW p, NEW q, NEW n \in 0..3, NEW a \in Word, NEW v \in Byte, Running(p), Made(p, q),
         a \in Accesses(p), SetMemory(p, q, n, a, v)
  PROVE  Did(p)
<1> DEFINE old == mem[P[p].origin]
           m == Stored(old, Cell(a), v)
<1>1. old \in [DOMAIN old -> Byte] /\ DOMAIN old \subseteq Word
  BY DEF Running, TypeOK, Process
<1>2. Cell(a) \in Word
  BY CellWord
<1>3. /\ m \in [DOMAIN m -> Byte]
      /\ DOMAIN m = DOMAIN old \cup {Cell(a)} /\ DOMAIN m \subseteq Word
      /\ \A b \in DOMAIN old : b # Cell(a) => m[b] = old[b]
  BY ONLY <1>1, <1>2, v \in Byte, StoredByte
<1>4. mem' = [mem EXCEPT ![q.origin] = m] /\ P' = [P EXCEPT ![p] = Further(q, n)] /\ Keep
  <2>1. a % 65536 = a /\ q.origin = P[p].origin
    BY Address DEF Made
  <2> DEFINE new == Stored(mem[q.origin], Cell(a % 65536), v)
  <2>2. mem' = [mem EXCEPT ![q.origin] = new]
    BY DEF SetMemory
  <2>3. new = m
    BY <2>1
  <2> HIDE DEF new, m
  <2>4. mem' = [mem EXCEPT ![q.origin] = m]
    BY <2>2, <2>3
  <2>5. P' = [P EXCEPT ![p] = Further(q, n)] /\ Keep
    BY DEF SetMemory
  <2> QED BY <2>4, <2>5
<1> HIDE DEF m
<1>5. \A b \in DOMAIN m : \/ b \in {Cell(c) : c \in Accesses(p)}
                          \/ b \in DOMAIN old /\ m[b] = old[b]
  BY <1>3
<1> HIDE DEF old
<1> QED BY <1>3, <1>4, <1>5, StoreDid DEF old

\* A handler that stores a word where the instruction points.
LEMMA WordDid ==
  ASSUME NEW p, NEW q, NEW n \in 0..3, NEW a \in Word, NEW w \in Word, Running(p), Made(p, q),
         a \in Accesses(p), (a + 1) % 65536 \in Accesses(p), SetMemoryShort(p, q, n, a, w)
  PROVE  Did(p)
<1> DEFINE old == mem[P[p].origin]
           next == (a + 1) % 65536
           half == Stored(old, Cell(a), Lo(w))
           m == Stored(half, Cell(next), Hi(w))
<1>1. old \in [DOMAIN old -> Byte] /\ DOMAIN old \subseteq Word
  BY DEF Running, TypeOK, Process
<1>2. Cell(a) \in Word /\ Lo(w) \in Byte
  BY CellWord, Halves
<1>3. next \in Word
  BY InWord
<1>4. Cell(next) \in Word /\ Hi(w) \in Byte
  BY <1>3, CellWord, Halves
<1>5. mem' = [mem EXCEPT ![q.origin] = m] /\ P' = [P EXCEPT ![p] = Further(q, n)] /\ Keep
  <2>1. a % 65536 = a /\ q.origin = P[p].origin
    BY Address DEF Made
  <2> DEFINE new == Stored(Stored(mem[q.origin], Cell(a % 65536), Lo(w)), Cell(next), Hi(w))
  <2>2. mem' = [mem EXCEPT ![q.origin] = new]
    BY DEF SetMemoryShort
  <2>3. new = m
    BY <2>1
  <2> HIDE DEF new, m
  <2>4. mem' = [mem EXCEPT ![q.origin] = m]
    BY <2>2, <2>3
  <2>5. P' = [P EXCEPT ![p] = Further(q, n)] /\ Keep
    BY DEF SetMemoryShort
  <2> QED BY <2>4, <2>5
<1>6. next \in Accesses(p) /\ old = mem[P[p].origin]
  OBVIOUS
<1> HIDE DEF next, old
<1>7. /\ half \in [DOMAIN half -> Byte]
      /\ DOMAIN half = DOMAIN old \cup {Cell(a)} /\ DOMAIN half \subseteq Word
      /\ \A b \in DOMAIN old : b # Cell(a) => half[b] = old[b]
  BY ONLY <1>1, <1>2, StoredByte
<1> HIDE DEF half
<1>8. /\ m \in [DOMAIN m -> Byte]
      /\ DOMAIN m = DOMAIN half \cup {Cell(next)} /\ DOMAIN m \subseteq Word
      /\ \A b \in DOMAIN half : b # Cell(next) => m[b] = half[b]
  BY ONLY <1>4, <1>7, StoredByte
<1> HIDE DEF m
<1>9. m \in [DOMAIN m -> Byte] /\ DOMAIN m \subseteq Word
  BY <1>8
<1>10. \A b \in DOMAIN m : \/ b \in {Cell(c) : c \in Accesses(p)}
                           \/ b \in DOMAIN mem[P[p].origin] /\ m[b] = mem[P[p].origin][b]
  BY <1>6, <1>7, <1>8
<1> QED BY ONLY n \in 0..3, Running(p), Made(p, q), <1>5, <1>9, <1>10, StoreDid
-----------------------------------------------------------------------------
(***************************************************************************)
(* The processes that handlers make, and the addresses they store to.      *)
(***************************************************************************)

\* The process itself, and changes that leave the flags alone.
LEMMA MadeOf ==
  ASSUME NEW p, Running(p)
  PROVE  /\ Made(p, P[p])
         /\ \A i \in 0..7, x \in Byte : Made(p, [P[p] EXCEPT !.r[i] = x])
         /\ \A i \in 0..3, w \in Word : Made(p, SetPair(P[p], i, w))
         /\ \A w \in Word : Made(p, [P[p] EXCEPT !.pc = w]) /\ Made(p, [P[p] EXCEPT !.sp = w])
<1>1. P[p] \in Process
  BY DEF Running
<1>2. \A i \in 0..7, x \in Byte : Made(p, [P[p] EXCEPT !.r[i] = x])
  BY <1>1, Changed DEF Made, Process
<1>3. \A i \in 0..3, w \in Word : Made(p, SetPair(P[p], i, w))
  BY <1>1, PairSet DEF Made
<1>4. \A w \in Word : Made(p, [P[p] EXCEPT !.pc = w]) /\ Made(p, [P[p] EXCEPT !.sp = w])
  BY <1>1, Changed DEF Made, Process
<1> QED BY <1>1, <1>2, <1>3, <1>4 DEF Made

\* Changes by the instructions that set flags.
LEMMA MadeFlags ==
  ASSUME NEW p, Running(p), Opcode(p) \in FlagSetters, NEW F \in SUBSET Mask
  PROVE  Made(p, [P[p] EXCEPT !.F = F])
  BY Changed DEF Running, Made, Process

\* A register and the flags change: INR and DCR.
LEMMA MadeRegister ==
  ASSUME NEW p, Running(p), Opcode(p) \in FlagSetters, NEW F \in SUBSET Mask,
         NEW i \in 0..7, NEW x \in Byte
  PROVE  Made(p, [P[p] EXCEPT !.r[i] = x, !.F = F])
  BY DEF Running, Made, Process

\* Most of them change the accumulator.
LEMMA MadeA ==
  ASSUME NEW p, Running(p), Opcode(p) \in FlagSetters, NEW F \in SUBSET Mask, NEW x \in Byte
  PROVE  Made(p, [P[p] EXCEPT !.r[R_A] = x, !.F = F])
  BY DEF Running, Made, Process, R_A

\* Two pushes' addresses, two pops', and the word at an address.
LEMMA StackAddresses ==
  ASSUME NEW p, Running(p)
  PROVE  /\ (Sp(p, -2) + 1) % 65536 = Sp(p, -1)
         /\ Sp(p, 0) = P[p].sp /\ (P[p].sp + 1) % 65536 = Sp(p, 1)
<1>1. P[p].sp \in Word
  BY Operands
<1> QED BY <1>1, InWord DEF Sp

\* The instruction pushes a word.
Pushes(p) == \/ Opcode(p) \in {197, 213, 229, 245, 205}
             \/ Opcode(p) \in Calls /\ Condition(p)
             \/ Opcode(p) \in Resets /\ P[p].inte = 1

\* The instructions that store, and where they point.
LEMMA Points ==
  ASSUME NEW p, Running(p)
  PROVE  /\ Opcode(p) \in Moves /\ Dst(p) = 6 => HL(p) \in Accesses(p)
         /\ Opcode(p) \in {53, 54} => HL(p) \in Accesses(p)
         /\ Opcode(p) \in {2, 18} => Pair(P[p], RP(p)) \in Accesses(p)
         /\ Opcode(p) \in {34, 50} => Operand(p) \in Accesses(p)
         /\ Opcode(p) = 34 => (Operand(p) + 1) % 65536 \in Accesses(p)
         /\ Opcode(p) = 227 => P[p].sp \in Accesses(p) /\ (P[p].sp + 1) % 65536 \in Accesses(p)
         /\ Pushes(p) => Sp(p, -2) \in Accesses(p) /\ (Sp(p, -2) + 1) % 65536 \in Accesses(p)
<1>1. Opcode(p) \in Moves /\ Dst(p) = 6 => HL(p) \in Accesses(p)
  BY DEF Accesses
<1>2. Opcode(p) \in {53, 54} => HL(p) \in Accesses(p)
  BY DEF Accesses
<1>3. Opcode(p) \in {2, 18} => Pair(P[p], RP(p)) \in Accesses(p)
  <2>1. Opcode(p) \in {2, 18} => RP(p) = Opcode(p) \div 16
    BY DEF RP
  <2> QED BY <2>1 DEF Accesses
<1>4. /\ Opcode(p) \in {34, 50} => Operand(p) \in Accesses(p)
      /\ Opcode(p) = 34 => (Operand(p) + 1) % 65536 \in Accesses(p)
  BY DEF Accesses
<1>5. Opcode(p) = 227 => Sp(p, 0) \in Accesses(p) /\ Sp(p, 1) \in Accesses(p)
  BY DEF Accesses
<1>6. Pushes(p) => Sp(p, -2) \in Accesses(p) /\ Sp(p, -1) \in Accesses(p)
  BY DEF Accesses, Pushes
<1> QED BY <1>1, <1>2, <1>3, <1>4, <1>5, <1>6, StackAddresses
-----------------------------------------------------------------------------
(***************************************************************************)
(* Data movement.                                                          *)
(***************************************************************************)

\* The process is left as it is, or one register changes.
LEMMA RegisterDid ==
  ASSUME NEW p, Running(p), NEW n \in 0..3, NEW i \in 0..7, NEW x \in Byte,
         Become(p, P[p], n) \/ Become(p, [P[p] EXCEPT !.r[i] = x], n)
  PROVE  Did(p)
  BY MadeOf, BecomeDid

\* Nothing changes: XCHG exchanges two local variables.
LEMMA NOPDid == ASSUME NEW p, Running(p), NOP(p) \/ XCHG(p) PROVE Did(p)
<1>1. Become(p, P[p], 1)
  BY DEF NOP, XCHG
<1> QED BY <1>1, MadeOf, BecomeDid

\* MOV, to a register or to the byte at HL.
LEMMA MOVDid == ASSUME NEW p, Running(p), MOV(p) PROVE Did(p)
<1>1. Dst(p) \in 0..7 /\ Src(p) \in 0..7 /\ Value(p, Src(p)) \in Byte
  BY Fetched, Operands
<1>2. CASE Become(p, [P[p] EXCEPT !.r[Dst(p)] = Value(p, Src(p))], 1)
  BY <1>1, <1>2, RegisterDid
<1>3. CASE Dst(p) = 6 /\ SetMemory(p, P[p], 1, HL(p), Value(p, Src(p)))
  <2>1. HL(p) \in Accesses(p) /\ HL(p) \in Word
    BY <1>3, Points, Operands DEF MOV
  <2> QED BY <1>1, <1>3, <2>1, MadeOf, ByteDid
<1> QED BY <1>2, <1>3 DEF MOV

\* MVI, to a register or to the byte at HL.
LEMMA MVIDid == ASSUME NEW p, Running(p), MVI(p) PROVE Did(p)
<1>1. Dst(p) \in 0..7 /\ Lo(Operand(p)) \in Byte
  BY Fetched, Halves
<1>2. CASE Become(p, [P[p] EXCEPT !.r[Dst(p)] = Lo(Operand(p))], 3)
  BY <1>1, <1>2, RegisterDid
<1>3. CASE Dst(p) = 6 /\ SetMemory(p, P[p], 3, HL(p), Lo(Operand(p)))
  <2>1. Opcode(p) \in {53, 54}
    BY <1>3, Fetched, InByte DEF MVI, Dst, Singles
  <2>2. HL(p) \in Accesses(p) /\ HL(p) \in Word
    BY <2>1, Points, Operands
  <2> QED BY <1>1, <1>3, <2>2, MadeOf, ByteDid
<1> QED BY <1>2, <1>3 DEF MVI

\* LXI sets a register pair.
LEMMA LXIDid == ASSUME NEW p, Running(p), LXI(p) PROVE Did(p)
<1>1. RP(p) \in 0..3 /\ Operand(p) \in Word
  BY Fetched
<1>2. Become(p, SetPair(P[p], RP(p), Operand(p)), 3)
  BY DEF LXI
<1> QED BY <1>1, <1>2, MadeOf, BecomeDid

\* STAX stores the accumulator where BC or DE points.
LEMMA STAXDid == ASSUME NEW p, Running(p), STAX(p) PROVE Did(p)
<1>1. Pair(P[p], RP(p)) \in Word /\ A(p) \in Byte
  BY Fetched, PairWord, Operands DEF Running
<1>2. SetMemory(p, P[p], 1, Pair(P[p], RP(p)), A(p)) /\ Pair(P[p], RP(p)) \in Accesses(p)
  BY Points DEF STAX, A
<1> QED BY <1>1, <1>2, MadeOf, ByteDid

\* LDAX loads it from there.
LEMMA LDAXDid == ASSUME NEW p, Running(p), LDAX(p) PROVE Did(p)
<1>1. GetMemory(p, Pair(P[p], RP(p))) \in Byte
  BY MemoryByte
<1> QED BY <1>1, RegisterDid DEF LDAX, R_A

\* STA stores the accumulator where the operand points.
LEMMA STADid == ASSUME NEW p, Running(p), STA(p) PROVE Did(p)
<1>1. Operand(p) \in Word /\ A(p) \in Byte
  BY Fetched, Operands
<1>2. SetMemory(p, P[p], 3, Operand(p), A(p)) /\ Operand(p) \in Accesses(p)
  BY Points DEF STA, A
<1> QED BY <1>1, <1>2, MadeOf, ByteDid

\* LDA loads it from there.
LEMMA LDADid == ASSUME NEW p, Running(p), LDA(p) PROVE Did(p)
<1>1. GetMemory(p, Operand(p)) \in Byte
  BY MemoryByte
<1> QED BY <1>1, RegisterDid DEF LDA, R_A

\* SHLD stores HL where the operand points.
LEMMA SHLDDid == ASSUME NEW p, Running(p), SHLD(p) PROVE Did(p)
<1>1. Operand(p) \in Word /\ HL(p) \in Word
  BY Fetched, Operands
<1>2. /\ SetMemoryShort(p, P[p], 3, Operand(p), HL(p))
      /\ Operand(p) \in Accesses(p) /\ (Operand(p) + 1) % 65536 \in Accesses(p)
  BY Points DEF SHLD
<1> QED BY <1>1, <1>2, MadeOf, WordDid

\* H and L are loaded together.
LEMMA MadeHL ==
  ASSUME NEW p, Running(p), NEW x \in Byte, NEW y \in Byte
  PROVE  Made(p, [P[p] EXCEPT !.r[R_L] = x, !.r[R_H] = y])
  BY DEF Running, Made, Process, R_L, R_H

\* LHLD loads it from there.
LEMMA LHLDDid == ASSUME NEW p, Running(p), LHLD(p) PROVE Did(p)
<1> DEFINE x == GetMemory(p, Operand(p))
           y == GetMemory(p, Operand(p) + 1)
<1>1. x \in Byte /\ y \in Byte
  BY MemoryByte
<1> DEFINE q == [P[p] EXCEPT !.r[R_L] = x, !.r[R_H] = y]
<1>2. Become(p, q, 3)
  BY DEF LHLD
<1> HIDE DEF x, y
<1>3. Made(p, q)
  BY <1>1, MadeHL
<1> HIDE DEF q
<1> QED BY <1>2, <1>3, BecomeDid

\* XTHL exchanges HL and the top of the stack.
LEMMA XTHLDid == ASSUME NEW p, Running(p), XTHL(p) PROVE Did(p)
<1> DEFINE x == GetMemory(p, P[p].sp)
           y == GetMemory(p, P[p].sp + 1)
<1>1. x \in Byte /\ y \in Byte
  BY MemoryByte
<1> DEFINE q == [P[p] EXCEPT !.r[R_L] = x, !.r[R_H] = y]
<1>2. SetMemoryShort(p, q, 1, P[p].sp, HL(p))
  BY DEF XTHL
<1>3. P[p].sp \in Accesses(p) /\ (P[p].sp + 1) % 65536 \in Accesses(p)
  BY Points DEF XTHL
<1> HIDE DEF x, y
<1>4. P[p].sp \in Word /\ HL(p) \in Word
  BY Operands
<1>5. Made(p, q)
  BY <1>1, MadeHL
<1> HIDE DEF q
<1> QED BY <1>2, <1>3, <1>4, <1>5, WordDid

\* SPHL moves HL to the stack pointer.
LEMMA SPHLDid == ASSUME NEW p, Running(p), SPHL(p) PROVE Did(p)
<1>1. HL(p) \in Word
  BY Operands
<1> DEFINE q == [P[p] EXCEPT !.sp = HL(p)]
<1>2. Become(p, q, 1)
  BY DEF SPHL
<1>3. Made(p, q)
  BY <1>1, MadeOf
<1> HIDE DEF q
<1> QED BY <1>2, <1>3, BecomeDid

\* Push, for PUSH, CALL and RST.
LEMMA PushDid ==
  ASSUME NEW p, Running(p), NEW a \in Word, NEW w \in Word, Pushes(p),
         PushWord(p, [P[p] EXCEPT !.pc = a], w)
  PROVE  Did(p)
<1> DEFINE q == [[P[p] EXCEPT !.pc = a] EXCEPT !.sp = Sp(p, -2)]
<1>1. Sp(p, -2) \in Word
  BY Operands
<1>2. Made(p, q)
  BY <1>1 DEF Running, Made, Process
<1>3. SetMemoryShort(p, q, 0, Sp(p, -2), w)
  BY DEF PushWord
<1>4. Sp(p, -2) \in Accesses(p) /\ (Sp(p, -2) + 1) % 65536 \in Accesses(p)
  BY Points
<1> HIDE DEF q
<1> QED BY <1>1, <1>2, <1>3, <1>4, WordDid

\* PUSH stores a register pair, or accumulator and flags, on the stack.
LEMMA PUSHDid == ASSUME NEW p, Running(p), PUSH(p) PROVE Did(p)
<1>1. P[p].pc \in Word /\ P[p] \in Process
  BY DEF Running, Process
<1>2. (P[p].pc + 1) % 65536 \in Word
  BY <1>1, InWord
<1>3. PushedBy(p) \in Word
  <2>1. CASE RP(p) = 3
    <3>1. Num(P[p].F) \in Byte /\ P[p].r[R_A] \in Byte
      BY NumByte, Operands DEF A
    <3> QED BY <2>1, <3>1, InByte, InWord DEF PushedBy
  <2>2. CASE RP(p) # 3
    BY <1>1, <2>2, Fetched, PairWord DEF PushedBy
  <2> QED BY <2>1, <2>2
<1>4. Pushes(p)
  BY Fetched, InByte DEF PUSH, Pairs, Pushes
<1>5. PushWord(p, [P[p] EXCEPT !.pc = (P[p].pc + 1) % 65536], PushedBy(p))
  BY DEF PUSH
<1> QED BY <1>2, <1>3, <1>4, <1>5, PushDid

\* POP loads them: only POP PSW, which is meant to, sets the flags.
LEMMA POPDid == ASSUME NEW p, Running(p), POP(p) PROVE Did(p)
<1> DEFINE w == Top(p)
<1>1. w \in Word /\ Lo(w) \in Byte /\ Hi(w) \in Byte /\ Sp(p, 2) \in Word
  BY Operands, Halves
<1>2. P[p] \in Process /\ RP(p) \in 0..3
  BY Fetched DEF Running
<1>3. Made(p, Popped(p, w))
  <2>1. CASE RP(p) = 3
    <3>1. Opcode(p) = 241
      BY <2>1, Fetched, InByte DEF POP, RP, Pairs
    <3> DEFINE F == (Bits(Lo(w)) \cup {2}) \ {8, 32}
    <3>2. F \in SUBSET Mask
      BY ChecksMask DEF Mask
    <3>3. Opcode(p) \in FlagSetters
      BY <3>1 DEF FlagSetters
    <3>4. Popped(p, w) = [P[p] EXCEPT !.r[R_A] = Hi(w), !.F = F]
      BY <2>1 DEF Popped
    <3> HIDE DEF F, w
    <3>5. Made(p, [P[p] EXCEPT !.r[R_A] = Hi(w), !.F = F])
      BY <1>1, <3>2, <3>3, MadeA
    <3> QED BY <3>4, <3>5
  <2>2. CASE RP(p) # 3
    BY <1>1, <1>2, <2>2, MadeOf DEF Popped
  <2> QED BY <2>1, <2>2
<1> DEFINE q == Popped(p, w)
<1>4. Become(p, [q EXCEPT !.sp = Sp(p, 2)], 1)
  BY DEF POP
<1> HIDE DEF q
<1>5. Made(p, [q EXCEPT !.sp = Sp(p, 2)])
  BY <1>1, <1>3, Changed DEF Made, Process, q
<1> QED BY <1>4, <1>5, BecomeDid

\* Every handler of this group.
LEMMA MoveDid == ASSUME NEW p, Running(p), Move(p) PROVE Did(p)
  BY NOPDid, MOVDid, MVIDid, LXIDid, STAXDid, LDAXDid, STADid, LDADid, SHLDDid, LHLDDid,
     XTHLDid, SPHLDid, PUSHDid, POPDid DEF Move
-----------------------------------------------------------------------------
(***************************************************************************)
(* Arithmetic and logic.                                                   *)
(***************************************************************************)

\* A handler that sets the flags and the accumulator.
LEMMA AccumulatorDid ==
  ASSUME NEW p, Running(p), Opcode(p) \in FlagSetters, NEW F \in SUBSET Mask, NEW x \in Byte,
         NEW n \in 0..3, Become(p, [P[p] EXCEPT !.r[R_A] = x, !.F = F], n)
  PROVE  Did(p)
<1> DEFINE q == [P[p] EXCEPT !.r[R_A] = x, !.F = F]
<1>1. Become(p, q, n)
  OBVIOUS
<1>2. Made(p, q)
  BY MadeA
<1> HIDE DEF q
<1> QED BY <1>1, <1>2, BecomeDid

\* The flags of a process are bits of the register.
LEMMA FlagsMask == ASSUME NEW p, Running(p) PROVE P[p].F \in SUBSET Mask
  BY DEF Running, Process

\* ADD to SBI: the accumulator is cut off at 8 bits.
LEMMA ArithDid ==
  ASSUME NEW p, Running(p), Opcode(p) \in FlagSetters, NEW a \in Nat, NEW fl \in SUBSET Mask,
         NEW n \in 0..3, Arith(p, a, fl, n)
  PROVE  Did(p)
<1> DEFINE F == (P[p].F \cap {2, 8, 32}) \cup fl \cup ZSP(a % 256)
           x == a % 256
<1>1. F \in SUBSET Mask
  <2>1. ZSP(a % 256) \subseteq Mask /\ P[p].F \subseteq Mask
    BY ChecksMask, FlagsMask
  <2> QED BY <2>1
<1>2. x \in Byte
  BY InByte
<1>3. Become(p, [P[p] EXCEPT !.r[R_A] = x, !.F = F], n)
  BY DEF Arith
<1> HIDE DEF F, x
<1> QED BY <1>1, <1>2, <1>3, AccumulatorDid

\* ANA to ORI.
LEMMA LogicDid ==
  ASSUME NEW p, Running(p), Opcode(p) \in FlagSetters, NEW a \in Byte, NEW fl \in SUBSET Mask,
         NEW n \in 0..3, Logic(p, a, fl, n)
  PROVE  Did(p)
<1> DEFINE F == (P[p].F \cap {2, 8, 16, 32}) \cup fl \cup ZSP(a)
<1>1. F \in SUBSET Mask
  BY ChecksMask, FlagsMask
<1>2. Become(p, [P[p] EXCEPT !.r[R_A] = a, !.F = F], n)
  BY DEF Logic
<1> HIDE DEF F
<1> QED BY <1>1, <1>2, AccumulatorDid

\* CMP and CPI change flags alone.
LEMMA CompareDid ==
  ASSUME NEW p, Running(p), Opcode(p) \in FlagSetters, NEW v, NEW n \in 0..3, Compare(p, v, n)
  PROVE  Did(p)
<1> DEFINE turned == A(p) % 128 >= 16 \/ (A(p) + 256 - v) % 256 >= 128
           F == (P[p].F \ {F_Z, F_C}) \cup When(A(p) = v, F_Z)
                  \cup When((v > A(p)) # turned, F_C)
<1>1. F \in SUBSET Mask
  <2>1. \A c : When(c, F_Z) \subseteq Mask /\ When(c, F_C) \subseteq Mask
    BY DEF When, F_Z, F_C, Mask
  <2> HIDE DEF turned
  <2> QED BY <2>1, FlagsMask
<1> DEFINE q == [P[p] EXCEPT !.F = F]
<1>2. Become(p, q, n)
  BY DEF Compare
<1> HIDE DEF F
<1>3. Made(p, q)
  BY <1>1, MadeFlags
<1> HIDE DEF q
<1> QED BY <1>2, <1>3, BecomeDid

\* The rotations.
LEMMA RotateDid ==
  ASSUME NEW p, Running(p), Opcode(p) \in FlagSetters, NEW a \in Nat, NEW F \in SUBSET Mask,
         Rotate(p, a, F)
  PROVE  Did(p)
<1> DEFINE x == a % 256
<1>1. x \in Byte
  BY InByte
<1> DEFINE q == [P[p] EXCEPT !.r[R_A] = x, !.F = F]
<1>2. Become(p, q, 1)
  BY DEF Rotate
<1> HIDE DEF x
<1>3. Made(p, q)
  BY <1>1, MadeA
<1> HIDE DEF q
<1> QED BY <1>2, <1>3, BecomeDid

\* The operations on a register, all of which set flags.
LEMMA AluSets ==
  ASSUME NEW p, Running(p), NEW i \in 0..7, Alu(p, i) PROVE Opcode(p) \in FlagSetters
<1>1. Opcode(p) \in 128..191
  BY DEF Alu
<1> QED BY <1>1 DEF FlagSetters

\* What ADD to SBI have as operand and as carry.
LEMMA AluOperands ==
  ASSUME NEW p, Running(p)
  PROVE  /\ Value(p, Src(p)) \in Byte /\ Immediate(p) \in Byte
         /\ A(p) \in Byte /\ Carry(p) \in {0, 1}
         /\ \A v \in Byte : Complement(v) \in Byte
  BY Fetched, Operands, Halves, InByte DEF Immediate, Complement

\* ADD, ADC, SUB, SBB: whatever their operands are, the sum is no less than 0.
LEMMA AddsDid ==
  ASSUME NEW p, Running(p), ADD(p) \/ ADC(p) \/ SUB(p) \/ SBB(p)
  PROVE  Did(p)
<1>1. Opcode(p) \in FlagSetters
  BY AluSets DEF ADD, ADC, SUB, SBB
<1>2. \A a, b : CarryAdd(a, b) \in SUBSET Mask /\ CarrySub(a, b) \in SUBSET Mask
                /\ Differ(CarryAdd(a, b), {F_C}) \in SUBSET Mask
  BY ChecksMask DEF Differ, F_C, Mask
<1>3. Value(p, Src(p)) \in Byte /\ A(p) \in Byte /\ Carry(p) \in {0, 1}
      /\ Complement(Value(p, Src(p))) \in Byte
  BY AluOperands
<1>4. /\ A(p) + Value(p, Src(p)) \in Nat /\ A(p) + (Value(p, Src(p)) + Carry(p)) \in Nat
      /\ A(p) + Complement(Value(p, Src(p))) \in Nat
      /\ A(p) + 256 - (Value(p, Src(p)) + Carry(p)) \in Nat
  BY <1>3, InByte
<1>5. ASSUME NEW a \in Nat, NEW fl \in SUBSET Mask, Arith(p, a, fl, 1) PROVE Did(p)
  BY <1>1, <1>5, ArithDid
<1>6. CASE ADD(p)
  BY <1>2, <1>4, <1>5, <1>6 DEF ADD
<1>7. CASE ADC(p)
  BY <1>2, <1>4, <1>5, <1>7 DEF ADC
<1>8. CASE SUB(p)
  BY <1>2, <1>4, <1>5, <1>8 DEF SUB
<1>9. CASE SBB(p)
  BY <1>2, <1>4, <1>5, <1>9 DEF SBB
<1> QED BY <1>6, <1>7, <1>8, <1>9

\* ANA, XRA, ORA, CMP.
LEMMA LogicsDid ==
  ASSUME NEW p, Running(p), ANA(p) \/ XRA(p) \/ ORA(p) \/ CMP(p)
  PROVE  Did(p)
<1>1. Opcode(p) \in FlagSetters
  BY AluSets DEF ANA, XRA, ORA, CMP
<1>2. {} \in SUBSET Mask /\ {F_A} \in SUBSET Mask
  BY DEF Mask, F_A
<1>3. ASSUME NEW a \in Byte, NEW fl \in SUBSET Mask, Logic(p, a, fl, 1) PROVE Did(p)
  BY <1>1, <1>3, LogicDid
<1>4. ASSUME NEW v, Compare(p, v, 1) PROVE Did(p)
  BY <1>1, <1>4, CompareDid
<1> QED BY <1>2, <1>3, <1>4, BitwiseByte DEF ANA, XRA, ORA, CMP

\* The same operations on the immediate byte.
LEMMA ImmediatesDid ==
  ASSUME NEW p, Running(p),
         ADI(p) \/ ACI(p) \/ SUI(p) \/ SBI(p) \/ ANI(p) \/ XRI(p) \/ ORI(p) \/ CPI(p)
  PROVE  Did(p)
<1>1. Opcode(p) \in FlagSetters
  BY DEF ADI, ACI, SUI, SBI, ANI, XRI, ORI, CPI, FlagSetters
<1>2. \A a, b : CarryAdd(a, b) \in SUBSET Mask /\ CarrySub(a, b) \in SUBSET Mask
  BY ChecksMask
<1>3. Immediate(p) \in Byte /\ A(p) \in Byte /\ Carry(p) \in {0, 1}
  BY AluOperands
<1>4. /\ A(p) + Immediate(p) \in Nat /\ A(p) + (Immediate(p) + Carry(p)) \in Nat
      /\ A(p) + (255 - Immediate(p)) \in Nat
      /\ A(p) + ((511 - Immediate(p) - Carry(p)) % 256) \in Nat
  BY <1>3, InByte
<1>5. {} \in SUBSET Mask
  OBVIOUS
<1>6. ASSUME NEW a \in Nat, NEW fl \in SUBSET Mask, Arith(p, a, fl, 2) PROVE Did(p)
  BY <1>1, <1>6, ArithDid
<1>7. ASSUME NEW a \in Byte, NEW fl \in SUBSET Mask, Logic(p, a, fl, 2) PROVE Did(p)
  BY <1>1, <1>7, LogicDid
<1>8. ASSUME NEW v, Compare(p, v, 2) PROVE Did(p)
  BY <1>1, <1>8, CompareDid
<1>9. CASE ADI(p) \/ ACI(p) \/ SUI(p) \/ SBI(p)
  <2>1. CASE ADI(p)
    BY <1>2, <1>4, <1>6, <2>1 DEF ADI
  <2>2. CASE ACI(p)
    BY <1>2, <1>4, <1>6, <2>2 DEF ACI
  <2>3. CASE SUI(p)
    BY <1>2, <1>4, <1>6, <2>3 DEF SUI
  <2>4. CASE SBI(p)
    <3> DEFINE v == (511 - Immediate(p) - Carry(p)) % 256
    <3>1. Arith(p, A(p) + v, CarrySub(A(p), v), 2)
      BY <2>4 DEF SBI
    <3>2. A(p) + v \in Nat
      BY <1>3, InByte
    <3> HIDE DEF v
    <3> QED BY <1>2, <1>6, <3>1, <3>2
  <2> QED BY <1>9, <2>1, <2>2, <2>3, <2>4
<1>10. CASE ANI(p) \/ XRI(p) \/ ORI(p)
  BY <1>5, <1>7, <1>10, BitwiseByte DEF ANI, XRI, ORI
<1>11. CASE CPI(p)
  BY <1>8, <1>11 DEF CPI
<1> QED BY <1>9, <1>10, <1>11

\* The flags after INR and DCR.
LEMMA StepMask ==
  ASSUME NEW p, Running(p), NEW i, NEW x, NEW aux \in SUBSET Mask
  PROVE  StepFlags(p, i, x, aux) \in SUBSET Mask
  BY ChecksMask, FlagsMask DEF StepFlags

\* INR; INR M increments registers[6].
LEMMA INRDid == ASSUME NEW p, Running(p), INR(p) PROVE Did(p)
<1> DEFINE i == Dst(p)
           x == (P[p].r[i] + 1) % 256
           F == StepFlags(p, i, IF i = 6 THEN GetMemory(p, HL(p)) ELSE x,
                          When(P[p].r[i] % 16 = 15, F_A))
           q == [P[p] EXCEPT !.r[i] = x, !.F = F]
<1>1. Opcode(p) \in FlagSetters
  BY DEF INR, FlagSetters
<1>2. i \in 0..7
  BY Fetched
<1>3. x \in Byte
  BY <1>2, Operands, InByte
<1>4. F \in SUBSET Mask
  <2>1. When(P[p].r[i] % 16 = 15, F_A) \in SUBSET Mask
    BY DEF When, F_A, Mask
  <2> QED BY <2>1, StepMask
<1>5. Become(p, q, 1)
  BY SMTT(30) DEF INR
<1> HIDE DEF i, x, F
<1>6. Made(p, q)
  BY <1>1, <1>2, <1>3, <1>4, MadeRegister
<1> HIDE DEF q
<1> QED BY <1>5, <1>6, BecomeDid

\* DCR; DCR M is the one that stores.
LEMMA DCRDid == ASSUME NEW p, Running(p), DCR(p) PROVE Did(p)
<1> DEFINE i == Dst(p)
           x == (IF i = 6 THEN GetMemory(p, HL(p)) + 255
                 ELSE P[p].r[i] + (IF i = R_A THEN 255 ELSE 1)) % 256
           q == [P[p] EXCEPT !.F = StepFlags(p, i, x, {F_A})]
<1>1. Opcode(p) \in FlagSetters /\ Opcode(p) - 1 \in Singles
  <2>1. Opcode(p) - 1 \in Singles
    BY DEF DCR
  <2>2. Opcode(p) = (Opcode(p) - 1) + 1
    BY Fetched, InByte
  <2>3. Opcode(p) \in {op + 1 : op \in Singles}
    BY <2>1, <2>2
  <2> QED BY <2>1, <2>3 DEF FlagSetters
<1>2. i \in 0..7
  BY Fetched
<1>3. x \in Byte
  <2>1. GetMemory(p, HL(p)) \in Byte /\ P[p].r[i] \in Byte
    BY <1>2, MemoryByte, Operands
  <2> QED BY <2>1, InByte
<1>4. StepFlags(p, i, x, {F_A}) \in SUBSET Mask
  <2>1. {F_A} \in SUBSET Mask
    BY DEF F_A, Mask
  <2> QED BY <2>1, StepMask
<1>5. \/ i = 6 /\ SetMemory(p, q, 1, HL(p), x)
      \/ Become(p, [q EXCEPT !.r[i] = x], 1)
  BY DEF DCR
<1> HIDE DEF x
<1>6. Made(p, q)
  BY <1>1, <1>4, MadeFlags
<1>7. i = 6 => HL(p) \in Accesses(p)
  <2>1. i = 6 => Opcode(p) = 53
    BY <1>1, Fetched, InByte DEF Dst, Singles
  <2> QED BY <2>1, Points
<1> HIDE DEF q, i
<1>8. CASE i = 6 /\ SetMemory(p, q, 1, HL(p), x)
  <2>1. HL(p) \in Word
    BY Operands
  <2> QED BY <1>3, <1>6, <1>7, <1>8, <2>1, ByteDid
<1>9. CASE Become(p, [q EXCEPT !.r[i] = x], 1)
  <2> DEFINE s == [q EXCEPT !.r[i] = x]
  <2>1. Made(p, s)
    BY <1>2, <1>3, <1>6 DEF Made, Process
  <2>2. Become(p, s, 1)
    BY <1>9
  <2> HIDE DEF s
  <2> QED BY <2>1, <2>2, BecomeDid
<1> QED BY <1>5, <1>8, <1>9

\* CMA.
LEMMA CMADid == ASSUME NEW p, Running(p), CMA(p) PROVE Did(p)
<1> DEFINE x == 255 - P[p].r[R_A]
<1>1. x \in Byte /\ R_A \in 0..7
  BY Operands, InByte DEF A, R_A
<1>2. Become(p, [P[p] EXCEPT !.r[R_A] = x], 1)
  BY DEF CMA
<1> HIDE DEF x
<1> QED BY <1>1, <1>2, RegisterDid

\* STC and CMC, which change the carry.
LEMMA CarryDid == ASSUME NEW p, Running(p), STC(p) \/ CMC(p) PROVE Did(p)
<1> DEFINE F == IF Opcode(p) = 55 THEN P[p].F \cup {F_C} ELSE Differ(P[p].F, {F_C})
           q == [P[p] EXCEPT !.F = F]
<1>1. Opcode(p) \in FlagSetters
  BY DEF STC, CMC, FlagSetters
<1>2. F \in SUBSET Mask
  BY FlagsMask DEF Differ, F_C, Mask
<1>3. Become(p, q, 1)
  BY DEF STC, CMC
<1> HIDE DEF F
<1>4. Made(p, q)
  BY <1>1, <1>2, MadeFlags
<1> HIDE DEF q
<1> QED BY <1>3, <1>4, BecomeDid

\* DAA, whichever of its adjustments it makes.
LEMMA DAADid == ASSUME NEW p, Running(p), DAA(p) PROVE Did(p)
<1> DEFINE F  == P[p].F
           x  == (A(p) + 6) % 256
           y  == (x + 96) % 256
           FA == (F \ {F_A}) \cup When(A(p) % 2 = 1, F_A)
           FC == (FA \ {F_C}) \cup When(x \div 16 > 9, F_C)
           Flags(a, G) == (G \ {F_Z, F_S, F_P}) \cup ZSP(a)
<1>1. Opcode(p) \in FlagSetters
  BY DEF DAA, FlagSetters
<1>2. A(p) \in Byte /\ x \in Byte /\ y \in Byte
  BY Operands, InByte
<1>3. F \in SUBSET Mask /\ FA \in SUBSET Mask /\ FC \in SUBSET Mask
  <2>1. \A c : When(c, F_A) \subseteq Mask /\ When(c, F_C) \subseteq Mask
    BY DEF When, F_A, F_C, Mask
  <2> HIDE DEF x
  <2> QED BY <2>1, FlagsMask
<1>4. \E a \in {A(p), x, y}, G \in {F, FA, FC} :
        Become(p, [P[p] EXCEPT !.r[R_A] = a, !.F = Flags(a, G)], 1)
  <2> DEFINE Effect(a, G) == Become(p, [P[p] EXCEPT !.r[R_A] = a, !.F = Flags(a, G)], 1)
  <2>1. Effect(A(p), F) \/ Effect(x, FA) \/ Effect(y, FC)
    BY DEF DAA
  <2> HIDE DEF x, y, F, FA, FC, Effect
  <2>2. \E a \in {A(p), x, y}, G \in {F, FA, FC} : Effect(a, G)
    BY <2>1
  <2> QED BY <2>2 DEF Effect
<1> HIDE DEF x, y, F, FA, FC, Flags
<1>5. PICK a \in {A(p), x, y}, G \in {F, FA, FC} :
        Become(p, [P[p] EXCEPT !.r[R_A] = a, !.F = Flags(a, G)], 1)
  BY <1>4
<1>6. Flags(a, G) \in SUBSET Mask /\ a \in Byte
  BY <1>2, <1>3, ChecksMask DEF Flags
<1> DEFINE H == Flags(a, G)
           q == [P[p] EXCEPT !.r[R_A] = a, !.F = H]
<1>7. Become(p, q, 1)
  BY <1>5
<1> HIDE DEF H
<1>8. Made(p, q)
  BY <1>1, <1>6, MadeA DEF H
<1> HIDE DEF q
<1> QED BY <1>7, <1>8, BecomeDid

\* RLC, RRC, RAL, RAR.
LEMMA RotatesDid ==
  ASSUME NEW p, Running(p), RLC(p) \/ RRC(p) \/ RAL(p) \/ RAR(p)
  PROVE  Did(p)
<1>1. Opcode(p) \in FlagSetters
  BY DEF RLC, RRC, RAL, RAR, FlagSetters
<1>2. A(p) \in Byte /\ Carry(p) \in {0, 1} /\ P[p].F \in SUBSET Mask
  BY Operands, FlagsMask
<1>3. \A c : When(c, F_C) \subseteq Mask
  BY DEF When, F_C, Mask
<1>4. ASSUME NEW a \in Nat, NEW F \in SUBSET Mask, Rotate(p, a, F) PROVE Did(p)
  BY <1>1, <1>4, RotateDid
<1>5. CASE RLC(p)
  <2> DEFINE F == P[p].F \cup When(A(p) >= 128, F_C)
             a == 2 * A(p) + (IF F_C \in F THEN 1 ELSE 0)
  <2>1. a \in Nat /\ F \in SUBSET Mask
    BY <1>2, <1>3, InByte
  <2>2. Rotate(p, a, F)
    BY <1>5 DEF RLC
  <2> HIDE DEF a, F
  <2> QED BY <1>4, <2>1, <2>2
<1>6. CASE RRC(p)
  <2> DEFINE F == P[p].F \cup When(A(p) % 2 = 1, F_C)
             a == A(p) \div 2 + (IF F_C \in F THEN 128 ELSE 0)
  <2>1. a \in Nat /\ F \in SUBSET Mask
    BY <1>2, <1>3, InByte
  <2>2. Rotate(p, a, F)
    BY <1>6 DEF RRC
  <2> HIDE DEF a, F
  <2> QED BY <1>4, <2>1, <2>2
<1>7. CASE RAL(p)
  <2> DEFINE F == P[p].F \cup When(A(p) >= 128, F_C)
             a == 2 * A(p) + Carry(p)
  <2>1. a \in Nat /\ F \in SUBSET Mask
    BY <1>2, <1>3, InByte
  <2>2. Rotate(p, a, F)
    BY <1>7 DEF RAL
  <2> HIDE DEF a, F
  <2> QED BY <1>4, <2>1, <2>2
<1>8. CASE RAR(p)
  <2> DEFINE F == P[p].F \cap When(A(p) % 2 = 1, F_C)
             a == A(p) \div 2 + 128 * Carry(p)
  <2>1. a \in Nat /\ F \in SUBSET Mask
    BY <1>2, <1>3, InByte
  <2>2. Rotate(p, a, F)
    BY <1>8 DEF RAR
  <2> HIDE DEF a, F
  <2> QED BY <1>4, <2>1, <2>2
<1> QED BY <1>5, <1>6, <1>7, <1>8

\* DAD sets HL and the carry.
LEMMA DADDid == ASSUME NEW p, Running(p), DAD(p) PROVE Did(p)
<1> DEFINE x == Pair(P[p], RP(p))
           y == HL(p)
           negative == (IF RP(p) # 3 /\ x >= 32768 THEN 1 ELSE 0)
                         + (IF y >= 32768 THEN 1 ELSE 0)
           over == \/ negative = 0 /\ x + y > 65535
                   \/ negative = 1 /\ x + y < 65536
                   \/ negative = 2
           w == (x + y) % 65536
           q == SetPair(P[p], 2, w)
<1>1. Opcode(p) \in FlagSetters
  BY Fetched, InByte DEF DAD, Pairs, FlagSetters
<1>2. x \in Word /\ y \in Word
  BY Fetched, PairWord, Operands DEF Running
<1>3. w \in Word
  BY <1>2, InWord
<1>4. Become(p, [q EXCEPT !.F = @ \cup When(over, F_C)], 1)
  BY DEF DAD
<1> HIDE DEF w, x, y, over
<1>5. Made(p, q) /\ q.F = P[p].F
  <2>1. P[p] \in Process /\ 2 \in 0..3
    BY DEF Running
  <2>2. Made(p, q)
    BY <1>3, <2>1, MadeOf
  <2>3. q.F = P[p].F
    BY <1>3, <2>1, PairSet
  <2> QED BY <2>2, <2>3
<1> DEFINE F == q.F \cup When(over, F_C)
           s == [q EXCEPT !.F = F]
<1>6. F \in SUBSET Mask
  BY <1>5, FlagsMask DEF When, F_C, Mask
<1>7. Become(p, s, 1)
  BY <1>4
<1> HIDE DEF q, F
<1>8. Made(p, s)
  BY <1>1, <1>5, <1>6, Changed DEF Made, Process
<1> HIDE DEF s
<1> QED BY <1>7, <1>8, BecomeDid

\* INX and DCX, which leave the flags alone.
LEMMA INXDid == ASSUME NEW p, Running(p), INX(p) PROVE Did(p)
<1> DEFINE i == RP(p)
           w == (Pair(P[p], i) + 1) % 65536
           q == CASE i = 0 -> [P[p] EXCEPT !.r[1] = Hi(w)]
                  [] i = 1 -> [P[p] EXCEPT !.r[2] = Lo(w), !.r[3] = Hi(w)]
                  [] OTHER -> SetPair(P[p], i, w)
<1>1. i \in 0..3 /\ Pair(P[p], i) \in Word
  BY Fetched, PairWord DEF Running
<1>2. w \in Word
  BY <1>1, InWord
<1>3. Become(p, q, 1)
  BY DEF INX
<1> HIDE DEF i, w
<1>4. Lo(w) \in Byte /\ Hi(w) \in Byte /\ P[p] \in Process
  BY <1>2, Halves DEF Running
<1>5. Made(p, q)
  <2>1. CASE i = 0
    BY <1>4, <2>1, MadeOf
  <2>2. CASE i = 1
    <3>1. Made(p, [P[p] EXCEPT !.r[2] = Lo(w), !.r[3] = Hi(w)])
      BY <1>4 DEF Made, Process
    <3> QED BY <2>2, <3>1
  <2>3. CASE i \notin {0, 1}
    BY <1>1, <1>2, <2>3, MadeOf
  <2> QED BY <2>1, <2>2, <2>3
<1> HIDE DEF q
<1> QED BY <1>3, <1>5, BecomeDid

\* The same for DCX.
LEMMA DCXDid == ASSUME NEW p, Running(p), DCX(p) PROVE Did(p)
<1> DEFINE i == RP(p)
           w == (Pair(P[p], i) + 65535) % 65536
           q == CASE i = 0 -> [P[p] EXCEPT !.r[1] = Hi(w)]
                  [] i = 3 -> [P[p] EXCEPT !.sp = w]
                  [] OTHER -> [P[p] EXCEPT !.r[2 * i] = Lo(w), !.r[2 * i + 1] = Hi(w)]
<1>1. i \in 0..3 /\ Pair(P[p], i) \in Word
  BY Fetched, PairWord DEF Running
<1>2. w \in Word
  BY <1>1, InWord
<1>3. Become(p, q, 1)
  BY DEF DCX
<1> HIDE DEF i, w
<1>4. Lo(w) \in Byte /\ Hi(w) \in Byte /\ P[p] \in Process
  BY <1>2, Halves DEF Running
<1>5. Made(p, q)
  <2>1. CASE i = 0
    BY <1>4, <2>1, MadeOf
  <2>2. CASE i = 3
    <3>1. Made(p, [P[p] EXCEPT !.sp = w])
      BY <1>2, MadeOf
    <3> QED BY <2>2, <3>1
  <2>3. CASE i \notin {0, 3}
    <3>1. 2 * i \in 0..7 /\ 2 * i + 1 \in 0..7
      BY <1>1, <2>3
    <3>2. Made(p, [P[p] EXCEPT !.r[2 * i] = Lo(w), !.r[2 * i + 1] = Hi(w)])
      BY <1>4, <3>1 DEF Made, Process
    <3> QED BY <2>3, <3>2
  <2> QED BY <2>1, <2>2, <2>3
<1> HIDE DEF q
<1> QED BY <1>3, <1>5, BecomeDid

\* Every handler of this group.
LEMMA ComputeDid == ASSUME NEW p, Running(p), Compute(p) PROVE Did(p)
  BY AddsDid, LogicsDid, ImmediatesDid, INRDid, DCRDid, CMADid, CarryDid, DAADid, RotatesDid,
     DADDid, INXDid, DCXDid DEF Compute
-----------------------------------------------------------------------------
(***************************************************************************)
(* Control.                                                                *)
(***************************************************************************)
\* A jump.
LEMMA GotoDid == ASSUME NEW p, Running(p), NEW a \in Word, Goto(p, a) PROVE Did(p)
<1> DEFINE q == [P[p] EXCEPT !.pc = a]
<1>1. Become(p, q, 0) /\ Made(p, q)
  BY MadeOf DEF Goto
<1> HIDE DEF q
<1> QED BY <1>1, BecomeDid

\* A call pushes the address it is at.
LEMMA SubroutineDid ==
  ASSUME NEW p, Running(p), NEW a \in Word, Pushes(p), Subroutine(p, a)
  PROVE  Did(p)
<1>1. P[p].pc \in Word
  BY DEF Running, Process
<1> QED BY <1>1, PushDid DEF Subroutine

\* A return pops one.
LEMMA BackDid == ASSUME NEW p, Running(p), Back(p) PROVE Did(p)
<1> DEFINE t == Top(p)
           s == Sp(p, 2)
           q == [P[p] EXCEPT !.pc = t, !.sp = s]
<1>1. t \in Word /\ s \in Word
  BY Operands
<1>2. Become(p, q, 0)
  BY DEF Back
<1> HIDE DEF t, s
<1>3. Made(p, q)
  BY <1>1 DEF Running, Made, Process
<1> HIDE DEF q
<1> QED BY <1>2, <1>3, BecomeDid

\* An instruction whose condition does not hold.
LEMMA SkipDid == ASSUME NEW p, Running(p), NEW n \in 0..3, Become(p, P[p], n) PROVE Did(p)
  BY MadeOf, BecomeDid

\* The jumps and returns, taken or not.
LEMMA JumpsDid ==
  ASSUME NEW p, Running(p), PCHL(p) \/ JMP(p) \/ RET(p) \/ JumpIf(p) \/ ReturnIf(p)
  PROVE  Did(p)
<1>1. Operand(p) \in Word /\ (HL(p) + 1) % 65536 \in Word
  BY Fetched, Operands, InWord
<1>2. CASE Become(p, P[p], 3)
  BY <1>2, SkipDid
<1>3. CASE Back(p)
  BY <1>3, BackDid
<1>4. CASE \E a \in Word : Goto(p, a)
  BY <1>4, GotoDid
<1>5. PCHL(p) => \E a \in Word : Goto(p, a)
  BY <1>1 DEF PCHL
<1> QED BY <1>1, <1>2, <1>3, <1>4, <1>5 DEF JMP, RET, JumpIf, ReturnIf, Skip

\* The calls and restarts, taken or not.
LEMMA CallsDid == ASSUME NEW p, Running(p), CALL(p) \/ CallIf(p) \/ RST(p) PROVE Did(p)
<1>1. Operand(p) \in Word /\ 8 * Dst(p) \in Word
  BY Fetched, InWord
<1>2. ASSUME NEW a \in Word, Pushes(p), Subroutine(p, a) PROVE Did(p)
  BY <1>2, SubroutineDid
<1>3. CASE CALL(p)
  BY <1>1, <1>2, <1>3 DEF CALL, Pushes
<1>4. CASE CallIf(p)
  BY <1>1, <1>2, <1>4, SkipDid DEF CallIf, Skip, Pushes
<1>5. CASE RST(p)
  <2>1. P[p].inte \in {0, 1}
    BY DEF Running, Process
  <2> QED BY <1>1, <1>2, <1>5, <2>1, SkipDid DEF RST, Pushes
<1> QED BY <1>3, <1>4, <1>5

\* EI, DI and HLT.
LEMMA StatesDid == ASSUME NEW p, Running(p), EI(p) \/ DI(p) \/ HLT(p) PROVE Did(p)
<1>1. P[p] \in Process
  BY DEF Running
<1>2. CASE EI(p)
  <2> DEFINE q == [P[p] EXCEPT !.inte = 1]
  <2>1. Become(p, q, 1) /\ Made(p, q)
    BY <1>1, <1>2 DEF EI, Made, Process
  <2> HIDE DEF q
  <2> QED BY <2>1, BecomeDid
<1>3. CASE DI(p)
  <2> DEFINE q == [P[p] EXCEPT !.inte = 0]
  <2>1. Become(p, q, 1) /\ Made(p, q)
    BY <1>1, <1>3 DEF DI, Made, Process
  <2> HIDE DEF q
  <2> QED BY <2>1, BecomeDid
<1>4. CASE HLT(p)
  <2> DEFINE q == [P[p] EXCEPT !.state = "halted"]
  <2>1. Become(p, q, 0) /\ Made(p, q)
    BY <1>1, <1>4 DEF HLT, Made, Process
  <2> HIDE DEF q
  <2> QED BY <2>1, BecomeDid
<1> QED BY <1>2, <1>3, <1>4

\* IN loads the byte that came first, or 0.
LEMMA InputDid == ASSUME NEW p, Running(p), Input(p) PROVE Did(p)
<1> DEFINE o == P[p].origin
<1>1. o \in Origin /\ in[o] \in Seq(Byte) /\ P[p] \in Process /\ p \in Proc
  BY DEF Running, TypeOK, Process
<1>2. PICK b \in Byte : Load(p, b)
  <2>1. 0 \in Byte
    BY InByte
  <2>2. in[o] # <<>> => Head(in[o]) \in Byte
    BY <1>1
  <2> QED BY <2>1, <2>2 DEF Input
<1>3. in' \in [Origin -> Seq(Byte)]
  <2>1. in[o] # <<>> => Tail(in[o]) \in Seq(Byte)
    BY <1>1
  <2>2. in \in [Origin -> Seq(Byte)]
    BY DEF Running, TypeOK
  <2>3. in' = in \/ (in[o] # <<>> /\ in' = [in EXCEPT ![o] = Tail(in[o])])
    BY DEF Input
  <2> HIDE DEF o
  <2> QED BY <2>1, <2>2, <2>3
<1>4. UNCHANGED <<mem, out, up, typed>>
  BY DEF Input
<1> HIDE DEF o
<1> DEFINE q == Further([P[p] EXCEPT !.r[R_A] = b], 2)
<1>5. P' = [P EXCEPT ![p] = q]
  BY <1>2 DEF Load
<1>6. q \in Process /\ q.F = P[p].F
  <2> DEFINE s == [P[p] EXCEPT !.r[R_A] = b]
  <2>1. s \in Process /\ s.F = P[p].F
    BY <1>1 DEF Process, R_A
  <2>2. q = Further(s, 2)
    OBVIOUS
  <2> HIDE DEF s, q
  <2>3. Further(s, 2) \in Process /\ Further(s, 2).F = s.F
    BY <2>1, Forward
  <2> QED BY <2>1, <2>2, <2>3
<1> HIDE DEF q
<1>7. TypeOK'
  BY <1>1, <1>3, <1>4, <1>5, <1>6 DEF Running, TypeOK
<1>8. P'[p].F = P[p].F /\ \A r \in Proc : r # p => P'[r] = P[r]
  BY <1>1, <1>5, <1>6 DEF Running, TypeOK
<1> QED BY <1>4, <1>7, <1>8 DEF Did, Changes

\* OUT appends the accumulator to the FIFO, or loses it.
LEMMA OutputDid == ASSUME NEW p, Running(p), Output(p) PROVE Did(p)
<1> DEFINE o == P[p].origin
<1>1. o \in Origin /\ out[o] \in Seq(Byte) /\ P[p] \in Process /\ p \in Proc /\ A(p) \in Byte
  BY Operands DEF Running, TypeOK, Process
<1>2. out' \in [Origin -> Seq(Byte)]
  BY <1>1 DEF Output, Running, TypeOK
<1>3. UNCHANGED <<mem, in, up, typed>>
  BY DEF Output
<1> HIDE DEF o
<1> DEFINE q == Further(P[p], 2)
<1>4. P' = [P EXCEPT ![p] = q]
  BY DEF Output
<1>5. q \in Process /\ q.F = P[p].F
  BY <1>1, Forward
<1> HIDE DEF q
<1>6. TypeOK'
  BY <1>1, <1>2, <1>3, <1>4, <1>5 DEF Running, TypeOK
<1>7. P'[p].F = P[p].F /\ \A r \in Proc : r # p => P'[r] = P[r]
  BY <1>1, <1>4, <1>5 DEF Running, TypeOK
<1> QED BY <1>3, <1>6, <1>7 DEF Did, Changes

\* Fork writes two records, and the second was not in use.
LEMMA ForkDid == ASSUME NEW p, Running(p), Fork(p) PROVE Did(p)
<1> DEFINE q == Further(P[p], 1)
           parent == [q EXCEPT !.F = @ \ {F_Z}]
           child  == [q EXCEPT !.F = @ \cup {F_Z}]
<1>1. PICK c \in {d \in Proc : P[d] = NoProcess} : P' = [P EXCEPT ![p] = parent, ![c] = child]
  BY DEF Fork
<1>2. q \in Process
  BY Forward DEF Running
<1> HIDE DEF q
<1>3. parent \in Process /\ child \in Process
  BY <1>2 DEF Process, F_Z, Mask
<1> HIDE DEF parent, child
<1>4. UNCHANGED <<mem, in, out, up, typed>>
  BY DEF Fork, Keep
<1>5. TypeOK'
  BY <1>1, <1>3, <1>4 DEF Running, TypeOK
<1>6. Opcode(p) \in FlagSetters
  BY DEF Fork, FlagSetters
<1>7. \A r \in Proc : r # p /\ P[r].state # "none" => P'[r] = P[r]
  BY <1>1, <1>3 DEF Running, TypeOK, NoProcess
<1> QED BY <1>4, <1>5, <1>6, <1>7 DEF Did, Changes

\* Every handler of this group.
LEMMA ControlDid == ASSUME NEW p, Running(p), Control(p) PROVE Did(p)
  BY JumpsDid, CallsDid, StatesDid, InputDid, OutputDid, ForkDid DEF Control
-----------------------------------------------------------------------------
(***************************************************************************)
(* Every step.                                                             *)
(***************************************************************************)

\* A process that is being run is in use.
LEMMA RunsOne == ASSUME TypeOK, NEW p \in Proc, P[p].state = "run" PROVE Running(p)
  BY DEF Running, TypeOK, NoProcess

\* A step executes an instruction, or changes no process and no memory.
LEMMA Steps ==
  ASSUME TypeOK, [Next]_vars
  PROVE  \/ \E p \in Proc : /\ P[p].state = "run" /\ Did(p)
                            /\ Move(p) \/ Compute(p) \/ Control(p)
         \/ TypeOK' /\ UNCHANGED <<P, mem>>
<1>1. ASSUME NEW p \in Proc, Execute(p), ~Crash(p)
      PROVE  P[p].state = "run" /\ Did(p) /\ (Move(p) \/ Compute(p) \/ Control(p))
  <2>1. P[p].state = "run" /\ (Move(p) \/ Compute(p) \/ Control(p))
    BY <1>1 DEF Execute
  <2> QED BY <2>1, RunsOne, MoveDid, ComputeDid, ControlDid
<1>2. ASSUME NEW p \in Proc, Crash(p) PROVE TypeOK' /\ UNCHANGED <<P, mem>>
  BY <1>2 DEF Crash, TypeOK
<1>3. ASSUME NEW o \in Origin, NEW b \in Keys, Key(o, b) PROVE TypeOK' /\ UNCHANGED <<P, mem>>
  <2>1. b \in Byte
    BY CpuAssumption
  <2>2. in' \in [Origin -> Seq(Byte)] /\ typed' \in [Origin -> Seq(Byte)]
    BY <1>3, <2>1 DEF Key, TypeOK
  <2> QED BY <1>3, <2>2 DEF Key, TypeOK
<1>4. CASE UNCHANGED vars
  BY <1>4 DEF vars, TypeOK
<1> QED BY <1>1, <1>2, <1>3, <1>4 DEF Next

\* CreateProcess leaves registers, flags and memory of the right widths.
LEMMA InitType == Init => TypeOK
<1> SUFFICES ASSUME Init PROVE TypeOK
  OBVIOUS
<1>1. P \in [Proc -> Process \cup {NoProcess}]
  <2>1. ASSUME NEW p \in Origin PROVE Created(p) \in Process
    <3>1. 0 \in Byte /\ 0 \in Word /\ 3840 \in Word
      BY InByte, InWord
    <3> QED BY <3>1 DEF Created, Process
  <2> QED BY <2>1 DEF Init
<1>2. ASSUME NEW o \in Origin
      PROVE  mem[o] \in [DOMAIN mem[o] -> Byte] /\ DOMAIN mem[o] \subseteq Word
  <2>1. PICK f \in Programs : mem = [k \in Origin |-> Loaded(f[k])]
    BY DEF Init
  <2>2. f[o] \in Seq(Byte) /\ \A i \in 1..Len(f[o]) : i > 57345 => f[o][i] = 0
    BY CpuAssumption
  <2> DEFINE prog == f[o]
             used == {j \in 1..Len(prog) : prog[j] # 0}
  <2>3. mem[o] = [a \in {i - 1 : i \in used} |-> prog[a + 1]]
    BY <2>1 DEF Loaded
  <2>4. ASSUME NEW i \in used PROVE i - 1 \in Word /\ (i - 1) + 1 = i /\ prog[i] \in Byte
    <3>1. i \in Nat /\ i >= 1 /\ i <= 57345 /\ prog[i] \in Byte
      BY <2>2
    <3> QED BY <3>1, InWord
  <2> HIDE DEF prog, used
  <2>5. \A a \in {i - 1 : i \in used} : a \in Word /\ prog[a + 1] \in Byte
    BY <2>4
  <2> QED BY <2>3, <2>5
<1>3. {in, out, typed} \subseteq [Origin -> Seq(Byte)] /\ up \in BOOLEAN
  BY DEF Init
<1>4. DOMAIN mem = Origin
  BY DEF Init
<1> QED BY <1>1, <1>2, <1>3, <1>4 DEF TypeOK

(***************************************************************************)
(* Registers, flags, memory and pipes stay within their widths, whatever   *)
(* is executed (lib8080.c:23-1172).                                        *)
(***************************************************************************)
THEOREM TypeCorrect == Spec => []TypeOK
<1>1. TypeOK /\ [Next]_vars => TypeOK'
  BY Steps DEF Did
<1> QED BY <1>1, InitType, PTL DEF Spec

(***************************************************************************)
(* A handler that is not meant to set flags leaves them all as they are    *)
(* (lib8080.c:23-1172).                                                    *)
(***************************************************************************)
THEOREM FlagsSurviveAlways == Spec => FlagsSurvive
<1> DEFINE Survive == \A p \in Proc : Executes(p, (0..255) \ FlagSetters) => P'[p].F = P[p].F
<1>1. TypeOK /\ [Next]_vars => [Survive]_vars
  <2> SUFFICES ASSUME TypeOK, [Next]_vars, NEW p \in Proc, Executes(p, (0..255) \ FlagSetters)
               PROVE  P'[p].F = P[p].F
    OBVIOUS
  <2>1. P[p].state = "run" /\ Opcode(p) \notin FlagSetters /\ P'[p] # P[p]
    BY DEF Executes
  <2> QED BY <2>1, Steps DEF Did
<1> QED BY <1>1, TypeCorrect, PTL DEF Spec, FlagsSurvive

(***************************************************************************)
(* A byte of memory changes only where the instruction points, in the      *)
(* memory of the process that executes it (lib8080.c:23-1172).             *)
(***************************************************************************)
THEOREM StoresWhereItPointsAlways == Spec => StoresWhereItPoints
<1> DEFINE Stores == \A p \in Proc : Executes(p, 0..255) =>
                       \A o \in Origin : \A a \in DOMAIN mem'[o] :
                         ~(a \in DOMAIN mem[o] /\ mem'[o][a] = mem[o][a])
                           => o = P[p].origin /\ a \in {Cell(b) : b \in Accesses(p)}
<1>1. TypeOK /\ [Next]_vars => [Stores]_vars
  <2> SUFFICES ASSUME TypeOK, [Next]_vars, NEW p \in Proc, Executes(p, 0..255),
                      NEW o \in Origin, NEW a \in DOMAIN mem'[o], Changes(o, a)
               PROVE  o = P[p].origin /\ a \in {Cell(b) : b \in Accesses(p)}
    BY DEF Changes
  <2>1. P[p].state = "run" /\ P'[p] # P[p]
    BY DEF Executes
  <2>2. Did(p)
    BY <2>1, Steps DEF Did
  <2> QED BY <2>2 DEF Did
<1> QED BY <1>1, TypeCorrect, PTL DEF Spec, StoresWhereItPoints
-----------------------------------------------------------------------------
(***************************************************************************)
(* The sum and the difference.                                             *)
(***************************************************************************)

\* The opcodes 128 to 191 are those of the handlers of arithmetic and logic on
\* a register.
LEMMA MoveElsewhere ==
  ASSUME NEW p, Opcode(p) \in Int, Move(p) PROVE ~(Opcode(p) >= 128 /\ Opcode(p) <= 191)
<1>1. CASE MOV(p)
  BY <1>1 DEF MOV, Moves
<1>2. CASE MVI(p) \/ LXI(p)
  BY <1>2 DEF MVI, LXI, Singles, Pairs
<1>3. CASE PUSH(p) \/ POP(p)
  <2> DEFINE S == {192 + i : i \in Pairs}
  <2>1. \A k \in S : k \in Int /\ k >= 192
    BY DEF Pairs
  <2>2. Opcode(p) - 5 \in S \/ Opcode(p) - 1 \in S
    BY <1>3 DEF PUSH, POP
  <2> HIDE DEF S
  <2>3. Opcode(p) - 5 >= 192 \/ Opcode(p) - 1 >= 192
    BY <2>1, <2>2
  <2> QED BY <2>3
<1>4. CASE NOP(p) \/ STAX(p) \/ LDAX(p) \/ STA(p) \/ LDA(p) \/ SHLD(p) \/ LHLD(p)
  BY <1>4 DEF NOP, STAX, LDAX, STA, LDA, SHLD, LHLD
<1>5. CASE XCHG(p) \/ XTHL(p) \/ SPHL(p)
  BY <1>5 DEF XCHG, XTHL, SPHL
<1> QED BY <1>1, <1>2, <1>3, <1>4, <1>5 DEF Move

\* No handler of control has one of these opcodes.
LEMMA ControlElsewhere ==
  ASSUME NEW p, Control(p) PROVE ~(Opcode(p) >= 128 /\ Opcode(p) <= 191)
<1>1. CASE PCHL(p) \/ JMP(p) \/ CALL(p) \/ RET(p)
  BY <1>1 DEF PCHL, JMP, CALL, RET
<1>2. CASE JumpIf(p)
  BY <1>2 DEF JumpIf, Skip, Jumps, Returns
<1>3. CASE CallIf(p)
  BY <1>3 DEF CallIf, Skip, Calls, Returns
<1>4. CASE ReturnIf(p) \/ RST(p)
  BY <1>4 DEF ReturnIf, Skip, RST, Resets, Returns
<1>5. CASE EI(p) \/ DI(p) \/ HLT(p) \/ Input(p) \/ Output(p) \/ Fork(p)
  BY <1>5 DEF EI, DI, HLT, Input, Output, Fork
<1> QED BY <1>1, <1>2, <1>3, <1>4, <1>5 DEF Control

\* The first 24 of them belong to ADD, ADC and SUB, eight each.
LEMMA ComputeAlu ==
  ASSUME NEW p, Compute(p), Opcode(p) \in Int, Opcode(p) >= 128, Opcode(p) <= 151
  PROVE  \/ ADD(p) /\ Opcode(p) <= 135
         \/ ADC(p) /\ Opcode(p) >= 136 /\ Opcode(p) <= 143
         \/ SUB(p) /\ Opcode(p) >= 144
<1>1. /\ ADD(p) => Opcode(p) <= 135
      /\ ADC(p) => Opcode(p) >= 136 /\ Opcode(p) <= 143
      /\ SUB(p) => Opcode(p) >= 144
  BY DEF ADD, ADC, SUB, Alu
<1>2. ~SBB(p) /\ ~ANA(p) /\ ~XRA(p) /\ ~ORA(p) /\ ~CMP(p)
  BY DEF SBB, ANA, XRA, ORA, CMP, Alu
<1>3. ~ADI(p) /\ ~ACI(p) /\ ~SUI(p) /\ ~SBI(p) /\ ~ANI(p) /\ ~XRI(p) /\ ~ORI(p) /\ ~CPI(p)
  BY DEF ADI, ACI, SUI, SBI, ANI, XRI, ORI, CPI
<1>4. ~INR(p) /\ ~DCR(p) /\ ~DAD(p) /\ ~INX(p) /\ ~DCX(p)
  BY DEF INR, DCR, DAD, INX, DCX, Singles, Pairs
<1>5. ~CMA(p) /\ ~STC(p) /\ ~CMC(p) /\ ~DAA(p) /\ ~RLC(p) /\ ~RRC(p) /\ ~RAL(p) /\ ~RAR(p)
  BY DEF CMA, STC, CMC, DAA, RLC, RRC, RAL, RAR
<1> QED BY <1>1, <1>2, <1>3, <1>4, <1>5 DEF Compute

\* What Arith leaves in the accumulator and in the carry.
LEMMA ArithLeaves ==
  ASSUME NEW p, Running(p), NEW a \in Nat, NEW fl \in SUBSET Mask, Arith(p, a, fl, 1)
  PROVE  A(p)' = a % 256 /\ Carry(p)' = IF F_C \in fl THEN 1 ELSE 0
<1> DEFINE x == a % 256
           F == (P[p].F \cap {2, 8, 32}) \cup fl \cup ZSP(x)
           q == [P[p] EXCEPT !.r[R_A] = x, !.F = F]
<1>1. P' = [P EXCEPT ![p] = Further(q, 1)]
  BY DEF Arith, Become
<1>2. x \in Byte
  BY InByte
<1>3. F \in SUBSET Mask
  BY ChecksMask, FlagsMask
<1>4. F_C \in F <=> F_C \in fl
  BY ZSPCarry DEF F_C
<1> HIDE DEF x, F
<1>5. q \in Process /\ q.F = F /\ q.r[R_A] = x
  <2> DEFINE s == [P[p] EXCEPT !.r[R_A] = x]
  <2>1. s \in Process /\ s.r[R_A] = x
    BY <1>2 DEF Running, Process, R_A
  <2>2. q = [s EXCEPT !.F = F]
    BY DEF Running, Process
  <2> HIDE DEF s, q
  <2>3. q \in Process
    BY <1>3, <2>1, <2>2, Changed
  <2> QED BY <2>1, <2>2, <2>3 DEF Process
<1> HIDE DEF q
<1>6. Further(q, 1).F = F /\ Further(q, 1).r[R_A] = x
  BY <1>5, Forward
<1> DEFINE s == Further(q, 1)
<1> HIDE DEF s
<1>7. P'[p].F = F /\ P'[p].r[R_A] = x
  BY <1>1, <1>6 DEF Running, TypeOK, s
<1> QED BY <1>4, <1>7 DEF A, Carry, x

\* ADD: the carry is the ninth bit of the sum.
LEMMA ADDSum ==
  ASSUME NEW p, Running(p), ADD(p)
  PROVE  256 * Carry(p)' + A(p)' = A(p) + Value(p, Src(p))
<1> DEFINE a == A(p)
           v == Value(p, Src(p))
<1>1. a \in Byte /\ v \in Byte
  BY AluOperands
<1>2. Arith(p, a + v, CarryAdd(a, v), 1)
  BY DEF ADD
<1> HIDE DEF a, v
<1>3. a + v \in Nat /\ CarryAdd(a, v) \in SUBSET Mask
  BY <1>1, InByte, ChecksMask
<1>4. A(p)' = (a + v) % 256 /\ Carry(p)' = IF F_C \in CarryAdd(a, v) THEN 1 ELSE 0
  BY <1>2, <1>3, ArithLeaves
<1>5. F_C \in CarryAdd(a, v) <=> a + v > 255
  <2>1. v % 256 = v
    BY <1>1, InByte
  <2> QED BY <2>1 DEF CarryAdd, When, F_C, F_A
<1>6. (a + v) % 256 = IF a + v > 255 THEN a + v - 256 ELSE a + v
  BY <1>1, InByte
<1>7. 256 * Carry(p)' + A(p)' = a + v
  <2>1. CASE a + v > 255
    <3>1. Carry(p)' = 1 /\ A(p)' = a + v - 256
      BY <1>4, <1>5, <1>6, <2>1
    <3>2. a \in Int /\ v \in Int
      BY <1>1, InByte
    <3> QED BY <3>1, <3>2
  <2>2. CASE ~(a + v > 255)
    <3>1. Carry(p)' = 0 /\ A(p)' = a + v
      BY <1>4, <1>5, <1>6, <2>2
    <3> QED BY <1>3, <3>1
  <2> QED BY <2>1, <2>2
<1> QED BY <1>7 DEF a, v

\* SUB adds the complement and turns the carry around.
LEMMA SUBDifference ==
  ASSUME NEW p, Running(p), SUB(p), Value(p, Src(p)) # 0
  PROVE  A(p)' = A(p) - Value(p, Src(p)) + 256 * Carry(p)'
<1> DEFINE a == A(p)
           v == Value(p, Src(p))
           c == Complement(v)
           fl == Differ(CarryAdd(a, c), {F_C})
<1>1. a \in Byte /\ v \in Byte /\ v # 0
  BY AluOperands
<1>2. Arith(p, a + c, fl, 1)
  BY DEF SUB
<1>3. c = 256 - v
  BY <1>1, InByte DEF Complement
<1>4. fl \in SUBSET Mask
  BY ChecksMask DEF Differ, F_C, Mask
<1>5. F_C \in fl <=> ~(a + c > 255)
  <2>1. c % 256 = c
    BY <1>1, <1>3, InByte
  <2>2. F_C \in CarryAdd(a, c) <=> a + c > 255
    BY <2>1 DEF CarryAdd, When, F_C, F_A
  <2> QED BY <2>2 DEF Differ
<1> HIDE DEF a, v, c, fl
<1>6. a + c \in Nat
  BY <1>1, <1>3, InByte
<1>7. A(p)' = (a + c) % 256 /\ Carry(p)' = IF F_C \in fl THEN 1 ELSE 0
  BY <1>2, <1>4, <1>6, ArithLeaves
<1>8. (a + c) % 256 = a - v + 256 * (IF a + c > 255 THEN 0 ELSE 1)
  BY <1>1, <1>3, InByte
<1>9. A(p)' = a - v + 256 * Carry(p)'
  BY <1>5, <1>7, <1>8
<1> QED BY <1>9 DEF a, v

(***************************************************************************)
(* ADD leaves the whole sum in carry and accumulator, and SUB of anything  *)
(* but 0 the difference, borrow included (lib8080.c:165-222, 1445-1505).   *)
(***************************************************************************)
THEOREM SumExactAlways == Spec => SumExact
<1> DEFINE Exact ==
      \A p \in Proc :
        /\ Executes(p, 128..135) => 256 * Carry(p)' + A(p)' = A(p) + Value(p, Src(p))
        /\ Executes(p, 144..151) /\ Value(p, Src(p)) # 0
             => A(p)' = A(p) - Value(p, Src(p)) + 256 * Carry(p)'
<1>1. TypeOK /\ [Next]_vars => [Exact]_vars
  <2> SUFFICES ASSUME TypeOK, [Next]_vars, NEW p \in Proc,
                      P[p].state = "run", P'[p] # P[p],
                      Opcode(p) >= 128, Opcode(p) <= 151
               PROVE  /\ Opcode(p) <= 135 => ADD(p) /\ Running(p)
                      /\ Opcode(p) >= 144 => SUB(p) /\ Running(p)
    BY ADDSum, SUBDifference DEF Executes
  <2>1. Running(p)
    BY RunsOne
  <2>2. Move(p) \/ Compute(p) \/ Control(p)
    BY Steps DEF Did
  <2>3. Opcode(p) \in Int
    BY <2>1, Fetched, InByte
  <2> QED BY <2>1, <2>2, <2>3, MoveElsewhere, ComputeAlu, ControlElsewhere
<1> QED BY <1>1, TypeCorrect, PTL DEF Spec, SumExact
-----------------------------------------------------------------------------
(***************************************************************************)
(* Which opcodes the handlers have.                                        *)
(***************************************************************************)
MoveOp(p) ==
  \/ MOV(p) /\ Opcode(p) >= 64 /\ Opcode(p) <= 127 /\ Opcode(p) # 118
  \/ MVI(p) /\ Opcode(p) \in {6, 14, 22, 30, 38, 46, 54, 62}
  \/ LXI(p) /\ Opcode(p) \in {1, 17, 33, 49}
  \/ PUSH(p) /\ Opcode(p) \in {197, 213, 229, 245}
  \/ POP(p) /\ Opcode(p) \in {193, 209, 225, 241}
  \/ Opcode(p) \in {0, 2, 18, 10, 26, 50, 58, 34, 42, 235, 227, 249}

\* A handler that moves data was called by one of its opcodes.
LEMMA MoveOps == ASSUME NEW p, Opcode(p) \in Int, Move(p) PROVE MoveOp(p)
<1>1. CASE MOV(p)
  BY <1>1 DEF MOV, Moves, MoveOp
<1>2. CASE MVI(p) \/ LXI(p)
  BY <1>2 DEF MVI, LXI, Singles, Pairs, MoveOp
<1>3. \A k \in {192 + i : i \in Pairs} : k \in {192, 208, 224, 240}
  <2>1. Pairs = {0, 16, 32, 48}
    BY DEF Pairs
  <2> QED BY <2>1
<1>4. CASE PUSH(p)
  <2>1. Opcode(p) - 5 \in {192, 208, 224, 240}
    BY <1>3, <1>4 DEF PUSH
  <2> QED BY <1>4, <2>1 DEF MoveOp
<1>5. CASE POP(p)
  <2>1. Opcode(p) - 1 \in {192, 208, 224, 240}
    BY <1>3, <1>5 DEF POP
  <2> QED BY <1>5, <2>1 DEF MoveOp
<1>6. CASE NOP(p) \/ STAX(p) \/ LDAX(p) \/ STA(p) \/ LDA(p) \/ SHLD(p) \/ LHLD(p)
  BY <1>6 DEF NOP, STAX, LDAX, STA, LDA, SHLD, LHLD, MoveOp
<1>7. CASE XCHG(p) \/ XTHL(p) \/ SPHL(p)
  BY <1>7 DEF XCHG, XTHL, SPHL, MoveOp
<1> QED BY <1>1, <1>2, <1>4, <1>5, <1>6, <1>7 DEF Move

ComputeOp(p) ==
  \/ ADD(p) /\ Opcode(p) >= 128 /\ Opcode(p) <= 135
  \/ ADC(p) /\ Opcode(p) >= 136 /\ Opcode(p) <= 143
  \/ Opcode(p) >= 144 /\ Opcode(p) <= 183
  \/ CMP(p) /\ Opcode(p) >= 184 /\ Opcode(p) <= 191
  \/ DAD(p) /\ Opcode(p) \in {9, 25, 41, 57}
  \/ Opcode(p) \in {198, 206, 214, 222, 230, 238, 246, 254}
  \/ Opcode(p) \in {4, 12, 20, 28, 36, 44, 52, 60, 5, 13, 21, 29, 37, 45, 53, 61}
  \/ Opcode(p) \in {47, 55, 63, 39, 7, 15, 23, 31, 3, 19, 35, 51, 11, 27, 43, 59}

\* So was one that computes.
LEMMA ComputeOps == ASSUME NEW p, Opcode(p) \in Int, Compute(p) PROVE ComputeOp(p)
<1>1. CASE ADD(p) \/ ADC(p) \/ SUB(p) \/ SBB(p)
  BY <1>1 DEF ADD, ADC, SUB, SBB, Alu, ComputeOp
<1>2. CASE ANA(p) \/ XRA(p) \/ ORA(p) \/ CMP(p)
  BY <1>2 DEF ANA, XRA, ORA, CMP, Alu, ComputeOp
<1>3. CASE ADI(p) \/ ACI(p) \/ SUI(p) \/ SBI(p) \/ ANI(p) \/ XRI(p) \/ ORI(p) \/ CPI(p)
  BY <1>3 DEF ADI, ACI, SUI, SBI, ANI, XRI, ORI, CPI, ComputeOp
<1>4. CASE INR(p) \/ DCR(p)
  BY <1>4 DEF INR, DCR, Singles, ComputeOp
<1>5. CASE DAD(p) \/ INX(p) \/ DCX(p)
  BY <1>5 DEF DAD, INX, DCX, Pairs, ComputeOp
<1>6. CASE CMA(p) \/ STC(p) \/ CMC(p) \/ DAA(p) \/ RLC(p) \/ RRC(p) \/ RAL(p) \/ RAR(p)
  BY <1>6 DEF CMA, STC, CMC, DAA, RLC, RRC, RAL, RAR, ComputeOp
<1> QED BY <1>1, <1>2, <1>3, <1>4, <1>5, <1>6 DEF Compute

ControlOp(p) ==
  \/ JMP(p) /\ Opcode(p) \in {195, 203}
  \/ JumpIf(p) /\ Opcode(p) \in {194, 202, 210, 218, 226, 234, 242, 250}
  \/ Opcode(p) \in {192, 200, 208, 216, 224, 232, 240, 248}
  \/ Opcode(p) \in {196, 204, 212, 220, 228, 236, 244, 252}
  \/ Opcode(p) \in {199, 207, 215, 223, 231, 239, 247, 255}
  \/ Opcode(p) \in {233, 205, 201, 251, 243}
  \/ HLT(p) /\ Opcode(p) = 118
  \/ Input(p) /\ Opcode(p) = 219
  \/ Output(p) /\ Opcode(p) = 211
  \/ Opcode(p) = 217

\* So was one that jumps, calls, returns, forks or uses a stream.
LEMMA ControlOps == ASSUME NEW p, Control(p) PROVE ControlOp(p)
<1>1. CASE PCHL(p) \/ JMP(p) \/ CALL(p) \/ RET(p)
  BY <1>1 DEF PCHL, JMP, CALL, RET, ControlOp
<1>2. CASE JumpIf(p)
  BY <1>2 DEF JumpIf, Skip, Jumps, Returns, ControlOp
<1>3. CASE CallIf(p)
  BY <1>3 DEF CallIf, Skip, Calls, Returns, ControlOp
<1>4. CASE ReturnIf(p) \/ RST(p)
  BY <1>4 DEF ReturnIf, Skip, RST, Resets, Returns, ControlOp
<1>5. CASE EI(p) \/ DI(p) \/ HLT(p) \/ Input(p) \/ Output(p) \/ Fork(p)
  BY <1>5 DEF EI, DI, HLT, Input, Output, Fork, ControlOp
<1> QED BY <1>1, <1>2, <1>3, <1>4, <1>5 DEF Control

\* The handler that an opcode of the programs below leads to.
LEMMA Decoded ==
  ASSUME NEW p, Running(p), Move(p) \/ Compute(p) \/ Control(p)
  PROVE  /\ Opcode(p) \in {6, 14, 22, 30, 38, 46} => MVI(p)
         /\ Opcode(p) = 49 => LXI(p)
         /\ Opcode(p) \in {87, 95, 124, 125} => MOV(p)
         /\ Opcode(p) = 129 => ADD(p)
         /\ Opcode(p) = 136 => ADC(p)
         /\ Opcode(p) = 186 => CMP(p)
         /\ Opcode(p) = 9 => DAD(p)
         /\ Opcode(p) \in {197, 213} => PUSH(p)
         /\ Opcode(p) \in {193, 225} => POP(p)
         /\ Opcode(p) = 118 => HLT(p)
         /\ Opcode(p) = 194 => JumpIf(p)
         /\ Opcode(p) = 195 => JMP(p)
         /\ Opcode(p) = 211 => Output(p)
         /\ Opcode(p) = 219 => Input(p)
<1>1. Opcode(p) \in Int
  BY Fetched, InByte
<1>2. MoveOp(p) \/ ComputeOp(p) \/ ControlOp(p)
  BY <1>1, MoveOps, ComputeOps, ControlOps
<1>3. CASE MoveOp(p)
  BY <1>1, <1>3 DEF MoveOp
<1>4. CASE ComputeOp(p)
  BY <1>1, <1>4 DEF ComputeOp
<1>5. CASE ControlOp(p)
  BY <1>1, <1>5 DEF ControlOp
<1> QED BY <1>2, <1>3, <1>4, <1>5
-----------------------------------------------------------------------------
(***************************************************************************)
(* A program that runs alone.                                              *)
(***************************************************************************)
Alone == /\ P[p1] \in Process /\ P[p1].origin = p1
         /\ \A q \in Proc : q # p1 => P[q].state # "run"

\* CreateProcess stores the bytes of the program; memory is zero elsewhere.
LEMMA LoadedReads ==
  ASSUME NEW prog \in Seq(Byte), NEW p, mem[P[p].origin] = Loaded(prog), NEW k \in Nat, k < 57344
  PROVE  GetMemory(p, k) = IF k < Len(prog) THEN prog[k + 1] ELSE 0
<1> DEFINE m == mem[P[p].origin]
           used == {j \in 1..Len(prog) : prog[j] # 0}
<1>1. k % 65536 = k /\ Cell(k) = k
  BY DEF Cell
<1>2. GetMemory(p, k) = IF k \in DOMAIN m THEN m[k] ELSE 0
  BY <1>1 DEF GetMemory
<1>3. m = [a \in {i - 1 : i \in used} |-> prog[a + 1]]
  BY DEF Loaded
<1>4. k \in DOMAIN m <=> k + 1 \in used
  <2>1. \A i \in used : i \in Nat
    OBVIOUS
  <2> HIDE DEF used
  <2>2. k \in DOMAIN m <=> \E i \in used : k = i - 1
    BY <1>3
  <2> QED BY <2>1, <2>2
<1>5. k \in DOMAIN m => m[k] = prog[k + 1]
  BY <1>3
<1>6. k + 1 \in used <=> k < Len(prog) /\ prog[k + 1] # 0
  OBVIOUS
<1> QED BY <1>2, <1>4, <1>5, <1>6

\* The process that CreateProcess makes of a program for p1.
LEMMA AloneInit ==
  ASSUME Init, NEW prog \in Seq(Byte), mem = [o \in Origin |-> Loaded(For(prog)[o])], Origin = {p1}
  PROVE  /\ Alone /\ P[p1] = Created(p1) /\ mem[p1] = Loaded(prog)
<1>1. For(prog)[p1] = prog
  BY DEF For
<1>2. Created(p1) \in Process
  BY SMTT(30), InitType, CpuAssumption DEF Init, TypeOK, Created, NoProcess, Process
<1>3. P[p1] = Created(p1) /\ \A q \in Proc : q # p1 => P[q] = NoProcess
  BY CpuAssumption DEF Init
<1> QED BY <1>1, <1>2, <1>3 DEF Alone, NoProcess, Created

\* A step of an instruction of p1, a key, or one that changes neither
\* processes nor memory nor FIFOs.
LEMMA AloneSteps ==
  ASSUME TypeOK, Alone, [Next]_vars
  PROVE  \/ Running(p1) /\ P[p1].state = "run" /\ (Move(p1) \/ Compute(p1) \/ Control(p1))
         \/ UNCHANGED <<P, mem, in, out, typed>>
         \/ \E o \in Origin, b \in Keys : Key(o, b)
<1>1. ASSUME NEW p \in Proc, Execute(p)
      PROVE  \/ /\ Running(p1) /\ P[p1].state = "run"
                /\ Move(p1) \/ Compute(p1) \/ Control(p1)
             \/ UNCHANGED <<P, mem, in, out, typed>>
  <2>1. p = p1 /\ P[p1].state = "run"
    BY <1>1 DEF Execute, Alone
  <2>2. CASE Crash(p)
    BY <2>2 DEF Crash
  <2> QED BY <1>1, <2>1, <2>2, RunsOne DEF Execute
<1>2. CASE UNCHANGED vars
  BY <1>2 DEF vars
<1> QED BY <1>1, <1>2 DEF Next

\* A handler that stores nothing, field by field.
LEMMA BecomeFields ==
  ASSUME NEW p, Running(p), NEW q \in Process, NEW n \in 0..3, Become(p, q, n)
  PROVE  /\ P'[p] \in Process /\ \A o \in Proc : o # p => P'[o] = P[o]
         /\ P'[p].pc = (q.pc + n) % 65536 /\ P'[p].r = q.r /\ P'[p].F = q.F /\ P'[p].sp = q.sp
         /\ P'[p].state = q.state /\ P'[p].origin = q.origin
         /\ UNCHANGED <<mem, in, out, up, typed>>
<1>1. P' = [P EXCEPT ![p] = Further(q, n)] /\ UNCHANGED <<mem, in, out, up, typed>>
  BY DEF Become, Keep
<1>2. P'[p] = Further(q, n) /\ \A o \in Proc : o # p => P'[o] = P[o]
  BY <1>1 DEF Running, TypeOK
<1>3. Further(q, n) = [q EXCEPT !.pc = (q.pc + n) % 65536]
  BY DEF Further
<1>4. /\ Further(q, n).pc = (q.pc + n) % 65536 /\ Further(q, n).sp = q.sp
      /\ Further(q, n).state = q.state /\ Further(q, n).origin = q.origin
  BY <1>3 DEF Process
<1> QED BY <1>1, <1>2, <1>4, Forward

\* A jump.
LEMMA GotoFields ==
  ASSUME NEW p, Running(p), NEW a \in Word, Goto(p, a)
  PROVE  /\ P'[p] \in Process /\ \A o \in Proc : o # p => P'[o] = P[o]
         /\ P'[p].pc = a /\ P'[p].r = P[p].r /\ P'[p].F = P[p].F /\ P'[p].sp = P[p].sp
         /\ P'[p].state = P[p].state /\ P'[p].origin = P[p].origin
         /\ UNCHANGED <<mem, in, out, up, typed>>
<1> DEFINE q == [P[p] EXCEPT !.pc = a]
<1>1. /\ q \in Process /\ q.pc = a /\ q.r = P[p].r /\ q.F = P[p].F /\ q.sp = P[p].sp
      /\ q.state = P[p].state /\ q.origin = P[p].origin
  BY DEF Running, Process
<1>2. Become(p, q, 0)
  BY DEF Goto
<1>3. (a + 0) % 65536 = a
  BY InWord
<1> HIDE DEF q
<1> QED BY <1>1, <1>2, <1>3, BecomeFields
-----------------------------------------------------------------------------
(***************************************************************************)
(* The echo.  Flow(o, i, t, h, a): of the bytes typed t, those written are *)
(* o, and until the FIFO is full, the next is a if h = 1, and the rest are *)
(* to be read from i.                                                      *)
(***************************************************************************)
Flow(o, i, t, h, a) ==
  /\ Len(o) <= Len(t) /\ \A n \in 1..Len(o) : o[n] = t[n]
  /\ Len(o) < PipeCap =>
       /\ Len(t) = Len(o) + h + Len(i)
       /\ h = 1 => t[Len(o) + 1] = a
       /\ \A n \in 1..Len(i) : i[n] = t[Len(o) + h + n]

\* Whether the accumulator has a byte that is not written yet.
Held == IF P[p1].pc = 15 \/ (P[p1].pc \in {2, 3} /\ P[p1].r[R_A] # 0) THEN 1 ELSE 0

EchoInv ==
  /\ Alone /\ mem[p1] = Loaded(Echo[p1])
  /\ P[p1].pc \in {0, 2, 3, 6, 15, 17} /\ P[p1].r[2] = 0
  /\ P[p1].pc = 3 => (F_Z \in P[p1].F <=> P[p1].r[R_A] = 0)
  /\ \A n \in 1..Len(in[p1]) : in[p1][n] # 0
  /\ Flow(out[p1], in[p1], typed[p1], Held, P[p1].r[R_A])

\* Nothing held is like anything else held.
LEMMA FlowIdle ==
  ASSUME NEW o, NEW i, NEW t, NEW a, NEW x, Flow(o, i, t, 0, a)
  PROVE  Flow(o, i, t, 0, x)
<1> 0 # 1
  OBVIOUS
<1> QED BY Zenon DEF Flow

\* A byte typed is one more to be read.
LEMMA FlowKey ==
  ASSUME NEW o \in Seq(Byte), NEW i \in Seq(Byte), NEW t \in Seq(Byte), NEW h \in {0, 1}, NEW a,
         NEW b \in Byte, Flow(o, i, t, h, a)
  PROVE  Flow(o, Append(i, b), Append(t, b), h, a)
<1> DEFINE j == Append(i, b)
           u == Append(t, b)
<1>1. /\ Len(j) = Len(i) + 1 /\ Len(u) = Len(t) + 1
      /\ \A n \in 1..Len(i) : j[n] = i[n]
      /\ \A n \in 1..Len(t) : u[n] = t[n]
      /\ j[Len(i) + 1] = b /\ u[Len(t) + 1] = b
      /\ Len(o) \in Nat /\ Len(i) \in Nat /\ Len(t) \in Nat
  OBVIOUS
<1> HIDE DEF j, u
<1>2. Len(o) <= Len(u) /\ \A n \in 1..Len(o) : o[n] = u[n]
  BY <1>1 DEF Flow
<1>3. ASSUME Len(o) < PipeCap
      PROVE  /\ Len(u) = Len(o) + h + Len(j)
             /\ h = 1 => u[Len(o) + 1] = a
             /\ \A n \in 1..Len(j) : j[n] = u[Len(o) + h + n]
  <2>1. /\ Len(t) = Len(o) + h + Len(i)
        /\ h = 1 => t[Len(o) + 1] = a
        /\ \A n \in 1..Len(i) : i[n] = t[Len(o) + h + n]
    BY <1>3 DEF Flow
  <2>2. \A n \in 1..Len(i) : j[n] = u[Len(o) + h + n]
    BY <1>1, <2>1
  <2>3. Len(u) = Len(o) + h + Len(j)
    BY <1>1, <2>1
  <2>4. j[Len(j)] = u[Len(o) + h + Len(j)]
    BY <1>1, <2>3
  <2>5. \A n \in 1..Len(j) : n \in 1..Len(i) \/ n = Len(j)
    BY <1>1
  <2>6. \A n \in 1..Len(j) : j[n] = u[Len(o) + h + n]
    BY <2>2, <2>4, <2>5
  <2>7. h = 1 => u[Len(o) + 1] = a
    <3>1. SUFFICES ASSUME h = 1 PROVE u[Len(o) + 1] = a
      OBVIOUS
    <3>2. Len(o) + 1 \in 1..Len(t)
      BY <1>1, <2>1, <3>1
    <3> QED BY <1>1, <2>1, <3>1, <3>2
  <2> QED BY <2>3, <2>6, <2>7
<1>4. Flow(o, j, u, h, a)
  BY <1>2, <1>3 DEF Flow
<1> QED BY <1>4 DEF j, u

\* A byte read is held.
LEMMA FlowTake ==
  ASSUME NEW o \in Seq(Byte), NEW i \in Seq(Byte), NEW t \in Seq(Byte), NEW a,
         Flow(o, i, t, 0, a), i # <<>>
  PROVE  Flow(o, Tail(i), t, 1, Head(i))
<1>1. /\ Len(i) \in Nat \ {0} /\ Len(Tail(i)) = Len(i) - 1 /\ Head(i) = i[1]
      /\ \A n \in 1..Len(Tail(i)) : Tail(i)[n] = i[n + 1]
      /\ Len(o) \in Nat /\ Len(t) \in Nat
  OBVIOUS
<1>2. ASSUME Len(o) < PipeCap
      PROVE  /\ Len(t) = Len(o) + 1 + Len(Tail(i)) /\ t[Len(o) + 1] = Head(i)
             /\ \A n \in 1..Len(Tail(i)) : Tail(i)[n] = t[Len(o) + 1 + n]
  <2>1. Len(t) = Len(o) + Len(i) /\ \A n \in 1..Len(i) : i[n] = t[Len(o) + n]
    BY <1>1, <1>2 DEF Flow
  <2>2. \A n \in 1..Len(Tail(i)) : n + 1 \in 1..Len(i) /\ Len(o) + 1 + n = Len(o) + (n + 1)
    BY <1>1
  <2> QED BY <1>1, <2>1, <2>2
<1> QED BY <1>2 DEF Flow

\* A byte written is held no more.
LEMMA FlowPut ==
  ASSUME NEW o \in Seq(Byte), NEW i \in Seq(Byte), NEW t \in Seq(Byte), NEW a \in Byte, NEW x,
         Flow(o, i, t, 1, a)
  PROVE  Flow(IF Len(o) < PipeCap THEN Append(o, a) ELSE o, i, t, 0, x)
<1>1. Len(o) \in Nat /\ Len(i) \in Nat /\ Len(t) \in Nat
  OBVIOUS
<1>2. CASE Len(o) < PipeCap
  <2> DEFINE w == Append(o, a)
  <2>1. /\ Len(w) = Len(o) + 1 /\ w[Len(o) + 1] = a
        /\ \A n \in 1..Len(o) : w[n] = o[n]
    OBVIOUS
  <2> HIDE DEF w
  <2>2. /\ Len(t) = Len(w) + Len(i) /\ t[Len(o) + 1] = a
        /\ \A n \in 1..Len(i) : i[n] = t[Len(w) + n]
    BY <1>1, <1>2, <2>1 DEF Flow
  <2>3. \A n \in 1..Len(w) : w[n] = t[n]
    <3>1. \A n \in 1..Len(o) : o[n] = t[n]
      BY DEF Flow
    <3> QED BY <1>1, <2>1, <2>2, <3>1
  <2>4. Len(t) = Len(w) + 0 + Len(i) /\ \A n \in 1..Len(i) : i[n] = t[Len(w) + 0 + n]
    BY <1>1, <2>1, <2>2
  <2>5. Flow(w, i, t, 0, x)
    BY <1>1, <2>1, <2>2, <2>3, <2>4 DEF Flow
  <2> QED BY <1>2, <2>5 DEF w
<1>3. CASE ~(Len(o) < PipeCap)
  BY <1>3 DEF Flow
<1> QED BY <1>2, <1>3

\* The bytes of the program that are executed.
LEMMA EchoCode ==
  ASSUME EchoInv
  PROVE  /\ GetMemory(p1, 0) = 219 /\ GetMemory(p1, 2) = 186 /\ GetMemory(p1, 3) = 194
         /\ GetMemory(p1, 6) = 195 /\ GetMemory(p1, 15) = 211 /\ GetMemory(p1, 17) = 195
         /\ GetMemoryShort(p1, 4) = 15 /\ GetMemoryShort(p1, 7) = 0 /\ GetMemoryShort(p1, 18) = 0
<1> DEFINE prog == <<219, 1, 186, 194, 15, 0, 195, 0, 0, 0, 0, 0, 0, 0, 0, 211, 1, 195, 0, 0>>
<1>1. prog \in Seq(Byte)
  BY InByte
<1>2. Echo[p1] = prog /\ Len(prog) = 20
  BY DEF Echo, For
<1>3. /\ prog[1] = 219 /\ prog[3] = 186 /\ prog[4] = 194 /\ prog[5] = 15 /\ prog[6] = 0
      /\ prog[7] = 195 /\ prog[8] = 0 /\ prog[9] = 0 /\ prog[16] = 211 /\ prog[18] = 195
      /\ prog[19] = 0 /\ prog[20] = 0
  OBVIOUS
<1> HIDE DEF prog
<1>4. mem[P[p1].origin] = Loaded(prog)
  BY <1>2 DEF EchoInv, Alone
<1>5. ASSUME NEW k \in 0..19 PROVE GetMemory(p1, k) = prog[k + 1]
  <2>1. k \in Nat /\ k < 57344 /\ k < Len(prog)
    BY <1>2
  <2> QED BY <1>1, <1>4, <2>1, LoadedReads
<1>6. \A k \in {0, 2, 3, 4, 5, 6, 7, 8, 15, 17, 18, 19} : GetMemory(p1, k) = prog[k + 1]
  BY <1>5
<1>7. /\ GetMemory(p1, 0) = 219 /\ GetMemory(p1, 2) = 186 /\ GetMemory(p1, 3) = 194
      /\ GetMemory(p1, 4) = 15 /\ GetMemory(p1, 5) = 0
      /\ GetMemory(p1, 6) = 195 /\ GetMemory(p1, 7) = 0 /\ GetMemory(p1, 8) = 0
      /\ GetMemory(p1, 15) = 211 /\ GetMemory(p1, 17) = 195
      /\ GetMemory(p1, 18) = 0 /\ GetMemory(p1, 19) = 0
  BY <1>3, <1>6
<1>8. 4 + 1 = 5 /\ 7 + 1 = 8 /\ 18 + 1 = 19
  OBVIOUS
<1> QED BY <1>7, <1>8 DEF GetMemoryShort


\* A program that runs alone is one that runs.
LEMMA AloneRuns == ASSUME TypeOK, Alone PROVE Running(p1) /\ p1 \in Origin
<1>1. P[p1] \in Process /\ P[p1].origin = p1
  BY DEF Alone
<1>2. p1 \in Origin
  BY <1>1 DEF Process
<1> QED BY <1>1, <1>2, CpuAssumption DEF Running

\* It goes on alone as long as only its own record changes.
LEMMA AloneGoes ==
  ASSUME Alone, P'[p1] \in Process, P'[p1].origin = P[p1].origin,
         \A o \in Proc : o # p1 => P'[o] = P[o]
  PROVE  Alone'
  BY DEF Alone

\* What the program does is kept by a key.
LEMMA EchoKey ==
  ASSUME TypeOK, EchoInv, NEW o \in Origin, NEW b \in Keys, Origin = {p1}, 0 \notin Keys, Key(o, b)
  PROVE  EchoInv'
<1>1. o = p1 /\ b \in Byte /\ b # 0
  BY CpuAssumption
<1>2. /\ in[p1] \in Seq(Byte) /\ out[p1] \in Seq(Byte) /\ typed[p1] \in Seq(Byte)
      /\ in \in [Origin -> Seq(Byte)] /\ typed \in [Origin -> Seq(Byte)]
  BY DEF TypeOK
<1>3. /\ in'[p1] = Append(in[p1], b) /\ typed'[p1] = Append(typed[p1], b)
      /\ UNCHANGED <<P, mem, out>>
  BY <1>1, <1>2 DEF Key
<1>4. \A n \in 1..Len(Append(in[p1], b)) : Append(in[p1], b)[n] # 0
  <2>1. \A n \in 1..Len(in[p1]) : in[p1][n] # 0
    BY DEF EchoInv
  <2> DEFINE j == in[p1]
  <2>2. j \in Seq(Byte) /\ \A n \in 1..Len(j) : j[n] # 0
    BY <1>2, <2>1
  <2> HIDE DEF j
  <2>3. \A n \in 1..Len(Append(j, b)) : Append(j, b)[n] # 0
    BY <1>1, <2>2
  <2> QED BY <2>3 DEF j
<1>5. Held \in {0, 1} /\ Held' = Held
  BY <1>3 DEF Held
<1>6. Flow(out[p1], in[p1], typed[p1], Held, P[p1].r[R_A])
  BY DEF EchoInv
<1>7. Flow(out[p1], Append(in[p1], b), Append(typed[p1], b), Held, P[p1].r[R_A])
  BY <1>1, <1>2, <1>5, <1>6, FlowKey
<1>8. Flow(out'[p1], in'[p1], typed'[p1], Held', P'[p1].r[R_A])
  BY <1>3, <1>5, <1>7
<1>9. /\ Alone' /\ mem'[p1] = Loaded(Echo[p1])
      /\ P'[p1].pc \in {0, 2, 3, 6, 15, 17} /\ P'[p1].r[2] = 0
      /\ P'[p1].pc = 3 => (F_Z \in P'[p1].F <=> P'[p1].r[R_A] = 0)
  BY <1>3 DEF EchoInv, Alone
<1>10. \A n \in 1..Len(in'[p1]) : in'[p1][n] # 0
  BY <1>3, <1>4
<1> QED BY <1>8, <1>9, <1>10 DEF EchoInv

\* A byte loaded from a FIFO, field by field.
LEMMA LoadFields ==
  ASSUME NEW p, Running(p), NEW b \in Byte, Load(p, b)
  PROVE  /\ P'[p] \in Process /\ \A o \in Proc : o # p => P'[o] = P[o]
         /\ P'[p].pc = (P[p].pc + 2) % 65536 /\ P'[p].F = P[p].F /\ P'[p].sp = P[p].sp
         /\ P'[p].r[R_A] = b /\ \A i \in 0..6 : P'[p].r[i] = P[p].r[i]
         /\ P'[p].state = P[p].state /\ P'[p].origin = P[p].origin
<1> DEFINE q == [P[p] EXCEPT !.r[R_A] = b]
<1>1. /\ q \in Process /\ q.pc = P[p].pc /\ q.F = P[p].F /\ q.sp = P[p].sp
      /\ q.state = P[p].state /\ q.origin = P[p].origin
      /\ q.r[R_A] = b /\ \A i \in 0..6 : q.r[i] = P[p].r[i]
  BY DEF Running, Process, R_A
<1>2. P' = [P EXCEPT ![p] = Further(q, 2)]
  BY DEF Load, Running, TypeOK
<1>3. P'[p] = Further(q, 2) /\ \A o \in Proc : o # p => P'[o] = P[o]
  BY <1>2 DEF Running, TypeOK
<1> HIDE DEF q
<1>4. Further(q, 2) = [q EXCEPT !.pc = (q.pc + 2) % 65536]
  BY DEF Further
<1>5. /\ Further(q, 2).pc = (q.pc + 2) % 65536 /\ Further(q, 2).sp = q.sp
      /\ Further(q, 2).state = q.state /\ Further(q, 2).origin = q.origin
  BY <1>1, <1>4 DEF Process
<1> QED BY <1>1, <1>3, <1>5, Forward

\* The registers and the FIFOs before and after an instruction of the echo.
LEMMA EchoFifos ==
  ASSUME TypeOK, EchoInv
  PROVE  /\ Running(p1) /\ p1 \in Origin /\ P[p1].origin = p1
         /\ in[p1] \in Seq(Byte) /\ out[p1] \in Seq(Byte) /\ typed[p1] \in Seq(Byte)
         /\ in \in [Origin -> Seq(Byte)] /\ out \in [Origin -> Seq(Byte)]
         /\ \A i \in 0..7 : P[p1].r[i] \in Byte
         /\ Flow(out[p1], in[p1], typed[p1], Held, P[p1].r[R_A])
<1>1. Running(p1) /\ p1 \in Origin /\ P[p1].origin = p1
  BY AloneRuns DEF EchoInv, Alone
<1> QED BY <1>1, Operands DEF TypeOK, EchoInv

\* Every step keeps the types.
LEMMA NextType == ASSUME TypeOK, [Next]_vars PROVE TypeOK'
  BY Steps DEF Did

\* A poll: the accumulator has the next byte typed, or 0 if there is none.
LEMMA EchoInput ==
  ASSUME TypeOK, EchoInv, P[p1].pc = 0, Input(p1)
  PROVE  EchoInv'
<1>1. Flow(out[p1], in[p1], typed[p1], 0, P[p1].r[R_A])
  BY EchoFifos DEF Held
<1>2. UNCHANGED <<mem, out, typed>>
  BY DEF Input
<1>3. PICK b \in Byte : /\ Load(p1, b)
                        /\ \/ in[p1] = <<>> /\ b = 0 /\ UNCHANGED in
                           \/ /\ in[p1] # <<>> /\ b = Head(in[p1]) /\ b # 0
                              /\ in' = [in EXCEPT ![p1] = Tail(@)]
  <2>1. \/ in[p1] = <<>> /\ Load(p1, 0) /\ UNCHANGED in
        \/ in[p1] # <<>> /\ Load(p1, Head(in[p1])) /\ in' = [in EXCEPT ![p1] = Tail(@)]
    BY EchoFifos DEF Input
  <2>2. 0 \in Byte
    BY InByte
  <2>3. in[p1] # <<>> => Head(in[p1]) \in Byte /\ Head(in[p1]) # 0
    <3> DEFINE j == in[p1]
    <3>1. j \in Seq(Byte) /\ \A n \in 1..Len(j) : j[n] # 0
      BY EchoFifos DEF EchoInv
    <3> HIDE DEF j
    <3>2. j # <<>> => Head(j) \in Byte /\ Head(j) # 0
      BY <3>1
    <3> QED BY <3>2 DEF j
  <2> QED BY <2>1, <2>2, <2>3
<1>4. /\ P'[p1] \in Process /\ \A o \in Proc : o # p1 => P'[o] = P[o]
      /\ P'[p1].pc = 2 /\ P'[p1].r[R_A] = b /\ P'[p1].r[2] = P[p1].r[2]
      /\ P'[p1].origin = P[p1].origin
  <2>1. (0 + 2) % 65536 = 2
    OBVIOUS
  <2> QED BY <1>3, <2>1, EchoFifos, LoadFields
<1>5. Alone'
  BY <1>4, AloneGoes DEF EchoInv
<1>6. CASE b = 0
  <2>1. in' = in
    BY <1>3, <1>6
  <2>2. Held' = 0
    BY <1>4, <1>6 DEF Held
  <2>3. Flow(out'[p1], in'[p1], typed'[p1], Held', P'[p1].r[R_A])
    <3>1. Flow(out[p1], in[p1], typed[p1], 0, P'[p1].r[R_A])
      BY <1>1, FlowIdle
    <3> QED BY <1>2, <2>1, <2>2, <3>1
  <2> QED BY <1>2, <1>4, <1>5, <2>1, <2>3 DEF EchoInv
<1>7. CASE b # 0
  <2>1. in[p1] # <<>> /\ b = Head(in[p1]) /\ in'[p1] = Tail(in[p1])
    BY <1>3, <1>7, EchoFifos
  <2>2. Held' = 1
    BY <1>4, <1>7 DEF Held
  <2>3. Flow(out[p1], Tail(in[p1]), typed[p1], 1, Head(in[p1]))
    BY <1>1, <2>1, EchoFifos, FlowTake
  <2>4. Flow(out'[p1], in'[p1], typed'[p1], Held', P'[p1].r[R_A])
    BY <1>2, <1>4, <2>1, <2>2, <2>3
  <2>5. \A n \in 1..Len(in'[p1]) : in'[p1][n] # 0
    <3> DEFINE j == in[p1]
    <3>1. j \in Seq(Byte) /\ j # <<>> /\ \A n \in 1..Len(j) : j[n] # 0
      BY <2>1, EchoFifos DEF EchoInv
    <3> HIDE DEF j
    <3>2. Len(Tail(j)) = Len(j) - 1 /\ \A n \in 1..Len(Tail(j)) : Tail(j)[n] = j[n + 1]
      BY <3>1
    <3>3. \A n \in 1..Len(Tail(j)) : n + 1 \in 1..Len(j)
      BY <3>1, <3>2
    <3>4. \A n \in 1..Len(Tail(j)) : Tail(j)[n] # 0
      BY <3>1, <3>2, <3>3
    <3> QED BY <2>1, <3>4 DEF j
  <2> QED BY <1>2, <1>4, <1>5, <2>4, <2>5 DEF EchoInv
<1> QED BY <1>6, <1>7

\* The poll is compared with D, which is 0.
LEMMA EchoCompare ==
  ASSUME TypeOK, EchoInv, P[p1].pc = 2, CMP(p1)
  PROVE  EchoInv'
<1>1. Opcode(p1) = 186
  BY EchoCode DEF Opcode
<1>2. Src(p1) = 2
  BY <1>1 DEF Src
<1>3. Value(p1, Src(p1)) = 0
  BY <1>2 DEF Value, EchoInv
<1>4. PICK G \in SUBSET {F_C} :
        Become(p1, [P[p1] EXCEPT !.F = (@ \ {F_Z, F_C}) \cup When(A(p1) = 0, F_Z) \cup G], 1)
  BY ZenonT(30), <1>3 DEF CMP, Compare, When
<1> DEFINE q == [P[p1] EXCEPT !.F = (@ \ {F_Z, F_C}) \cup When(A(p1) = 0, F_Z) \cup G]
<1>5. /\ q \in Process /\ q.pc = 2 /\ q.r = P[p1].r /\ q.origin = P[p1].origin
      /\ q.F = (P[p1].F \ {F_Z, F_C}) \cup When(A(p1) = 0, F_Z) \cup G
  BY EchoFifos DEF Running, Process, When, F_C, F_Z, Mask
<1>6. F_Z \in q.F <=> A(p1) = 0
  BY <1>5 DEF When, F_C, F_Z
<1>7. Become(p1, q, 1)
  BY <1>4
<1> HIDE DEF q
<1>8. (2 + 1) % 65536 = 3
  OBVIOUS
<1>9. /\ P'[p1] \in Process /\ \A o \in Proc : o # p1 => P'[o] = P[o]
      /\ P'[p1].pc = 3 /\ P'[p1].r = P[p1].r /\ P'[p1].F = q.F
      /\ P'[p1].origin = P[p1].origin /\ UNCHANGED <<mem, in, out, up, typed>>
  <2>1. 1 \in 0..3 /\ Running(p1) /\ P[p1].origin = q.origin
    BY <1>5, EchoFifos
  <2> QED BY <1>5, <1>7, <1>8, <2>1, BecomeFields
<1>10. Alone'
  BY <1>9, AloneGoes DEF EchoInv
<1>11. Held' = Held
  BY <1>9 DEF Held
<1>12. Flow(out'[p1], in'[p1], typed'[p1], Held', P'[p1].r[R_A])
  BY <1>9, <1>11, EchoFifos
<1> QED BY <1>6, <1>9, <1>10, <1>12 DEF EchoInv, A

\* A byte goes to OUT, and nothing back to the start.
LEMMA EchoBranch ==
  ASSUME TypeOK, EchoInv, P[p1].pc = 3, JumpIf(p1)
  PROVE  EchoInv'
<1>1. Opcode(p1) = 194 /\ Operand(p1) = 15
  <2>1. 3 + 1 = 4
    OBVIOUS
  <2> QED BY <2>1, EchoCode DEF Opcode, Operand
<1>2. Dst(p1) = 0
  BY <1>1 DEF Dst
<1>3. Condition(p1) <=> F_Z \notin P[p1].F
  <2>1. 0 \div 2 + 1 = 1 /\ 0 % 2 # 1 /\ <<F_Z, F_C, F_P, F_S>>[1] = F_Z
    OBVIOUS
  <2> QED BY <1>2, <2>1 DEF Condition
<1>4. Condition(p1) <=> P[p1].r[R_A] # 0
  BY <1>3 DEF EchoInv
<1>5. /\ P'[p1] \in Process /\ \A o \in Proc : o # p1 => P'[o] = P[o]
      /\ P'[p1].pc = (IF P[p1].r[R_A] # 0 THEN 15 ELSE 6) /\ P'[p1].r = P[p1].r
      /\ P'[p1].origin = P[p1].origin /\ UNCHANGED <<mem, in, out, up, typed>>
  <2>1. CASE Condition(p1)
    <3>1. Goto(p1, 15) /\ 15 \in Word
      BY <1>1, <2>1, InWord DEF JumpIf, Skip
    <3> QED BY <1>4, <2>1, <3>1, EchoFifos, GotoFields
  <2>2. CASE ~Condition(p1)
    <3>1. Become(p1, P[p1], 3)
      BY <2>2 DEF JumpIf, Skip
    <3>2. (3 + 3) % 65536 = 6 /\ P[p1] \in Process
      BY EchoFifos DEF Running
    <3>3. 3 \in 0..3 /\ Running(p1) /\ P[p1].pc = 3
      BY EchoFifos
    <3> QED BY <1>4, <2>2, <3>1, <3>2, <3>3, BecomeFields
  <2> QED BY <2>1, <2>2
<1>6. Alone'
  BY <1>5, AloneGoes DEF EchoInv
<1>7. Held' = Held
  BY <1>5 DEF Held
<1>8. Flow(out'[p1], in'[p1], typed'[p1], Held', P'[p1].r[R_A])
  BY <1>5, <1>7, EchoFifos
<1> QED BY <1>5, <1>6, <1>8 DEF EchoInv

\* What was compared is written, unless the FIFO is full.
LEMMA EchoOutput ==
  ASSUME TypeOK, EchoInv, P[p1].pc = 15, Output(p1)
  PROVE  EchoInv'
<1>1. /\ P' = [P EXCEPT ![p1] = Further(@, 2)] /\ UNCHANGED <<mem, in, typed>>
      /\ out'[p1] = IF Len(out[p1]) < PipeCap THEN Append(out[p1], A(p1)) ELSE out[p1]
  BY EchoFifos DEF Output
<1>2. P'[p1] = Further(P[p1], 2) /\ \A o \in Proc : o # p1 => P'[o] = P[o]
  BY <1>1, EchoFifos DEF Running, TypeOK
<1>3. /\ P'[p1] \in Process /\ P'[p1].r = P[p1].r
      /\ P'[p1].pc = 17 /\ P'[p1].origin = P[p1].origin
  <2>1. (15 + 2) % 65536 = 17
    OBVIOUS
  <2>2. Further(P[p1], 2) = [P[p1] EXCEPT !.pc = 17]
    BY <2>1 DEF Further
  <2>3. 17 \in Word
    BY InWord
  <2>4. P[p1] \in Process
    BY EchoFifos DEF Running
  <2>5. /\ [P[p1] EXCEPT !.pc = 17] \in Process /\ [P[p1] EXCEPT !.pc = 17].r = P[p1].r
        /\ [P[p1] EXCEPT !.pc = 17].pc = 17 /\ [P[p1] EXCEPT !.pc = 17].origin = P[p1].origin
    BY <2>3, <2>4 DEF Process
  <2> QED BY <1>2, <2>2, <2>5
<1>4. Alone'
  BY <1>2, <1>3, AloneGoes DEF EchoInv
<1>5. Held = 1 /\ Held' = 0
  BY <1>3 DEF Held
<1>6. A(p1) = P[p1].r[R_A] /\ A(p1) \in Byte
  BY EchoFifos, Operands DEF A
<1>7. Flow(out'[p1], in'[p1], typed'[p1], Held', P'[p1].r[R_A])
  <2>1. /\ out[p1] \in Seq(Byte) /\ in[p1] \in Seq(Byte) /\ typed[p1] \in Seq(Byte)
        /\ Flow(out[p1], in[p1], typed[p1], 1, A(p1))
    BY <1>5, <1>6, EchoFifos
  <2>2. Flow(IF Len(out[p1]) < PipeCap THEN Append(out[p1], A(p1)) ELSE out[p1],
             in[p1], typed[p1], 0, P'[p1].r[R_A])
    BY <1>6, <2>1, FlowPut
  <2> QED BY <1>1, <1>5, <2>2
<1> QED BY <1>1, <1>3, <1>4, <1>7 DEF EchoInv

\* Back to the start.
LEMMA EchoBack ==
  ASSUME TypeOK, EchoInv, P[p1].pc \in {6, 17}, JMP(p1)
  PROVE  EchoInv'
<1>1. Operand(p1) = 0
  <2>1. 6 + 1 = 7 /\ 17 + 1 = 18
    OBVIOUS
  <2> QED BY <2>1, EchoCode DEF Operand
<1>2. Goto(p1, 0) /\ 0 \in Word
  BY <1>1, InWord DEF JMP
<1>3. /\ P'[p1] \in Process /\ \A o \in Proc : o # p1 => P'[o] = P[o]
      /\ P'[p1].pc = 0 /\ P'[p1].r = P[p1].r
      /\ P'[p1].origin = P[p1].origin /\ UNCHANGED <<mem, in, out, up, typed>>
  BY <1>2, EchoFifos, GotoFields
<1>4. Alone'
  BY <1>3, AloneGoes DEF EchoInv
<1>5. Held' = 0 /\ Held = 0
  BY <1>3 DEF Held
<1>6. Flow(out'[p1], in'[p1], typed'[p1], Held', P'[p1].r[R_A])
  <2>1. Flow(out[p1], in[p1], typed[p1], 0, P[p1].r[R_A])
    BY <1>5, EchoFifos
  <2> QED BY <1>3, <1>5, <2>1
<1> QED BY <1>3, <1>4, <1>6 DEF EchoInv

\* Every step of the echo.
LEMMA EchoStep ==
  ASSUME TypeOK, EchoInv, Origin = {p1}, 0 \notin Keys, [Next]_vars
  PROVE  EchoInv'
<1>1. CASE UNCHANGED <<P, mem, in, out, typed>>
  BY <1>1 DEF EchoInv, Alone, Held
<1>2. CASE \E o \in Origin, b \in Keys : Key(o, b)
  BY <1>2, EchoKey
<1>3. CASE Running(p1) /\ (Move(p1) \/ Compute(p1) \/ Control(p1))
  <2>1. P[p1].pc \in {0, 2, 3, 6, 15, 17}
    BY DEF EchoInv
  <2>2. CASE P[p1].pc = 0
    BY <1>3, <2>2, EchoCode, Decoded, EchoInput DEF Opcode
  <2>3. CASE P[p1].pc = 2
    BY <1>3, <2>3, EchoCode, Decoded, EchoCompare DEF Opcode
  <2>4. CASE P[p1].pc = 3
    BY <1>3, <2>4, EchoCode, Decoded, EchoBranch DEF Opcode
  <2>5. CASE P[p1].pc \in {6, 17}
    BY <1>3, <2>5, EchoCode, Decoded, EchoBack DEF Opcode
  <2>6. CASE P[p1].pc = 15
    BY <1>3, <2>6, EchoCode, Decoded, EchoOutput DEF Opcode
  <2> QED BY <2>1, <2>2, <2>3, <2>4, <2>5, <2>6
<1> QED BY <1>1, <1>2, <1>3, AloneSteps DEF EchoInv

\* It starts with nothing typed, nothing held and nothing written.
LEMMA EchoInit ==
  ASSUME Init, Origin = {p1}, mem[p1] = Loaded(Echo[p1])
  PROVE  EchoInv
<1> DEFINE prog == <<219, 1, 186, 194, 15, 0, 195, 0, 0, 0, 0, 0, 0, 0, 0, 211, 1, 195, 0, 0>>
<1>1. prog \in Seq(Byte)
  BY InByte
<1>2. Echo = For(prog) /\ Echo[p1] = prog
  BY DEF Echo, For
<1> HIDE DEF prog
<1>3. DOMAIN mem = {p1} /\ mem = [o \in Origin |-> Loaded(For(prog)[o])]
  <2>1. PICK f \in Programs : mem = [o \in Origin |-> Loaded(f[o])]
    BY DEF Init
  <2> QED BY <1>2, <2>1
<1>4. Alone /\ P[p1] = Created(p1) /\ mem[p1] = Loaded(prog)
  BY <1>1, <1>3, AloneInit
<1>5. in[p1] = <<>> /\ out[p1] = <<>> /\ typed[p1] = <<>>
  BY DEF Init
<1>6. P[p1].pc = 0 /\ P[p1].r[2] = 0
  BY <1>4 DEF Created
<1>7. Held = 0
  BY <1>6 DEF Held
<1>8. Flow(<<>>, <<>>, <<>>, 0, P[p1].r[R_A])
  BY DEF Flow
<1> QED BY <1>2, <1>4, <1>5, <1>6, <1>7, <1>8 DEF EchoInv

(***************************************************************************)
(* Whatever is typed, whenever it comes, and however often the echo polls  *)
(* an empty FIFO or writes to a full one, the terminal is shown what was   *)
(* typed, in order, nothing twice and nothing left out.  No byte is 0: the *)
(* program takes that for an empty FIFO.                                   *)
(***************************************************************************)
THEOREM EchoInOrderAlways ==
  ASSUME Origin = {p1}, 0 \notin Keys
  PROVE  Spec /\ mem[p1] = Loaded(Echo[p1]) => []EchoInOrder
<1>1. Init /\ mem[p1] = Loaded(Echo[p1]) => TypeOK /\ EchoInv
  BY InitType, EchoInit
<1>2. TypeOK /\ EchoInv /\ [Next]_vars => TypeOK' /\ EchoInv'
  BY NextType, EchoStep
<1>3. TypeOK /\ EchoInv => EchoInOrder
  <2>1. SUFFICES ASSUME TypeOK, EchoInv PROVE EchoInOrder
    OBVIOUS
  <2>2. /\ out[p1] \in Seq(Byte) /\ typed[p1] \in Seq(Byte)
        /\ Len(out[p1]) <= Len(typed[p1])
        /\ \A n \in 1..Len(out[p1]) : out[p1][n] = typed[p1][n]
    BY <2>1, EchoFifos DEF Flow
  <2> DEFINE o == out[p1]
             t == typed[p1]
  <2>3. o = SubSeq(t, 1, Len(o))
    <3>1. o \in Seq(Byte) /\ t \in Seq(Byte) /\ Len(o) <= Len(t) /\ \A n \in 1..Len(o) : o[n] = t[n]
      BY <2>2
    <3> HIDE DEF o, t
    <3> QED BY <3>1
  <2> QED BY <2>2, <2>3 DEF EchoInOrder
<1> QED BY <1>1, <1>2, <1>3, PTL DEF Spec
-----------------------------------------------------------------------------
(***************************************************************************)
(* What the instructions of the programs below leave in the registers.     *)
(***************************************************************************)

\* Process p is n bytes further on; memory, the stack pointer and the other
\* processes are as they were.
Onward(p, n) == /\ P'[p] \in Process /\ \A o \in Proc : o # p => P'[o] = P[o]
                /\ P'[p].pc = (P[p].pc + n) % 65536 /\ P'[p].sp = P[p].sp
                /\ P'[p].origin = P[p].origin /\ mem' = mem

\* Register i of p becomes x, the others stay.
Sets(p, i, x) == P'[p].r[i] = x /\ \A j \in 0..7 : j # i => P'[p].r[j] = P[p].r[j]

\* MOV and MVI set one register, and no flag.
LEMMA RegisterSets ==
  ASSUME NEW p, Running(p), NEW i \in 0..7, NEW x \in Byte, NEW n \in 0..3,
         Become(p, [P[p] EXCEPT !.r[i] = x], n)
  PROVE  Onward(p, n) /\ Sets(p, i, x) /\ P'[p].F = P[p].F
<1> DEFINE q == [P[p] EXCEPT !.r[i] = x]
<1>1. /\ q \in Process /\ q.pc = P[p].pc /\ q.F = P[p].F /\ q.sp = P[p].sp
      /\ q.origin = P[p].origin /\ q.r[i] = x /\ \A j \in 0..7 : j # i => q.r[j] = P[p].r[j]
  BY DEF Running, Process
<1>2. Become(p, q, n)
  OBVIOUS
<1> HIDE DEF q
<1>3. /\ P'[p] \in Process /\ \A o \in Proc : o # p => P'[o] = P[o]
      /\ P'[p].pc = (q.pc + n) % 65536 /\ P'[p].r = q.r /\ P'[p].F = q.F /\ P'[p].sp = q.sp
      /\ P'[p].origin = q.origin /\ mem' = mem
  BY <1>1, <1>2, BecomeFields
<1> QED BY <1>1, <1>3 DEF Onward, Sets

\* The byte of an immediate instruction is its second.
LEMMA LowByte ==
  ASSUME NEW p, NEW a, Running(p) PROVE Lo(GetMemoryShort(p, a)) = GetMemory(p, a)
<1> DEFINE x == GetMemory(p, a)
           y == GetMemory(p, a + 1)
<1>1. x \in Byte /\ y \in Byte
  BY MemoryByte
<1>2. GetMemoryShort(p, a) = IF x >= 128 THEN 65280 + x ELSE 256 * y + x
  BY DEF GetMemoryShort
<1> HIDE DEF x, y
<1>3. x >= 128 => (65280 + x) % 256 = x
  BY <1>1, InByte
<1>4. (256 * y + x) % 256 = x
  BY <1>1, InByte
<1>5. Lo(GetMemoryShort(p, a)) = x
  BY <1>2, <1>3, <1>4 DEF Lo
<1> QED BY <1>5 DEF x

\* A word is its two bytes.
LEMMA WholeWord == ASSUME NEW w \in Word PROVE w = 256 * Hi(w) + Lo(w)
  BY InWord DEF Hi, Lo

\* MVI sets a register to its second byte.
LEMMA MviSets ==
  ASSUME NEW p, Running(p), MVI(p), Dst(p) # 6
  PROVE  Onward(p, 3) /\ Sets(p, Dst(p), GetMemory(p, P[p].pc + 1)) /\ P'[p].F = P[p].F
<1> DEFINE x == GetMemory(p, P[p].pc + 1)
<1>1. Lo(Operand(p)) = x
  BY LowByte DEF Operand
<1>2. x \in Byte /\ Dst(p) \in 0..7
  BY MemoryByte, Fetched
<1>3. Become(p, [P[p] EXCEPT !.r[Dst(p)] = x], 3)
  BY <1>1 DEF MVI
<1>4. 3 \in 0..3
  OBVIOUS
<1> HIDE DEF x
<1>5. Onward(p, 3) /\ Sets(p, Dst(p), x) /\ P'[p].F = P[p].F
  BY <1>2, <1>3, <1>4, RegisterSets
<1> QED BY <1>5 DEF x

\* MOV sets a register to another.
LEMMA MovSets ==
  ASSUME NEW p, Running(p), MOV(p), Dst(p) # 6, Src(p) # 6
  PROVE  Onward(p, 1) /\ Sets(p, Dst(p), P[p].r[Src(p)]) /\ P'[p].F = P[p].F
<1>1. Dst(p) \in 0..7 /\ Src(p) \in 0..7 /\ P[p].r[Src(p)] \in Byte
  BY Fetched, Operands
<1>2. Become(p, [P[p] EXCEPT !.r[Dst(p)] = P[p].r[Src(p)]], 1)
  BY DEF MOV, Value
<1>3. 1 \in 0..3
  OBVIOUS
<1> QED BY <1>1, <1>2, <1>3, RegisterSets

\* ADD and ADC of a register: nine bits of the sum.
LEMMA SumSets ==
  ASSUME NEW p, Running(p), NEW x \in 0..256, Arith(p, A(p) + x, CarryAdd(A(p), x), 1)
  PROVE  /\ Onward(p, 1) /\ Sets(p, R_A, (A(p) + x) % 256)
         /\ x < 256 => (F_C \in P'[p].F <=> A(p) + x > 255)
<1> DEFINE a == A(p) + x
           fl == CarryAdd(A(p), x)
           F == (P[p].F \cap {2, 8, 32}) \cup fl \cup ZSP(a % 256)
           q == [P[p] EXCEPT !.r[R_A] = a % 256, !.F = F]
<1>1. A(p) \in Byte /\ a \in Nat /\ a % 256 \in Byte
  BY Operands, InByte
<1>2. F \in SUBSET Mask
  BY ChecksMask, FlagsMask
<1>3. x < 256 => (F_C \in F <=> a > 255)
  <2>1. x < 256 => x % 256 = x
    OBVIOUS
  <2>2. x < 256 => (F_C \in fl <=> a > 255)
    BY <2>1 DEF CarryAdd, When, F_C, F_A
  <2>3. F_C \in F <=> F_C \in fl
    BY ZSPCarry DEF F_C
  <2> QED BY <2>2, <2>3
<1>4. Become(p, q, 1)
  BY DEF Arith
<1> DEFINE y == a % 256
<1> HIDE DEF y, F, fl
<1>5. /\ q \in Process /\ q.pc = P[p].pc /\ q.F = F /\ q.sp = P[p].sp /\ q.origin = P[p].origin
      /\ q.r[R_A] = y /\ \A j \in 0..7 : j # R_A => q.r[j] = P[p].r[j]
  <2>1. y \in Byte
    BY <1>1 DEF y
  <2> DEFINE s == [P[p] EXCEPT !.r[R_A] = y]
  <2>2. /\ s \in Process /\ s.pc = P[p].pc /\ s.sp = P[p].sp /\ s.origin = P[p].origin
        /\ s.r[R_A] = y /\ \A j \in 0..7 : j # R_A => s.r[j] = P[p].r[j]
    BY <2>1 DEF Running, Process, R_A
  <2>3. q = [s EXCEPT !.F = F]
    BY DEF y, Running, Process
  <2> HIDE DEF s, q
  <2> QED BY <1>2, <2>2, <2>3 DEF Process
<1> HIDE DEF q, a
<1>6. /\ P'[p] \in Process /\ \A o \in Proc : o # p => P'[o] = P[o]
      /\ P'[p].pc = (q.pc + 1) % 65536 /\ P'[p].r = q.r /\ P'[p].F = q.F /\ P'[p].sp = q.sp
      /\ P'[p].origin = q.origin /\ mem' = mem
  <2>1. 1 \in 0..3
    OBVIOUS
  <2> QED BY <1>4, <1>5, <2>1, BecomeFields
<1>7. Onward(p, 1) /\ Sets(p, R_A, y)
  BY <1>5, <1>6 DEF Onward, Sets
<1>8. y = (A(p) + x) % 256 /\ a = A(p) + x
  BY DEF y, a
<1> QED BY <1>3, <1>5, <1>6, <1>7, <1>8

\* DAD B adds BC to HL.
LEMMA DadSets ==
  ASSUME NEW p, Running(p), DAD(p), RP(p) = 0
  PROVE  /\ Onward(p, 1) /\ \A i \in 0..3 : P'[p].r[i] = P[p].r[i]
         /\ 256 * P'[p].r[R_H] + P'[p].r[R_L] = (Pair(P[p], 0) + HL(p)) % 65536
<1> DEFINE w == (Pair(P[p], 0) + HL(p)) % 65536
<1>1. w \in Word
  <2>1. Pair(P[p], 0) \in Word /\ HL(p) \in Word
    BY PairWord, Operands DEF Running
  <2> QED BY <2>1, InWord
<1>2. PICK G \in SUBSET {F_C} : Become(p, [SetPair(P[p], 2, w) EXCEPT !.F = @ \cup G], 1)
  <2> DEFINE x == Pair(P[p], RP(p))
             y == HL(p)
             negative == (IF RP(p) # 3 /\ x >= 32768 THEN 1 ELSE 0)
                           + (IF y >= 32768 THEN 1 ELSE 0)
             over == \/ negative = 0 /\ x + y > 65535
                     \/ negative = 1 /\ x + y < 65536
                     \/ negative = 2
             Comes(v, G) == Become(p, [SetPair(P[p], 2, v) EXCEPT !.F = @ \cup G], 1)
  <2>1. Comes((x + y) % 65536, When(over, F_C))
    BY DEF DAD
  <2>2. (x + y) % 65536 = w
    OBVIOUS
  <2>3. When(over, F_C) \in SUBSET {F_C}
    BY DEF When
  <2> HIDE DEF over, x, y, w, Comes
  <2>4. Comes(w, When(over, F_C))
    BY <2>1, <2>2
  <2>5. \E G \in SUBSET {F_C} : Comes(w, G)
    BY <2>3, <2>4
  <2> QED BY <2>5 DEF Comes
<1> DEFINE s == SetPair(P[p], 2, w)
           q == [s EXCEPT !.F = @ \cup G]
<1>3. /\ s \in Process /\ s.pc = P[p].pc /\ s.sp = P[p].sp /\ s.origin = P[p].origin
      /\ s.r[4] = Hi(w) /\ s.r[5] = Lo(w) /\ \A i \in 0..3 : s.r[i] = P[p].r[i]
  <2>1. Hi(w) \in Byte /\ Lo(w) \in Byte
    BY <1>1, Halves
  <2>2. s = [P[p] EXCEPT !.r[4] = Hi(w), !.r[5] = Lo(w)]
    BY DEF SetPair
  <2> DEFINE v == [P[p] EXCEPT !.r[4] = Hi(w)]
  <2>3. /\ v \in Process /\ v.pc = P[p].pc /\ v.sp = P[p].sp /\ v.origin = P[p].origin
        /\ v.r[4] = Hi(w) /\ \A i \in 0..3 : v.r[i] = P[p].r[i]
    BY <2>1 DEF Running, Process
  <2>4. s = [v EXCEPT !.r[5] = Lo(w)]
    BY <2>2 DEF Running, Process
  <2> HIDE DEF s, v, w
  <2> QED BY <2>1, <2>3, <2>4 DEF Process
<1>4. Become(p, q, 1)
  BY <1>2
<1> HIDE DEF s, w
<1>5. /\ q \in Process /\ q.pc = s.pc /\ q.sp = s.sp /\ q.origin = s.origin /\ q.r = s.r
  BY <1>3 DEF Process, F_C, Mask
<1> HIDE DEF q
<1>6. /\ P'[p] \in Process /\ \A o \in Proc : o # p => P'[o] = P[o]
      /\ P'[p].pc = (q.pc + 1) % 65536 /\ P'[p].r = q.r /\ P'[p].sp = q.sp
      /\ P'[p].origin = q.origin /\ mem' = mem
  <2>1. 1 \in 0..3
    OBVIOUS
  <2> QED BY <1>4, <1>5, <2>1, BecomeFields
<1>7. 256 * Hi(w) + Lo(w) = w
  BY <1>1, InWord DEF Hi, Lo
<1> QED BY <1>3, <1>5, <1>6, <1>7 DEF Onward, w, R_H, R_L

\* HLT changes nothing but the state.
LEMMA HltSets ==
  ASSUME NEW p, Running(p), HLT(p) PROVE Onward(p, 0) /\ P'[p].r = P[p].r
<1> DEFINE q == [P[p] EXCEPT !.state = "halted"]
<1>1. /\ q \in Process /\ q.pc = P[p].pc /\ q.sp = P[p].sp /\ q.origin = P[p].origin
      /\ q.r = P[p].r
  BY DEF Running, Process
<1>2. Become(p, q, 0) /\ 0 \in 0..3
  BY DEF HLT
<1> HIDE DEF q
<1>3. /\ P'[p] \in Process /\ \A o \in Proc : o # p => P'[o] = P[o]
      /\ P'[p].pc = (q.pc + 0) % 65536 /\ P'[p].r = q.r /\ P'[p].sp = q.sp
      /\ P'[p].origin = q.origin /\ mem' = mem
  BY <1>1, <1>2, BecomeFields
<1> QED BY <1>1, <1>3 DEF Onward

\* A step that is not an instruction of a program that runs alone leaves its
\* record and its memory as they are.
LEMMA AloneWaits ==
  ASSUME TypeOK, Alone, [Next]_vars
  PROVE  \/ Running(p1) /\ (Move(p1) \/ Compute(p1) \/ Control(p1))
         \/ UNCHANGED <<P, mem>>
  BY AloneSteps DEF Key
-----------------------------------------------------------------------------
(***************************************************************************)
(* The sum of two words.                                                   *)
(***************************************************************************)
AdderIs(prog, h, l) ==
  /\ prog \in Seq(Byte) /\ Len(prog) = 20
  /\ prog[1] = 38 /\ prog[2] = Hi(h) /\ prog[4] = 46 /\ prog[5] = Lo(h)
  /\ prog[7] = 6 /\ prog[8] = Hi(l) /\ prog[10] = 14 /\ prog[11] = Lo(l)
  /\ prog[13] = 125 /\ prog[14] = 129 /\ prog[15] = 95 /\ prog[16] = 124
  /\ prog[17] = 136 /\ prog[18] = 87 /\ prog[19] = 9 /\ prog[20] = 118

\* The bytes of the program.
LEMMA AdderBytes ==
  ASSUME NEW h \in Word, NEW l \in Word
  PROVE  AdderIs(Adder(h, l)[p1], h, l) /\ Adder(h, l) = For(Adder(h, l)[p1])
<1>1. Hi(h) \in Byte /\ Lo(h) \in Byte /\ Hi(l) \in Byte /\ Lo(l) \in Byte
  BY Halves
<1> DEFINE a == Hi(h)
           b == Lo(h)
           c == Hi(l)
           d == Lo(l)
           prog == <<38, a, 0, 46, b, 0, 6, c, 0, 14, d, 0, 125, 129, 95, 124, 136, 87, 9, 118>>
<1>2. Adder(h, l) = For(prog) /\ Adder(h, l)[p1] = prog
  BY DEF Adder, For
<1>3. \A n \in {0, 6, 9, 14, 38, 46, 87, 95, 118, 124, 125, 129, 136} : n \in Byte
  BY InByte
<1> HIDE DEF a, b, c, d
<1>4. /\ prog \in Seq(Byte) /\ Len(prog) = 20
      /\ prog[1] = 38 /\ prog[2] = a /\ prog[4] = 46 /\ prog[5] = b
      /\ prog[7] = 6 /\ prog[8] = c /\ prog[10] = 14 /\ prog[11] = d
      /\ prog[13] = 125 /\ prog[14] = 129 /\ prog[15] = 95 /\ prog[16] = 124
      /\ prog[17] = 136 /\ prog[18] = 87 /\ prog[19] = 9 /\ prog[20] = 118
  <2>1. a \in Byte /\ b \in Byte /\ c \in Byte /\ d \in Byte
    BY <1>1 DEF a, b, c, d
  <2> QED BY <1>3, <2>1
<1> HIDE DEF prog
<1>5. AdderIs(prog, h, l)
  BY <1>4 DEF AdderIs, a, b, c, d
<1> QED BY <1>2, <1>5

\* The sums of the low and of the high bytes.
LowSum(h, l)  == Lo(h) + Lo(l)
HighSum(h, l) == Hi(h) + Hi(l) + (IF LowSum(h, l) > 255 THEN 1 ELSE 0)

\* What registers r and flags F hold when the next instruction is at pc.
AdderHolds(h, l, pc, r, F) ==
  /\ pc \in 3..18 => r[R_H] = Hi(h)
  /\ pc \in 6..18 => r[R_L] = Lo(h)
  /\ pc \in 9..18 => r[0] = Hi(l)
  /\ pc \in 12..18 => r[1] = Lo(l)
  /\ pc = 13 => r[R_A] = Lo(h)
  /\ pc \in 14..16 => (F_C \in F <=> LowSum(h, l) > 255)
  /\ pc = 14 => r[R_A] = LowSum(h, l) % 256
  /\ pc \in 15..19 => r[3] = LowSum(h, l) % 256
  /\ pc = 16 => r[R_A] = Hi(h)
  /\ pc = 17 => r[R_A] = HighSum(h, l) % 256
  /\ pc \in 18..19 => r[2] = HighSum(h, l) % 256
  /\ pc = 19 => 256 * r[R_H] + r[R_L] = (h + l) % 65536

AdderAt == {0, 3, 6, 9, 12, 13, 14, 15, 16, 17, 18, 19}

AdderInv(h, l) ==
  /\ Alone /\ mem[p1] = Loaded(Adder(h, l)[p1]) /\ P[p1].pc \in AdderAt
  /\ AdderHolds(h, l, P[p1].pc, P[p1].r, P[p1].F)

\* The opcodes, and the bytes that are loaded.
LEMMA AdderCode ==
  ASSUME NEW h \in Word, NEW l \in Word, AdderInv(h, l)
  PROVE  /\ GetMemory(p1, 0) = 38 /\ GetMemory(p1, 1) = Hi(h)
         /\ GetMemory(p1, 3) = 46 /\ GetMemory(p1, 4) = Lo(h)
         /\ GetMemory(p1, 6) = 6 /\ GetMemory(p1, 7) = Hi(l)
         /\ GetMemory(p1, 9) = 14 /\ GetMemory(p1, 10) = Lo(l)
         /\ GetMemory(p1, 12) = 125 /\ GetMemory(p1, 13) = 129 /\ GetMemory(p1, 14) = 95
         /\ GetMemory(p1, 15) = 124 /\ GetMemory(p1, 16) = 136 /\ GetMemory(p1, 17) = 87
         /\ GetMemory(p1, 18) = 9 /\ GetMemory(p1, 19) = 118
<1>1. PICK prog : prog = Adder(h, l)[p1] /\ AdderIs(prog, h, l)
  BY AdderBytes
<1>2. mem[P[p1].origin] = Loaded(prog)
  BY <1>1 DEF AdderInv, Alone
<1>3. prog \in Seq(Byte)
  BY <1>1 DEF AdderIs
<1>4. ASSUME NEW k \in 0..19 PROVE GetMemory(p1, k) = prog[k + 1]
  <2>1. k \in Nat /\ k < 57344
    OBVIOUS
  <2>2. GetMemory(p1, k) = IF k < Len(prog) THEN prog[k + 1] ELSE 0
    BY <1>2, <1>3, <2>1, LoadedReads
  <2>3. Len(prog) = 20
    BY <1>1 DEF AdderIs
  <2> QED BY <2>2, <2>3
<1>5. \A k \in {0, 1, 3, 4, 6, 7, 9, 10, 12, 13, 14, 15, 16, 17, 18, 19} :
        GetMemory(p1, k) = prog[k + 1]
  BY <1>4
<1> QED BY <1>1, <1>5 DEF AdderIs

\* The program goes on by one instruction.
LEMMA AdderOn ==
  ASSUME NEW h \in Word, NEW l \in Word, AdderInv(h, l), NEW n, NEW k \in AdderAt,
         Onward(p1, n), (P[p1].pc + n) % 65536 = k, AdderHolds(h, l, k, P'[p1].r, P'[p1].F)
  PROVE  AdderInv(h, l)'
<1>1. P'[p1].pc = k /\ mem' = mem
  BY DEF Onward
<1>2. Alone'
  BY AloneGoes DEF Onward, AdderInv
<1>3. AdderHolds(h, l, P'[p1].pc, P'[p1].r, P'[p1].F)
  BY <1>1
<1> QED BY <1>1, <1>2, <1>3 DEF AdderInv

\* The four loads.
LEMMA AdderLoads ==
  ASSUME NEW h \in Word, NEW l \in Word, AdderInv(h, l), Running(p1), MVI(p1),
         P[p1].pc \in {0, 3, 6, 9}
  PROVE  AdderInv(h, l)'
<1> DEFINE pc == P[p1].pc
           r == P[p1].r
           s == P'[p1].r
           F == P'[p1].F
<1>1. AdderHolds(h, l, pc, r, P[p1].F)
  BY DEF AdderInv
<1>2. Dst(p1) # 6 => /\ Onward(p1, 3) /\ s[Dst(p1)] = GetMemory(p1, pc + 1)
                     /\ \A j \in 0..7 : j # Dst(p1) => s[j] = r[j]
  BY MviSets DEF Sets
<1>3. Opcode(p1) = GetMemory(p1, pc)
  BY DEF Opcode
<1>4. CASE pc = 0
  <2>1. Opcode(p1) = 38 /\ GetMemory(p1, pc + 1) = Hi(h)
    BY <1>3, <1>4, AdderCode
  <2>2. Dst(p1) = 4
    BY <2>1 DEF Dst
  <2>3. Onward(p1, 3) /\ s[4] = Hi(h)
    BY <1>2, <2>1, <2>2
  <2> HIDE DEF s, F
  <2>4. AdderHolds(h, l, 3, s, F)
    BY <2>3 DEF AdderHolds, R_H
  <2>5. (P[p1].pc + 3) % 65536 = 3 /\ 3 \in AdderAt
    BY <1>4 DEF AdderAt
  <2> QED BY <2>3, <2>4, <2>5, AdderOn DEF s, F
<1>5. CASE pc = 3
  <2>1. Opcode(p1) = 46 /\ GetMemory(p1, pc + 1) = Lo(h)
    BY <1>3, <1>5, AdderCode
  <2>2. Dst(p1) = 5
    BY <2>1 DEF Dst
  <2>3. Onward(p1, 3) /\ s[5] = Lo(h) /\ s[4] = r[4]
    BY <1>2, <2>1, <2>2
  <2> HIDE DEF s, F
  <2>4. AdderHolds(h, l, 6, s, F)
    BY <1>1, <1>5, <2>3 DEF AdderHolds, R_H, R_L
  <2>5. (P[p1].pc + 3) % 65536 = 6 /\ 6 \in AdderAt
    BY <1>5 DEF AdderAt
  <2> QED BY <2>3, <2>4, <2>5, AdderOn DEF s, F
<1>6. CASE pc = 6
  <2>1. Opcode(p1) = 6 /\ GetMemory(p1, pc + 1) = Hi(l)
    BY <1>3, <1>6, AdderCode
  <2>2. Dst(p1) = 0
    BY <2>1 DEF Dst
  <2>3. Onward(p1, 3) /\ s[0] = Hi(l) /\ s[4] = r[4] /\ s[5] = r[5]
    BY <1>2, <2>1, <2>2
  <2> HIDE DEF s, F
  <2>4. AdderHolds(h, l, 9, s, F)
    BY <1>1, <1>6, <2>3 DEF AdderHolds, R_H, R_L
  <2>5. (P[p1].pc + 3) % 65536 = 9 /\ 9 \in AdderAt
    BY <1>6 DEF AdderAt
  <2> QED BY <2>3, <2>4, <2>5, AdderOn DEF s, F
<1>7. CASE pc = 9
  <2>1. Opcode(p1) = 14 /\ GetMemory(p1, pc + 1) = Lo(l)
    BY <1>3, <1>7, AdderCode
  <2>2. Dst(p1) = 1
    BY <2>1 DEF Dst
  <2>3. Onward(p1, 3) /\ s[1] = Lo(l) /\ s[0] = r[0] /\ s[4] = r[4] /\ s[5] = r[5]
    BY <1>2, <2>1, <2>2
  <2> HIDE DEF s, F
  <2>4. AdderHolds(h, l, 12, s, F)
    BY <1>1, <1>7, <2>3 DEF AdderHolds, R_H, R_L
  <2>5. (P[p1].pc + 3) % 65536 = 12 /\ 12 \in AdderAt
    BY <1>7 DEF AdderAt
  <2> QED BY <2>3, <2>4, <2>5, AdderOn DEF s, F
<1> QED BY <1>4, <1>5, <1>6, <1>7

\* The moves between the additions keep the carry.
LEMMA AdderMoves ==
  ASSUME NEW h \in Word, NEW l \in Word, AdderInv(h, l), Running(p1), MOV(p1),
         P[p1].pc \in {12, 14, 15, 17}
  PROVE  AdderInv(h, l)'
<1> DEFINE pc == P[p1].pc
           r == P[p1].r
           s == P'[p1].r
           F == P'[p1].F
<1>1. AdderHolds(h, l, pc, r, P[p1].F)
  BY DEF AdderInv
<1>2. Dst(p1) # 6 /\ Src(p1) # 6 => /\ Onward(p1, 1) /\ s[Dst(p1)] = r[Src(p1)]
                                    /\ \A j \in 0..7 : j # Dst(p1) => s[j] = r[j]
                                    /\ F = P[p1].F
  BY MovSets DEF Sets
<1>3. Opcode(p1) = GetMemory(p1, pc)
  BY DEF Opcode
<1>4. CASE pc = 12
  <2>1. Opcode(p1) = 125
    BY <1>3, <1>4, AdderCode
  <2>2. Dst(p1) = 7 /\ Src(p1) = 5
    BY <2>1 DEF Dst, Src
  <2>3. Onward(p1, 1) /\ s[7] = r[5] /\ s[0] = r[0] /\ s[1] = r[1] /\ s[4] = r[4] /\ s[5] = r[5]
    BY <1>2, <2>2
  <2> HIDE DEF s, F
  <2>4. AdderHolds(h, l, 13, s, F)
    BY <1>1, <1>4, <2>3 DEF AdderHolds, R_H, R_L, R_A
  <2>5. (P[p1].pc + 1) % 65536 = 13 /\ 13 \in AdderAt
    BY <1>4 DEF AdderAt
  <2> QED BY <2>3, <2>4, <2>5, AdderOn DEF s, F
<1>5. CASE pc = 14
  <2>1. Opcode(p1) = 95
    BY <1>3, <1>5, AdderCode
  <2>2. Dst(p1) = 3 /\ Src(p1) = 7
    BY <2>1 DEF Dst, Src
  <2>3. /\ Onward(p1, 1) /\ s[3] = r[7] /\ F = P[p1].F
        /\ s[0] = r[0] /\ s[1] = r[1] /\ s[4] = r[4] /\ s[5] = r[5]
    BY <1>2, <2>2
  <2> HIDE DEF s, F
  <2>4. AdderHolds(h, l, 15, s, F)
    BY <1>1, <1>5, <2>3 DEF AdderHolds, R_H, R_L, R_A
  <2>5. (P[p1].pc + 1) % 65536 = 15 /\ 15 \in AdderAt
    BY <1>5 DEF AdderAt
  <2> QED BY <2>3, <2>4, <2>5, AdderOn DEF s, F
<1>6. CASE pc = 15
  <2>1. Opcode(p1) = 124
    BY <1>3, <1>6, AdderCode
  <2>2. Dst(p1) = 7 /\ Src(p1) = 4
    BY <2>1 DEF Dst, Src
  <2>3. /\ Onward(p1, 1) /\ s[7] = r[4] /\ F = P[p1].F
        /\ s[0] = r[0] /\ s[1] = r[1] /\ s[3] = r[3] /\ s[4] = r[4] /\ s[5] = r[5]
    BY <1>2, <2>2
  <2> HIDE DEF s, F
  <2>4. AdderHolds(h, l, 16, s, F)
    BY <1>1, <1>6, <2>3 DEF AdderHolds, R_H, R_L, R_A
  <2>5. (P[p1].pc + 1) % 65536 = 16 /\ 16 \in AdderAt
    BY <1>6 DEF AdderAt
  <2> QED BY <2>3, <2>4, <2>5, AdderOn DEF s, F
<1>7. CASE pc = 17
  <2>1. Opcode(p1) = 87
    BY <1>3, <1>7, AdderCode
  <2>2. Dst(p1) = 2 /\ Src(p1) = 7
    BY <2>1 DEF Dst, Src
  <2>3. /\ Onward(p1, 1) /\ s[2] = r[7]
        /\ s[0] = r[0] /\ s[1] = r[1] /\ s[3] = r[3] /\ s[4] = r[4] /\ s[5] = r[5]
    BY <1>2, <2>2
  <2> HIDE DEF s, F
  <2>4. AdderHolds(h, l, 18, s, F)
    BY <1>1, <1>7, <2>3 DEF AdderHolds, R_H, R_L, R_A
  <2>5. (P[p1].pc + 1) % 65536 = 18 /\ 18 \in AdderAt
    BY <1>7 DEF AdderAt
  <2> QED BY <2>3, <2>4, <2>5, AdderOn DEF s, F
<1> QED BY <1>4, <1>5, <1>6, <1>7

\* The sum of the low bytes.
LEMMA AdderADD ==
  ASSUME NEW h \in Word, NEW l \in Word, AdderInv(h, l), Running(p1), ADD(p1), P[p1].pc = 13
  PROVE  AdderInv(h, l)'
<1> DEFINE r == P[p1].r
           s == P'[p1].r
           F == P'[p1].F
<1>1. AdderHolds(h, l, 13, r, P[p1].F)
  BY DEF AdderInv
<1>2. Opcode(p1) = 129
  BY AdderCode DEF Opcode
<1>3. Src(p1) = 1
  BY <1>2 DEF Src
<1>4. r[7] = Lo(h) /\ r[1] = Lo(l) /\ r[0] = Hi(l) /\ r[4] = Hi(h) /\ r[5] = Lo(h)
  BY <1>1 DEF AdderHolds, R_H, R_L, R_A
<1>5. A(p1) = Lo(h) /\ Value(p1, Src(p1)) = Lo(l)
  BY <1>3, <1>4 DEF A, Value, R_A
<1>6. Lo(l) \in 0..256 /\ Lo(l) < 256
  BY Halves, InByte
<1>7. /\ Onward(p1, 1) /\ Sets(p1, R_A, LowSum(h, l) % 256)
      /\ F_C \in F <=> LowSum(h, l) > 255
  BY <1>5, <1>6, SumSets DEF ADD, LowSum
<1>8. s[7] = LowSum(h, l) % 256 /\ s[0] = r[0] /\ s[1] = r[1] /\ s[4] = r[4] /\ s[5] = r[5]
  BY <1>7 DEF Sets, R_A
<1>9. F_C \in F <=> LowSum(h, l) > 255
  BY <1>7
<1> HIDE DEF r, s, F
<1>10. AdderHolds(h, l, 14, s, F)
  BY <1>4, <1>8, <1>9 DEF AdderHolds, R_H, R_L, R_A
<1>11. (P[p1].pc + 1) % 65536 = 14 /\ 14 \in AdderAt
  BY DEF AdderAt
<1> QED BY <1>7, <1>10, <1>11, AdderOn DEF s, F

\* The sum of the high bytes and the carry.
LEMMA AdderADC ==
  ASSUME NEW h \in Word, NEW l \in Word, AdderInv(h, l), Running(p1), ADC(p1), P[p1].pc = 16
  PROVE  AdderInv(h, l)'
<1> DEFINE r == P[p1].r
           s == P'[p1].r
           F == P'[p1].F
           c == IF LowSum(h, l) > 255 THEN 1 ELSE 0
<1>1. AdderHolds(h, l, 16, r, P[p1].F)
  BY DEF AdderInv
<1>2. Opcode(p1) = 136
  BY AdderCode DEF Opcode
<1>3. Src(p1) = 0
  BY <1>2 DEF Src
<1>4. /\ r[7] = Hi(h) /\ r[1] = Lo(l) /\ r[0] = Hi(l) /\ r[4] = Hi(h) /\ r[5] = Lo(h)
      /\ r[3] = LowSum(h, l) % 256
  BY <1>1 DEF AdderHolds, R_H, R_L, R_A
<1>5. A(p1) = Hi(h) /\ Value(p1, Src(p1)) = Hi(l)
  BY <1>3, <1>4 DEF A, Value, R_A
<1>6. Carry(p1) = c
  BY <1>1 DEF AdderHolds, Carry
<1>7. Hi(l) + c \in 0..256 /\ Hi(h) \in Nat /\ Hi(l) \in Nat /\ c \in Nat
  <2>1. Hi(l) \in Byte /\ Hi(h) \in Byte /\ c \in {0, 1}
    BY Halves
  <2> HIDE DEF c
  <2> QED BY <2>1, InByte
<1>8. Arith(p1, A(p1) + (Hi(l) + c), CarryAdd(A(p1), Hi(l) + c), 1)
  BY <1>5, <1>6 DEF ADC
<1>9. Onward(p1, 1) /\ Sets(p1, R_A, (A(p1) + (Hi(l) + c)) % 256)
  BY <1>7, <1>8, SumSets
<1>10. A(p1) + (Hi(l) + c) = HighSum(h, l)
  BY <1>5, <1>7 DEF HighSum
<1>11. /\ s[7] = HighSum(h, l) % 256 /\ s[0] = r[0] /\ s[1] = r[1] /\ s[3] = r[3]
       /\ s[4] = r[4] /\ s[5] = r[5]
  BY <1>9, <1>10 DEF Sets, R_A
<1> HIDE DEF r, s, F
<1>12. AdderHolds(h, l, 17, s, F)
  BY <1>4, <1>11 DEF AdderHolds, R_H, R_L, R_A
<1>13. (P[p1].pc + 1) % 65536 = 17 /\ 17 \in AdderAt
  BY DEF AdderAt
<1> QED BY <1>9, <1>12, <1>13, AdderOn DEF s, F

\* The sum by DAD.
LEMMA AdderDAD ==
  ASSUME NEW h \in Word, NEW l \in Word, AdderInv(h, l), Running(p1), DAD(p1), P[p1].pc = 18
  PROVE  AdderInv(h, l)'
<1> DEFINE r == P[p1].r
           s == P'[p1].r
           F == P'[p1].F
<1>1. AdderHolds(h, l, 18, r, P[p1].F)
  BY DEF AdderInv
<1>2. Opcode(p1) = 9
  BY AdderCode DEF Opcode
<1>3. RP(p1) = 0
  BY <1>2 DEF RP
<1>4. /\ r[1] = Lo(l) /\ r[0] = Hi(l) /\ r[4] = Hi(h) /\ r[5] = Lo(h)
      /\ r[3] = LowSum(h, l) % 256 /\ r[2] = HighSum(h, l) % 256
  BY <1>1 DEF AdderHolds, R_H, R_L
<1>5. Pair(P[p1], 0) = l /\ HL(p1) = h
  <2>1. Pair(P[p1], 0) = 256 * r[0] + r[1] /\ HL(p1) = 256 * r[4] + r[5]
    BY DEF Pair, HL
  <2>2. 256 * Hi(l) + Lo(l) = l /\ 256 * Hi(h) + Lo(h) = h
    BY InWord DEF Hi, Lo
  <2> QED BY <1>4, <2>1, <2>2
<1>6. /\ Onward(p1, 1) /\ s[2] = r[2] /\ s[3] = r[3]
      /\ 256 * s[R_H] + s[R_L] = (l + h) % 65536
  BY <1>3, <1>5, DadSets
<1>7. l + h = h + l
  BY InWord
<1> HIDE DEF r, s, F
<1>8. AdderHolds(h, l, 19, s, F)
  BY <1>4, <1>6, <1>7 DEF AdderHolds
<1>9. (P[p1].pc + 1) % 65536 = 19 /\ 19 \in AdderAt
  BY DEF AdderAt
<1> QED BY <1>6, <1>8, <1>9, AdderOn DEF s, F

\* Every step of the program.
LEMMA AdderStep ==
  ASSUME NEW h \in Word, NEW l \in Word, TypeOK, AdderInv(h, l), [Next]_vars
  PROVE  AdderInv(h, l)'
<1>1. CASE UNCHANGED <<P, mem>>
  BY <1>1 DEF AdderInv, Alone
<1>2. CASE Running(p1) /\ (Move(p1) \/ Compute(p1) \/ Control(p1))
  <2>1. P[p1].pc \in AdderAt /\ Opcode(p1) = GetMemory(p1, P[p1].pc)
    BY DEF AdderInv, Opcode
  <2>2. CASE P[p1].pc \in {0, 3, 6, 9}
    BY <1>2, <2>1, <2>2, AdderCode, Decoded, AdderLoads
  <2>3. CASE P[p1].pc \in {12, 14, 15, 17}
    BY <1>2, <2>1, <2>3, AdderCode, Decoded, AdderMoves
  <2>4. CASE P[p1].pc = 13
    BY <1>2, <2>1, <2>4, AdderCode, Decoded, AdderADD
  <2>5. CASE P[p1].pc = 16
    BY <1>2, <2>1, <2>5, AdderCode, Decoded, AdderADC
  <2>6. CASE P[p1].pc = 18
    BY <1>2, <2>1, <2>6, AdderCode, Decoded, AdderDAD
  <2>7. CASE P[p1].pc = 19
    <3>1. HLT(p1)
      BY <1>2, <2>1, <2>7, AdderCode, Decoded
    <3>2. Onward(p1, 0) /\ P'[p1].r = P[p1].r
      BY <1>2, <3>1, HltSets
    <3>3. AdderHolds(h, l, 19, P'[p1].r, P'[p1].F)
      BY <2>7, <3>2 DEF AdderInv, AdderHolds
    <3>4. (P[p1].pc + 0) % 65536 = 19 /\ 19 \in AdderAt
      BY <2>7 DEF AdderAt
    <3> QED BY <3>2, <3>3, <3>4, AdderOn
  <2> QED BY <2>1, <2>2, <2>3, <2>4, <2>5, <2>6, <2>7 DEF AdderAt
<1> QED BY <1>1, <1>2, AloneWaits DEF AdderInv

\* The bytes put together are the word.
LEMMA WholeSum ==
  ASSUME NEW h \in Word, NEW l \in Word, NEW x, NEW y, NEW z,
         x = HighSum(h, l) % 256, y = LowSum(h, l) % 256, z = (h + l) % 65536
  PROVE  256 * x + y = z
<1> DEFINE a == Hi(h)
           b == Lo(h)
           c == Hi(l)
           d == Lo(l)
<1>1. a \in 0..255 /\ b \in 0..255 /\ c \in 0..255 /\ d \in 0..255
  BY Halves, InByte
<1>2. h = 256 * a + b /\ l = 256 * c + d
  BY WholeWord
<1>3. /\ LowSum(h, l) = b + d
      /\ HighSum(h, l) = a + c + (IF b + d > 255 THEN 1 ELSE 0)
  BY DEF LowSum, HighSum
<1> HIDE DEF a, b, c, d
<1>4. z = (256 * a + b + (256 * c + d)) % 65536
  BY <1>2
<1>5. CASE b + d > 255
  <2>1. x = (a + c + 1) % 256 /\ y = (b + d) % 256
    BY <1>3, <1>5
  <2>2. y = b + d - 256
    BY <1>1, <1>5, <2>1
  <2>3. x = IF a + c > 254 THEN a + c - 255 ELSE a + c + 1
    BY <1>1, <2>1
  <2>4. z = IF a + c > 254 THEN 256 * (a + c - 255) + (b + d - 256)
                           ELSE 256 * (a + c + 1) + (b + d - 256)
    BY <1>1, <1>4, <1>5
  <2> QED BY <1>1, <2>2, <2>3, <2>4
<1>6. CASE ~(b + d > 255)
  <2>1. x = (a + c + 0) % 256 /\ y = (b + d) % 256
    BY <1>3, <1>6
  <2>2. y = b + d
    BY <1>1, <1>6, <2>1
  <2>3. x = IF a + c > 255 THEN a + c - 256 ELSE a + c
    BY <1>1, <2>1
  <2>4. z = IF a + c > 255 THEN 256 * (a + c - 256) + (b + d)
                           ELSE 256 * (a + c) + (b + d)
    BY <1>1, <1>4, <1>6
  <2> QED BY <1>1, <2>2, <2>3, <2>4
<1> QED BY <1>5, <1>6

(***************************************************************************)
(* Two words added a byte at a time, with the carry of the low bytes taken *)
(* across three moves, are the words added by DAD, whatever the words and  *)
(* whatever else happens between the instructions.                         *)
(***************************************************************************)
THEOREM WideSumAlways ==
  ASSUME NEW h \in Word, NEW l \in Word, Origin = {p1}
  PROVE  Spec /\ mem[p1] = Loaded(Adder(h, l)[p1]) => []WideSum
<1>1. Init /\ mem[p1] = Loaded(Adder(h, l)[p1]) => TypeOK /\ AdderInv(h, l)
  <2>1. SUFFICES ASSUME Init, mem[p1] = Loaded(Adder(h, l)[p1]) PROVE AdderInv(h, l)
    BY InitType
  <2>2. PICK prog : prog = Adder(h, l)[p1] /\ prog \in Seq(Byte) /\ Adder(h, l) = For(prog)
    BY AdderBytes DEF AdderIs
  <2>3. mem = [o \in Origin |-> Loaded(For(prog)[o])]
    <3>1. PICK f \in Programs : mem = [o \in Origin |-> Loaded(f[o])]
      BY <2>1 DEF Init
    <3> QED BY <2>1, <2>2, <3>1
  <2>4. Alone /\ P[p1] = Created(p1)
    BY <2>1, <2>2, <2>3, AloneInit
  <2>5. P[p1].pc = 0
    BY <2>4 DEF Created
  <2>6. AdderHolds(h, l, 0, P[p1].r, P[p1].F) /\ 0 \in AdderAt
    BY DEF AdderHolds, AdderAt
  <2> QED BY <2>1, <2>4, <2>5, <2>6 DEF AdderInv
<1>2. TypeOK /\ AdderInv(h, l) /\ [Next]_vars => TypeOK' /\ AdderInv(h, l)'
  BY NextType, AdderStep
<1>3. AdderInv(h, l) => WideSum
  <2>1. SUFFICES ASSUME AdderInv(h, l), EndsAt(19) PROVE Pair(P[p1], 1) = HL(p1)
    BY DEF WideSum
  <2> DEFINE r == P[p1].r
  <2>2. AdderHolds(h, l, 19, r, P[p1].F)
    BY <2>1 DEF AdderInv, EndsAt
  <2>3. /\ r[3] = LowSum(h, l) % 256 /\ r[2] = HighSum(h, l) % 256
        /\ 256 * r[4] + r[5] = (h + l) % 65536
    BY <2>2 DEF AdderHolds, R_H, R_L
  <2>4. Pair(P[p1], 1) = 256 * r[2] + r[3] /\ HL(p1) = 256 * r[4] + r[5]
    BY DEF Pair, HL
  <2> HIDE DEF r
  <2> DEFINE w == 256 * r[4] + r[5]
  <2>5. w = (h + l) % 65536
    BY <2>3
  <2> HIDE DEF w
  <2>6. 256 * r[2] + r[3] = w
    BY <2>3, <2>5, WholeSum
  <2> QED BY <2>4, <2>6 DEF w
<1> QED BY <1>1, <1>2, <1>3, PTL DEF Spec
-----------------------------------------------------------------------------
(***************************************************************************)
(* The stack.                                                              *)
(***************************************************************************)

\* Where the ith byte pushed below w goes.
Down(w, i) == (w + 65536 - i) % 65536

\* It is a word, and what pushes and pops make of the stack pointer.
LEMMA DownWord ==
  ASSUME NEW w \in Word
  PROVE  /\ \A i \in 1..4 : Down(w, i) \in Word
         /\ \A i \in {1, 2} : (w + 65536 + (-i)) % 65536 = Down(w, i)
         /\ (Down(w, 2) + 65536 + (-2)) % 65536 = Down(w, 4)
         /\ (Down(w, 2) + 65536 + (-1)) % 65536 = Down(w, 3)
         /\ (Down(w, 4) + 65536 + 2) % 65536 = Down(w, 2)
         /\ (Down(w, 2) + 65536 + 2) % 65536 = w
         /\ (Down(w, 4) + 1) % 65536 = Down(w, 3) /\ (Down(w, 2) + 1) % 65536 = Down(w, 1)
<1>1. \A i \in 1..4 : Down(w, i) = IF w >= i THEN w - i ELSE w + 65536 - i
  BY InWord DEF Down
<1>2. /\ Down(w, 1) = IF w >= 1 THEN w - 1 ELSE w + 65535
      /\ Down(w, 2) = IF w >= 2 THEN w - 2 ELSE w + 65534
      /\ Down(w, 3) = IF w >= 3 THEN w - 3 ELSE w + 65533
      /\ Down(w, 4) = IF w >= 4 THEN w - 4 ELSE w + 65532
  BY <1>1, InWord
<1>3. \A i \in 1..4 : Down(w, i) \in Word
  BY <1>1, InWord
<1>4. \A i \in {1, 2} : (w + 65536 + (-i)) % 65536 = Down(w, i)
  BY InWord DEF Down
<1> DEFINE x == Down(w, 2)
           y == Down(w, 4)
           u == Down(w, 1)
           v == Down(w, 3)
<1>5. w \in Int /\ 0 <= w /\ w <= 65535
  BY InWord
<1> HIDE DEF x, y, u, v
<1>6. /\ u = (IF w >= 1 THEN w - 1 ELSE w + 65535) /\ x = (IF w >= 2 THEN w - 2 ELSE w + 65534)
      /\ v = (IF w >= 3 THEN w - 3 ELSE w + 65533) /\ y = (IF w >= 4 THEN w - 4 ELSE w + 65532)
  BY <1>2 DEF x, y, u, v
<1>7. (x + 65536 + (-2)) % 65536 = y
  BY <1>5, <1>6
<1>8. (x + 65536 + (-1)) % 65536 = v
  BY <1>5, <1>6
<1>9. (y + 65536 + 2) % 65536 = x
  BY <1>5, <1>6
<1>10. (x + 65536 + 2) % 65536 = w
  BY <1>5, <1>6
<1>11. (y + 1) % 65536 = v /\ (x + 1) % 65536 = u
  BY <1>5, <1>6
<1> QED BY <1>3, <1>4, <1>7, <1>8, <1>9, <1>10, <1>11 DEF x, y, u, v

\* Four bytes pushed go to four different bytes of memory: the first page
\* stands in for the last, but a page is longer than that.
LEMMA CellsApart ==
  ASSUME NEW w \in Word, NEW i \in 1..4, NEW j \in 1..4, i # j
  PROVE  Cell(Down(w, i)) # Cell(Down(w, j))
<1>1. w \in Int /\ 0 <= w /\ w <= 65535
  BY InWord
<1>2. Down(w, i) = IF w >= i THEN w - i ELSE w + 65536 - i
  BY <1>1 DEF Down
<1>3. Down(w, j) = IF w >= j THEN w - j ELSE w + 65536 - j
  BY <1>1 DEF Down
<1> QED BY <1>1, <1>2, <1>3 DEF Cell

\* Addresses wrap around.
LEMMA Wraps ==
  ASSUME NEW p, NEW a \in Nat, NEW b, b = a % 65536 PROVE GetMemory(p, a) = GetMemory(p, b)
<1>1. b % 65536 = b
  OBVIOUS
<1> QED BY <1>1 DEF GetMemory

\* Memory that is not written reads the same.
LEMMA ReadsSame ==
  ASSUME NEW p, mem' = mem, P'[p].origin = P[p].origin, NEW k
  PROVE  GetMemory(p, k)' = GetMemory(p, k)
  BY DEF GetMemory

\* A PUSH stores the two bytes of a pair of registers below the stack pointer.
LEMMA PushSets ==
  ASSUME NEW p, Running(p), PUSH(p), NEW i \in 0..2, RP(p) = i
  PROVE  /\ P'[p] \in Process /\ \A o \in Proc : o # p => P'[o] = P[o]
         /\ P'[p].pc = (P[p].pc + 1) % 65536 /\ P'[p].sp = Sp(p, -2) /\ P'[p].r = P[p].r
         /\ P'[p].origin = P[p].origin
         /\ \A k \in Word : GetMemory(p, k)' =
              IF Cell(k) = Cell(Sp(p, -1)) THEN P[p].r[2 * i]
              ELSE IF Cell(k) = Cell(Sp(p, -2)) THEN P[p].r[2 * i + 1]
              ELSE GetMemory(p, k)
<1> DEFINE x == P[p].r[2 * i]
           y == P[p].r[2 * i + 1]
           w == 256 * x + y
           o == P[p].origin
           pc == (P[p].pc + 1) % 65536
           sp == Sp(p, -2)
           c == Cell(sp)
           d == Cell(Sp(p, -1))
           q == [P[p] EXCEPT !.pc = pc, !.sp = sp]
           m == Stored(Stored(mem[o], c, y), d, x)
<1>1. x \in Byte /\ y \in Byte
  <2>1. 2 * i \in 0..7 /\ 2 * i + 1 \in 0..7
    OBVIOUS
  <2> QED BY <2>1, Operands
<1>2. PushedBy(p) = w
  BY DEF PushedBy, Pair
<1>3. Lo(w) = y /\ Hi(w) = x
  <2> HIDE DEF x, y
  <2> QED BY <1>1, InByte DEF Lo, Hi
<1>4. pc \in Word /\ sp \in Word /\ Sp(p, -1) \in Word /\ o \in Origin
  <2>1. -2 \in -2..2 /\ -1 \in -2..2
    OBVIOUS
  <2>2. P[p].pc \in Word /\ o \in Origin
    BY DEF Running, Process
  <2>3. pc \in Word
    BY <2>2, InWord
  <2> QED BY <2>1, <2>2, <2>3, Operands
<1>5. SetMemoryShort(p, [[P[p] EXCEPT !.pc = pc] EXCEPT !.sp = sp], 0, sp, w)
  BY <1>2 DEF PUSH, PushWord
<1>6. [[P[p] EXCEPT !.pc = pc] EXCEPT !.sp = sp] = q
  BY DEF Running, Process
<1>7. /\ q \in Process /\ q.pc = pc /\ q.sp = sp /\ q.r = P[p].r /\ q.origin = o
  <2> HIDE DEF pc, sp
  <2> QED BY <1>4 DEF Running, Process
<1>8. sp % 65536 = sp /\ (sp + 1) % 65536 = Sp(p, -1) /\ Sp(p, -1) % 65536 = Sp(p, -1)
  BY <1>4, Address, StackAddresses
<1> HIDE DEF x, y, w, pc, sp, q
<1>9. P' = [P EXCEPT ![p] = Further(q, 0)] /\ mem' = [mem EXCEPT ![o] = m]
  <2>1. SetMemoryShort(p, q, 0, sp, w)
    BY <1>5, <1>6
  <2> DEFINE n == Stored(Stored(mem[q.origin], Cell(sp % 65536), Lo(w)),
                         Cell((sp + 1) % 65536), Hi(w))
  <2>2. P' = [P EXCEPT ![p] = Further(q, 0)] /\ mem' = [mem EXCEPT ![q.origin] = n]
    BY <2>1 DEF SetMemoryShort
  <2>3. n = m
    <3> HIDE DEF o
    <3> QED BY <1>3, <1>7, <1>8
  <2> HIDE DEF n, m
  <2> QED BY <1>7, <2>2, <2>3
<1>10. P'[p] = Further(q, 0) /\ \A k \in Proc : k # p => P'[k] = P[k]
  BY <1>9 DEF Running, TypeOK
<1>11. Further(q, 0) = [q EXCEPT !.pc = (q.pc + 0) % 65536] /\ (q.pc + 0) % 65536 = pc
  BY <1>4, <1>7, InWord DEF Further
<1>12. /\ P'[p] \in Process /\ P'[p].pc = pc /\ P'[p].sp = sp /\ P'[p].r = P[p].r
       /\ P'[p].origin = o
  BY <1>4, <1>7, <1>10, <1>11 DEF Process
<1>13. mem'[o] = m
  BY <1>4, <1>9 DEF Running, TypeOK
<1>14. ASSUME NEW k \in Word
       PROVE  GetMemory(p, k)' = IF Cell(k) = d THEN x ELSE IF Cell(k) = c THEN y
                                 ELSE GetMemory(p, k)
  <2>1. k % 65536 = k
    BY Address
  <2> DEFINE a == Cell(k)
  <2>2. GetMemory(p, k)' = IF a \in DOMAIN m THEN m[a] ELSE 0
    BY <1>12, <1>13, <2>1 DEF GetMemory
  <2>3. GetMemory(p, k) = IF a \in DOMAIN mem[o] THEN mem[o][a] ELSE 0
    BY <2>1 DEF GetMemory
  <2> HIDE DEF a, c, d, o
  <2>4. DOMAIN m = DOMAIN mem[o] \cup {c} \cup {d}
    BY DEF Stored
  <2>5. a \in DOMAIN m => m[a] = IF a = d THEN x ELSE IF a = c THEN y ELSE mem[o][a]
    BY DEF Stored
  <2>6. GetMemory(p, k)' = IF a = d THEN x ELSE IF a = c THEN y ELSE GetMemory(p, k)
    BY <2>2, <2>3, <2>4, <2>5
  <2> QED BY <2>6 DEF a
<1> QED BY <1>10, <1>12, <1>14 DEF x, y, pc, sp

\* A POP loads the two bytes at the stack pointer into a pair of registers.
LEMMA PopSets ==
  ASSUME NEW p, Running(p), POP(p), NEW i \in 0..2, RP(p) = i,
         NEW x \in Byte, NEW y \in Byte,
         GetMemory(p, P[p].sp + 1) = x, GetMemory(p, P[p].sp) = y
  PROVE  /\ P'[p] \in Process /\ \A o \in Proc : o # p => P'[o] = P[o]
         /\ P'[p].pc = (P[p].pc + 1) % 65536 /\ P'[p].sp = Sp(p, 2)
         /\ P'[p].r[2 * i] = x /\ P'[p].r[2 * i + 1] = y
         /\ \A j \in 0..7 : j # 2 * i /\ j # 2 * i + 1 => P'[p].r[j] = P[p].r[j]
         /\ P'[p].origin = P[p].origin /\ mem' = mem
<1> DEFINE w == 256 * x + y
           sp == Sp(p, 2)
           u == [P[p] EXCEPT !.r[2 * i] = x]
           v == [u EXCEPT !.r[2 * i + 1] = y]
           q == [v EXCEPT !.sp = sp]
<1>1. Top(p) = w /\ Lo(w) = y /\ Hi(w) = x
  BY InByte DEF Top, Lo, Hi
<1>2. 2 * i \in 0..7 /\ 2 * i + 1 \in 0..7 /\ 2 * i # 2 * i + 1
  OBVIOUS
<1>3. sp \in Word
  BY Operands
<1>4. Popped(p, w) = [P[p] EXCEPT !.r[2 * i] = Hi(w), !.r[2 * i + 1] = Lo(w)]
  BY DEF Popped, SetPair
<1>5. /\ u \in Process /\ u.pc = P[p].pc /\ u.origin = P[p].origin /\ u.r[2 * i] = x
      /\ \A j \in 0..7 : j # 2 * i => u.r[j] = P[p].r[j]
  BY <1>2 DEF Running, Process
<1>6. Popped(p, w) = v
  BY <1>1, <1>2, <1>4 DEF Running, Process
<1> HIDE DEF u, w
<1>7. /\ v \in Process /\ v.pc = P[p].pc /\ v.origin = P[p].origin
      /\ v.r[2 * i] = x /\ v.r[2 * i + 1] = y
      /\ \A j \in 0..7 : j # 2 * i /\ j # 2 * i + 1 => v.r[j] = P[p].r[j]
  BY <1>2, <1>5 DEF Process
<1>8. Become(p, q, 1)
  BY <1>1, <1>6 DEF POP
<1> HIDE DEF v, sp
<1>9. /\ q \in Process /\ q.pc = v.pc /\ q.origin = v.origin /\ q.r = v.r /\ q.sp = sp
  BY <1>3, <1>7 DEF Process
<1> HIDE DEF q
<1>10. /\ P'[p] \in Process /\ \A o \in Proc : o # p => P'[o] = P[o]
       /\ P'[p].pc = (q.pc + 1) % 65536 /\ P'[p].r = q.r /\ P'[p].sp = q.sp
       /\ P'[p].origin = q.origin /\ mem' = mem
  <2>1. 1 \in 0..3
    OBVIOUS
  <2> QED BY <1>8, <1>9, <2>1, BecomeFields
<1> QED BY <1>7, <1>9, <1>10 DEF sp

\* LXI SP sets the stack pointer to its operand.
LEMMA LxiSpSets ==
  ASSUME NEW p, Running(p), LXI(p), RP(p) = 3
  PROVE  /\ P'[p] \in Process /\ \A o \in Proc : o # p => P'[o] = P[o]
         /\ P'[p].pc = (P[p].pc + 3) % 65536 /\ P'[p].sp = Operand(p) /\ P'[p].r = P[p].r
         /\ P'[p].origin = P[p].origin /\ mem' = mem
<1> DEFINE w == Operand(p)
           q == [P[p] EXCEPT !.sp = w]
<1>1. w \in Word
  BY Fetched
<1>2. Become(p, q, 3)
  BY DEF LXI, SetPair
<1> HIDE DEF w
<1>3. q \in Process /\ q.pc = P[p].pc /\ q.sp = w /\ q.r = P[p].r /\ q.origin = P[p].origin
  BY <1>1 DEF Running, Process
<1> HIDE DEF q
<1>4. /\ P'[p] \in Process /\ \A o \in Proc : o # p => P'[o] = P[o]
      /\ P'[p].pc = (q.pc + 3) % 65536 /\ P'[p].r = q.r /\ P'[p].sp = q.sp
      /\ P'[p].origin = q.origin /\ mem' = mem
  <2>1. 3 \in 0..3
    OBVIOUS
  <2> QED BY <1>2, <1>3, <2>1, BecomeFields
<1> QED BY <1>3, <1>4 DEF w
-----------------------------------------------------------------------------
(***************************************************************************)
(* Two words on the stack.                                                 *)
(***************************************************************************)
StackIs(prog, sp, de) ==
  /\ prog \in Seq(Byte) /\ Len(prog) = 32
  /\ prog[1] = 49 /\ prog[2] = Lo(sp) /\ prog[3] = Hi(sp) /\ prog[4] = 38 /\ prog[7] = 46
  /\ prog[10] = 6 /\ prog[11] = Hi(Kept) /\ prog[13] = 14 /\ prog[14] = Lo(Kept)
  /\ prog[16] = 22 /\ prog[17] = Hi(de) /\ prog[19] = 30 /\ prog[20] = Lo(de)
  /\ prog[22] = 197 /\ prog[23] = 213 /\ prog[24] = 6 /\ prog[27] = 14
  /\ prog[30] = 225 /\ prog[31] = 193 /\ prog[32] = 118

\* The bytes of the program.
LEMMA StackBytes ==
  ASSUME NEW sp \in Word, NEW de \in Word
  PROVE  /\ StackIs(Stacker(sp, de)[p1], sp, de)
         /\ Stacker(sp, de) = For(Stacker(sp, de)[p1])
<1>1. Hi(sp) \in Byte /\ Lo(sp) \in Byte /\ Hi(de) \in Byte /\ Lo(de) \in Byte
  BY Halves
<1>2. Hi(Kept) \in Byte /\ Lo(Kept) \in Byte
  BY InByte DEF Hi, Lo, Kept
<1> DEFINE a == Lo(sp)
           b == Hi(sp)
           c == Hi(Kept)
           d == Lo(Kept)
           e == Hi(de)
           f == Lo(de)
           prog == <<49, a, b, 38, 0, 0, 46, 0, 0, 6, c, 0, 14, d, 0, 22, e, 0, 30, f, 0,
                     197, 213, 6, 0, 0, 14, 0, 0, 225, 193, 118>>
<1>3. Stacker(sp, de) = For(prog) /\ Stacker(sp, de)[p1] = prog
  BY DEF Stacker, For
<1>4. \A n \in {0, 6, 14, 22, 30, 38, 46, 49, 118, 193, 197, 213, 225} : n \in Byte
  BY InByte
<1> HIDE DEF a, b, c, d, e, f
<1>5. /\ prog \in Seq(Byte) /\ Len(prog) = 32
      /\ prog[1] = 49 /\ prog[2] = a /\ prog[3] = b /\ prog[4] = 38 /\ prog[7] = 46
      /\ prog[10] = 6 /\ prog[11] = c /\ prog[13] = 14 /\ prog[14] = d
      /\ prog[16] = 22 /\ prog[17] = e /\ prog[19] = 30 /\ prog[20] = f
      /\ prog[22] = 197 /\ prog[23] = 213 /\ prog[24] = 6 /\ prog[27] = 14
      /\ prog[30] = 225 /\ prog[31] = 193 /\ prog[32] = 118
  <2>1. /\ a \in Byte /\ b \in Byte /\ c \in Byte /\ d \in Byte /\ e \in Byte /\ f \in Byte
    BY <1>1, <1>2 DEF a, b, c, d, e, f
  <2> QED BY <1>4, <2>1
<1> HIDE DEF prog
<1>6. StackIs(prog, sp, de)
  BY <1>5 DEF StackIs, a, b, c, d, e, f
<1> QED BY <1>3, <1>6

\* Where LXI SP puts the stack pointer: the low byte is a signed char.
Loads(sp) == IF Lo(sp) >= 128 THEN 65280 + Lo(sp) ELSE 256 * Hi(sp) + Lo(sp)

\* The bytes that are executed after the first PUSH, and the operand of LXI.
Rest == {1, 2} \cup 22..31

\* The stack is not where they are.
Clear(w) == \A i \in 1..4 : Cell(Down(w, i)) \notin Rest

\* What stack pointer s and registers r hold when the next instruction is at pc.
StackHolds(de, w, pc, s, r) ==
  /\ pc \in 3..21 \cup {31} => s = w
  /\ pc \in {22, 30} => s = Down(w, 2)
  /\ pc \in 23..29 => s = Down(w, 4)
  /\ pc \in 12..23 \cup {31} => r[0] = Hi(Kept)
  /\ pc \in 15..23 \cup {31} => r[1] = Lo(Kept)
  /\ pc \in 18..31 => r[2] = Hi(de)
  /\ pc \in 21..31 => r[3] = Lo(de)
  /\ pc \in 30..31 => r[R_H] = Hi(de) /\ r[R_L] = Lo(de)

StackAt == {0, 3, 6, 9, 12, 15, 18, 21, 22, 23, 26, 29, 30, 31}

StackInv(sp, de) ==
  /\ Alone /\ P[p1].pc \in StackAt
  /\ StackHolds(de, Loads(sp), P[p1].pc, P[p1].sp, P[p1].r)
  /\ \A k \in (IF P[p1].pc <= 21 THEN 0..31 ELSE Rest) :
       GetMemory(p1, k) = Stacker(sp, de)[p1][k + 1]
  /\ P[p1].pc \in 22..30 => /\ GetMemory(p1, Down(Loads(sp), 1)) = Hi(Kept)
                            /\ GetMemory(p1, Down(Loads(sp), 2)) = Lo(Kept)
  /\ P[p1].pc \in 23..29 => /\ GetMemory(p1, Down(Loads(sp), 3)) = Hi(de)
                            /\ GetMemory(p1, Down(Loads(sp), 4)) = Lo(de)

\* The opcode of the next instruction, the bytes that are loaded, and the
\* operand of LXI, which is there to the end.
LEMMA StackCode ==
  ASSUME NEW sp \in Word, NEW de \in Word, StackInv(sp, de)
  PROVE  /\ P[p1].pc = 0 => Opcode(p1) = 49
         /\ P[p1].pc = 3 => Opcode(p1) = 38
         /\ P[p1].pc = 6 => Opcode(p1) = 46
         /\ P[p1].pc = 9 => Opcode(p1) = 6 /\ GetMemory(p1, P[p1].pc + 1) = Hi(Kept)
         /\ P[p1].pc = 12 => Opcode(p1) = 14 /\ GetMemory(p1, P[p1].pc + 1) = Lo(Kept)
         /\ P[p1].pc = 15 => Opcode(p1) = 22 /\ GetMemory(p1, P[p1].pc + 1) = Hi(de)
         /\ P[p1].pc = 18 => Opcode(p1) = 30 /\ GetMemory(p1, P[p1].pc + 1) = Lo(de)
         /\ P[p1].pc = 21 => Opcode(p1) = 197
         /\ P[p1].pc = 22 => Opcode(p1) = 213
         /\ P[p1].pc = 23 => Opcode(p1) = 6
         /\ P[p1].pc = 26 => Opcode(p1) = 14
         /\ P[p1].pc = 29 => Opcode(p1) = 225
         /\ P[p1].pc = 30 => Opcode(p1) = 193
         /\ P[p1].pc = 31 => Opcode(p1) = 118
         /\ GetMemoryShort(p1, 1) = Loads(sp)
<1>1. PICK prog : prog = Stacker(sp, de)[p1] /\ StackIs(prog, sp, de)
  BY StackBytes
<1> DEFINE pc == P[p1].pc
           M(k) == GetMemory(p1, k)
<1>2. \A k \in (IF pc <= 21 THEN 0..31 ELSE Rest) : M(k) = prog[k + 1]
  BY <1>1 DEF StackInv
<1>3. Opcode(p1) = M(pc)
  BY DEF Opcode
<1> HIDE DEF pc, M
<1>4. M(1) = prog[2] /\ M(2) = prog[3]
  BY <1>2 DEF Rest
<1>5. /\ pc = 0 => M(0) = prog[1]
      /\ pc = 3 => M(3) = prog[4]
      /\ pc = 6 => M(6) = prog[7]
      /\ pc = 9 => M(9) = prog[10] /\ M(10) = prog[11]
      /\ pc = 12 => M(12) = prog[13] /\ M(13) = prog[14]
      /\ pc = 15 => M(15) = prog[16] /\ M(16) = prog[17]
      /\ pc = 18 => M(18) = prog[19] /\ M(19) = prog[20]
      /\ pc = 21 => M(21) = prog[22]
  BY <1>2
<1>6. /\ pc = 22 => M(22) = prog[23]
      /\ pc = 23 => M(23) = prog[24]
      /\ pc = 26 => M(26) = prog[27]
      /\ pc = 29 => M(29) = prog[30]
      /\ pc = 30 => M(30) = prog[31]
      /\ pc = 31 => M(31) = prog[32]
  BY <1>2 DEF Rest
<1>7. M(1) = Lo(sp) /\ M(2) = Hi(sp)
  BY <1>1, <1>4 DEF StackIs
<1>8. GetMemoryShort(p1, 1) = Loads(sp)
  <2>1. 1 + 1 = 2
    OBVIOUS
  <2> QED BY <1>7, <2>1 DEF GetMemoryShort, Loads, M
<1>9. /\ prog[1] = 49 /\ prog[4] = 38 /\ prog[7] = 46
      /\ prog[10] = 6 /\ prog[11] = Hi(Kept) /\ prog[13] = 14 /\ prog[14] = Lo(Kept)
      /\ prog[16] = 22 /\ prog[17] = Hi(de) /\ prog[19] = 30 /\ prog[20] = Lo(de)
      /\ prog[22] = 197 /\ prog[23] = 213 /\ prog[24] = 6 /\ prog[27] = 14
      /\ prog[30] = 225 /\ prog[31] = 193 /\ prog[32] = 118
  BY <1>1 DEF StackIs
<1>10. /\ pc = 0 => M(pc) = 49
       /\ pc = 3 => M(pc) = 38
       /\ pc = 6 => M(pc) = 46
       /\ pc = 9 => M(pc) = 6 /\ M(pc + 1) = Hi(Kept)
       /\ pc = 12 => M(pc) = 14 /\ M(pc + 1) = Lo(Kept)
       /\ pc = 15 => M(pc) = 22 /\ M(pc + 1) = Hi(de)
       /\ pc = 18 => M(pc) = 30 /\ M(pc + 1) = Lo(de)
       /\ pc = 21 => M(pc) = 197
  BY <1>5, <1>9
<1>11. /\ pc = 22 => M(pc) = 213
       /\ pc = 23 => M(pc) = 6
       /\ pc = 26 => M(pc) = 14
       /\ pc = 29 => M(pc) = 225
       /\ pc = 30 => M(pc) = 193
       /\ pc = 31 => M(pc) = 118
  BY <1>6, <1>9
<1> QED BY <1>3, <1>8, <1>10, <1>11 DEF pc, M

\* The word loaded is one.
LEMMA LoadsWord == ASSUME NEW sp \in Word PROVE Loads(sp) \in Word
<1>1. Lo(sp) \in Byte /\ Hi(sp) \in Byte
  BY Halves
<1> DEFINE a == Lo(sp)
           b == Hi(sp)
<1> HIDE DEF a, b
<1>2. a \in Byte /\ b \in Byte
  BY <1>1 DEF a, b
<1>3. (IF a >= 128 THEN 65280 + a ELSE 256 * b + a) \in Word
  BY <1>2, InByte, InWord
<1> QED BY <1>3 DEF Loads, a, b

\* The program goes on by an instruction that does not store.
LEMMA StackOn ==
  ASSUME NEW sp \in Word, NEW de \in Word, StackInv(sp, de), NEW k \in StackAt,
         P'[p1] \in Process, \A o \in Proc : o # p1 => P'[o] = P[o],
         P'[p1].origin = P[p1].origin, mem' = mem, P'[p1].pc = k,
         k <= 21 => P[p1].pc <= 21, k \in 22..29 => P[p1].pc \in 23..29,
         k = 30 => P[p1].pc \in 22..30,
         StackHolds(de, Loads(sp), k, P'[p1].sp, P'[p1].r)
  PROVE  StackInv(sp, de)'
<1> DEFINE w == Loads(sp)
           pc == P[p1].pc
           prog == Stacker(sp, de)[p1]
           M(a) == GetMemory(p1, a)
<1>1. Alone'
  BY AloneGoes DEF StackInv
<1>2. \A a : GetMemory(p1, a)' = M(a)
  <2>1. TAKE a
  <2> QED BY ReadsSame
<1>3. /\ pc \in StackAt
      /\ \A a \in (IF pc <= 21 THEN 0..31 ELSE Rest) : M(a) = prog[a + 1]
      /\ pc \in 22..30 => M(Down(w, 1)) = Hi(Kept) /\ M(Down(w, 2)) = Lo(Kept)
      /\ pc \in 23..29 => M(Down(w, 3)) = Hi(de) /\ M(Down(w, 4)) = Lo(de)
  BY DEF StackInv
<1>4. /\ k <= 21 => pc <= 21
      /\ k \in 22..29 => pc \in 23..29
      /\ k = 30 => pc \in 22..30
  OBVIOUS
<1> HIDE DEF w, pc, prog, M
<1>5. k \in 0..31 /\ pc \in 0..31
  BY <1>3 DEF StackAt
<1>6. \A a \in (IF k <= 21 THEN 0..31 ELSE Rest) : M(a) = prog[a + 1]
  <2>1. Rest \subseteq 0..31
    BY DEF Rest
  <2> QED BY <1>3, <1>4, <2>1
<1>7. /\ k \in 22..30 => M(Down(w, 1)) = Hi(Kept) /\ M(Down(w, 2)) = Lo(Kept)
      /\ k \in 23..29 => M(Down(w, 3)) = Hi(de) /\ M(Down(w, 4)) = Lo(de)
  BY <1>3, <1>4, <1>5
<1>8. P'[p1].pc = k /\ StackHolds(de, w, k, P'[p1].sp, P'[p1].r)
  BY DEF w
<1>9. \A a \in (IF P'[p1].pc <= 21 THEN 0..31 ELSE Rest) : GetMemory(p1, a)' = prog[a + 1]
  BY <1>2, <1>6, <1>8
<1>10. /\ P'[p1].pc \in 22..30 => /\ GetMemory(p1, Down(w, 1))' = Hi(Kept)
                                  /\ GetMemory(p1, Down(w, 2))' = Lo(Kept)
       /\ P'[p1].pc \in 23..29 => /\ GetMemory(p1, Down(w, 3))' = Hi(de)
                                  /\ GetMemory(p1, Down(w, 4))' = Lo(de)
  <2>1. /\ GetMemory(p1, Down(w, 1))' = M(Down(w, 1)) /\ GetMemory(p1, Down(w, 2))' = M(Down(w, 2))
        /\ GetMemory(p1, Down(w, 3))' = M(Down(w, 3)) /\ GetMemory(p1, Down(w, 4))' = M(Down(w, 4))
    <3>1. mem' = mem /\ P'[p1].origin = P[p1].origin
      OBVIOUS
    <3> QED BY <3>1, ReadsSame DEF M
  <2> QED BY <1>7, <1>8, <2>1
<1> QED BY <1>1, <1>8, <1>9, <1>10 DEF StackInv, w, prog

\* The eight loads.
LEMMA StackLoads ==
  ASSUME NEW sp \in Word, NEW de \in Word, StackInv(sp, de), Running(p1), MVI(p1),
         P[p1].pc \in {3, 6, 9, 12, 15, 18, 23, 26}
  PROVE  StackInv(sp, de)'
<1> DEFINE pc == P[p1].pc
           w == Loads(sp)
           r == P[p1].r
           s == P'[p1].r
           x == GetMemory(p1, pc + 1)
<1>1. StackHolds(de, w, pc, P[p1].sp, r)
  BY DEF StackInv
<1>2. Dst(p1) # 6 => /\ Onward(p1, 3) /\ s[Dst(p1)] = x
                     /\ \A j \in 0..7 : j # Dst(p1) => s[j] = r[j]
  BY MviSets DEF Sets
<1>3. Onward(p1, 3) => /\ P'[p1] \in Process /\ \A o \in Proc : o # p1 => P'[o] = P[o]
                       /\ P'[p1].origin = P[p1].origin /\ mem' = mem /\ P'[p1].sp = P[p1].sp
                       /\ P'[p1].pc = (pc + 3) % 65536
  BY DEF Onward
<1>4. CASE pc = 3
  <2>1. Opcode(p1) = 38
    BY <1>4, StackCode
  <2>2. Dst(p1) = 4
    BY <2>1 DEF Dst
  <2>3. Onward(p1, 3)
    BY <1>2, <2>1, <2>2
  <2>4. P'[p1].pc = 6 /\ 6 \in StackAt
    BY <1>3, <1>4, <2>3 DEF StackAt
  <2> HIDE DEF s, w
  <2>5. StackHolds(de, w, 6, P'[p1].sp, s)
    BY <1>1, <1>3, <1>4, <2>3 DEF StackHolds, R_H, R_L
  <2> QED BY <1>3, <1>4, <2>3, <2>4, <2>5, StackOn DEF s, w
<1>5. CASE pc = 6
  <2>1. Opcode(p1) = 46
    BY <1>5, StackCode
  <2>2. Dst(p1) = 5
    BY <2>1 DEF Dst
  <2>3. Onward(p1, 3)
    BY <1>2, <2>1, <2>2
  <2>4. P'[p1].pc = 9 /\ 9 \in StackAt
    BY <1>3, <1>5, <2>3 DEF StackAt
  <2> HIDE DEF s, w
  <2>5. StackHolds(de, w, 9, P'[p1].sp, s)
    BY <1>1, <1>3, <1>5, <2>3 DEF StackHolds, R_H, R_L
  <2> QED BY <1>3, <1>5, <2>3, <2>4, <2>5, StackOn DEF s, w
<1>6. CASE pc = 9
  <2>1. Opcode(p1) = 6 /\ x = Hi(Kept)
    BY <1>6, StackCode
  <2>2. Dst(p1) = 0
    BY <2>1 DEF Dst
  <2>3. Onward(p1, 3) /\ s[0] = Hi(Kept)
    BY <1>2, <2>1, <2>2
  <2>4. P'[p1].pc = 12 /\ 12 \in StackAt
    BY <1>3, <1>6, <2>3 DEF StackAt
  <2> HIDE DEF s, w
  <2>5. StackHolds(de, w, 12, P'[p1].sp, s)
    BY <1>1, <1>3, <1>6, <2>3 DEF StackHolds, R_H, R_L
  <2> QED BY <1>3, <1>6, <2>3, <2>4, <2>5, StackOn DEF s, w
<1>7. CASE pc = 12
  <2>1. Opcode(p1) = 14 /\ x = Lo(Kept)
    BY <1>7, StackCode
  <2>2. Dst(p1) = 1
    BY <2>1 DEF Dst
  <2>3. Onward(p1, 3) /\ s[1] = Lo(Kept) /\ s[0] = r[0]
    BY <1>2, <2>1, <2>2
  <2>4. P'[p1].pc = 15 /\ 15 \in StackAt
    BY <1>3, <1>7, <2>3 DEF StackAt
  <2> HIDE DEF s, w
  <2>5. StackHolds(de, w, 15, P'[p1].sp, s)
    BY <1>1, <1>3, <1>7, <2>3 DEF StackHolds, R_H, R_L
  <2> QED BY <1>3, <1>7, <2>3, <2>4, <2>5, StackOn DEF s, w
<1>8. CASE pc = 15
  <2>1. Opcode(p1) = 22 /\ x = Hi(de)
    BY <1>8, StackCode
  <2>2. Dst(p1) = 2
    BY <2>1 DEF Dst
  <2>3. Onward(p1, 3) /\ s[2] = Hi(de) /\ s[0] = r[0] /\ s[1] = r[1]
    BY <1>2, <2>1, <2>2
  <2>4. P'[p1].pc = 18 /\ 18 \in StackAt
    BY <1>3, <1>8, <2>3 DEF StackAt
  <2> HIDE DEF s, w
  <2>5. StackHolds(de, w, 18, P'[p1].sp, s)
    BY <1>1, <1>3, <1>8, <2>3 DEF StackHolds, R_H, R_L
  <2> QED BY <1>3, <1>8, <2>3, <2>4, <2>5, StackOn DEF s, w
<1>9. CASE pc = 18
  <2>1. Opcode(p1) = 30 /\ x = Lo(de)
    BY <1>9, StackCode
  <2>2. Dst(p1) = 3
    BY <2>1 DEF Dst
  <2>3. Onward(p1, 3) /\ s[3] = Lo(de) /\ s[0] = r[0] /\ s[1] = r[1] /\ s[2] = r[2]
    BY <1>2, <2>1, <2>2
  <2>4. P'[p1].pc = 21 /\ 21 \in StackAt
    BY <1>3, <1>9, <2>3 DEF StackAt
  <2> HIDE DEF s, w
  <2>5. StackHolds(de, w, 21, P'[p1].sp, s)
    BY <1>1, <1>3, <1>9, <2>3 DEF StackHolds, R_H, R_L
  <2> QED BY <1>3, <1>9, <2>3, <2>4, <2>5, StackOn DEF s, w
<1>10. CASE pc = 23
  <2>1. Opcode(p1) = 6
    BY <1>10, StackCode
  <2>2. Dst(p1) = 0
    BY <2>1 DEF Dst
  <2>3. Onward(p1, 3) /\ s[2] = r[2] /\ s[3] = r[3]
    BY <1>2, <2>1, <2>2
  <2>4. P'[p1].pc = 26 /\ 26 \in StackAt
    BY <1>3, <1>10, <2>3 DEF StackAt
  <2> HIDE DEF s, w
  <2>5. StackHolds(de, w, 26, P'[p1].sp, s)
    BY <1>1, <1>3, <1>10, <2>3 DEF StackHolds, R_H, R_L
  <2> QED BY <1>3, <1>10, <2>3, <2>4, <2>5, StackOn DEF s, w
<1>11. CASE pc = 26
  <2>1. Opcode(p1) = 14
    BY <1>11, StackCode
  <2>2. Dst(p1) = 1
    BY <2>1 DEF Dst
  <2>3. Onward(p1, 3) /\ s[2] = r[2] /\ s[3] = r[3]
    BY <1>2, <2>1, <2>2
  <2>4. P'[p1].pc = 29 /\ 29 \in StackAt
    BY <1>3, <1>11, <2>3 DEF StackAt
  <2> HIDE DEF s, w
  <2>5. StackHolds(de, w, 29, P'[p1].sp, s)
    BY <1>1, <1>3, <1>11, <2>3 DEF StackHolds, R_H, R_L
  <2> QED BY <1>3, <1>11, <2>3, <2>4, <2>5, StackOn DEF s, w
<1> QED BY <1>4, <1>5, <1>6, <1>7, <1>8, <1>9, <1>10, <1>11

\* LXI SP, at the start.
LEMMA StackLXI ==
  ASSUME NEW sp \in Word, NEW de \in Word, StackInv(sp, de), Running(p1), LXI(p1), P[p1].pc = 0
  PROVE  StackInv(sp, de)'
<1> DEFINE w == Loads(sp)
           s == P'[p1].r
<1>1. Opcode(p1) = 49 /\ Operand(p1) = w
  <2>1. 0 + 1 = 1
    OBVIOUS
  <2> QED BY <2>1, StackCode DEF Operand
<1>2. RP(p1) = 3
  BY <1>1 DEF RP
<1>3. /\ P'[p1] \in Process /\ \A o \in Proc : o # p1 => P'[o] = P[o]
      /\ P'[p1].pc = (P[p1].pc + 3) % 65536 /\ P'[p1].sp = w
      /\ P'[p1].origin = P[p1].origin /\ mem' = mem
  BY <1>1, <1>2, LxiSpSets
<1>4. P'[p1].pc = 3 /\ 3 \in StackAt
  BY <1>3 DEF StackAt
<1> HIDE DEF w, s
<1>5. StackHolds(de, w, 3, P'[p1].sp, s)
  BY <1>3 DEF StackHolds
<1> QED BY <1>3, <1>4, <1>5, StackOn DEF w, s

\* A PUSH spares what comes after it.
LEMMA RestStays ==
  ASSUME NEW w \in Word, Clear(w), NEW i \in 1..4, NEW k \in Rest
  PROVE  k \in Word /\ Cell(k) # Cell(Down(w, i))
<1>1. k \in 0..31
  BY DEF Rest
<1>2. k \in Word /\ Cell(k) = k
  BY <1>1, InWord DEF Cell
<1> QED BY <1>2 DEF Clear

\* PUSH B.
LEMMA StackPushB ==
  ASSUME NEW sp \in Word, NEW de \in Word, Clear(Loads(sp)), StackInv(sp, de), Running(p1),
         PUSH(p1), P[p1].pc = 21
  PROVE  StackInv(sp, de)'
<1> DEFINE w == Loads(sp)
           r == P[p1].r
           prog == Stacker(sp, de)[p1]
<1>1. w \in Word /\ Clear(w)
  BY LoadsWord
<1>2. /\ StackHolds(de, w, 21, P[p1].sp, r) /\ Alone
      /\ \A k \in 0..31 : GetMemory(p1, k) = prog[k + 1]
  <2>1. StackHolds(de, w, 21, P[p1].sp, r) /\ Alone
    BY DEF StackInv
  <2>2. \A k \in 0..31 : GetMemory(p1, k) = prog[k + 1]
    <3>1. \A k \in (IF P[p1].pc <= 21 THEN 0..31 ELSE Rest) : GetMemory(p1, k) = prog[k + 1]
      BY DEF StackInv
    <3>2. (IF P[p1].pc <= 21 THEN 0..31 ELSE Rest) = 0..31
      OBVIOUS
    <3> HIDE DEF prog
    <3> QED BY <3>1, <3>2
  <2>3. 21 = 22 => /\ GetMemory(p1, Down(w, 1)) = Hi(Kept)
                   /\ GetMemory(p1, Down(w, 2)) = Lo(Kept)
    BY DEF StackInv
  <2> HIDE DEF prog, w
  <2> QED BY <2>1, <2>2, <2>3
<1>3. RP(p1) = 0
  <2>1. Opcode(p1) = 197
    BY StackCode
  <2> QED BY <2>1 DEF RP
<1> HIDE DEF w, prog
<1>4. P[p1].sp = w /\ r[0] = Hi(Kept) /\ r[1] = Lo(Kept) /\ r[2] = Hi(de) /\ r[3] = Lo(de)
  BY <1>2 DEF StackHolds
<1>5. Sp(p1, -1) = Down(w, 1) /\ Sp(p1, -2) = Down(w, 2)
  BY <1>1, <1>4, InWord DEF Sp, Down
<1>6. /\ P'[p1] \in Process /\ \A o \in Proc : o # p1 => P'[o] = P[o]
      /\ P'[p1].pc = (P[p1].pc + 1) % 65536 /\ P'[p1].sp = Down(w, 2) /\ P'[p1].r = r
      /\ P'[p1].origin = P[p1].origin
      /\ \A k \in Word : GetMemory(p1, k)' =
           IF Cell(k) = Cell(Down(w, 1)) THEN Hi(Kept)
           ELSE IF Cell(k) = Cell(Down(w, 2)) THEN Lo(Kept) ELSE GetMemory(p1, k)
  <2> DEFINE i == 0
  <2>1. i \in 0..2 /\ RP(p1) = i /\ 2 * i = 0 /\ 2 * i + 1 = 1
    BY <1>3
  <2> HIDE DEF i
  <2>2. /\ P'[p1] \in Process /\ \A o \in Proc : o # p1 => P'[o] = P[o]
        /\ P'[p1].pc = (P[p1].pc + 1) % 65536 /\ P'[p1].sp = Sp(p1, -2) /\ P'[p1].r = r
        /\ P'[p1].origin = P[p1].origin
        /\ \A k \in Word : GetMemory(p1, k)' =
             IF Cell(k) = Cell(Sp(p1, -1)) THEN r[2 * i]
             ELSE IF Cell(k) = Cell(Sp(p1, -2)) THEN r[2 * i + 1]
             ELSE GetMemory(p1, k)
    BY <2>1, PushSets
  <2> QED BY <1>4, <1>5, <2>1, <2>2
<1>7. Alone' /\ P'[p1].pc = 22 /\ 22 \in StackAt
  BY <1>2, <1>6, AloneGoes DEF StackAt
<1>8. StackHolds(de, w, 22, P'[p1].sp, P'[p1].r)
  BY <1>4, <1>6 DEF StackHolds
<1>9. \A k \in Rest : GetMemory(p1, k)' = prog[k + 1]
  <2>1. TAKE k \in Rest
  <2>2. k \in Word /\ Cell(k) # Cell(Down(w, 1)) /\ Cell(k) # Cell(Down(w, 2))
    BY <1>1, RestStays
  <2>3. k \in 0..31
    BY DEF Rest
  <2> QED BY <1>2, <1>6, <2>2, <2>3
<1>10. GetMemory(p1, Down(w, 1))' = Hi(Kept) /\ GetMemory(p1, Down(w, 2))' = Lo(Kept)
  <2>1. \A i \in 1..4 : Down(w, i) \in Word
    BY <1>1, DownWord
  <2>2. \A i, j \in 1..4 : i # j => Cell(Down(w, i)) # Cell(Down(w, j))
    BY <1>1, CellsApart
  <2> QED BY <1>2, <1>6, <2>1, <2>2
<1>11. \A k \in (IF P'[p1].pc <= 21 THEN 0..31 ELSE Rest) : GetMemory(p1, k)' = prog[k + 1]
  BY <1>7, <1>9
<1> QED BY <1>7, <1>8, <1>10, <1>11 DEF StackInv, w, prog

\* PUSH D, under it.
LEMMA StackPushD ==
  ASSUME NEW sp \in Word, NEW de \in Word, Clear(Loads(sp)), StackInv(sp, de), Running(p1),
         PUSH(p1), P[p1].pc = 22
  PROVE  StackInv(sp, de)'
<1> DEFINE w == Loads(sp)
           r == P[p1].r
           prog == Stacker(sp, de)[p1]
<1>1. w \in Word /\ Clear(w)
  BY LoadsWord
<1>2. /\ StackHolds(de, w, 22, P[p1].sp, r) /\ Alone
      /\ \A k \in Rest : GetMemory(p1, k) = prog[k + 1]
      /\ GetMemory(p1, Down(w, 1)) = Hi(Kept) /\ GetMemory(p1, Down(w, 2)) = Lo(Kept)
  <2>1. StackHolds(de, w, 22, P[p1].sp, r) /\ Alone
    BY DEF StackInv
  <2>2. \A k \in Rest : GetMemory(p1, k) = prog[k + 1]
    <3>1. \A k \in (IF P[p1].pc <= 21 THEN 0..31 ELSE Rest) : GetMemory(p1, k) = prog[k + 1]
      BY DEF StackInv
    <3>2. (IF P[p1].pc <= 21 THEN 0..31 ELSE Rest) = Rest
      OBVIOUS
    <3> HIDE DEF prog
    <3> QED BY <3>1, <3>2
  <2>3. 22 = 22 => /\ GetMemory(p1, Down(w, 1)) = Hi(Kept)
                   /\ GetMemory(p1, Down(w, 2)) = Lo(Kept)
    BY DEF StackInv
  <2> HIDE DEF prog, w
  <2> QED BY <2>1, <2>2, <2>3
<1>3. RP(p1) = 1
  <2>1. Opcode(p1) = 213
    BY StackCode
  <2> QED BY <2>1 DEF RP
<1> HIDE DEF w, prog
<1>4. P[p1].sp = Down(w, 2) /\ r[0] = Hi(Kept) /\ r[1] = Lo(Kept) /\ r[2] = Hi(de) /\ r[3] = Lo(de)
  BY <1>2 DEF StackHolds
<1>5. Sp(p1, -1) = Down(w, 3) /\ Sp(p1, -2) = Down(w, 4)
  BY <1>1, <1>4, DownWord DEF Sp
<1>6. /\ P'[p1] \in Process /\ \A o \in Proc : o # p1 => P'[o] = P[o]
      /\ P'[p1].pc = (P[p1].pc + 1) % 65536 /\ P'[p1].sp = Down(w, 4) /\ P'[p1].r = r
      /\ P'[p1].origin = P[p1].origin
      /\ \A k \in Word : GetMemory(p1, k)' =
           IF Cell(k) = Cell(Down(w, 3)) THEN Hi(de)
           ELSE IF Cell(k) = Cell(Down(w, 4)) THEN Lo(de) ELSE GetMemory(p1, k)
  <2> DEFINE i == 1
  <2>1. i \in 0..2 /\ RP(p1) = i /\ 2 * i = 2 /\ 2 * i + 1 = 3
    BY <1>3
  <2> HIDE DEF i
  <2>2. /\ P'[p1] \in Process /\ \A o \in Proc : o # p1 => P'[o] = P[o]
        /\ P'[p1].pc = (P[p1].pc + 1) % 65536 /\ P'[p1].sp = Sp(p1, -2) /\ P'[p1].r = r
        /\ P'[p1].origin = P[p1].origin
        /\ \A k \in Word : GetMemory(p1, k)' =
             IF Cell(k) = Cell(Sp(p1, -1)) THEN r[2 * i]
             ELSE IF Cell(k) = Cell(Sp(p1, -2)) THEN r[2 * i + 1]
             ELSE GetMemory(p1, k)
    BY <2>1, PushSets
  <2> QED BY <1>4, <1>5, <2>1, <2>2
<1>7. Alone' /\ P'[p1].pc = 23 /\ 23 \in StackAt
  BY <1>2, <1>6, AloneGoes DEF StackAt
<1>8. StackHolds(de, w, 23, P'[p1].sp, P'[p1].r)
  BY <1>4, <1>6 DEF StackHolds
<1>9. \A k \in Rest : GetMemory(p1, k)' = prog[k + 1]
  <2>1. TAKE k \in Rest
  <2>2. k \in Word /\ Cell(k) # Cell(Down(w, 3)) /\ Cell(k) # Cell(Down(w, 4))
    BY <1>1, RestStays
  <2>3. k \in 0..31
    BY DEF Rest
  <2> QED BY <1>2, <1>6, <2>2, <2>3
<1>10. /\ GetMemory(p1, Down(w, 1))' = Hi(Kept) /\ GetMemory(p1, Down(w, 2))' = Lo(Kept)
       /\ GetMemory(p1, Down(w, 3))' = Hi(de) /\ GetMemory(p1, Down(w, 4))' = Lo(de)
  <2>1. \A i \in 1..4 : Down(w, i) \in Word
    BY <1>1, DownWord
  <2>2. \A i, j \in 1..4 : i # j => Cell(Down(w, i)) # Cell(Down(w, j))
    BY <1>1, CellsApart
  <2> QED BY <1>2, <1>6, <2>1, <2>2
<1>11. \A k \in (IF P'[p1].pc <= 21 THEN 0..31 ELSE Rest) : GetMemory(p1, k)' = prog[k + 1]
  BY <1>7, <1>9
<1> QED BY <1>7, <1>8, <1>10, <1>11 DEF StackInv, w, prog

\* POP H takes what was pushed last.
LEMMA StackPopH ==
  ASSUME NEW sp \in Word, NEW de \in Word, StackInv(sp, de), Running(p1), POP(p1), P[p1].pc = 29
  PROVE  StackInv(sp, de)'
<1> DEFINE w == Loads(sp)
           r == P[p1].r
           s == P'[p1].r
<1>1. w \in Word
  BY LoadsWord
<1>2. /\ StackHolds(de, w, 29, P[p1].sp, r)
      /\ GetMemory(p1, Down(w, 3)) = Hi(de) /\ GetMemory(p1, Down(w, 4)) = Lo(de)
  BY DEF StackInv
<1>3. RP(p1) = 2
  <2>1. Opcode(p1) = 225
    BY StackCode
  <2> QED BY <2>1 DEF RP
<1> HIDE DEF w, s
<1>4. P[p1].sp = Down(w, 4) /\ r[2] = Hi(de) /\ r[3] = Lo(de)
  BY <1>2 DEF StackHolds, R_H, R_L
<1>5. Sp(p1, 2) = Down(w, 2) /\ Down(w, 3) = (P[p1].sp + 1) % 65536 /\ Down(w, 4) \in Word
  BY <1>1, <1>4, DownWord DEF Sp
<1>6. GetMemory(p1, P[p1].sp + 1) = Hi(de) /\ GetMemory(p1, P[p1].sp) = Lo(de)
  <2>1. P[p1].sp + 1 \in Nat
    BY <1>4, <1>5, InWord
  <2>2. GetMemory(p1, P[p1].sp + 1) = GetMemory(p1, Down(w, 3))
    BY <1>5, <2>1, Wraps
  <2> QED BY <1>2, <1>4, <2>2
<1>7. Hi(de) \in Byte /\ Lo(de) \in Byte
  BY Halves, InWord DEF Kept
<1>8. /\ P'[p1] \in Process /\ \A o \in Proc : o # p1 => P'[o] = P[o]
      /\ P'[p1].pc = (P[p1].pc + 1) % 65536 /\ P'[p1].sp = Down(w, 2)
      /\ s[4] = Hi(de) /\ s[5] = Lo(de)
      /\ \A j \in 0..7 : j # 4 /\ j # 5 => s[j] = r[j]
      /\ P'[p1].origin = P[p1].origin /\ mem' = mem
  <2> DEFINE i == 2
             x == Hi(de)
             y == Lo(de)
  <2>1. i \in 0..2 /\ RP(p1) = i /\ 2 * i = 4 /\ 2 * i + 1 = 5
    BY <1>3
  <2>2. x \in Byte /\ y \in Byte /\ GetMemory(p1, P[p1].sp + 1) = x /\ GetMemory(p1, P[p1].sp) = y
    BY <1>6, <1>7
  <2> HIDE DEF i, x, y
  <2>3. /\ P'[p1] \in Process /\ \A o \in Proc : o # p1 => P'[o] = P[o]
        /\ P'[p1].pc = (P[p1].pc + 1) % 65536 /\ P'[p1].sp = Sp(p1, 2)
        /\ P'[p1].r[2 * i] = x /\ P'[p1].r[2 * i + 1] = y
        /\ \A j \in 0..7 : j # 2 * i /\ j # 2 * i + 1 => P'[p1].r[j] = r[j]
        /\ P'[p1].origin = P[p1].origin /\ mem' = mem
    BY <2>1, <2>2, PopSets
  <2> QED BY <1>5, <2>1, <2>3 DEF s, x, y
<1>9. P'[p1].pc = 30 /\ 30 \in StackAt
  BY <1>8 DEF StackAt
<1>10. s[2] = Hi(de) /\ s[3] = Lo(de) /\ s[4] = Hi(de) /\ s[5] = Lo(de)
  BY <1>4, <1>8
<1>11. StackHolds(de, w, 30, P'[p1].sp, s)
  BY <1>8, <1>10 DEF StackHolds, R_H, R_L
<1> QED BY <1>8, <1>9, <1>11, StackOn DEF w, s

\* POP B takes what was pushed first.
LEMMA StackPopB ==
  ASSUME NEW sp \in Word, NEW de \in Word, StackInv(sp, de), Running(p1), POP(p1), P[p1].pc = 30
  PROVE  StackInv(sp, de)'
<1> DEFINE w == Loads(sp)
           r == P[p1].r
           s == P'[p1].r
<1>1. w \in Word
  BY LoadsWord
<1>2. /\ StackHolds(de, w, 30, P[p1].sp, r)
      /\ GetMemory(p1, Down(w, 1)) = Hi(Kept) /\ GetMemory(p1, Down(w, 2)) = Lo(Kept)
  BY DEF StackInv
<1>3. RP(p1) = 0
  <2>1. Opcode(p1) = 193
    BY StackCode
  <2> QED BY <2>1 DEF RP
<1> HIDE DEF w, s
<1>4. P[p1].sp = Down(w, 2) /\ r[2] = Hi(de) /\ r[3] = Lo(de) /\ r[4] = Hi(de) /\ r[5] = Lo(de)
  BY <1>2 DEF StackHolds, R_H, R_L
<1>5. Sp(p1, 2) = w /\ Down(w, 1) = (P[p1].sp + 1) % 65536 /\ Down(w, 2) \in Word
  BY <1>1, <1>4, DownWord DEF Sp
<1>6. GetMemory(p1, P[p1].sp + 1) = Hi(Kept) /\ GetMemory(p1, P[p1].sp) = Lo(Kept)
  <2>1. P[p1].sp + 1 \in Nat
    BY <1>4, <1>5, InWord
  <2>2. GetMemory(p1, P[p1].sp + 1) = GetMemory(p1, Down(w, 1))
    BY <1>5, <2>1, Wraps
  <2> QED BY <1>2, <1>4, <2>2
<1>7. Hi(Kept) \in Byte /\ Lo(Kept) \in Byte
  BY Halves, InWord DEF Kept
<1>8. /\ P'[p1] \in Process /\ \A o \in Proc : o # p1 => P'[o] = P[o]
      /\ P'[p1].pc = (P[p1].pc + 1) % 65536 /\ P'[p1].sp = w
      /\ s[0] = Hi(Kept) /\ s[1] = Lo(Kept)
      /\ \A j \in 0..7 : j # 0 /\ j # 1 => s[j] = r[j]
      /\ P'[p1].origin = P[p1].origin /\ mem' = mem
  <2> DEFINE i == 0
             x == Hi(Kept)
             y == Lo(Kept)
  <2>1. i \in 0..2 /\ RP(p1) = i /\ 2 * i = 0 /\ 2 * i + 1 = 1
    BY <1>3
  <2>2. x \in Byte /\ y \in Byte /\ GetMemory(p1, P[p1].sp + 1) = x /\ GetMemory(p1, P[p1].sp) = y
    BY <1>6, <1>7
  <2> HIDE DEF i, x, y
  <2>3. /\ P'[p1] \in Process /\ \A o \in Proc : o # p1 => P'[o] = P[o]
        /\ P'[p1].pc = (P[p1].pc + 1) % 65536 /\ P'[p1].sp = Sp(p1, 2)
        /\ P'[p1].r[2 * i] = x /\ P'[p1].r[2 * i + 1] = y
        /\ \A j \in 0..7 : j # 2 * i /\ j # 2 * i + 1 => P'[p1].r[j] = r[j]
        /\ P'[p1].origin = P[p1].origin /\ mem' = mem
    BY <2>1, <2>2, PopSets
  <2> QED BY <1>5, <2>1, <2>3 DEF s, x, y
<1>9. P'[p1].pc = 31 /\ 31 \in StackAt
  BY <1>8 DEF StackAt
<1>10. s[2] = Hi(de) /\ s[3] = Lo(de) /\ s[4] = Hi(de) /\ s[5] = Lo(de)
  BY <1>4, <1>8
<1>11. StackHolds(de, w, 31, P'[p1].sp, s)
  BY <1>8, <1>10 DEF StackHolds, R_H, R_L
<1> QED BY <1>8, <1>9, <1>11, StackOn DEF w, s

\* The end.
LEMMA StackHLT ==
  ASSUME NEW sp \in Word, NEW de \in Word, StackInv(sp, de), Running(p1), HLT(p1), P[p1].pc = 31
  PROVE  StackInv(sp, de)'
<1> DEFINE w == Loads(sp)
<1>1. StackHolds(de, w, 31, P[p1].sp, P[p1].r)
  BY DEF StackInv
<1>2. /\ P'[p1] \in Process /\ \A o \in Proc : o # p1 => P'[o] = P[o]
      /\ P'[p1].pc = (P[p1].pc + 0) % 65536 /\ P'[p1].sp = P[p1].sp
      /\ P'[p1].origin = P[p1].origin /\ mem' = mem /\ P'[p1].r = P[p1].r
  BY HltSets DEF Onward
<1>3. P'[p1].pc = 31 /\ 31 \in StackAt
  BY <1>2 DEF StackAt
<1>4. StackHolds(de, w, 31, P'[p1].sp, P'[p1].r)
  BY <1>1, <1>2
<1> QED BY <1>2, <1>3, <1>4, StackOn

\* Every step of the program.
LEMMA StackStep ==
  ASSUME NEW sp \in Word, NEW de \in Word, Clear(Loads(sp)), TypeOK, StackInv(sp, de), [Next]_vars
  PROVE  StackInv(sp, de)'
<1>1. CASE UNCHANGED <<P, mem>>
  <2>1. \A a : GetMemory(p1, a)' = GetMemory(p1, a)
    BY <1>1 DEF GetMemory
  <2> QED BY <1>1, <2>1 DEF StackInv, Alone
<1>2. CASE Running(p1) /\ (Move(p1) \/ Compute(p1) \/ Control(p1))
  <2>1. P[p1].pc \in StackAt
    BY DEF StackInv
  <2>2. CASE P[p1].pc \in {3, 6, 9, 12, 15, 18, 23, 26}
    BY <1>2, <2>2, StackCode, Decoded, StackLoads
  <2>3. CASE P[p1].pc = 0
    BY <1>2, <2>3, StackCode, Decoded, StackLXI
  <2>4. CASE P[p1].pc = 21
    BY <1>2, <2>4, StackCode, Decoded, StackPushB
  <2>5. CASE P[p1].pc = 22
    BY <1>2, <2>5, StackCode, Decoded, StackPushD
  <2>6. CASE P[p1].pc = 29
    BY <1>2, <2>6, StackCode, Decoded, StackPopH
  <2>7. CASE P[p1].pc = 30
    BY <1>2, <2>7, StackCode, Decoded, StackPopB
  <2>8. CASE P[p1].pc = 31
    BY <1>2, <2>8, StackCode, Decoded, StackHLT
  <2> QED BY <2>1, <2>2, <2>3, <2>4, <2>5, <2>6, <2>7, <2>8 DEF StackAt
<1> QED BY <1>1, <1>2, AloneWaits DEF StackInv

(***************************************************************************)
(* Two words pushed come back in the opposite order and the stack pointer  *)
(* to where it was, whatever the words and wherever the stack is, if it    *)
(* spares the code still to be executed and the operand of LXI: around the *)
(* ends of memory too, where the first page stands in for the last.        *)
(***************************************************************************)
THEOREM StackRestoresAlways ==
  ASSUME NEW sp \in Word, NEW de \in Word, Clear(Loads(sp)), Origin = {p1}
  PROVE  Spec /\ mem[p1] = Loaded(Stacker(sp, de)[p1]) => []StackRestores
<1>1. Init /\ mem[p1] = Loaded(Stacker(sp, de)[p1]) => TypeOK /\ StackInv(sp, de)
  <2>1. SUFFICES ASSUME Init, mem[p1] = Loaded(Stacker(sp, de)[p1]) PROVE StackInv(sp, de)
    BY InitType
  <2>2. PICK prog : /\ prog = Stacker(sp, de)[p1] /\ prog \in Seq(Byte) /\ Len(prog) = 32
                    /\ Stacker(sp, de) = For(prog)
    BY StackBytes DEF StackIs
  <2>3. mem = [o \in Origin |-> Loaded(For(prog)[o])]
    <3>1. PICK f \in Programs : mem = [o \in Origin |-> Loaded(f[o])]
      BY <2>1 DEF Init
    <3> QED BY <2>1, <2>2, <3>1
  <2>4. Alone /\ P[p1] = Created(p1) /\ mem[p1] = Loaded(prog)
    BY <2>1, <2>2, <2>3, AloneInit
  <2>5. P[p1].pc = 0 /\ P[p1].origin = p1
    BY <2>4 DEF Created
  <2>6. \A k \in 0..31 : GetMemory(p1, k) = Stacker(sp, de)[p1][k + 1]
    <3>1. TAKE k \in 0..31
    <3>2. k \in Nat /\ k < 57344
      OBVIOUS
    <3>3. mem[P[p1].origin] = Loaded(prog)
      BY <2>4, <2>5
    <3>4. prog \in Seq(Byte)
      BY <2>2
    <3>5. GetMemory(p1, k) = IF k < Len(prog) THEN prog[k + 1] ELSE 0
      BY <3>2, <3>3, <3>4, LoadedReads
    <3>6. k < 32 /\ Len(prog) = 32
      BY <2>2
    <3>7. GetMemory(p1, k) = prog[k + 1]
      BY <3>5, <3>6
    <3> QED BY <2>2, <3>7
  <2>7. StackHolds(de, Loads(sp), 0, P[p1].sp, P[p1].r) /\ 0 \in StackAt
    BY DEF StackHolds, StackAt
  <2> QED BY <2>4, <2>5, <2>6, <2>7 DEF StackInv
<1>2. TypeOK /\ StackInv(sp, de) /\ [Next]_vars => TypeOK' /\ StackInv(sp, de)'
  BY NextType, StackStep
<1>3. StackInv(sp, de) => StackRestores
  <2>1. SUFFICES ASSUME StackInv(sp, de), EndsAt(31)
                 PROVE  /\ HL(p1) = Pair(P[p1], 1) /\ Pair(P[p1], 0) = Kept
                        /\ P[p1].sp = GetMemoryShort(p1, 1)
    BY DEF StackRestores
  <2> DEFINE r == P[p1].r
             w == Loads(sp)
  <2>2. StackHolds(de, w, 31, P[p1].sp, r)
    BY <2>1 DEF StackInv, EndsAt
  <2>3. /\ P[p1].sp = w /\ r[0] = Hi(Kept) /\ r[1] = Lo(Kept)
        /\ r[2] = Hi(de) /\ r[3] = Lo(de) /\ r[4] = Hi(de) /\ r[5] = Lo(de)
    BY <2>2 DEF StackHolds, R_H, R_L
  <2>4. /\ HL(p1) = 256 * r[4] + r[5] /\ Pair(P[p1], 1) = 256 * r[2] + r[3]
        /\ Pair(P[p1], 0) = 256 * r[0] + r[1]
    BY DEF HL, Pair
  <2>5. Kept = 256 * Hi(Kept) + Lo(Kept)
    BY InWord DEF Kept, Hi, Lo
  <2>6. GetMemoryShort(p1, 1) = w
    BY <2>1, StackCode
  <2> QED BY <2>3, <2>4, <2>5, <2>6
<1> QED BY <1>1, <1>2, <1>3, PTL DEF Spec
=============================================================================
