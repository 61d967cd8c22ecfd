--------------------------------- MODULE Cpu ---------------------------------
(***************************************************************************)
(* One process's program, from its assembler source                        *)
(* (services/process/assembler.rs) through the bytes exec loads, the       *)
(* fetch, decode and execute cycle (hardware/cpu.rs) and the address       *)
(* translation under it (hardware/mmu.rs, hardware/memory.rs), to the page *)
(* faults the timer interrupt of the process service passes on to the      *)
(* memory service.                                                         *)
(*                                                                         *)
(* Memory is counted in words of four bytes, of which an access reads or   *)
(* writes one byte; an instruction is two words, a header <<opcode, dst,   *)
(* src_type>> and a value <<n>>.  Which byte stands for which opcode is    *)
(* left out, so a header reads as any byte but 0 and data that is executed *)
(* may be any instruction.  The integers u64, u32 and u8 are those below   *)
(* U64, U32 and U8.  Of the flags only zero is ever read.                  *)
(***************************************************************************)
EXTENDS Integers, Sequences, FiniteSets

CONSTANTS
    Sources,      \* programs: sequences of Line(...) and of Junk
    Stray,        \* what data may decode to when it is executed
    NRegs,        \* registers: 0 .. NRegs - 1
    PageWords, NPages,
    U64, U32, U8, \* one more than the largest integer of each width
    Vector,       \* InterruptVector::Syscall
    ArgWord,      \* 0x100: the first argument of the program
    BufWord,      \* 0x200: the second, and what the file and device calls read
    Texts,        \* arguments and what is read, as words; <<>> is none
    Results,      \* descriptors, semaphore and lock ids, device handles
    OldPages      \* frames as their last owners left them

ASSUME CpuAssumption ==
    /\ NRegs \in Nat /\ NRegs >= 3 /\ PageWords \in Nat \ {0} /\ NPages \in Nat \ {0}
    /\ U8 \in Nat \ {0, 1} /\ U32 \in Nat \ {0} /\ U64 \in Nat \ {0}
    /\ NRegs <= U8 /\ U8 <= U32 /\ U32 <= U64 /\ Vector \in 0 .. U8 - 1
    /\ U32 % U8 = 0 /\ ArgWord \in Nat /\ BufWord \in Nat

VARIABLES
    source,   \* the program the process executes
    cpu,      \* registers, pc, flags.zero, halted, syscall_pending, current_pid
    space,    \* MMU: the words of each page, <<>> when it is not present
    evicted,  \* pages the memory service has swapped out
    fault,    \* pagefault_pending and the page missed, see NoFault
    intact    \* history: no page fault answered, no page unmapped, no instruction overwritten yet

cpuVars == <<source, cpu, space, evicted, fault, intact>>

Regs      == 0 .. NRegs - 1
PageSpace == 0 .. NPages - 1

NoFault == [at |-> "none", page |-> -1]

------------------------------------------------------------------------------
(* The assembler.                                                            *)

Arithmetic == {"MOV", "ADD", "SUB", "MUL", "DIV", "CMP"}
Memory     == {"LOAD", "STORE"}
Jumps      == {"JMP", "JZ", "JNZ"}
Mnemonics  == Arithmetic \cup Memory \cup Jumps \cup {"INT", "HALT"}

Line(op, dst, type, value) == [op |-> op, dst |-> dst, type |-> type, value |-> value]

InstructionType ==
    [op : Mnemonics \cup {""}, dst : Nat, type : {"reg", "imm"}, value : Nat]

ASSUME SourcesAssumption ==
    /\ Sources \subseteq Seq(InstructionType)
    /\ Stray \subseteq {i \in InstructionType : i.value < U32}

\* A word of memory: a header, or four bytes of anything else.
Words == {<<n>> : n \in 0 .. U32 - 1} \cup ((Mnemonics \cup {""}) \X Nat \X {"reg", "imm"})

ASSUME DataAssumption ==
    /\ \A t \in Texts : t \in Seq(0 .. U32 - 1) /\ 4 * Len(t) < U64
    /\ Results \subseteq 0 .. U64 - 1
    /\ OldPages \subseteq [0 .. PageWords - 1 -> Words]

\* A comment, a blank line, or a line parse_line gives up on: all are skipped.
Junk == Line("", 0, "imm", 0)

\* parse_line: no unknown mnemonic, no unknown register.
Parses(l) ==
    /\ l.op \in Mnemonics
    /\ l.op \in Arithmetic \cup Memory =>
         l.dst \in Regs /\ (l.type = "reg" => l.value \in Regs)

\* assemble keeps these lines, in order: the k-th has k of them up to itself.
Accepted(s)  == {i \in DOMAIN s : Parses(s[i])}
Upto(s, i)   == Cardinality(Accepted(s) \cap 1 .. i)
Lines(s)     == [k \in 1 .. Upto(s, Len(s)) |-> s[CHOOSE i \in Accepted(s) : Upto(s, i) = k]]

\* encode: the value is cut to 32 bits.
Encode(l) == <<<<l.op, l.dst, l.type>>, <<l.value % U32>>>>

\* assemble: the instructions one after the other; no instruction at all is an error.
Assembles(s) == Lines(s) # <<>>

CodeWords(s) == 0 .. 2 * Len(Lines(s)) - 1

Assemble(s) ==
    LET lines == Lines(s)
    IN  [w \in CodeWords(s) |-> Encode(lines[w \div 2 + 1])[(w % 2) + 1]]

\* write_slice_virt, and the loops over write_u8 of the calls that read: a text goes
\* to one address after the other, and what falls on an absent page is lost.
Span(from, t) == from .. from + Len(t) - 1

Filled(sp, from, t) ==
    [v \in PageSpace |->
       IF sp[v] = <<>> THEN <<>>
       ELSE [w \in 0 .. PageWords - 1 |->
               IF v * PageWords + w \in Span(from, t) THEN <<t[(v * PageWords + w) - from + 1]>>
               ELSE sp[v][w]]]

\* A text that goes to words of the program overwrites instructions.
Spares(s, from, t) == Span(from, t) \cap CodeWords(s) = {}

\* exec_impl maps as many frames as the code needs, as their last owners left them, and
\* writes the code from address 0.
Code(s, old) ==
    LET code == Assemble(s)
        size == 2 * Len(Lines(s))
    IN  [v \in PageSpace |->
           IF v * PageWords >= size THEN <<>>
           ELSE [w \in 0 .. PageWords - 1 |->
                   IF v * PageWords + w < size THEN code[v * PageWords + w] ELSE old[v][w]]]

\* ... and then the arguments, into the code where the program is that long.
Loaded(s, old, arg0, arg1) == Filled(Filled(Code(s, old), ArgWord, arg0), BufWord, arg1)

\* VirtualCPU::new.
NewCpu(p) == [regs |-> [r \in Regs |-> 0], pc |-> 0, zero |-> FALSE, halted |-> FALSE,
              trap |-> FALSE, pid |-> p]

\* An exec of a new process (2) or of init (1), whose pages were mapped in time.
CpuInit ==
    /\ source \in {s \in Sources : Assembles(s)}
    /\ \E p \in {1, 2} : cpu = NewCpu(p)
    /\ \E old \in [PageSpace -> OldPages], arg0, arg1 \in Texts :
         /\ space = Loaded(source, old, arg0, arg1)
         /\ intact = (Spares(source, ArgWord, arg0) /\ Spares(source, BufWord, arg1))
    /\ evicted = {}
    /\ fault = NoFault

------------------------------------------------------------------------------
(* The MMU: translate splits an address into its page and the offset.        *)

PageOf(a)   == a \div PageWords
Present(a)  == PageOf(a) \in PageSpace /\ space[PageOf(a)] # <<>>
WordAt(a)   == space[PageOf(a)][a % PageWords]

\* write_u8: of a header it changes the opcode, of a value its lowest byte.
Stored(w, n)  == IF Len(w) = 1 THEN <<w[1] - (w[1] % U8) + n>> ELSE <<n>>
Written(a, n) == [space EXCEPT ![PageOf(a)][a % PageWords] = Stored(@, n)]

------------------------------------------------------------------------------
(* The CPU.  fetch_instruction reads header and value and advances the pc;   *)
(* decoding refuses an unknown opcode (0 is none) and a register out of      *)
(* range.                                                                    *)

Fetchable(pc) == Present(pc) /\ Present(pc + 1)

Fetches(pc) ==
    LET h == WordAt(pc)
        n == WordAt(pc + 1)
    IN  IF Len(h) = 3 /\ Len(n) = 1 THEN {Line(h[1], h[2], h[3], n[1])}
        ELSE IF h = <<0>> THEN {Junk} ELSE Stray

Decodes(i) == Parses(i)

Advanced(c) == [c EXCEPT !.pc = @ + 2]

\* read_operand.
Operand(c, i) == IF i.type = "reg" THEN c.regs[i.value] ELSE i.value

\* Mutant of Faulted: the pc stays where the fetch moved it.
FaultedAdvanced(c) == Advanced(c)

\* step after a page fault of the fetch or of the execution: the pc is set back.
Faulted(c) == c

Result(op, a, b) ==
    CASE op = "MOV" -> b
      [] op = "ADD" -> (a + b) % U64
      [] op \in {"SUB", "CMP"} -> (a - b) % U64
      [] op = "MUL" -> (a * b) % U64
      [] op = "DIV" -> a \div b

\* CPUFlags::from_result.
IsZero(r) == r = 0

\* MOV writes a register, CMP the flags, the other arithmetic instructions both.
Computed(c, i) ==
    LET r == Result(i.op, c.regs[i.dst], Operand(c, i))
    IN  [c EXCEPT !.regs[i.dst] = IF i.op = "CMP" THEN @ ELSE r,
                  !.zero = IF i.op = "MOV" THEN @ ELSE IsZero(r)]

Jumped(c, i) ==
    IF i.op = "JMP" \/ (i.op = "JZ" /\ c.zero) \/ (i.op = "JNZ" /\ ~c.zero)
    THEN [c EXCEPT !.pc = i.value] ELSE c

\* handle_software_interrupt: any other vector is only reported.
Interrupted(c, i) == [c EXCEPT !.trap = i.value % U8 = Vector]

\* read_u8: the lowest byte of a value, or an opcode.
BytesAt(a) == IF Len(WordAt(a)) = 1 THEN {WordAt(a)[1] % U8} ELSE 1 .. U8 - 1

LoadedReg(c, i, x) == [c EXCEPT !.regs[i.dst] = x]

Divides(c, i) == i.op = "DIV" /\ Operand(c, i) = 0

\* What the timer interrupt may do with the CPU: its process is scheduled, and the
\* last system call and the last fault are dealt with.
Runs == ~cpu.halted /\ ~cpu.trap /\ fault.at # "pending"

Missed(a) ==
    /\ cpu' = Faulted(cpu)
    /\ fault' = [at |-> "pending", page |-> PageOf(a)]
    /\ UNCHANGED space

\* An error of step other than a page fault makes the timer interrupt halt the CPU,
\* with the pc behind the instruction; init's only leaves this tick.
Stops == /\ cpu' = [Advanced(cpu) EXCEPT !.halted = (cpu.pid # 1)]
         /\ fault' = NoFault
         /\ UNCHANGED space

Completes(c) == cpu' = c /\ fault' = NoFault

\* VirtualCPU::step, one action for each way it ends.
FetchMisses ==
    /\ Runs /\ ~Fetchable(cpu.pc)
    /\ Missed(IF Present(cpu.pc) THEN cpu.pc + 1 ELSE cpu.pc)
    /\ UNCHANGED <<source, evicted, intact>>

StepFails ==
    /\ Runs /\ Fetchable(cpu.pc)
    /\ \E i \in Fetches(cpu.pc) : ~Decodes(i) \/ Divides(cpu, i)
    /\ Stops
    /\ UNCHANGED <<source, evicted, intact>>

\* What an instruction other than LOAD and STORE makes of the CPU.
Executed(c, i) ==
    CASE i.op \in Arithmetic -> Computed(c, i)
      [] i.op \in Jumps -> Jumped(c, i)
      [] i.op = "INT" -> Interrupted(c, i)
      [] i.op = "HALT" -> [c EXCEPT !.halted = TRUE]

StepComputes ==
    /\ Runs /\ Fetchable(cpu.pc)
    /\ \E i \in Fetches(cpu.pc) :
         /\ Decodes(i) /\ i.op \notin Memory /\ ~Divides(cpu, i)
         /\ Completes(Executed(Advanced(cpu), i))
    /\ UNCHANGED <<source, space, evicted, intact>>

Loads(i, a) ==
    /\ i.op = "LOAD" /\ Present(a)
    /\ \E x \in BytesAt(a) : Completes(LoadedReg(Advanced(cpu), i, x))
    /\ UNCHANGED <<space, intact>>

Stores(i, a) ==
    /\ i.op = "STORE" /\ Present(a)
    /\ Completes(Advanced(cpu))
    /\ space' = Written(a, cpu.regs[i.dst] % U8)
    /\ intact' = (intact /\ a \notin CodeWords(source))

StepAccesses ==
    /\ Runs /\ Fetchable(cpu.pc)
    /\ \E i \in Fetches(cpu.pc) :
         LET a == Operand(cpu, i)
         IN  /\ Decodes(i) /\ i.op \in Memory
             /\ \/ ~Present(a) /\ Missed(a) /\ UNCHANGED intact
                \/ Loads(i, a)
                \/ Stores(i, a)
    /\ UNCHANGED <<source, evicted>>

\* The timer interrupt finds the process of a halted CPU Ready or Running: a signal has
\* woken it, or it is init, which halts but is no zombie.  ProcessService.tla says which
\* processes are; here any halted CPU may go on.
Resumed ==
    /\ cpu.halted
    /\ cpu' = [cpu EXCEPT !.halted = FALSE]
    /\ UNCHANGED <<source, space, evicted, fault, intact>>

\* handle_file_syscall, by what a call leaves behind: nothing; register 0 cleared by a
\* fork that failed (one that succeeds, an exec and a release that wakes a waiter never
\* return, see MessageBus.tla); or an id in register 1.
CallReturns ==
    /\ \/ cpu' = [cpu EXCEPT !.trap = FALSE]
       \/ cpu' = [cpu EXCEPT !.trap = FALSE, !.regs[0] = 0]
       \/ \E n \in Results : cpu' = [cpu EXCEPT !.trap = FALSE, !.regs[1] = n]
    /\ UNCHANGED <<space, intact>>

\* read, listdir, tree and device_read: the text in the buffer, whole words long, and the
\* number of its bytes in register 2.
CallReads ==
    \E t \in Texts :
        /\ cpu' = [cpu EXCEPT !.trap = FALSE, !.regs[2] = 4 * Len(t)]
        /\ space' = Filled(space, BufWord, t)
        /\ intact' = (intact /\ Spares(source, BufWord, t))

\* exit, a wait that blocks, and a call that panics.
CallHalts ==
    /\ cpu' = [cpu EXCEPT !.trap = FALSE, !.halted = TRUE]
    /\ UNCHANGED <<space, intact>>

Syscall ==
    /\ cpu.trap
    /\ CallReturns \/ CallReads \/ CallHalts
    /\ UNCHANGED <<source, evicted, fault>>

\* The timer interrupt has PageFaultHandler serve the page of the pc, whatever page
\* was missed; the memory service maps a frame there, as its last owner left it.
FaultAnswered ==
    /\ fault.at = "pending"
    /\ PageOf(cpu.pc) \in PageSpace \ evicted
    /\ \E s \in OldPages : space' = [space EXCEPT ![PageOf(cpu.pc)] = s]
    /\ fault' = [fault EXCEPT !.at = "answered"]
    /\ intact' = FALSE
    /\ UNCHANGED <<source, cpu, evicted>>

\* No answer within 200 ms, or an error (no frame; a page swapped out, which stops the
\* memory service): the instruction is tried again.
FaultUnanswered ==
    /\ fault.at = "pending"
    /\ fault' = NoFault
    /\ UNCHANGED <<source, cpu, space, evicted, intact>>

\* A fault of another process swaps this page out.
Evict(v) ==
    /\ space[v] # <<>>
    /\ space' = [space EXCEPT ![v] = <<>>]
    /\ evicted' = evicted \cup {v}
    /\ UNCHANGED <<source, cpu, fault, intact>>

\* A MapPage request, such as Spawn's for the page two processes share.
MapShared(v) ==
    /\ space[v] = <<>> /\ v \notin evicted
    /\ \E s \in OldPages : space' = [space EXCEPT ![v] = s]
    /\ UNCHANGED <<source, cpu, evicted, fault, intact>>

\* UnmapPage, of an exec call that got no frames for the program it was to load.
Unmap(v) ==
    /\ space[v] # <<>>
    /\ space' = [space EXCEPT ![v] = <<>>]
    /\ intact' = FALSE
    /\ UNCHANGED <<source, cpu, evicted, fault>>

CpuNext ==
    \/ FetchMisses \/ StepFails \/ StepComputes \/ StepAccesses
    \/ Syscall \/ Resumed \/ FaultAnswered \/ FaultUnanswered
    \/ \E v \in PageSpace : Evict(v) \/ MapShared(v) \/ Unmap(v)

CpuSpec == CpuInit /\ [][CpuNext]_cpuVars

------------------------------------------------------------------------------
(* What a source line means, without bytes, pages or faults.                 *)

LineNo == cpu.pc \div 2 + 1

\* The registers, the zero flag, memory and the place in the program after one line.
Meaning(l) ==
    LET v == l.value % U32
        b == IF l.type = "reg" THEN cpu.regs[l.value] ELSE v
        a == IF l.op \in Arithmetic THEN cpu.regs[l.dst] ELSE 0
        r == CASE l.op = "MOV" -> b
               [] l.op = "ADD" -> IF a + b < U64 THEN a + b ELSE a + b - U64
               [] l.op \in {"SUB", "CMP"} -> IF a >= b THEN a - b ELSE U64 + a - b
               [] l.op = "MUL" -> (a * b) % U64
               [] l.op = "DIV" -> IF b = 0 THEN a ELSE a \div b
               [] OTHER -> 0
        taken == l.op = "JMP" \/ (l.op = "JZ" /\ cpu.zero) \/ (l.op = "JNZ" /\ ~cpu.zero)
        divides == l.op = "DIV" /\ b = 0
    IN  /\ l.op \in Memory => Present(b)
        /\ LineNo' = IF taken THEN v \div 2 + 1 ELSE LineNo + 1
        /\ IF l.op = "LOAD" THEN \E x \in BytesAt(b) : cpu.regs' = [cpu.regs EXCEPT ![l.dst] = x]
           ELSE cpu.regs' = IF l.op \in Arithmetic \ {"CMP"} THEN [cpu.regs EXCEPT ![l.dst] = r]
                            ELSE cpu.regs
        /\ cpu.zero' = IF l.op \in Arithmetic \ {"MOV"} /\ ~divides THEN r = 0 ELSE cpu.zero
        /\ space' = IF l.op = "STORE" THEN Written(b, cpu.regs[l.dst] % U8) ELSE space
        /\ cpu.halted' = (l.op = "HALT" \/ (divides /\ cpu.pid # 1))
        /\ cpu.trap' = (l.op = "INT" /\ v % U8 = Vector)

(* As long as no page fault has been answered, no page unmapped and nothing   *)
(* written over an instruction, the CPU executes the source: every step that  *)
(* changes registers, flags or pc is one whole line of the program with its   *)
(* whole effect, whatever pages are taken away, however often the line was    *)
(* tried in vain and wherever the process was halted in between (assemble,    *)
(* fetch_instruction, execute_instruction, the pc set back by step, the resume*)
(* in the timer interrupt); where memory is 0 it can only fail, and a CPU that*)
(* goes on does so where it stopped.  A STORE, an argument of exec and a text *)
(* that a call reads may each overwrite instructions (the last two do when    *)
(* the program is longer than 32 or 64 instructions) and end the promise.     *)
(* Nothing is said of a jump into the middle of an instruction, and only a    *)
(* system call may change registers as well.                                  *)
ExecutionMatchesSource ==
    [][intact /\ cpu' # cpu /\ ~cpu.trap =>
         IF cpu.halted THEN cpu' = [cpu EXCEPT !.halted = FALSE]
         ELSE cpu.pc % 2 = 0 =>
           IF LineNo \in DOMAIN Lines(source) THEN Meaning(Lines(source)[LineNo])
           ELSE (WordAt(cpu.pc) = <<0>> =>
                   cpu'.regs = cpu.regs /\ cpu'.halted = (cpu.pid # 1))]_cpuVars

(* Once a page fault is answered, the page that was missed is there and the   *)
(* instruction can be tried again.                                            *)
AnsweredFaultIsMapped == fault.at = "answered" => space[fault.page] # <<>>
==============================================================================
