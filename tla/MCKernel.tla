------------------------------ MODULE MCKernel ------------------------------
(***************************************************************************)
(* The parts of the kernel that work on state of their own, for TLC: each  *)
(* behaviour is one of `focus`, chosen at the start, and the other parts   *)
(* stay as they begin.                                                     *)
(***************************************************************************)
EXTENDS Timer, MessageBus, PageTables, Ipc, SyncPrimitives, Pcb, Devices, Cpu

VARIABLE focus

Parts == {"timer", "bus", "tables", "ipc", "sync", "lock", "pcb", "devices", "ports", "cpu"}

\* A loop over data in the code page, with a skipped line and an immediate beyond u32;
\* a load from another page, a system call and a division; a jump out of the program;
\* a program that reads its code, overwrites an instruction and executes its data; one
\* that ends where its argument begins; a source without instructions.
MCSources ==
  {<<Line("MOV", 0, "imm", 3), Junk, Line("SUB", 0, "imm", 41), Line("STORE", 0, "imm", 14),
     Line("CMP", 0, "imm", 0), Line("JNZ", 0, "imm", 2), Line("HALT", 0, "imm", 0)>>,
   <<Line("LOAD", 1, "imm", 12), Line("ADD", 1, "reg", 0), Line("INT", 0, "imm", 3),
     Line("DIV", 0, "reg", 1), Line("JMP", 0, "imm", 0)>>,
   <<Line("INT", 0, "imm", 1), Line("MUL", 1, "reg", 0), Line("MOV", 5, "imm", 1),
     Line("JZ", 0, "imm", 6), Line("JMP", 0, "imm", 14)>>,
   <<Line("LOAD", 1, "imm", 2), Line("STORE", 1, "imm", 14), Line("STORE", 1, "imm", 3),
     Line("MOV", 1, "imm", 5), Line("JMP", 0, "imm", 14)>>,
   <<Line("LOAD", 2, "imm", 4), Line("INT", 0, "imm", 3)>>,
   <<Junk>>}

\* The lines by rank are those a loop over the source selects.
ASSUME LinesAreSelected == \A s \in Sources : Lines(s) = SelectSeq(s, Parses)

\* Data that is executed: nothing, or a way back into the program.
MCStray == {Junk, Line("JMP", 0, "imm", 2)}

\* No text and one of two words; a frame of zeros and one that held a program.
MCTexts    == {<<>>, <<5, 0>>}
MCOldPages == {[w \in 0 .. PageWords - 1 |-> <<0>>],
               [w \in 0 .. PageWords - 1 |-> IF w % 2 = 0 THEN <<"MOV", 1, "imm">> ELSE <<1>>]}

KernelInit ==
    /\ focus \in Parts
    /\ TimerInit /\ BusInit /\ TablesInit /\ IpcInit /\ PcbInit /\ DevInit
    /\ focus = "sync" \/ sem = NewSemaphore(1, U32Max)
    /\ focus = "lock" \/ lock = NewMutex(FALSE)
    /\ SyncInit
    /\ \/ focus = "cpu"
       \/ /\ source = CHOOSE s \in Sources : Assembles(s)
          /\ cpu = NewCpu(2)
          /\ space = Code(source, [v \in PageSpace |-> CHOOSE o \in OldPages : TRUE])
    /\ CpuInit

\* One part takes a step, all others stay.
Others(part) ==
    /\ UNCHANGED focus
    /\ part # "timer" => UNCHANGED timerVars
    /\ part # "bus" => UNCHANGED busVars
    /\ part # "tables" => UNCHANGED tableVars
    /\ part # "ipc" => UNCHANGED ipcVars
    /\ part \notin {"sync", "lock"} => UNCHANGED syncVars
    /\ part # "pcb" => UNCHANGED pcbVars
    /\ part \notin {"devices", "ports"} => UNCHANGED devVars
    /\ part # "cpu" => UNCHANGED cpuVars

KernelNext ==
    \/ focus = "timer" /\ TimerNext /\ Others("timer")
    \/ focus = "bus" /\ BusNext /\ Others("bus")
    \/ focus = "tables" /\ TablesNext /\ Others("tables")
    \/ focus = "ipc" /\ IpcNext /\ Others("ipc")
    \/ focus = "sync" /\ SemNext /\ Others("sync")
    \/ focus = "lock" /\ LockNext /\ Others("lock")
    \/ focus = "pcb" /\ PcbNext /\ Others("pcb")
    \/ focus = "devices" /\ DevNext /\ Others("devices")
    \/ focus = "ports" /\ PortNext /\ Others("ports")
    \/ focus = "cpu" /\ CpuNext /\ Others("cpu")

kernelVars == <<focus, timerVars, busVars, tableVars, ipcVars, syncVars, pcbVars, devVars, cpuVars>>

KernelSpec == KernelInit /\ [][KernelNext]_kernelVars /\ TimerFairness /\ BusFairness
=============================================================================
