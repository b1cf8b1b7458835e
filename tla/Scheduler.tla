----------------------------- MODULE Scheduler -----------------------------
(***************************************************************************)
(* The process scheduler (src/multitasking/scheduler.c) together with the  *)
(* interrupt stubs that enter it (src/interrupts/interrupt.asm, idt.c).    *)
(*                                                                         *)
(* One CPU runs one register context at a time: _kmain's (Boot) or that of *)
(* a task.  Every interrupt gate clears IF and IntAddTask, TerminateTask   *)
(* and ProcessExit run under cli, so each handler and each of those calls  *)
(* is one atomic step; between two steps any enabled interrupt may arrive. *)
(*                                                                         *)
(* The list that starts at prochead.next is the sequence procs.  The next  *)
(* pointer of a linked frame is its successor in procs; TerminateTask      *)
(* leaves the pointer of the frame it unlinks as it is, and orphanNext     *)
(* keeps that value.                                                       *)
(*                                                                         *)
(* Some definitions are preceded by faulty variants of the same idea       *)
(* (NextPidWide, UnlinkNothing...); no specification uses them, they serve *)
(* to show that the properties can fail.                                   *)
(***************************************************************************)
EXTENDS Integers, Sequences, SequencesExt

CONSTANTS
    Frames,       \* addresses malloc returns for a struct ProcessFrame (bound)
    Null,         \* NULL
    ProcHead,     \* &prochead
    Boot,         \* the context of _kmain, which has no frame
    KernelPML4,   \* the tables LoadKernelPML4 loads
    Quantum,      \* 10 in the code
    PidModulus,   \* 256 in the code: pids are uint8_t
    MaxSteps,     \* bound on the modelled instructions of one context
    FbMapped      \* does the framebuffer lie in memory a process PML4 maps?

ASSUME SchedulerAssumption ==
    /\ Quantum \in Nat \ {0}
    /\ PidModulus \in Nat \ {0, 1}
    /\ MaxSteps \in Nat
    /\ Null \notin Frames /\ ProcHead \notin Frames /\ Boot \notin Frames
    /\ KernelPML4 \notin Frames
    /\ Null # ProcHead

ASSUME FbAssumption == FbMapped \in BOOLEAN

VARIABLES
    procs,              \* frames linked from prochead.next, first to last
    orphanNext,         \* next pointers of the frames no longer linked
    spawned,            \* frames IntAddTask has filled in
    pid, quanta, registers,     \* fields of struct ProcessFrame
    invalid,            \* the frames whose field invalid is true
    highest_pid,
    schedulingStarted,
    current,
    cpu,                \* live registers of the CPU
    cr3,                \* KernelPML4, or the frame whose PML4 is loaded
    mode,               \* "run"; "panic", "hung" or "crashed" once stopped
    done                \* history: instructions each task has really executed

vars == <<procs, orphanNext, spawned, pid, quanta, invalid, registers,
          highest_pid, schedulingStarted, current, cpu, cr3, mode, done>>

listVars  == <<procs, orphanNext>>
birthVars == <<spawned, pid, highest_pid>>      \* only IntAddTask changes them

-----------------------------------------------------------------------------
(***************************************************************************)
(* A register context.  rbx stands for the registers TimerStub pushes      *)
(* untouched, and counts the instructions executed; rdi is the one that    *)
(* cr3load uses for its argument: "task" is the value the task put there,  *)
(* "pml4" the address cr3load left.  pc is "spin" once it has reached the  *)
(* endless loop of ProcessExit or CommonExceptionHandler.                  *)
(***************************************************************************)
Registers == [ctx    : Frames \cup {Boot},
              rbx    : 0 .. MaxSteps,
              rdi    : {"task", "pml4"},
              pc     : {"code", "spin"},
              flagIF : {0, 1}]

\* registers of a new task: flags = 0x202 has IF set
InitialRegisters(f) ==
    [ctx |-> f, rbx |-> 0, rdi |-> "task", pc |-> "code", flagIF |-> 1]

Occurs(f, l) == \E i \in 1 .. Len(l) : l[i] = f
Distinct(l) == \A i, j \in 1 .. Len(l) : l[i] = l[j] => i = j

\* f is reachable from prochead
Linked(f) == Occurs(f, procs)

\* prochead.next for the list l
FirstOf(l) == IF l = <<>> THEN Null ELSE l[1]

\* f->next for the list l and the stale pointers o
NextOf(f, l, o) ==
    IF Occurs(f, l)
    THEN LET i == CHOOSE i \in 1 .. Len(l) : l[i] = f
         IN  IF i < Len(l) THEN l[i + 1] ELSE Null
    ELSE o[f]

\* uint8_t arithmetic of ProcessFrame.quanta
DecQuanta(q) == (q - 1) % 256

Init ==
    /\ procs = <<>>
    /\ orphanNext = [f \in Frames |-> Null]
    /\ spawned = {}
    /\ pid = [f \in Frames |-> 0]
    /\ quanta = [f \in Frames |-> 0]
    /\ invalid = {}
    /\ registers = [f \in Frames |-> InitialRegisters(f)]
    /\ highest_pid = 1
    /\ schedulingStarted = FALSE
    /\ current = Null
    /\ cpu = InitialRegisters(Boot)
    /\ cr3 = KernelPML4
    /\ mode = "run"
    /\ done = [f \in Frames |-> 0]

-----------------------------------------------------------------------------
(* What the running context does. *)

\* The context on the CPU executes instructions (and is not in its last loop).
Executing == mode = "run" /\ cpu.pc = "code"

\* One instruction of the running context.
Work ==
    /\ Executing
    /\ cpu.rbx < MaxSteps
    /\ cpu' = [cpu EXCEPT !.rbx = @ + 1, !.rdi = "task"]
    /\ done' = IF cpu.ctx \in Frames THEN [done EXCEPT ![cpu.ctx] = @ + 1]
                                     ELSE done
    /\ UNCHANGED <<listVars, birthVars, quanta, invalid, registers,
                   schedulingStarted, current, cr3, mode>>

\* highest_pid++ on a uint8_t.
NextPidWide == highest_pid + 1
NextPidSame == highest_pid
NextPid == (highest_pid + 1) % PidModulus

\* The list with f inserted at its head.
WithFirstAlone(f) == <<f>>
WithFirst(f) == <<f>> \o procs

\* AddTask and KeAddTask: the frame malloc returned is filled in and becomes
\* the first of the list.  Nothing sets invalid; heap memory is fresh here
\* (PageAlloc zeroes it and no caller of free() exists), so it reads false.
IntAddTask(f) ==
    /\ Executing
    /\ f \notin spawned
    /\ spawned' = spawned \cup {f}
    /\ pid' = [pid EXCEPT ![f] = highest_pid]
    /\ highest_pid' = NextPid
    /\ quanta' = [quanta EXCEPT ![f] = Quantum]
    /\ registers' = [registers EXCEPT ![f] = InitialRegisters(f)]
    /\ procs' = WithFirst(f)
    /\ cpu' = [cpu EXCEPT !.flagIF = 1]
    /\ UNCHANGED <<orphanNext, invalid, schedulingStarted, current, cr3, mode,
                   done>>

\* The call is in _kmain's source, commented out; the subroutine is exported.
MarkSchedulingActive ==
    /\ Executing
    /\ schedulingStarted' = TRUE
    /\ UNCHANGED <<listVars, birthVars, quanta, invalid, registers, current,
                   cpu, cr3, mode, done>>

\* int 0x80: the stub loads the kernel tables and does not load the caller's
\* again; cr3load's argument is what the stub then pushes and pops as rdi.
SyscallStub ==
    /\ Executing
    /\ cr3' = KernelPML4
    /\ cpu' = [cpu EXCEPT !.rdi = "pml4"]
    /\ UNCHANGED <<listVars, birthVars, quanta, invalid, registers,
                   schedulingStarted, current, mode, done>>

\* The CPU ends in panic() or worse; nothing else changes.
StopIn(m) ==
    /\ mode' = m
    /\ UNCHANGED <<listVars, birthVars, quanta, invalid, registers,
                   schedulingStarted, current, cpu, cr3, done>>

\* The current task is marked for removal and loops with interrupts enabled.
MarkInvalid ==
    /\ invalid' = invalid \cup {current}
    /\ cpu' = [cpu EXCEPT !.pc = "spin", !.flagIF = 1]
    /\ UNCHANGED <<listVars, birthVars, quanta, registers, schedulingStarted,
                   current, cr3, mode, done>>

\* printf needs the framebuffer: under a process PML4 that does not map it,
\* printing faults again, without end, until the stack is exhausted.
CanPrint == cr3 = KernelPML4 \/ FbMapped

\* What CommonExceptionHandler does to the context that faulted.  (While
\* current is &prochead no instruction is executed, so that case is absent.)
CommonExceptionHandler ==
    \/ ~CanPrint /\ StopIn("crashed")
    \/ CanPrint /\ (~schedulingStarted \/ current = Null) /\ StopIn("panic")
    \/ CanPrint /\ schedulingStarted /\ current \in Frames /\ MarkInvalid

\* The running context raises a CPU exception of its own.
Exception == Executing /\ CommonExceptionHandler

\* A context that is not a task's has no frame to mark: current is NULL and
\* the store faults.
ProcessExit ==
    /\ Executing
    /\ \/ current \in Frames /\ MarkInvalid
       \/ current = Null /\ CommonExceptionHandler

\* IntAddTask without memory for the frame, its tables or its stack: malloc
\* dereferences NULL where its list has no fitting node, and PageAlloc, with no
\* page left, prints and halts.  How much memory is left is not part of this
\* module, so both may happen at any call.
IntAddTaskFails ==
    /\ Executing
    /\ \/ CommonExceptionHandler
       \/ CanPrint /\ StopIn("panic")
       \/ ~CanPrint /\ StopIn("crashed")

-----------------------------------------------------------------------------
(* TerminateTask. *)

\* The position of the first linked frame with pid p; 0 when the loop runs
\* past the last frame and reads the pid of NULL.
FindPidSkipsFirst(p) ==
    SelectInSubSeq(procs, 2, Len(procs), LAMBDA f : pid[f] = p)
FindPid(p) == SelectInSeq(procs, LAMBDA f : pid[f] = p)

\* The unlinked frame is neither freed nor changed.
UnlinkNothing(i) == UNCHANGED listVars
Unlink(i) ==
    /\ procs' = RemoveAt(procs, i)
    /\ orphanNext' = [orphanNext EXCEPT
                        ![procs[i]] = NextOf(procs[i], procs, orphanNext)]

\* TerminateTask called by the running context.  Both returns come before the
\* sti; an unknown pid dereferences NULL; the leading printf has the needs of
\* the one in CommonExceptionHandler.
TerminateTask(p) ==
    /\ Executing
    /\ \/ ~CanPrint /\ CommonExceptionHandler
       \/ /\ CanPrint /\ FindPid(p) # 0
          /\ Unlink(FindPid(p))
          /\ cpu' = [cpu EXCEPT !.flagIF = 0]
          /\ UNCHANGED <<birthVars, quanta, invalid, registers,
                         schedulingStarted, current, cr3, mode, done>>
       \/ CanPrint /\ FindPid(p) = 0 /\ CommonExceptionHandler

-----------------------------------------------------------------------------
(* TimerStub: LoadKernelPML4, save, TaskSwitch, EOI, _TaskSwitch_Stage2.   *)

TimerArrives == mode = "run" /\ cpu.flagIF = 1

\* The registers TimerStub pushes: cr3load has already overwritten rdi.
Interrupted == [cpu EXCEPT !.rdi = "pml4"]

\* The tables in force once TimerStub has called LoadKernelPML4.
EntryTablesNotLoaded == cr3
EntryTables == KernelPML4

\* Nobody to run: TaskSwitch returns and the interrupted context goes on.
TaskSwitchIdle ==
    /\ TimerArrives
    /\ current \notin Frames
    /\ procs = <<>>
    /\ cpu' = Interrupted
    /\ cr3' = EntryTables
    /\ UNCHANGED <<listVars, birthVars, quanta, invalid, registers,
                   schedulingStarted, current, mode, done>>

\* The task TaskSwitch looks at first.
Candidate == IF current \in Frames THEN current ELSE FirstOf(procs)

\* The saved registers after the first memcpy.
SavedNever == registers
SavedAlways == [registers EXCEPT ![Candidate] = Interrupted]
Saved == IF current \in Frames THEN [registers EXCEPT ![current] = Interrupted]
                               ELSE registers

\* quanta once an exhausted one has been reset.
RefillForgotten(c) == quanta
Refill(c) == IF quanta[c] = 0 THEN [quanta EXCEPT ![c] = Quantum] ELSE quanta

\* Who follows c: its successor, or the first of the list.
SuccessorFirst(c, l, o) == FirstOf(l)
Successor(c, l, o) ==
    IF NextOf(c, l, o) # Null THEN NextOf(c, l, o) ELSE FirstOf(l)

\* Last part of TaskSwitch, for task c and the list l: move on when the quantum
\* is used up, restore the registers, then _TaskSwitch_Stage2.  A NULL
\* successor faults in the handler with current = NULL, which panics.
Dispatch(c, l, o) ==
    LET n == IF quanta[c] = 0 THEN Successor(c, l, o) ELSE c
    IN  /\ registers' = Saved
        /\ current' = n
        /\ \/ /\ n # Null
              /\ quanta' = [Refill(c) EXCEPT ![n] = DecQuanta(@)]
              /\ cpu' = Saved[n]
              /\ cr3' = IF quanta'[n] # 0 THEN n ELSE EntryTables
              /\ UNCHANGED mode
           \/ /\ n = Null
              /\ quanta' = Refill(c)
              /\ cr3' = EntryTables
              /\ mode' = "panic"
              /\ UNCHANGED cpu

TaskSwitchRun ==
    /\ TimerArrives
    /\ Candidate \in Frames
    /\ Candidate \notin invalid
    /\ Dispatch(Candidate, procs, orphanNext)
    /\ UNCHANGED <<listVars, birthVars, invalid, schedulingStarted, done>>

\* An exited task is unlinked by its pid and the switch goes on with the first
\* of what is left of the list; with an empty list the interrupted context
\* goes on.
FirstAfterReapTooEarly == procs[1]
FirstAfterReap == procs'[1]
TaskSwitchReap ==
    /\ TimerArrives
    /\ Candidate \in Frames
    /\ Candidate \in invalid
    /\ FindPid(pid[Candidate]) # 0
    /\ Unlink(FindPid(pid[Candidate]))
    /\ \/ /\ procs' # <<>>
          /\ Dispatch(FirstAfterReap, procs', orphanNext')
       \/ /\ procs' = <<>>
          /\ current' = ProcHead
          /\ registers' = Saved
          /\ cpu' = Interrupted
          /\ cr3' = EntryTables
          /\ UNCHANGED <<quanta, mode>>
    /\ UNCHANGED <<birthVars, invalid, schedulingStarted, done>>

\* The exited task is not linked any more: the search dereferences NULL inside
\* the handler.  CommonExceptionHandler panics, or loops on hlt before the EOI
\* of the timer vector, and no interrupt of its class is delivered again.
TaskSwitchReapMissing ==
    /\ TimerArrives
    /\ Candidate \in Frames
    /\ Candidate \in invalid
    /\ FindPid(pid[Candidate]) = 0
    /\ registers' = Saved
    /\ cr3' = EntryTables
    /\ mode' = IF schedulingStarted THEN "hung" ELSE "panic"
    /\ UNCHANGED <<listVars, birthVars, quanta, invalid, schedulingStarted,
                   current, cpu, done>>

TimerStub ==
    TaskSwitchIdle \/ TaskSwitchRun \/ TaskSwitchReap \/ TaskSwitchReapMissing

\* IRQ 1.  The handler loads the kernel tables and returns with them loaded;
\* the compiler's prologue has saved rdi.
KeyboardHandler ==
    /\ mode = "run" /\ cpu.flagIF = 1
    /\ cr3' = KernelPML4
    /\ UNCHANGED <<listVars, birthVars, quanta, invalid, registers,
                   schedulingStarted, current, cpu, mode, done>>

\* panic() and the other dead ends: hlt with nothing that could wake the CPU.
Halted == mode # "run" /\ UNCHANGED vars

-----------------------------------------------------------------------------
CommonNext ==
    \/ Work
    \/ \E f \in Frames : IntAddTask(f)
    \/ IntAddTaskFails
    \/ MarkSchedulingActive
    \/ SyscallStub
    \/ Exception
    \/ ProcessExit
    \/ KeyboardHandler
    \/ Halted

\* The kernel as it is: TerminateTask is called by TaskSwitch only.
Next == CommonNext \/ TimerStub

\* Tasks also call the exported TerminateTask.
NextApi == Next \/ \E p \in 0 .. PidModulus - 1 : TerminateTask(p)

Spec == Init /\ [][Next]_vars
SpecApi == Init /\ [][NextApi]_vars

\* The RTC interrupts periodically, and TaskSwitch re-arms it on every tick
\* (RTC_Check): while IF stays set, a tick arrives.
FairSpec == Spec /\ WF_vars(TimerStub)

-----------------------------------------------------------------------------
(* Properties. *)

\* Types of all variables.
TypeOK ==
    /\ procs \in Seq(Frames)
    /\ orphanNext \in [Frames -> Frames \cup {Null}]
    /\ spawned \subseteq Frames
    /\ pid \in [Frames -> 0 .. PidModulus - 1]
    /\ quanta \in [Frames -> 0 .. 255]
    /\ invalid \subseteq Frames
    /\ registers \in [Frames -> Registers]
    /\ highest_pid \in 0 .. PidModulus - 1
    /\ schedulingStarted \in BOOLEAN
    /\ current \in Frames \cup {Null, ProcHead}
    /\ cpu \in Registers
    /\ cr3 \in Frames \cup {KernelPML4}
    /\ mode \in {"run", "panic", "hung", "crashed"}
    /\ done \in [Frames -> 0 .. MaxSteps]

\* The registers of task f, wherever they are now.
Context(f) == IF cpu.ctx = f THEN cpu ELSE registers[f]

\* TaskSwitch saves and restores through current alone, so current must be the
\* task whose registers are on the CPU; when it names no task, the CPU runs
\* _kmain or what is left of an exited task.
CpuRunsCurrent ==
    IF current \in Frames
    THEN cpu.ctx = current
    ELSE cpu.ctx = Boot \/ (cpu.ctx \in invalid /\ procs = <<>>)

\* No instruction of a task is undone or repeated by switches: the context it
\* resumes with is the one it was interrupted with (the registers TimerStub
\* pushes before anything changes them).
ContextKept == \A f \in spawned : Context(f).rbx = done[f]

\* A task that has not exited stays in the list (exactly once): no insertion
\* at the head and no unlinking drops it.
NoTaskLost ==
    /\ \A f \in spawned : f \notin invalid => Linked(f)
    /\ Distinct(procs)

\* A waiting task has a whole quantum left and the running one no more than
\* that, so quanta-- never wraps below zero.
QuantaKept ==
    \A f \in spawned : Linked(f) =>
        IF f = current THEN quanta[f] < Quantum ELSE quanta[f] = Quantum

\* The CPU never runs on the tables of a task other than the current one.
OwnTables == cr3 # KernelPML4 => cr3 = current

\* Only a task that exited or faulted is unlinked, although TerminateTask
\* looks for a pid and not for the frame.
ReapsExited == [][\A f \in Frames : Linked(f) /\ ~Linked(f)' => f \in invalid]_vars

\* After a tick the CPU runs a linked task that has not exited, if one is left.
TickPicksLive ==
    [][TimerStub /\ procs' # <<>>
         => cpu'.ctx \in Frames /\ Linked(cpu.ctx)' /\ cpu'.ctx \notin invalid']_vars

\* Once a task has run, _kmain never runs again: its registers were never
\* saved.
BootNeverResumes == [][cpu.ctx # Boot => cpu'.ctx # Boot]_vars

\* A tick never stops the machine, whatever it interrupts: TaskSwitch finds the
\* pid of the exited task it reaps and never dispatches a NULL successor.  (What
\* tasks do can stop it: exceptions under tables without the framebuffer, and
\* AddTask without memory.)
TicksNeverStop == [][TimerStub => mode' = "run"]_vars

\* A tick saves the interrupted task's rdi with its other registers.
RdiSaved ==
    [][TimerStub /\ current \in Frames => registers'[current].rdi = cpu.rdi]_vars

\* Every linked task runs again and again.
EveryTaskRuns ==
    \A f \in Frames : []<>(cpu.ctx = f \/ ~Linked(f) \/ mode # "run")

\* A task that exits is unlinked in the end.
ExitedReaped ==
    \A f \in Frames : f \in invalid ~> (~Linked(f) \/ mode # "run")
=============================================================================
