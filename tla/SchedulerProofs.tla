-------------------------- MODULE SchedulerProofs --------------------------
(***************************************************************************)
(* Proofs about Scheduler, for any set of frames, any quantum that fits in *)
(* a uint8_t and any number of instructions, as long as there are fewer    *)
(* frames than pids.                                                       *)
(***************************************************************************)
EXTENDS SchedulerPool, ListLemmas, FiniteSetTheorems, TLAPS

\* The quantum fits in the uint8_t it is stored in, and the pid counter does
\* not come round while frames are left.
Fits ==
    /\ Quantum < 256
    /\ IsFiniteSet(Frames)
    /\ Cardinality(Frames) < PidModulus

-----------------------------------------------------------------------------
(* The inductive invariant. *)

\* Frames not filled in yet are in their initial state; the others have
\* pids counted up from 1.
BirthInv ==
    /\ highest_pid = (Cardinality(spawned) + 1) % PidModulus
    /\ \A f \in spawned : pid[f] \in 1 .. Cardinality(spawned)
    /\ \A f, g \in spawned : pid[f] = pid[g] => f = g
    /\ \A f \in Frames \ spawned : done[f] = 0 /\ f \notin invalid

ListInv ==
    /\ \A f \in Frames : Linked(f) => f \in spawned
    /\ NoTaskLost

\* Who is on the CPU.  A task is marked invalid only while it is current, and
\* from then on it loops; once the list is empty nothing executes any more.
CpuInv ==
    /\ current \in Frames => cpu.ctx = current /\ Linked(current)
    /\ current = Null => cpu.ctx = Boot
    /\ current = ProcHead => /\ procs = <<>>
                             /\ cpu.pc = "spin"
                             /\ cpu.ctx \in spawned /\ cpu.ctx \in invalid
    /\ \A f \in Frames : f \in invalid /\ Linked(f) => f = current /\ cpu.pc = "spin"
    /\ OwnTables

ContextInv ==
    /\ \A f \in Frames : registers[f].ctx = f
    /\ ContextKept

IInv == TypeOK /\ BirthInv /\ ListInv /\ CpuInv /\ ContextInv /\ QuantaKept

-----------------------------------------------------------------------------
(* Sequences. *)

\* Membership and distinctness, for the two changes made to the list.
LEMMA PrependLinks ==
    ASSUME NEW S, NEW s \in Seq(S), NEW e \in S
    PROVE  /\ \A g : Occurs(g, <<e>> \o s) <=> (g = e \/ Occurs(g, s))
           /\ Distinct(s) /\ ~Occurs(e, s) => Distinct(<<e>> \o s)
<1> DEFINE t == <<e>> \o s
<1>1. /\ Len(s) \in Nat /\ Len(t) = Len(s) + 1
      /\ \A j \in 1 .. Len(s) + 1 : t[j] = IF j = 1 THEN e ELSE s[j - 1]
  BY PrependProperties
<1> HIDE DEF t
<1>2. ASSUME NEW g, Occurs(g, t)
      PROVE  g = e \/ Occurs(g, s)
  BY <1>1, <1>2 DEF Occurs
<1>3. Occurs(e, t)
  BY <1>1 DEF Occurs
<1>4. ASSUME NEW i \in 1 .. Len(s)
      PROVE  i + 1 \in 1 .. Len(t) /\ t[i + 1] = s[i]
  BY <1>1
<1>5. ASSUME NEW g, Occurs(g, s)
      PROVE  Occurs(g, t)
  BY <1>4, <1>5 DEF Occurs
<1>6. ASSUME Distinct(s), ~Occurs(e, s)
      PROVE  Distinct(t)
  BY <1>1, <1>6 DEF Distinct, Occurs
<1> QED BY <1>2, <1>3, <1>5, <1>6 DEF t

LEMMA RemoveAtLinks ==
    ASSUME NEW S, NEW s \in Seq(S), Distinct(s), NEW k \in 1 .. Len(s)
    PROVE  /\ \A g : Occurs(g, RemoveAt(s, k)) <=> (g # s[k] /\ Occurs(g, s))
           /\ Distinct(RemoveAt(s, k))
<1> DEFINE t == RemoveAt(s, k)
<1>1. /\ Len(s) \in Nat /\ Len(t) = Len(s) - 1
      /\ \A j \in 1 .. Len(s) - 1 : t[j] = IF j < k THEN s[j] ELSE s[j + 1]
  BY RemoveAtProperties
<1> HIDE DEF t
<1>2. ASSUME NEW g, Occurs(g, t)
      PROVE  g # s[k] /\ Occurs(g, s)
  <2>1. PICK j \in 1 .. Len(s) - 1 : t[j] = g
    BY <1>1, <1>2 DEF Occurs
  <2>2. CASE j < k
    BY <1>1, <2>1, <2>2 DEF Occurs, Distinct
  <2>3. CASE ~(j < k)
    <3>1. j + 1 \in 1 .. Len(s) /\ j + 1 # k /\ g = s[j + 1]
      BY <1>1, <2>1, <2>3
    <3> QED BY <3>1 DEF Occurs, Distinct
  <2> QED BY <2>2, <2>3
<1>3. ASSUME NEW g, g # s[k], Occurs(g, s)
      PROVE  Occurs(g, t)
  <2>1. PICK i \in 1 .. Len(s) : s[i] = g
    BY <1>3 DEF Occurs
  <2>2. CASE i < k
    <3>1. i \in 1 .. Len(t) /\ t[i] = g
      BY <1>1, <2>1, <2>2
    <3> QED BY <3>1 DEF Occurs
  <2>3. CASE i > k
    <3>1. i - 1 \in 1 .. Len(t) /\ t[i - 1] = g
      BY <1>1, <2>1, <2>3
    <3> QED BY <3>1 DEF Occurs
  <2> QED BY <1>3, <2>1, <2>2, <2>3
<1>4. Distinct(t)
  BY <1>1 DEF Distinct
<1> QED BY <1>2, <1>3, <1>4 DEF t

\* Only one linked frame has the pid TerminateTask looks for.
LEMMA FindPidOfLinked ==
    ASSUME IInv, NEW f \in Frames, Linked(f)
    PROVE  /\ FindPid(pid[f]) \in 1 .. Len(procs)
           /\ procs[FindPid(pid[f])] = f
<1> DEFINE I == {i \in 1 .. Len(procs) : pid[procs[i]] = pid[f]}
<1>1. PICK k \in 1 .. Len(procs) : procs[k] = f
  BY DEF Linked, Occurs
<1>2. \A i \in I : i = k
  <2>1. ASSUME NEW i \in 1 .. Len(procs)
        PROVE  procs[i] \in spawned
    <3>1. procs[i] \in Frames /\ Linked(procs[i])
      BY ElementOfSeq DEF IInv, TypeOK, Linked, Occurs
    <3> QED BY <3>1 DEF IInv, ListInv
  <2> QED BY <1>1, <2>1 DEF IInv, BirthInv, ListInv, NoTaskLost, Distinct
<1>3. k \in I
  BY <1>1
<1>4. I = {k}
  BY <1>2, <1>3
<1>5. FindPid(pid[f]) = Min(I)
  BY <1>3 DEF FindPid, SelectInSeq
<1>6. Min(I) = k
  BY <1>4 DEF Min
<1> QED BY <1>1, <1>5, <1>6

-----------------------------------------------------------------------------
(* Initial states. *)

LEMMA InitEstablishes ==
    ASSUME Fits, Init
    PROVE  IInv
<1> USE SchedulerAssumption DEF Init
<1>1. Cardinality(spawned) = 0
  BY FS_EmptySet
<1>2. TypeOK
  <2>1. schedulingStarted \in BOOLEAN
    BY Zenon
  <2> QED BY <2>1 DEF TypeOK, Registers, InitialRegisters
<1>3. BirthInv
  BY <1>1 DEF BirthInv
<1>4. ListInv /\ QuantaKept
  BY DEF ListInv, NoTaskLost, QuantaKept, Linked, Occurs, Distinct
<1>5. CpuInv
  BY DEF CpuInv, Linked, Occurs, InitialRegisters, OwnTables
<1>6. ContextInv
  BY DEF ContextInv, ContextKept, InitialRegisters
<1> QED BY <1>2, <1>3, <1>4, <1>5, <1>6 DEF IInv

-----------------------------------------------------------------------------
(* Steps of the running context. *)

\* A task that executes instructions is current, spawned and not exited;
\* _kmain executes only while current is NULL.
LEMMA WhoExecutes ==
    ASSUME IInv, Executing
    PROVE  \/ /\ current \in spawned /\ cpu.ctx = current
              /\ Linked(current) /\ current \notin invalid
           \/ current = Null /\ cpu.ctx = Boot
  BY SchedulerAssumption
     DEF IInv, TypeOK, ListInv, CpuInv, Executing, Linked

LEMMA WorkPreserves ==
    ASSUME IInv, Work
    PROVE  IInv'
<1> USE SchedulerAssumption DEF Work, listVars, birthVars
<1>1. \/ cpu.ctx \in spawned /\ cpu.rbx = done[cpu.ctx]
      \/ cpu.ctx = Boot /\ cpu.ctx \notin Frames
  BY WhoExecutes DEF IInv, ContextInv, ContextKept, Context, TypeOK
<1>2. cpu' \in Registers /\ cpu'.ctx = cpu.ctx /\ cpu'.rbx = cpu.rbx + 1
                         /\ cpu'.pc = cpu.pc
  <2>1. cpu.rbx + 1 \in 0 .. MaxSteps
    BY DEF IInv, TypeOK, Registers
  <2>2. cpu' = [cpu EXCEPT !.rbx = cpu.rbx + 1, !.rdi = "task"]
    OBVIOUS
  <2> HIDE DEF Work
  <2> QED BY <2>1, <2>2, Zenon DEF IInv, TypeOK, Registers
<1>3. done' \in [Frames -> 0 .. MaxSteps]
  BY <1>1, <1>2 DEF IInv, TypeOK, Registers
<1>4. TypeOK'
  BY <1>2, <1>3, Zenon DEF IInv, TypeOK
<1>5. BirthInv'
  BY <1>1 DEF IInv, BirthInv, TypeOK
<1>6. ListInv' /\ QuantaKept'
  BY DEF IInv, ListInv, NoTaskLost, QuantaKept, Linked
<1>7. CpuInv'
  BY <1>2 DEF IInv, CpuInv, Linked, OwnTables
<1>8. ContextInv'
  BY <1>1, <1>2 DEF IInv, ContextInv, ContextKept, Context, TypeOK
<1> QED BY <1>4, <1>5, <1>6, <1>7, <1>8 DEF IInv

LEMMA MarkSchedulingActivePreserves ==
    ASSUME IInv, MarkSchedulingActive
    PROVE  IInv'
<1> USE DEF MarkSchedulingActive, listVars, birthVars
<1>1. TypeOK'
  BY DEF IInv, TypeOK
<1>2. BirthInv' /\ ListInv' /\ QuantaKept'
  BY DEF IInv, BirthInv, ListInv, NoTaskLost, QuantaKept, Linked
<1>3. CpuInv' /\ ContextInv'
  BY DEF IInv, CpuInv, Linked, OwnTables, ContextInv, ContextKept, Context
<1> QED BY <1>1, <1>2, <1>3 DEF IInv

\* Steps that load the kernel's tables and at most overwrite rdi.
LEMMA KernelTablesPreserve ==
    ASSUME IInv, SyscallStub \/ KeyboardHandler
    PROVE  IInv'
<1> USE DEF listVars, birthVars
<1>1. cpu' \in Registers /\ cpu'.ctx = cpu.ctx /\ cpu'.rbx = cpu.rbx
                         /\ cpu'.pc = cpu.pc
  <2>1. CASE SyscallStub
    BY <2>1, Zenon DEF IInv, TypeOK, Registers, SyscallStub
  <2>2. CASE KeyboardHandler
    BY <2>2 DEF IInv, TypeOK, Registers, KeyboardHandler
  <2> QED BY <2>1, <2>2
<1>2. /\ cr3' = KernelPML4
      /\ UNCHANGED <<listVars, birthVars, quanta, invalid, registers,
                     schedulingStarted, current, mode, done>>
  BY DEF SyscallStub, KeyboardHandler
<1>3. TypeOK'
  BY <1>1, <1>2, Zenon DEF IInv, TypeOK
<1>4. BirthInv' /\ ListInv' /\ QuantaKept'
  BY <1>2 DEF IInv, BirthInv, ListInv, NoTaskLost, QuantaKept, Linked
<1>5. CpuInv' /\ ContextInv'
  BY <1>1, <1>2
     DEF IInv, CpuInv, Linked, OwnTables, ContextInv, ContextKept, Context
<1> QED BY <1>3, <1>4, <1>5 DEF IInv

LEMMA StopPreserves ==
    ASSUME IInv, NEW m \in {"panic", "hung", "crashed"}, StopIn(m)
    PROVE  IInv'
<1> USE DEF StopIn, listVars, birthVars
<1>1. TypeOK'
  BY DEF IInv, TypeOK
<1>2. BirthInv' /\ ListInv' /\ QuantaKept'
  BY DEF IInv, BirthInv, ListInv, NoTaskLost, QuantaKept, Linked
<1>3. CpuInv' /\ ContextInv'
  BY DEF IInv, CpuInv, Linked, OwnTables, ContextInv, ContextKept, Context
<1> QED BY <1>1, <1>2, <1>3 DEF IInv

\* Only the task that executes can be marked.
LEMMA MarkInvalidPreserves ==
    ASSUME IInv, Executing, current \in Frames, MarkInvalid
    PROVE  IInv'
<1> USE DEF MarkInvalid, listVars, birthVars
<1>1. current \in spawned /\ cpu.ctx = current
  BY WhoExecutes, SchedulerAssumption
<1>2. cpu' \in Registers /\ cpu'.ctx = cpu.ctx /\ cpu'.rbx = cpu.rbx
                         /\ cpu'.pc = "spin"
  BY Zenon DEF IInv, TypeOK, Registers
<1>3. TypeOK'
  BY <1>2 DEF IInv, TypeOK
<1>4. BirthInv' /\ ListInv' /\ QuantaKept'
  BY <1>1 DEF IInv, BirthInv, ListInv, NoTaskLost, QuantaKept, Linked
<1>5. CpuInv'
  BY <1>1, <1>2, SchedulerAssumption DEF IInv, CpuInv, Linked, OwnTables
<1>6. ContextInv'
  BY <1>2 DEF IInv, ContextInv, ContextKept, Context
<1> QED BY <1>3, <1>4, <1>5, <1>6 DEF IInv

LEMMA ExceptionPreserves ==
    ASSUME IInv, Exception
    PROVE  IInv'
  BY StopPreserves, MarkInvalidPreserves DEF Exception, CommonExceptionHandler

LEMMA ProcessExitPreserves ==
    ASSUME IInv, ProcessExit
    PROVE  IInv'
  BY StopPreserves, MarkInvalidPreserves DEF ProcessExit, CommonExceptionHandler

LEMMA IntAddTaskFailsPreserves ==
    ASSUME IInv, IntAddTaskFails
    PROVE  IInv'
  BY StopPreserves, MarkInvalidPreserves
     DEF IntAddTaskFails, CommonExceptionHandler

\* The counter has not come round, so the new frame's pid is new.
LEMMA IntAddTaskPreserves ==
    ASSUME Fits, IInv, NEW f \in Frames, IntAddTask(f)
    PROVE  IInv'
<1> USE DEF IntAddTask
<1> DEFINE n == Cardinality(spawned)
<1>1. /\ IsFiniteSet(spawned) /\ n \in Nat /\ n < Cardinality(Frames)
      /\ Cardinality(spawned') = n + 1
  <2>1. spawned \subseteq Frames /\ spawned # Frames
    BY DEF IInv, TypeOK
  <2>2. IsFiniteSet(spawned) /\ n \in Nat /\ n < Cardinality(Frames)
    BY <2>1, FS_Subset, FS_CardinalityType DEF Fits
  <2> QED BY <2>2, FS_AddElement, Zenon
<1> HIDE DEF n
<1>2. highest_pid = n + 1 /\ n + 1 < PidModulus
  <2>1. Cardinality(Frames) \in Nat
    BY FS_CardinalityType DEF Fits
  <2>2. n + 1 < PidModulus
    BY <1>1, <2>1, SchedulerAssumption DEF Fits
  <2>3. highest_pid = (n + 1) % PidModulus
    BY DEF IInv, BirthInv, n
  <2> QED BY <1>1, <2>2, <2>3, SchedulerAssumption
<1>3. /\ highest_pid' = (Cardinality(spawned') + 1) % PidModulus
      /\ highest_pid' \in 0 .. PidModulus - 1
  BY <1>1, <1>2, SchedulerAssumption DEF NextPid
<1>4. /\ procs' \in Seq(Frames)
      /\ Len(procs') = Len(procs) + 1
      /\ \A j \in 1 .. Len(procs) + 1 :
           procs'[j] = IF j = 1 THEN f ELSE procs[j - 1]
  BY PrependProperties DEF IInv, TypeOK, WithFirst
<1>5. /\ ~Linked(f)
      /\ \A g : Linked(g)' <=> (g = f \/ Linked(g))
      /\ Distinct(procs')
  <2>1. ~Linked(f)
    BY DEF IInv, ListInv
  <2>2. procs \in Seq(Frames) /\ Distinct(procs)
    BY DEF IInv, TypeOK, ListInv, NoTaskLost
  <2> QED BY <2>1, <2>2, PrependLinks DEF Linked, WithFirst
<1>6. cpu' \in Registers /\ cpu'.ctx = cpu.ctx /\ cpu'.rbx = cpu.rbx
                         /\ cpu'.pc = cpu.pc
  BY Zenon DEF IInv, TypeOK, Registers
<1>7. registers' \in [Frames -> Registers] /\ registers'[f].ctx = f
                                           /\ registers'[f].rbx = 0
  BY SchedulerAssumption DEF IInv, TypeOK, Registers, InitialRegisters
<1>8. TypeOK'
  <2>1. quanta' \in [Frames -> 0 .. 255]
    <3>1. Quantum \in 0 .. 255
      BY SchedulerAssumption DEF Fits
    <3> QED BY <3>1 DEF IInv, TypeOK
  <2>2. pid' \in [Frames -> 0 .. PidModulus - 1] /\ spawned' \subseteq Frames
    BY DEF IInv, TypeOK
  <2> QED BY <1>3, <1>4, <1>6, <1>7, <2>1, <2>2, Zenon DEF IInv, TypeOK
<1>9. BirthInv'
  <2>1. \A g \in spawned' : pid'[g] = IF g = f THEN n + 1 ELSE pid[g]
    BY <1>2 DEF IInv, TypeOK
  <2>2. \A g \in spawned : pid[g] \in 1 .. n
    BY DEF IInv, BirthInv, n
  <2>3. \A g \in spawned' : pid'[g] \in 1 .. n + 1
    BY <1>1, <2>1, <2>2
  <2>4. \A g, h \in spawned' : pid'[g] = pid'[h] => g = h
    BY <1>1, <2>1, <2>2 DEF IInv, BirthInv
  <2>5. \A g \in Frames \ spawned' : done'[g] = 0 /\ g \notin invalid'
    BY DEF IInv, BirthInv
  <2> QED BY <1>1, <1>3, <2>3, <2>4, <2>5, Zenon DEF BirthInv
<1>10. ListInv'
  <2>1. \A g \in Frames : Linked(g)' => g \in spawned'
    BY <1>5 DEF IInv, ListInv
  <2>2. \A g \in spawned' : g \notin invalid' => Linked(g)'
    BY <1>5 DEF IInv, TypeOK, ListInv, NoTaskLost
  <2> HIDE DEF IntAddTask
  <2> QED BY <1>5, <2>1, <2>2 DEF ListInv, NoTaskLost
<1>11. f \notin invalid /\ f # current /\ f # cpu.ctx
  BY <1>5, WhoExecutes, SchedulerAssumption DEF IInv, BirthInv
<1>12. CpuInv'
  BY <1>5, <1>6, <1>11, WhoExecutes, SchedulerAssumption
     DEF IInv, CpuInv, OwnTables
<1>13. ContextInv'
  BY <1>6, <1>7, <1>11 DEF IInv, TypeOK, BirthInv, ContextInv, ContextKept, Context
<1>14. QuantaKept'
  BY <1>5, <1>11 DEF IInv, TypeOK, QuantaKept
<1> QED BY <1>8, <1>9, <1>10, <1>12, <1>13, <1>14 DEF IInv

-----------------------------------------------------------------------------
(* Ticks. *)

\* The task a tick looks at first is linked: it is the current one or, while
\* _kmain runs, the first of the list.
LEMMA CandidateFacts ==
    ASSUME IInv, Candidate \in Frames
    PROVE  /\ Candidate \in spawned /\ Linked(Candidate)
           /\ \/ current = Candidate /\ cpu.ctx = current
              \/ current = Null /\ cpu.ctx = Boot
<1>1. CASE current \in Frames
  BY <1>1 DEF IInv, ListInv, CpuInv, Candidate
<1>2. CASE current \notin Frames
  <2>1. procs # <<>> /\ Candidate = procs[1]
    BY <1>2, SchedulerAssumption DEF Candidate, FirstOf
  <2>2. Len(procs) \in Nat /\ Len(procs) # 0
    BY <2>1, EmptySeq DEF IInv, TypeOK
  <2>3. Linked(Candidate)
    <3>1. 1 \in 1 .. Len(procs)
      BY <2>2
    <3> QED BY <2>1, <3>1 DEF Linked, Occurs
  <2> QED BY <1>2, <2>1, <2>3 DEF IInv, TypeOK, ListInv, CpuInv
<1> QED BY <1>1, <1>2

\* Whoever is interrupted, the saved contexts are complete afterwards.
LEMMA SavedFacts ==
    ASSUME IInv, Candidate \in Frames
    PROVE  /\ Saved \in [Frames -> Registers]
           /\ \A f \in Frames : Saved[f].ctx = f
           /\ \A f \in spawned : Saved[f].rbx = done[f]
<1>1. Interrupted \in Registers /\ Interrupted.ctx = cpu.ctx
                                /\ Interrupted.rbx = cpu.rbx
  BY Zenon DEF IInv, TypeOK, Registers, Interrupted
<1>2. CASE current \in Frames
  <2>1. Saved = [registers EXCEPT ![current] = Interrupted] /\ cpu.ctx = current
    BY <1>2, CandidateFacts, SchedulerAssumption DEF Saved
  <2> QED BY <1>1, <1>2, <2>1
          DEF IInv, TypeOK, ContextInv, ContextKept, Context
<1>3. CASE current \notin Frames
  <2>1. Saved = registers /\ cpu.ctx = Boot
    BY <1>3, CandidateFacts DEF Saved
  <2> QED BY <2>1, SchedulerAssumption, Zenon
          DEF IInv, TypeOK, ContextInv, ContextKept, Context
<1> QED BY <1>2, <1>3

\* A successor of a linked frame is linked.
LEMMA SuccessorLinked ==
    ASSUME NEW l \in Seq(Frames), NEW o, NEW c \in Frames, Occurs(c, l)
    PROVE  Successor(c, l, o) \in Frames /\ Occurs(Successor(c, l, o), l)
<1> DEFINE i == CHOOSE i \in 1 .. Len(l) : l[i] = c
<1>1. i \in 1 .. Len(l) /\ l[i] = c /\ Len(l) \in Nat
  BY DEF Occurs
<1>2. NextOf(c, l, o) = IF i < Len(l) THEN l[i + 1] ELSE Null
  BY DEF NextOf
<1> HIDE DEF i
<1>3. CASE i < Len(l)
  <2>1. i + 1 \in 1 .. Len(l) /\ l[i + 1] \in Frames
    BY <1>1, <1>3, ElementOfSeq
  <2>2. Successor(c, l, o) = l[i + 1]
    BY <1>2, <1>3, <2>1, SchedulerAssumption DEF Successor
  <2> QED BY <2>1, <2>2 DEF Occurs
<1>4. CASE ~(i < Len(l))
  <2>1. l # <<>> /\ 1 \in 1 .. Len(l) /\ l[1] \in Frames
    BY <1>1, ElementOfSeq
  <2>2. Successor(c, l, o) = l[1]
    BY <1>2, <1>4, <2>1 DEF Successor, FirstOf
  <2> QED BY <2>1, <2>2 DEF Occurs
<1> QED BY <1>3, <1>4

\* quanta-- does not wrap above zero.
LEMMA DecQuantaAboveZero ==
    ASSUME NEW q \in 1 .. Quantum, Quantum \in 1 .. 255
    PROVE  DecQuanta(q) = q - 1
  BY DEF DecQuanta

\* Dispatching from a list in which all tasks but c have a whole quantum.
LEMMA DispatchOutcome ==
    ASSUME Fits, IInv,
           NEW l, NEW o, NEW c \in Frames, Occurs(c, l),
           Successor(c, l, o) \in Frames /\ Occurs(Successor(c, l, o), l),
           quanta[c] <= Quantum,
           \A f \in Frames : Occurs(f, l) /\ f # c => quanta[f] = Quantum,
           Dispatch(c, l, o)
    PROVE  \E n \in Frames :
             /\ Occurs(n, l)
             /\ n = c \/ quanta[c] = 0
             /\ current' = n /\ cr3' \in {n, KernelPML4}
             /\ registers' = Saved /\ cpu' = Saved[n] /\ mode' = mode
             /\ quanta' \in [Frames -> 0 .. 255]
             /\ \A f \in Frames : Occurs(f, l) =>
                  IF f = n THEN quanta'[f] < Quantum ELSE quanta'[f] = Quantum
<1> DEFINE n == IF quanta[c] = 0 THEN Successor(c, l, o) ELSE c
<1>1. n \in Frames /\ Occurs(n, l) /\ n # Null
  BY SchedulerAssumption
<1>2. n = c \/ quanta[c] = 0
  OBVIOUS
<1>3. /\ current' = n /\ cr3' \in {n, KernelPML4}
      /\ registers' = Saved /\ cpu' = Saved[n] /\ mode' = mode
      /\ quanta' = [Refill(c) EXCEPT ![n] = DecQuanta(@)]
  BY <1>1 DEF Dispatch, EntryTables
<1> HIDE DEF n
<1>q. quanta \in [Frames -> 0 .. 255]
  BY DEF IInv, TypeOK
<1>4. Quantum \in 1 .. 255 /\ quanta[c] \in 0 .. Quantum
  <2>1. Quantum < 256
    BY DEF Fits
  <2>2. Quantum \in 1 .. 255
    BY <2>1, SchedulerAssumption
  <2>3. quanta[c] \in 0 .. 255
    BY <1>q
  <2>4. quanta[c] \in 0 .. Quantum
    BY <2>3, SchedulerAssumption
  <2> QED BY <2>2, <2>4
<1>5. /\ Refill(c) \in [Frames -> 0 .. 255]
      /\ Refill(c)[n] \in 1 .. Quantum
      /\ \A f \in Frames : Occurs(f, l) /\ f # n => Refill(c)[f] = Quantum
  <2>1. CASE quanta[c] = 0
    <3>1. Refill(c) = [quanta EXCEPT ![c] = Quantum]
      BY <2>1 DEF Refill
    <3> QED BY <1>q, <1>1, <1>4, <3>1
  <2>2. CASE quanta[c] # 0
    <3>1. Refill(c) = quanta /\ n = c
      BY <2>2 DEF Refill, n
    <3> QED BY <1>q, <1>1, <1>4, <2>2, <3>1
  <2> QED BY <2>1, <2>2
<1>6. DecQuanta(Refill(c)[n]) = Refill(c)[n] - 1
  <2>1. Refill(c)[n] \in 1 .. Quantum /\ Quantum \in 1 .. 255
    BY <1>4, <1>5
  <2> QED BY <2>1, DecQuantaAboveZero
<1>7. /\ quanta' \in [Frames -> 0 .. 255]
      /\ \A f \in Frames : Occurs(f, l) =>
           IF f = n THEN quanta'[f] < Quantum ELSE quanta'[f] = Quantum
  <2>1. PICK r \in [Frames -> 0 .. 255] : r = Refill(c)
    BY <1>5
  <2>2. PICK q \in 0 .. 255 : q = r[n] - 1 /\ q < Quantum
    <3>1. r[n] \in 1 .. Quantum /\ Quantum \in 1 .. 255
      BY <1>4, <1>5, <2>1
    <3> QED BY ONLY <3>1
  <2>3. quanta' = [r EXCEPT ![n] = q]
    BY <1>3, <1>6, <2>1, <2>2
  <2>4. /\ quanta' \in [Frames -> 0 .. 255] /\ quanta'[n] = q
        /\ \A f \in Frames : f # n => quanta'[f] = r[f]
    BY <1>1, <2>3
  <2> QED BY <1>1, <1>5, <2>1, <2>2, <2>4
<1> QED BY <1>1, <1>2, <1>3, <1>7, Zenon DEF n

\* When the list is not empty, no task that a tick leaves linked is invalid
\* unless it is the candidate.
LEMMA OnlyCandidateInvalid ==
    ASSUME IInv, Candidate \in Frames
    PROVE  \A f \in Frames : f \in invalid /\ Linked(f) => f = Candidate
  BY CandidateFacts, SchedulerAssumption DEF IInv, CpuInv

LEMMA TaskSwitchIdlePreserves ==
    ASSUME IInv, TaskSwitchIdle
    PROVE  IInv'
<1> USE DEF TaskSwitchIdle, listVars, birthVars
<1>1. cpu' \in Registers /\ cpu'.ctx = cpu.ctx /\ cpu'.rbx = cpu.rbx
                         /\ cpu'.pc = cpu.pc
  BY Zenon DEF IInv, TypeOK, Registers, Interrupted
<1>2. TypeOK'
  BY <1>1 DEF IInv, TypeOK, EntryTables
<1>3. BirthInv' /\ ListInv' /\ QuantaKept'
  BY DEF IInv, BirthInv, ListInv, NoTaskLost, QuantaKept, Linked
<1>4. CpuInv' /\ ContextInv'
  BY <1>1 DEF IInv, CpuInv, Linked, OwnTables, EntryTables, ContextInv,
              ContextKept, Context
<1> QED BY <1>2, <1>3, <1>4 DEF IInv

\* What a tick leaves behind that has given the CPU to task n.
Switched(n) ==
    /\ procs' \in Seq(Frames) /\ Distinct(procs')
    /\ orphanNext' \in [Frames -> Frames \cup {Null}]
    /\ Linked(n)'
    /\ \A f \in Frames : Linked(f)' =>
            /\ Linked(f) /\ f \notin invalid
            /\ IF f = n THEN quanta'[f] < Quantum ELSE quanta'[f] = Quantum
    /\ \A f \in spawned : f \notin invalid => Linked(f)'
    /\ current' = n /\ cr3' \in {n, KernelPML4}
    /\ registers' = Saved /\ cpu' = Saved[n] /\ mode' = mode
    /\ quanta' \in [Frames -> 0 .. 255]
    /\ UNCHANGED <<birthVars, invalid, schedulingStarted, done>>

LEMMA SwitchPreserves ==
    ASSUME IInv, Candidate \in Frames, NEW n \in Frames, Switched(n)
    PROVE  IInv'
<1> USE DEF birthVars, Switched
<1>1. /\ Saved \in [Frames -> Registers]
      /\ \A f \in Frames : Saved[f].ctx = f
      /\ \A f \in spawned : Saved[f].rbx = done[f]
  BY SavedFacts
<1>2. TypeOK'
  BY <1>1 DEF IInv, TypeOK
<1>3. BirthInv'
  BY DEF IInv, BirthInv
<1>4. ListInv'
  BY DEF IInv, ListInv, NoTaskLost
<1>5. QuantaKept'
  BY DEF IInv, TypeOK, QuantaKept
<1>6. CpuInv'
  BY <1>1, SchedulerAssumption DEF CpuInv, OwnTables
<1>7. ContextInv'
  BY <1>1 DEF IInv, TypeOK, ContextInv, ContextKept, Context
<1> QED BY <1>2, <1>3, <1>4, <1>5, <1>6, <1>7 DEF IInv

LEMMA RunSwitches ==
    ASSUME Fits, IInv, TaskSwitchRun
    PROVE  \E n \in Frames : Switched(n)
<1> DEFINE c == Candidate
<1>1. c \in Frames /\ c \notin invalid /\ Dispatch(c, procs, orphanNext)
      /\ UNCHANGED <<listVars, birthVars, invalid, schedulingStarted, done>>
  BY DEF TaskSwitchRun
<1>2. c \in spawned /\ Occurs(c, procs)
  BY <1>1, CandidateFacts DEF Linked
<1>3. /\ Successor(c, procs, orphanNext) \in Frames
      /\ Occurs(Successor(c, procs, orphanNext), procs)
  BY <1>1, <1>2, SuccessorLinked DEF IInv, TypeOK
<1>4. /\ quanta[c] <= Quantum
      /\ \A f \in Frames : Occurs(f, procs) /\ f # c => quanta[f] = Quantum
  <2>1. \A f \in Frames : Linked(f) /\ f # current => quanta[f] = Quantum
    BY DEF IInv, QuantaKept, ListInv
  <2>2. c = current \/ current \notin Frames
    BY <1>1, CandidateFacts, SchedulerAssumption
  <2>3. quanta[c] <= Quantum
    <3>1. quanta[c] = Quantum \/ quanta[c] < Quantum
      BY <1>1, <1>2 DEF IInv, QuantaKept, Linked
    <3>2. quanta[c] \in 0 .. 255
      BY <1>1 DEF IInv, TypeOK
    <3> QED BY <3>1, <3>2, SchedulerAssumption
  <2> QED BY <2>1, <2>2, <2>3 DEF Linked
<1>5. PICK n \in Frames :
             /\ Occurs(n, procs)
             /\ current' = n /\ cr3' \in {n, KernelPML4}
             /\ registers' = Saved /\ cpu' = Saved[n] /\ mode' = mode
             /\ quanta' \in [Frames -> 0 .. 255]
             /\ \A f \in Frames : Occurs(f, procs) =>
                  IF f = n THEN quanta'[f] < Quantum ELSE quanta'[f] = Quantum
  BY <1>1, <1>2, <1>3, <1>4, DispatchOutcome
<1>6. \A f \in Frames : Linked(f)' => Linked(f) /\ f \notin invalid
  BY <1>1, OnlyCandidateInvalid DEF Linked, listVars
<1>7. \A f \in spawned : f \notin invalid => Linked(f)'
  BY <1>1 DEF IInv, ListInv, NoTaskLost, Linked, listVars
<1>8. /\ procs' \in Seq(Frames) /\ Distinct(procs') /\ Linked(n)'
      /\ orphanNext' \in [Frames -> Frames \cup {Null}]
  BY <1>1, <1>5 DEF IInv, TypeOK, ListInv, NoTaskLost, Linked, listVars
<1>9. \A f \in Frames : Linked(f)' =>
                /\ Linked(f) /\ f \notin invalid
                /\ IF f = n THEN quanta'[f] < Quantum ELSE quanta'[f] = Quantum
  BY <1>1, <1>5, <1>6 DEF Linked, listVars
<1> QED BY <1>1, <1>5, <1>7, <1>8, <1>9 DEF Switched

\* With unique pids the frame TerminateTask unlinks is the exited one.
LEMMA ReapUnlinksCandidate ==
    ASSUME IInv, TaskSwitchReap
    PROVE  /\ procs' \in Seq(Frames) /\ Distinct(procs')
           /\ orphanNext' \in [Frames -> Frames \cup {Null}]
           /\ \A f : Linked(f)' <=> (Linked(f) /\ f # Candidate)
<1> DEFINE c == Candidate
           k == FindPid(pid[c])
<1>1. c \in Frames /\ Linked(c)
  BY CandidateFacts DEF TaskSwitchReap
<1>2. k \in 1 .. Len(procs) /\ procs[k] = c
  BY <1>1, FindPidOfLinked
<1>3. /\ procs' = RemoveAt(procs, k)
      /\ orphanNext' = [orphanNext EXCEPT ![c] = NextOf(c, procs, orphanNext)]
  BY <1>2 DEF TaskSwitchReap, Unlink
<1> HIDE DEF c, k
<1>4. procs \in Seq(Frames) /\ Distinct(procs)
  BY DEF IInv, TypeOK, ListInv, NoTaskLost
<1>5. procs' \in Seq(Frames) /\ Distinct(procs')
  BY <1>2, <1>3, <1>4, RemoveAtProperties, RemoveAtLinks
<1>6. \A f : Linked(f)' <=> (Linked(f) /\ f # c)
  BY <1>2, <1>3, <1>4, RemoveAtLinks DEF Linked
<1>7. NextOf(c, procs, orphanNext) \in Frames \cup {Null}
  <2> DEFINE i == CHOOSE i \in 1 .. Len(procs) : procs[i] = c
  <2>1. i \in 1 .. Len(procs) /\ Len(procs) \in Nat
    BY <1>2, <1>4
  <2>2. NextOf(c, procs, orphanNext) = IF i < Len(procs) THEN procs[i + 1] ELSE Null
    BY <1>1 DEF NextOf, Linked
  <2> HIDE DEF i
  <2>3. i < Len(procs) => i + 1 \in 1 .. Len(procs)
    BY <2>1
  <2> QED BY <1>4, <2>2, <2>3, ElementOfSeq
<1>8. orphanNext' \in [Frames -> Frames \cup {Null}]
  BY <1>3, <1>7, Zenon DEF IInv, TypeOK
<1> QED BY <1>5, <1>6, <1>8 DEF c

\* The reaped task was current; unless the list is empty now, another one is.
LEMMA ReapSwitches ==
    ASSUME Fits, IInv, TaskSwitchReap
    PROVE  /\ Candidate \in Frames /\ Candidate \in invalid /\ Candidate \in spawned
           /\ Linked(Candidate) /\ current = Candidate /\ cpu.ctx = Candidate
           /\ cpu.pc = "spin"
           /\ \A f \in spawned : f \notin invalid => Linked(f)'
           /\ procs' # <<>> => \E n \in Frames : Switched(n)
           /\ procs' = <<>> =>
                /\ current' = ProcHead /\ registers' = Saved /\ cpu' = Interrupted
                /\ cr3' = KernelPML4 /\ UNCHANGED <<quanta, mode>>
<1> DEFINE c == Candidate
<1>1. /\ c \in Frames /\ c \in invalid /\ c \in spawned /\ Linked(c)
      /\ current = c /\ cpu.ctx = c /\ cpu.pc = "spin"
  <2>1. c \in Frames /\ c \in invalid
    BY DEF TaskSwitchReap
  <2>2. c \in spawned /\ Linked(c)
    BY <2>1, CandidateFacts
  <2>3. current = c /\ cpu.pc = "spin"
    BY <2>1, <2>2 DEF IInv, CpuInv
  <2> QED BY <2>1, <2>2, <2>3 DEF IInv, CpuInv
<1>2. /\ procs' \in Seq(Frames) /\ Distinct(procs')
      /\ orphanNext' \in [Frames -> Frames \cup {Null}]
      /\ \A f : Linked(f)' <=> (Linked(f) /\ f # c)
  BY ReapUnlinksCandidate
<1>3. UNCHANGED <<birthVars, invalid, schedulingStarted, done>>
  BY DEF TaskSwitchReap
<1>4. \A f \in Frames : Linked(f)' => Linked(f) /\ f \notin invalid /\ quanta[f] = Quantum
  BY <1>1, <1>2, OnlyCandidateInvalid DEF IInv, QuantaKept, ListInv
<1>5. \A f \in spawned : f \notin invalid => Linked(f)'
  BY <1>1, <1>2 DEF IInv, ListInv, NoTaskLost
<1>6. \/ procs' # <<>> /\ Dispatch(procs'[1], procs', orphanNext')
      \/ /\ procs' = <<>>
         /\ current' = ProcHead /\ registers' = Saved /\ cpu' = Interrupted
         /\ cr3' = KernelPML4 /\ UNCHANGED <<quanta, mode>>
  BY DEF TaskSwitchReap, FirstAfterReap, EntryTables
<1>7. ASSUME procs' # <<>> PROVE \E n \in Frames : Switched(n)
  <2> DEFINE d == procs'[1]
  <2>1. d \in Frames /\ Occurs(d, procs')
    <3>1. 1 \in 1 .. Len(procs')
      BY <1>2, <1>7, EmptySeq
    <3> QED BY <1>2, <3>1, ElementOfSeq DEF Occurs
  <2>2. quanta[d] = Quantum /\ \A f \in Frames : Occurs(f, procs') => quanta[f] = Quantum
    BY <1>4, <2>1 DEF Linked
  <2>3. /\ Successor(d, procs', orphanNext') \in Frames
        /\ Occurs(Successor(d, procs', orphanNext'), procs')
    BY <1>2, <2>1, SuccessorLinked
  <2>4. quanta[d] <= Quantum
    BY <2>2, SchedulerAssumption
  <2> HIDE DEF d
  <2>5. PICK n \in Frames :
             /\ Occurs(n, procs')
             /\ current' = n /\ cr3' \in {n, KernelPML4}
             /\ registers' = Saved /\ cpu' = Saved[n] /\ mode' = mode
             /\ quanta' \in [Frames -> 0 .. 255]
             /\ \A f \in Frames : Occurs(f, procs') =>
                  IF f = n THEN quanta'[f] < Quantum ELSE quanta'[f] = Quantum
    <3>1. Dispatch(d, procs', orphanNext')
      BY <1>6, <1>7 DEF d
    <3> QED BY <2>1, <2>2, <2>3, <2>4, <3>1, DispatchOutcome
  <2>6. \A f \in Frames : Linked(f)' =>
                /\ Linked(f) /\ f \notin invalid
                /\ IF f = n THEN quanta'[f] < Quantum ELSE quanta'[f] = Quantum
    BY <1>4, <2>5 DEF Linked
  <2>7. Linked(n)'
    BY <2>5 DEF Linked
  <2> QED BY <1>2, <1>3, <1>5, <2>5, <2>6, <2>7 DEF Switched
<1> QED BY <1>1, <1>5, <1>6, <1>7

LEMMA TaskSwitchReapPreserves ==
    ASSUME Fits, IInv, TaskSwitchReap
    PROVE  IInv'
<1> DEFINE c == Candidate
<1>1. /\ c \in Frames /\ c \in invalid /\ c \in spawned /\ Linked(c)
      /\ current = c /\ cpu.ctx = c /\ cpu.pc = "spin"
  BY ReapSwitches
<1>2. /\ procs' \in Seq(Frames) /\ Distinct(procs')
      /\ orphanNext' \in [Frames -> Frames \cup {Null}]
  BY ReapUnlinksCandidate
<1>3. UNCHANGED <<birthVars, invalid, schedulingStarted, done>>
  BY DEF TaskSwitchReap
<1>5. \A f \in spawned : f \notin invalid => Linked(f)'
  BY ReapSwitches
<1>7. CASE procs' # <<>>
  BY <1>1, <1>7, ReapSwitches, SwitchPreserves
<1>8. CASE procs' = <<>>
  <2>0. /\ current' = ProcHead /\ registers' = Saved /\ cpu' = Interrupted
        /\ cr3' = KernelPML4 /\ UNCHANGED <<quanta, mode>>
    BY <1>8, ReapSwitches
  <2>1. /\ Saved \in [Frames -> Registers]
        /\ \A f \in Frames : Saved[f].ctx = f
        /\ \A f \in spawned : Saved[f].rbx = done[f]
    BY <1>1, SavedFacts
  <2>2. /\ cpu' \in Registers /\ cpu'.ctx = c /\ cpu'.rbx = cpu.rbx
        /\ cpu'.pc = "spin"
    BY <1>1, <1>8, <2>0, Zenon DEF IInv, TypeOK, Registers, Interrupted
  <2>3. \A f : ~Linked(f)'
    BY <1>8, <2>0 DEF Linked, Occurs
  <2>4. TypeOK'
    BY <1>2, <1>3, <1>8, <2>0, <2>1, <2>2, Zenon DEF IInv, TypeOK, birthVars
  <2>5. BirthInv' /\ ListInv' /\ QuantaKept'
    BY <1>2, <1>3, <1>5, <2>3
       DEF IInv, BirthInv, ListInv, NoTaskLost, QuantaKept, birthVars
  <2>6. CpuInv'
    BY <1>1, <1>3, <1>8, <2>0, <2>2, <2>3, SchedulerAssumption
       DEF CpuInv, OwnTables, birthVars
  <2>7. cpu.rbx = done[c]
    BY <1>1 DEF IInv, ContextInv, ContextKept, Context
  <2>8. ContextInv'
    BY <1>3, <1>8, <2>0, <2>1, <2>2, <2>7 DEF ContextInv, ContextKept, Context, birthVars
  <2> QED BY <2>4, <2>5, <2>6, <2>8 DEF IInv
<1> QED BY <1>7, <1>8

\* The search of a reaping tick never runs off the list.
LEMMA ReapFindsTask ==
    ASSUME IInv
    PROVE  ~TaskSwitchReapMissing
  BY CandidateFacts, FindPidOfLinked DEF TaskSwitchReapMissing

-----------------------------------------------------------------------------
(* Theorems. *)

\* IInv is inductive.
LEMMA NextPreserves ==
    ASSUME Fits, IInv, [Next]_vars
    PROVE  IInv'
<1>1. CASE Work
  BY <1>1, WorkPreserves
<1>2. CASE \E f \in Frames : IntAddTask(f)
  BY <1>2, IntAddTaskPreserves
<1>3. CASE MarkSchedulingActive
  BY <1>3, MarkSchedulingActivePreserves
<1>4. CASE SyscallStub \/ KeyboardHandler
  BY <1>4, KernelTablesPreserve
<1>5. CASE Exception
  BY <1>5, ExceptionPreserves
<1>6. CASE ProcessExit \/ IntAddTaskFails
  BY <1>6, ProcessExitPreserves, IntAddTaskFailsPreserves
<1>7. CASE TimerStub
  <2>1. CASE TaskSwitchRun
    BY <2>1, RunSwitches, SwitchPreserves DEF TaskSwitchRun
  <2> QED BY <1>7, <2>1, TaskSwitchIdlePreserves, TaskSwitchReapPreserves,
             ReapFindsTask DEF TimerStub
<1>8. CASE Halted \/ UNCHANGED vars
  <2>u. UNCHANGED vars
    BY <1>8 DEF Halted
  <2> USE <2>u DEF vars
  <2>1. TypeOK'
    BY DEF IInv, TypeOK
  <2>2. BirthInv' /\ ListInv' /\ QuantaKept'
    BY DEF IInv, BirthInv, ListInv, NoTaskLost, QuantaKept, Linked
  <2>3. CpuInv' /\ ContextInv'
    BY DEF IInv, CpuInv, Linked, OwnTables, ContextInv, ContextKept, Context
  <2> QED BY <2>1, <2>2, <2>3 DEF IInv
<1> QED BY <1>1, <1>2, <1>3, <1>4, <1>5, <1>6, <1>7, <1>8 DEF Next, CommonNext

\* The inductive invariant of the list, the CPU and the contexts holds whatever
\* TimerStub, the other handlers and IntAddTask interrupt.
THEOREM Invariance == Fits => (Spec => []IInv)
<1> SUFFICES ASSUME Fits PROVE Spec => []IInv
  OBVIOUS
<1>1. Init => IInv
  BY InitEstablishes
<1>2. IInv /\ [Next]_vars => IInv'
  BY NextPreserves
<1> QED BY <1>1, <1>2, PTL DEF Spec

\* The variables of the scheduler always have their types.
THEOREM TypeCorrect == Fits => (Spec => []TypeOK)
<1>1. IInv => TypeOK
  BY DEF IInv
<1> QED BY <1>1, Invariance, PTL

\* Whatever is interrupted when, TaskSwitch saves into and restores from the
\* frame of the task that is on the CPU.
THEOREM CurrentOnCpu == Fits => (Spec => []CpuRunsCurrent)
<1>1. IInv => CpuRunsCurrent
  BY DEF IInv, TypeOK, CpuInv, CpuRunsCurrent
<1> QED BY <1>1, Invariance, PTL

\* No switch undoes or repeats an instruction of a task.
THEOREM ContextsKept == Fits => (Spec => []ContextKept)
<1>1. IInv => ContextKept
  BY DEF IInv, ContextInv
<1> QED BY <1>1, Invariance, PTL

\* A task that has not exited stays in the list, exactly once.
THEOREM TasksKept == Fits => (Spec => []NoTaskLost)
<1>1. IInv => NoTaskLost
  BY DEF IInv, ListInv
<1> QED BY <1>1, Invariance, PTL

\* Waiting tasks have a whole quantum, so the uint8_t quanta never wraps.
THEOREM QuantaNeverWrap == Fits => (Spec => []QuantaKept)
<1>1. IInv => QuantaKept
  BY DEF IInv
<1> QED BY <1>1, Invariance, PTL

\* The CPU never runs on another task's page tables.
THEOREM TablesOwn == Fits => (Spec => []OwnTables)
<1>1. IInv => OwnTables
  BY DEF IInv, CpuInv
<1> QED BY <1>1, Invariance, PTL

\* TerminateTask, called by a tick, unlinks the exited task and no other.
THEOREM OnlyExitedReaped == Fits => (Spec => ReapsExited)
<1> SUFFICES ASSUME Fits PROVE Spec => ReapsExited
  OBVIOUS
<1> DEFINE A == \A f \in Frames : Linked(f) /\ ~Linked(f)' => f \in invalid
<1>1. IInv /\ [Next]_vars => [A]_vars
  <2> SUFFICES ASSUME IInv, Next, NEW f \in Frames, Linked(f), ~Linked(f)'
               PROVE  f \in invalid
    OBVIOUS
  <2>1. CASE UNCHANGED procs
    BY <2>1 DEF Linked
  <2>2. CASE \E g \in Frames : IntAddTask(g)
    <3>1. PICK g \in Frames : IntAddTask(g)
      BY <2>2
    <3>2. procs' = <<g>> \o procs /\ procs \in Seq(Frames)
      BY <3>1 DEF IntAddTask, WithFirst, IInv, TypeOK
    <3> QED BY <3>2, PrependLinks DEF Linked
  <2>3. CASE TaskSwitchReap
    BY <2>3, ReapUnlinksCandidate DEF TaskSwitchReap
  <2>4. CASE Work \/ MarkSchedulingActive \/ SyscallStub \/ Exception
             \/ ProcessExit \/ IntAddTaskFails \/ KeyboardHandler \/ Halted
    BY <2>1, <2>4
       DEF Work, MarkSchedulingActive, SyscallStub, Exception, ProcessExit,
           IntAddTaskFails, CommonExceptionHandler, StopIn, MarkInvalid,
           KeyboardHandler, Halted, vars, listVars
  <2>5. CASE TaskSwitchIdle \/ TaskSwitchRun \/ TaskSwitchReapMissing
    BY <2>1, <2>5
       DEF TaskSwitchIdle, TaskSwitchRun, TaskSwitchReapMissing, listVars
  <2> QED BY <2>2, <2>3, <2>4, <2>5 DEF Next, CommonNext, TimerStub
<1>2. Spec => []IInv
  BY Invariance
<1> QED BY <1>1, <1>2, PTL DEF Spec, ReapsExited

\* A tick gives the CPU to a task, or leaves it where it was.
LEMMA TickOutcome ==
    ASSUME Fits, IInv, TimerStub
    PROVE  /\ mode' = mode
           /\ \/ \E n \in Frames : Switched(n) /\ cpu'.ctx = n
              \/ procs' = <<>> /\ cpu'.ctx = cpu.ctx
<1>1. CASE TaskSwitchIdle
  BY <1>1 DEF TaskSwitchIdle, Interrupted, listVars, IInv, TypeOK, Registers
<1>2. CASE TaskSwitchReap /\ procs' = <<>>
  BY <1>2, ReapSwitches DEF Interrupted, IInv, TypeOK, Registers
<1>3. CASE TaskSwitchRun \/ (TaskSwitchReap /\ procs' # <<>>)
  <2>1. PICK n \in Frames : Switched(n)
    BY <1>3, RunSwitches, ReapSwitches
  <2>2. Candidate \in Frames
    BY <1>3 DEF TaskSwitchRun, TaskSwitchReap
  <2>3. cpu' = Saved[n] /\ mode' = mode
    BY <2>1 DEF Switched
  <2> QED BY <2>1, <2>2, <2>3, SavedFacts
<1> QED BY <1>1, <1>2, <1>3, ReapFindsTask DEF TimerStub

\* The other steps leave the CPU with the context that has it.
LEMMA OthersKeepCpu ==
    ASSUME IInv, CommonNext
    PROVE  cpu'.ctx = cpu.ctx
<1>1. cpu \in Registers
  BY DEF IInv, TypeOK
<1>2. CASE Work \/ \E f \in Frames : IntAddTask(f)
  BY <1>1, <1>2, Zenon DEF Work, IntAddTask, Registers
<1>3. CASE MarkSchedulingActive \/ SyscallStub \/ KeyboardHandler \/ Halted
  BY <1>1, <1>3
     DEF MarkSchedulingActive, SyscallStub, KeyboardHandler, Halted, vars, Registers
<1>4. CASE Exception \/ ProcessExit \/ IntAddTaskFails
  BY <1>1, <1>4, Zenon
     DEF Exception, ProcessExit, IntAddTaskFails, CommonExceptionHandler,
         StopIn, MarkInvalid, Registers
<1> QED BY <1>2, <1>3, <1>4 DEF CommonNext

\* As long as the list is not empty, every tick ends with the CPU on a task of
\* the list that has not exited, whichever context it interrupted and whatever
\* it had to reap first.
THEOREM TicksPickLive == Fits => (Spec => TickPicksLive)
<1> SUFFICES ASSUME Fits PROVE Spec => TickPicksLive
  OBVIOUS
<1> DEFINE A == TimerStub /\ procs' # <<>>
                  => cpu'.ctx \in Frames /\ Linked(cpu.ctx)' /\ cpu'.ctx \notin invalid'
<1>1. IInv /\ [Next]_vars => [A]_vars
  <2> SUFFICES ASSUME IInv, TimerStub, procs' # <<>>
               PROVE  cpu'.ctx \in Frames /\ Linked(cpu.ctx)' /\ cpu'.ctx \notin invalid'
    OBVIOUS
  <2>1. PICK n \in Frames : Switched(n) /\ cpu'.ctx = n
    BY TickOutcome
  <2>2. Linked(n)' /\ n \notin invalid'
    BY <2>1 DEF Switched
  <2>3. Linked(cpu.ctx)'
    BY <2>1, <2>2 DEF Linked
  <2> QED BY <2>1, <2>2, <2>3
<1>2. Spec => []IInv
  BY Invariance
<1> QED BY <1>1, <1>2, PTL DEF Spec, TickPicksLive

\* _kmain's registers are saved nowhere: once a task has the CPU, no step brings
\* _kmain back.
THEOREM BootIsLeft == Fits => (Spec => BootNeverResumes)
<1> SUFFICES ASSUME Fits PROVE Spec => BootNeverResumes
  OBVIOUS
<1> DEFINE A == cpu.ctx # Boot => cpu'.ctx # Boot
<1>1. IInv /\ [Next]_vars => [A]_vars
  <2> SUFFICES ASSUME IInv, Next, cpu.ctx # Boot PROVE cpu'.ctx # Boot
    OBVIOUS
  <2>1. CASE CommonNext
    BY <2>1, OthersKeepCpu
  <2>2. CASE TimerStub
    BY <2>2, TickOutcome, SchedulerAssumption
  <2> QED BY <2>1, <2>2 DEF Next
<1>2. Spec => []IInv
  BY Invariance
<1> QED BY <1>1, <1>2, PTL DEF Spec, BootNeverResumes

\* A tick always gives the CPU back: the pid of an exited task is found in the
\* list, and there is a task to dispatch whenever TaskSwitch needs one.
THEOREM TicksReturn == Fits => (Spec => TicksNeverStop)
<1> SUFFICES ASSUME Fits PROVE Spec => TicksNeverStop
  OBVIOUS
<1> DEFINE A == TimerStub => mode' = "run"
<1>1. IInv /\ [Next]_vars => [A]_vars
  <2> SUFFICES ASSUME IInv, TimerStub PROVE mode' = "run"
    OBVIOUS
  <2>1. mode = "run"
    BY DEF TimerStub, TaskSwitchIdle, TaskSwitchRun, TaskSwitchReap,
           TaskSwitchReapMissing, TimerArrives
  <2> QED BY <2>1, TickOutcome
<1>2. Spec => []IInv
  BY Invariance
<1> QED BY <1>1, <1>2, PTL DEF Spec, TicksNeverStop

-----------------------------------------------------------------------------
(* The scheduler implements the task pool. *)

\* What the pool sees: the life of each frame, who has the CPU, and whether the
\* kernel has stopped.
LEMMA PoolStutters ==
    ASSUME UNCHANGED <<procs, spawned, invalid, current, mode>>
    PROVE  UNCHANGED Pool!poolVars
  BY DEF Pool!poolVars, TaskState, Linked

\* A list that changes for nobody but a frame that was reaped.
LEMMA TickIsTick ==
    ASSUME Fits, IInv, TaskSwitchRun \/ TaskSwitchReap
    PROVE  Pool!Tick
<1> DEFINE st == [f \in Frames |-> TaskState(f)]
           at == IF current \in Frames THEN current ELSE Null
<1>1. mode = "run" /\ mode' = mode /\ Candidate \in Frames
  BY TickOutcome DEF TaskSwitchRun, TaskSwitchReap, TimerArrives, TimerStub
<1>2. \A f \in Frames : TaskState(f) = "exited" <=> f \in spawned /\ Linked(f) /\ f \in invalid
  BY DEF TaskState
<1>3. \A f \in Frames : TaskState(f) = "ready" <=> f \in spawned /\ Linked(f) /\ f \notin invalid
  BY DEF TaskState
<1>4. ASSUME NEW f \in Frames
      PROVE  TaskState(f)' = IF f = at /\ TaskState(f) = "exited" THEN "gone"
                                                                  ELSE TaskState(f)
  <2>1. CASE TaskSwitchRun
    <3>1. UNCHANGED <<procs, spawned, invalid>> /\ Candidate \notin invalid
      BY <2>1 DEF TaskSwitchRun, listVars, birthVars
    <3>2. TaskState(f)' = TaskState(f)
      BY <3>1 DEF TaskState, Linked
    <3>3. f = at => f = Candidate
      BY SchedulerAssumption DEF Candidate
    <3> QED BY <1>2, <3>1, <3>2, <3>3
  <2>2. CASE TaskSwitchReap
    <3>1. UNCHANGED <<spawned, invalid>>
      BY <2>2 DEF TaskSwitchReap, birthVars
    <3>2. Linked(f)' <=> (Linked(f) /\ f # Candidate)
      BY <2>2, ReapUnlinksCandidate
    <3>3. /\ Candidate \in invalid /\ Candidate \in spawned /\ Linked(Candidate)
          /\ at = Candidate
      BY <2>2, ReapSwitches
    <3>4. CASE f = Candidate
      <4>1. TaskState(f)' = "gone"
        BY <3>1, <3>2, <3>3, <3>4 DEF TaskState
      <4> QED BY <1>2, <3>3, <3>4, <4>1
    <3>5. CASE f # Candidate
      <4>1. TaskState(f)' = TaskState(f)
        BY <3>1, <3>2, <3>5 DEF TaskState
      <4> QED BY <3>3, <3>5, <4>1
    <3> QED BY <3>4, <3>5
  <2> QED BY <2>1, <2>2
<1>5. CASE TaskSwitchReap /\ procs' = <<>>
  <2>1. current' = ProcHead /\ current' \notin Frames
    BY <1>5, ReapSwitches, SchedulerAssumption
  <2>2. \A f \in Frames : ~Linked(f)'
    BY <1>5 DEF Linked, Occurs
  <2>3. \A f \in Frames : TaskState(f) # "ready"
    BY <1>3, <1>5, <2>2, ReapSwitches
  <2>4. Pool!Ready = {}
    BY <2>3 DEF Pool!Ready
  <2> QED BY <1>1, <1>4, <2>1, <2>4 DEF Pool!Tick
<1>6. CASE TaskSwitchRun \/ (TaskSwitchReap /\ procs' # <<>>)
  <2>1. PICK n \in Frames : Switched(n)
    BY <1>6, RunSwitches, ReapSwitches
  <2>2. current' = n /\ Linked(n) /\ n \notin invalid /\ n \in spawned
    BY <2>1 DEF Switched, IInv, ListInv
  <2>3. n \in Pool!Ready
    BY <1>3, <2>2 DEF Pool!Ready
  <2> QED BY <1>1, <1>4, <2>2, <2>3 DEF Pool!Tick
<1> QED BY <1>5, <1>6

\* IntAddTask is the Spawn, MarkInvalid the Exit.
LEMMA SpawnIsSpawn ==
    ASSUME IInv, NEW f \in Frames, IntAddTask(f)
    PROVE  Pool!Spawn(f)
<1>1. /\ mode = "run" /\ f \notin spawned /\ spawned' = spawned \cup {f}
      /\ UNCHANGED <<current, mode, invalid>> /\ procs' = <<f>> \o procs
  BY DEF IntAddTask, Executing, WithFirst
<1>2. procs \in Seq(Frames) /\ f \notin invalid
  BY <1>1 DEF IInv, TypeOK, BirthInv
<1>3. \A g : Linked(g)' <=> (g = f \/ Linked(g))
  BY <1>1, <1>2, PrependLinks DEF Linked
<1>4. TaskState(f) = "new" /\ TaskState(f)' = "ready"
  BY <1>1, <1>2, <1>3 DEF TaskState
<1>5. \A g \in Frames : g # f => TaskState(g)' = TaskState(g)
  BY <1>1, <1>3 DEF TaskState
<1> QED BY <1>1, <1>4, <1>5, Zenon DEF Pool!Spawn

LEMMA MarkIsExit ==
    ASSUME IInv, Executing, current \in Frames, MarkInvalid
    PROVE  Pool!Exit(current)
<1>1. /\ mode = "run" /\ invalid' = invalid \cup {current}
      /\ UNCHANGED <<procs, spawned, current, mode>>
  BY DEF Executing, MarkInvalid, listVars, birthVars
<1>2. current \in spawned /\ Linked(current) /\ current \notin invalid
  BY WhoExecutes, SchedulerAssumption
<1>3. TaskState(current) = "ready" /\ TaskState(current)' = "exited"
  BY <1>1, <1>2 DEF TaskState, Linked
<1>4. \A g \in Frames : g # current => TaskState(g)' = TaskState(g)
  BY <1>1 DEF TaskState, Linked
<1> QED BY <1>1, <1>3, <1>4, Zenon DEF Pool!Exit

LEMMA StopIsStop ==
    ASSUME NEW m \in {"panic", "hung", "crashed"}, StopIn(m)
    PROVE  Pool!Stop
  BY DEF StopIn, Pool!Stop, TaskState, Linked, listVars, birthVars

LEMMA PoolStep ==
    ASSUME Fits, IInv, [Next]_vars
    PROVE  [Pool!PoolNext]_(Pool!poolVars)
<1>1. CASE Work \/ MarkSchedulingActive \/ SyscallStub \/ KeyboardHandler
           \/ TaskSwitchIdle \/ Halted \/ UNCHANGED vars
  <2>1. UNCHANGED <<procs, spawned, invalid, current, mode>>
    BY <1>1 DEF Work, MarkSchedulingActive, SyscallStub, KeyboardHandler,
                TaskSwitchIdle, Halted, vars, listVars, birthVars
  <2> QED BY <2>1, PoolStutters
<1>2. CASE \E f \in Frames : IntAddTask(f)
  BY <1>2, SpawnIsSpawn DEF Pool!PoolNext
<1>3. CASE Exception \/ ProcessExit \/ IntAddTaskFails
  <2>1. \/ \E m \in {"panic", "hung", "crashed"} : StopIn(m)
        \/ Executing /\ current \in Frames /\ MarkInvalid
    BY <1>3 DEF Exception, ProcessExit, IntAddTaskFails, CommonExceptionHandler
  <2>2. CASE \E m \in {"panic", "hung", "crashed"} : StopIn(m)
    BY <2>2, StopIsStop DEF Pool!PoolNext
  <2>3. CASE Executing /\ current \in Frames /\ MarkInvalid
    BY <2>3, MarkIsExit DEF Pool!PoolNext
  <2> QED BY <2>1, <2>2, <2>3
<1>4. CASE TaskSwitchRun \/ TaskSwitchReap
  BY <1>4, TickIsTick DEF Pool!PoolNext
<1> QED BY <1>1, <1>2, <1>3, <1>4, ReapFindsTask DEF Next, CommonNext, TimerStub

\* Lists, pids, quanta and saved registers implement the task pool: every step
\* of the kernel spawns one task, lets the running one exit, gives the CPU to a
\* ready task, stops, or changes nothing the pool shows.
THEOREM RefinesTaskPool == Fits => (Spec => Pool!PoolSafety)
<1> SUFFICES ASSUME Fits PROVE Spec => Pool!PoolSafety
  OBVIOUS
<1>1. Init => Pool!PoolInit
  BY SchedulerAssumption DEF Init, Pool!PoolInit, TaskState
<1>2. IInv /\ [Next]_vars => [Pool!PoolNext]_(Pool!poolVars)
  BY PoolStep
<1>3. Spec => []IInv
  BY Invariance
<1> QED BY <1>1, <1>2, <1>3, PTL DEF Spec, Pool!PoolSafety
=============================================================================
