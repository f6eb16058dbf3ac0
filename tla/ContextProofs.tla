--------------------------- MODULE ContextProofs ----------------------------
(***************************************************************************)
(* Theorems about the registers and the kernel stacks, for any number of   *)
(* tasks, stubs and system call results, and interrupts nested to any      *)
(* depth, with an interrupt handler that returns with interrupts off.      *)
(*                                                                         *)
(* The invariant has three parts: the shape of each kernel stack, which    *)
(* is a grammar of frames (StackOK); what the processor holds at the point *)
(* of the kernel it is at, for the running task, and what its context      *)
(* holds for a suspended one (RunningOK, SuspendedOK); and how far each    *)
(* program is in its stub (StubAt).                                        *)
(***************************************************************************)
EXTENDS Context, SequenceTheorems, TLAPS

SavedByIrq == CallerSaved \cup {"r8"}
Preserved  == CalleeSaved \ {"r8"}     \* what no path through the kernel stores

ExitPoint   == {"irq_handler", "exit_banked", "exit_spsr", "exit_pc"}
KernelPoint == ExitPoint \cup {"launch_task", "syscall", "handler_tail", "dispatched"}

(* A view is a record with these fields, its registers a function on Reg.  *)
IsView(v) == /\ v \in [r : {v.r}, neg : {v.neg}, pc : {v.pc}, sp : {v.sp}, lr : {v.lr}]
             /\ v.r = [x \in Reg |-> v.r[x]]

(* The three kinds of frames on the kernel stack of a task, whose program  *)
(* is to find the view o and is in a stub that reports errors if rep.      *)
SyscallFrame(o, rep, f) ==
    /\ "view" \in DOMAIN f
    /\ f.mode = "usr"
    /\ f.pc = IF rep THEN "cmp" ELSE "return"
    /\ f.view = o /\ o.pc = "swi"
IrqFrame(o, f) ==
    /\ "regs" \in DOMAIN f
    /\ DOMAIN f.regs = SavedByIrq
    /\ f.psr[2] = f.mode /\ f.psr[3] = FALSE
    /\ \/ /\ f.mode = "svc"
          /\ f.pc \in {"syscall", "handler_tail"}
       \/ /\ f.mode = "usr"
          /\ f.pc = o.pc /\ f.pc \in UserPoint
          /\ f.psr[4] = o.neg
          /\ \A x \in SavedByIrq : f.regs[x] = o.r[x]
          /\ f.usr_sp = o.sp /\ f.usr_lr = o.lr
ReturnFrame(f) ==
    /\ f.mode = "none"
    /\ f.pc \in {"handler_tail", "exit_banked", "syscall"}

(* What the code at point p expects from the j-th frame of stack s on.     *)
Fits(o, rep, s, j, p) ==
    /\ p \in UserPoint \cup {"launch_task"} => j = Len(s) + 1
    /\ p = "syscall"      => j \in 1 .. Len(s) /\ SyscallFrame(o, rep, s[j])
    /\ p \in ExitPoint    => j \in 1 .. Len(s) /\ IrqFrame(o, s[j])
    /\ p = "handler_tail" => j \in 1 .. Len(s) /\ ReturnFrame(s[j]) /\ s[j].pc = "exit_banked"
    /\ p = "dispatched"   => j \in 1 .. Len(s) /\ ReturnFrame(s[j]) /\ s[j].pc # "exit_banked"

IsStack(s) == s \in Seq({s[i] : i \in DOMAIN s})

(* The stack of a task that is to go on at point p.                        *)
StackOK(o, rep, s, p) ==
    /\ IsStack(s)
    /\ Fits(o, rep, s, 1, p)
    /\ \A i \in 1 .. Len(s) : /\ SyscallFrame(o, rep, s[i]) \/ IrqFrame(o, s[i]) \/ ReturnFrame(s[i])
                              /\ Fits(o, rep, s, i + 1, s[i].pc)

launching(t) == [x \in Reg |-> IF x \in CalleeSaved THEN init_task(t).regs[x] ELSE scratch]

RunningOK ==
    LET t == cur_tcb
        f == kstack[t][1]
    IN  /\ t \in Task /\ svc.sp = t
        /\ StackOK(own[t], Reports(t), kstack[t], view.pc)
        /\ IsView(view)
        /\ \/ /\ view.pc \in UserPoint
              /\ view = own[t]
              /\ psr = UserMode
           \/ /\ view.pc \in KernelPoint
              /\ psr = [mode |-> "svc", masked |-> psr.masked] /\ psr.masked \in BOOLEAN
              /\ view.pc \notin {"syscall", "handler_tail"} => psr.masked
              /\ IF view.pc = "launch_task" THEN view.r = launching(t)
                 ELSE \A x \in Preserved : view.r[x] = own[t].r[x]
              /\ view.pc = "irq_handler" => svc.lr = "exit_banked"
              /\ view.pc = "exit_spsr" => view.r["r0"] = f.psr
              /\ view.pc = "exit_pc" => svc.spsr = f.psr
              /\ view.pc \in {"exit_spsr", "exit_pc"} => view.sp = f.usr_sp /\ view.lr = f.usr_lr

SuspendedOK(t) ==
    /\ context[t].sp = t
    /\ t # cur_tcb =>
         /\ StackOK(own[t], Reports(t), kstack[t], context[t].lr)
         /\ \/ context[t] = init_task(t)
            \/ /\ context[t].lr = "dispatched"
               /\ \A x \in Preserved : context[t].regs[x] = own[t].r[x]

KInv == /\ DOMAIN svc = {"sp", "lr", "spsr"}
        /\ DOMAIN kstack = Task /\ DOMAIN context = Task /\ DOMAIN own = Task
        /\ DOMAIN call = Task
        /\ \A t \in Task : IsView(own[t])
        /\ RunningOK
        /\ \A t \in Task : SuspendedOK(t)
-----------------------------------------------------------------------------
(* Stacks as sequences: of what, does not matter.                          *)
LEMMA StackIsSeq ==
    ASSUME NEW S, NEW s \in Seq(S)
    PROVE  IsStack(s)
<1> DEFINE T == {s[i] : i \in DOMAIN s}
<1>1. Len(s) \in Nat /\ DOMAIN s = 1 .. Len(s)
  BY LenProperties
<1>2. \A i \in 1 .. Len(s) : s[i] \in T
  BY <1>1
<1>3. SubSeq(s, 1, Len(s)) \in Seq(T)
  <2> HIDE DEF T
  <2> QED
    BY <1>1, <1>2, SubSeqProperties
<1> QED
  BY <1>3, SubSeqFull DEF IsStack

LEMMA Pushed ==
    ASSUME NEW s, IsStack(s), NEW f
    PROVE  /\ IsStack(<<f>> \o s)
           /\ Len(s) \in Nat
           /\ Len(<<f>> \o s) = Len(s) + 1
           /\ (<<f>> \o s)[1] = f
           /\ \A i \in 1 .. Len(s) : (<<f>> \o s)[i + 1] = s[i]
<1> DEFINE S == {s[i] : i \in DOMAIN s} \cup {f}
<1>1. s \in Seq(S) /\ <<f>> \in Seq(S)
  BY SeqMonotonic DEF IsStack
<1>2. Len(s) \in Nat
  BY <1>1, LenProperties
<1> HIDE DEF S
<1>3. /\ <<f>> \o s \in Seq(S)
      /\ Len(<<f>> \o s) = 1 + Len(s)
      /\ \A i \in 1 .. 1 + Len(s) : (<<f>> \o s)[i] = IF i <= 1 THEN f ELSE s[i - 1]
  BY <1>1, ConcatProperties
<1>4. IsStack(<<f>> \o s)
  BY <1>3, StackIsSeq
<1> QED
  BY <1>2, <1>3, <1>4

LEMMA TwoPushed ==
    ASSUME NEW s, IsStack(s), NEW f, NEW g
    PROVE  <<f>> \o (<<g>> \o s) = <<f, g>> \o s
<1> DEFINE S == {s[i] : i \in DOMAIN s} \cup {f, g}
<1>1. s \in Seq(S) /\ <<f>> \in Seq(S) /\ <<g>> \in Seq(S) /\ <<f, g>> \in Seq(S)
  BY SeqMonotonic DEF IsStack
<1> HIDE DEF S
<1>2. Len(s) \in Nat
  BY <1>1, LenProperties
<1>3. /\ <<g>> \o s \in Seq(S) /\ Len(<<g>> \o s) = 1 + Len(s)
      /\ \A i \in 1 .. 1 + Len(s) : (<<g>> \o s)[i] = IF i <= 1 THEN g ELSE s[i - 1]
  BY <1>1, ConcatProperties
<1> DEFINE u == <<g>> \o s
           l == <<f>> \o u
           r == <<f, g>> \o s
<1> HIDE DEF u
<1>4. /\ l \in Seq(S) /\ Len(l) = 2 + Len(s)
      /\ \A i \in 1 .. 2 + Len(s) : l[i] = IF i <= 1 THEN f ELSE u[i - 1]
  <2>1. u \in Seq(S) /\ Len(u) = 1 + Len(s)
    BY <1>3 DEF u
  <2> QED
    BY <1>1, <1>2, <2>1, ConcatProperties
<1>5. /\ r \in Seq(S) /\ Len(r) = 2 + Len(s)
      /\ \A i \in 1 .. 2 + Len(s) : r[i] = IF i <= 2 THEN <<f, g>>[i] ELSE s[i - 2]
  BY <1>1, ConcatProperties
<1>6. ASSUME NEW i \in 1 .. 2 + Len(s)
      PROVE  l[i] = r[i]
  <2>1. CASE i = 1
    BY <1>2, <1>4, <1>5, <2>1
  <2>2. CASE i = 2
    <3>1. l[i] = u[1] /\ r[i] = g
      BY <1>2, <1>4, <1>5, <2>2
    <3> QED
      BY <1>2, <1>3, <3>1 DEF u
  <2>3. CASE i # 1 /\ i # 2
    <3>1. i - 1 \in 1 .. 1 + Len(s) /\ ~(i - 1 <= 1) /\ (i - 1) - 1 = i - 2
      BY <1>2, <2>3
    <3>2. l[i] = u[i - 1] /\ r[i] = s[i - 2]
      BY <1>2, <1>4, <1>5, <2>3
    <3> QED
      BY <1>3, <3>1, <3>2 DEF u
  <2> QED
    BY <2>1, <2>2, <2>3
<1> HIDE DEF l, r
<1>7. l = r
  BY <1>4, <1>5, <1>6, SeqEqual
<1> QED
  BY <1>7 DEF l, r, u

LEMMA Popped ==
    ASSUME NEW s, IsStack(s), s # <<>>
    PROVE  /\ Len(s) \in Nat \ {0}
           /\ IsStack(Tail(s))
           /\ Len(Tail(s)) = Len(s) - 1
           /\ Head(s) = s[1]
           /\ \A i \in 1 .. Len(s) - 1 : Tail(s)[i] = s[i + 1]
<1> DEFINE S == {s[i] : i \in DOMAIN s}
<1>1. s \in Seq(S)
  BY DEF IsStack
<1> HIDE DEF S
<1>2. Len(s) \in Nat \ {0}
  BY <1>1, EmptySeq
<1>3. /\ Tail(s) \in Seq(S)
      /\ Len(Tail(s)) = Len(s) - 1
      /\ \A i \in 1 .. Len(Tail(s)) : Tail(s)[i] = s[i + 1]
  BY <1>1, HeadTailProperties
<1>4. IsStack(Tail(s))
  BY <1>3, StackIsSeq
<1>5. Head(s) = s[1]
  BY <1>1
<1> QED
  BY <1>2, <1>3, <1>4, <1>5

LEMMA FitsPushed ==
    ASSUME NEW o, NEW rep, NEW s, IsStack(s), NEW f, NEW p,
           NEW j \in 1 .. Len(s) + 1, Fits(o, rep, s, j, p)
    PROVE  Fits(o, rep, <<f>> \o s, j + 1, p)
<1> DEFINE n == <<f>> \o s
<1>1. /\ Len(s) \in Nat /\ Len(n) = Len(s) + 1
      /\ j \in 1 .. Len(s) => j + 1 \in 1 .. Len(n) /\ n[j + 1] = s[j]
  BY Pushed
<1> HIDE DEF n
<1> QED
  BY <1>1 DEF Fits

(* A frame that leads back to p, on a stack that fits p.                   *)
LEMMA PushedOK ==
    ASSUME NEW o, NEW rep, NEW s, NEW f, NEW p, NEW q,
           StackOK(o, rep, s, p), f.pc = p,
           SyscallFrame(o, rep, f) \/ IrqFrame(o, f) \/ ReturnFrame(f),
           Fits(o, rep, <<f>> \o s, 1, q)
    PROVE  StackOK(o, rep, <<f>> \o s, q)
<1> DEFINE n == <<f>> \o s
<1>1. /\ IsStack(n) /\ Len(s) \in Nat /\ Len(n) = Len(s) + 1 /\ n[1] = f
      /\ \A i \in 1 .. Len(s) : n[i + 1] = s[i]
  BY Pushed DEF StackOK
<1>2. ASSUME NEW i \in 1 .. Len(n)
      PROVE  /\ SyscallFrame(o, rep, n[i]) \/ IrqFrame(o, n[i]) \/ ReturnFrame(n[i])
             /\ Fits(o, rep, n, i + 1, n[i].pc)
  <2>1. CASE i = 1
    <3>1. Fits(o, rep, n, 1 + 1, p)
      BY <1>1, FitsPushed DEF StackOK
    <3> QED
      BY <1>1, <2>1, <3>1
  <2>2. CASE i # 1
    <3>1. i - 1 \in 1 .. Len(s) /\ n[i] = s[i - 1]
      BY <1>1, <2>2
    <3>2. Fits(o, rep, n, (i - 1 + 1) + 1, s[i - 1].pc)
      BY <1>1, <3>1, FitsPushed DEF StackOK
    <3> QED
      BY <3>1, <3>2 DEF StackOK
  <2> QED
    BY <2>1, <2>2
<1> QED
  BY <1>1, <1>2 DEF StackOK

LEMMA FitsPopped ==
    ASSUME NEW o, NEW rep, NEW s, IsStack(s), s # <<>>, NEW p,
           NEW j \in 1 .. Len(s), Fits(o, rep, s, j + 1, p)
    PROVE  Fits(o, rep, Tail(s), j, p)
<1> DEFINE n == Tail(s)
<1>1. /\ Len(s) \in Nat \ {0} /\ Len(n) = Len(s) - 1
      /\ j + 1 \in 1 .. Len(s) => j \in 1 .. Len(n) /\ n[j] = s[j + 1]
  BY Popped
<1> HIDE DEF n
<1> QED
  BY <1>1 DEF Fits

(* Without its innermost frame the stack fits the point that this returns  *)
(* to.                                                                     *)
LEMMA PoppedOK ==
    ASSUME NEW o, NEW rep, NEW s, NEW p, StackOK(o, rep, s, p), s # <<>>
    PROVE  StackOK(o, rep, Tail(s), Head(s).pc)
<1>1. /\ Len(s) \in Nat \ {0} /\ IsStack(Tail(s)) /\ Len(Tail(s)) = Len(s) - 1 /\ Head(s) = s[1]
      /\ \A i \in 1 .. Len(s) - 1 : Tail(s)[i] = s[i + 1]
  BY Popped DEF StackOK
<1>2. ASSUME NEW i \in 1 .. Len(s)
      PROVE  Fits(o, rep, Tail(s), i, s[i].pc)
  BY FitsPopped DEF StackOK
<1>3. ASSUME NEW i \in 1 .. Len(Tail(s))
      PROVE  /\ SyscallFrame(o, rep, Tail(s)[i]) \/ IrqFrame(o, Tail(s)[i]) \/ ReturnFrame(Tail(s)[i])
             /\ Fits(o, rep, Tail(s), i + 1, Tail(s)[i].pc)
  <2>1. i + 1 \in 1 .. Len(s) /\ Tail(s)[i] = s[i + 1]
    BY <1>1
  <2> QED
    BY <1>2, <2>1 DEF StackOK
<1> QED
  BY <1>1, <1>2, <1>3 DEF StackOK

(* A program, or a task not yet launched, goes on with an empty stack; any *)
(* other point of the kernel with a frame on the stack.                    *)
LEMMA EmptyStack ==
    ASSUME NEW o, NEW rep, NEW p \in UserPoint \cup {"launch_task"}
    PROVE  /\ StackOK(o, rep, <<>>, p)
           /\ \A s : StackOK(o, rep, s, p) => s = <<>>
<1>1. <<>> \in Seq({}) /\ Len(<<>>) = 0
  BY EmptySeq
<1>2. IsStack(<<>>)
  BY <1>1, StackIsSeq
<1>3. StackOK(o, rep, <<>>, p)
  BY <1>1, <1>2 DEF StackOK, Fits, UserPoint, ExitPoint
<1>4. ASSUME NEW s, StackOK(o, rep, s, p)
      PROVE  s = <<>>
  <2> DEFINE S == {s[i] : i \in DOMAIN s}
  <2>1. s \in Seq(S) /\ 1 = Len(s) + 1
    BY <1>4 DEF StackOK, Fits, IsStack
  <2> HIDE DEF S
  <2> QED
    BY <2>1, EmptySeq
<1> QED
  BY <1>3, <1>4

LEMMA InnermostFrame ==
    ASSUME NEW o, NEW rep, NEW s, NEW p \in KernelPoint \ {"launch_task"}, StackOK(o, rep, s, p)
    PROVE  /\ s # <<>> /\ Head(s) = s[1]
           /\ SyscallFrame(o, rep, s[1]) \/ IrqFrame(o, s[1]) \/ ReturnFrame(s[1])
           /\ p = "syscall"      => SyscallFrame(o, rep, s[1])
           /\ p \in ExitPoint    => IrqFrame(o, s[1])
           /\ p = "handler_tail" => ReturnFrame(s[1]) /\ s[1].pc = "exit_banked"
           /\ p = "dispatched"   => ReturnFrame(s[1]) /\ s[1].pc # "exit_banked"
<1>1. 1 \in 1 .. Len(s)
  BY DEF StackOK, Fits, KernelPoint, ExitPoint
<1>2. s # <<>>
  BY <1>1, EmptySeq
<1> QED
  BY <1>1, <1>2, Popped DEF StackOK, Fits
-----------------------------------------------------------------------------
LEMMA KernelInit == Init => KInv
<1> SUFFICES ASSUME NEW t0 \in Task, Init!(t0)
             PROVE  KInv
  BY DEF Init
<1>1. ASSUME NEW t \in Task
      PROVE  IsView(own[t]) /\ SuspendedOK(t)
  <2>1. IsView(own[t])
    BY DEF IsView
  <2>2. context[t].sp = t /\ context[t].lr = "launch_task"
    BY DEF init_task
  <2>3. StackOK(own[t], Reports(t), kstack[t], context[t].lr)
    BY <2>2, EmptyStack
  <2> QED
    BY <2>1, <2>2, <2>3 DEF SuspendedOK
<1>2. StackOK(own[t0], Reports(t0), kstack[t0], view.pc)
  BY EmptyStack
<1>3. view.r = launching(t0)
  BY DEF launching, CalleeSaved, CallerSaved, Reg
<1>4. RunningOK
  <2>1. IsView(view) /\ view.pc = "launch_task"
    BY DEF IsView
  <2>2. psr = [mode |-> "svc", masked |-> TRUE]
    BY DEF SvcMode
  <2> QED
    BY <1>2, <1>3, <2>1, <2>2 DEF RunningOK, KernelPoint
<1> QED
  BY <1>1, <1>4 DEF KInv

(* A task that does not run is left alone by a step that leaves its stack, *)
(* its context and what its program expects alone.                         *)
LEMMA StaysSuspended ==
    ASSUME NEW t \in Task, SuspendedOK(t), t # cur_tcb,
           kstack'[t] = kstack[t], context'[t] = context[t],
           own'[t] = own[t], call'[t].stub = call[t].stub
    PROVE  SuspendedOK(t)'
<1>1. Reports(t)' = Reports(t)
  BY DEF Reports
<1> QED
  BY <1>1 DEF SuspendedOK

(* In user mode the view is the program's and the kernel stack is empty.   *)
LEMMA InProgram ==
    ASSUME KInv, view.pc \in UserPoint \/ psr.mode = "usr"
    PROVE  /\ cur_tcb \in Task /\ svc.sp = cur_tcb
           /\ view.pc \in UserPoint /\ view = own[cur_tcb] /\ IsView(view)
           /\ psr = UserMode
           /\ kstack[cur_tcb] = <<>>
<1>1. view.pc \in UserPoint
  BY DEF KInv, RunningOK, KernelPoint, ExitPoint
<1>2. kstack[cur_tcb] = <<>>
  BY <1>1, EmptyStack DEF KInv, RunningOK
<1> QED
  BY <1>1, <1>2 DEF KInv, RunningOK, KernelPoint, ExitPoint, UserPoint

(* What every instruction of a program or a stub does.                     *)
ProgramStep ==
    /\ psr.mode = "usr" /\ UNCHANGED kernel
    /\ IsView(view') /\ view'.pc \in UserPoint
    /\ own' = [own EXCEPT ![cur_tcb] = view']
    /\ DOMAIN call' = Task
    /\ \A t \in Task \ {cur_tcb} : call'[t] = call[t]

LEMMA ProgramStepOK ==
    ASSUME KInv, ProgramStep
    PROVE  KInv'
<1> USE DEF ProgramStep
<1>1. cur_tcb \in Task /\ cur_tcb' = cur_tcb /\ kstack'[cur_tcb] = <<>> /\ psr' = UserMode
  BY InProgram DEF kernel
<1>2. own'[cur_tcb] = view' /\ DOMAIN own' = Task
  BY <1>1 DEF KInv
<1>3. StackOK(own[cur_tcb], Reports(cur_tcb), kstack[cur_tcb], view.pc)'
  BY <1>1, EmptyStack
<1>4. RunningOK'
  BY <1>1, <1>2, <1>3 DEF RunningOK, KInv, kernel
<1>5. ASSUME NEW t \in Task
      PROVE  SuspendedOK(t)' /\ IsView(own[t])'
  <2>1. CASE t = cur_tcb
    BY <1>1, <1>2, <2>1 DEF SuspendedOK, KInv, kernel
  <2>2. CASE t # cur_tcb
    BY <2>2, <1>1, StaysSuspended DEF KInv, kernel
  <2> QED
    BY <2>1, <2>2
<1> QED
  BY <1>2, <1>4, <1>5 DEF KInv, kernel

LEMMA InstructionsStep ==
    ASSUME KInv,
           \/ LaunchJump \/ \E stub \in Calls : CallStub(stub)
           \/ Stmfd \/ Cmp \/ Bpl \/ Ldr \/ Rsblt \/ Str \/ Mov \/ Ldmfd \/ Return
    PROVE  ProgramStep
<1>1. psr.mode = "usr" /\ UNCHANGED kernel
  BY DEF LaunchJump, CallStub, Stmfd, Cmp, Bpl, Ldr, Rsblt, Str, Mov, Ldmfd, Return, InUserCode
<1>2. view = own[cur_tcb] /\ IsView(view) /\ cur_tcb \in Task /\ DOMAIN call = Task
  BY <1>1, InProgram DEF KInv
<1> USE DEF Executes, UserPoint
<1>3. CASE LaunchJump
  <2>1. view' = launch_jump(view) /\ own' = [own EXCEPT ![cur_tcb] = view'] /\ call' = call
    BY <1>2, <1>3 DEF LaunchJump
  <2>2. IsView(view') /\ view'.pc = "user"
    BY <1>2, <2>1 DEF IsView, launch_jump, Reg, CalleeSaved
  <2> QED
    BY <1>1, <1>2, <2>1, <2>2 DEF ProgramStep
<1>4. ASSUME NEW stub \in Calls, CallStub(stub)
      PROVE  ProgramStep
  BY <1>1, <1>2, <1>4 DEF CallStub, ProgramStep, IsView, Goto, Reg, CallerSaved
<1>5. CASE Stmfd
  BY <1>1, <1>2, <1>5 DEF Stmfd, ProgramStep, IsView, Goto, Reg, CallerSaved
<1>6. CASE Cmp
  <2>1. view' = [view EXCEPT !.neg = (view.r["r0"][2] < 0), !.pc = "bpl"] /\ own' = [own EXCEPT ![cur_tcb] = view']
    BY <1>2, <1>6 DEF Cmp
  <2>2. IsView(view') /\ view'.pc \in UserPoint
    BY <1>2, <2>1 DEF IsView, Goto, Reg, CallerSaved
  <2> QED
    BY <1>1, <1>2, <1>6, <2>1, <2>2 DEF Cmp, ProgramStep
<1>7. CASE Bpl
  BY <1>1, <1>2, <1>7 DEF Bpl, ProgramStep, IsView, Goto, Reg, CallerSaved
<1>8. CASE Ldr
  <2>1. view' = [view EXCEPT !.r["r1"] = <<"address of errno">>, !.pc = "rsblt"] /\ own' = [own EXCEPT ![cur_tcb] = view']
    BY <1>2, <1>8 DEF Ldr
  <2>2. IsView(view') /\ view'.pc \in UserPoint
    BY <1>2, <2>1 DEF IsView, Goto, Reg, CallerSaved
  <2> QED
    BY <1>1, <1>2, <1>8, <2>1, <2>2 DEF Ldr, ProgramStep
<1>9. CASE Rsblt
  BY <1>1, <1>2, <1>9 DEF Rsblt, negated, ProgramStep, IsView, Goto, Reg, CallerSaved
<1>10. CASE Str
  <2>1. view' = Goto(view, "mov") /\ own' = [own EXCEPT ![cur_tcb] = view']
    BY <1>2, <1>10 DEF Str
  <2>2. IsView(view') /\ view'.pc \in UserPoint
    BY <1>2, <2>1 DEF IsView, Goto, Reg, CallerSaved
  <2> QED
    BY <1>1, <1>2, <1>10, <2>1, <2>2 DEF Str, ProgramStep
<1>11. CASE Mov
  <2>1. view' = [view EXCEPT !.r["r0"] = int(-1), !.pc = "ldmfd"] /\ own' = [own EXCEPT ![cur_tcb] = view']
    BY <1>2, <1>11 DEF Mov
  <2>2. IsView(view') /\ view'.pc \in UserPoint
    BY <1>2, <2>1 DEF IsView, Goto, Reg, CallerSaved
  <2> QED
    BY <1>1, <1>2, <1>11, <2>1, <2>2 DEF Mov, ProgramStep
<1>12. CASE Ldmfd
  <2>1. view' = [view EXCEPT !.r["r1"] = Head(ustack[view.sp[2]]), !.pc = "return"] /\ own' = [own EXCEPT ![cur_tcb] = view']
    BY <1>2, <1>12 DEF Ldmfd
  <2>2. IsView(view') /\ view'.pc \in UserPoint
    BY <1>2, <2>1 DEF IsView, Goto, Reg, CallerSaved
  <2> QED
    BY <1>1, <1>2, <1>12, <2>1, <2>2 DEF Ldmfd, ProgramStep
<1>13. CASE Return
  BY <1>1, <1>2, <1>13 DEF Return, ProgramStep, IsView, Goto, Reg, CallerSaved
<1> QED
  BY <1>3, <1>4, <1>5, <1>6, <1>7, <1>8, <1>9, <1>10, <1>11, <1>12, <1>13
-----------------------------------------------------------------------------
LEMMA InKernel ==
    ASSUME KInv, view.pc \in KernelPoint
    PROVE  /\ cur_tcb \in Task /\ svc.sp = cur_tcb /\ IsView(view)
           /\ StackOK(own[cur_tcb], Reports(cur_tcb), kstack[cur_tcb], view.pc)
           /\ psr = [mode |-> "svc", masked |-> psr.masked] /\ psr.masked \in BOOLEAN
           /\ view.pc \notin {"syscall", "handler_tail"} => psr.masked
           /\ view.pc = "launch_task" => view.r = launching(cur_tcb)
           /\ view.pc # "launch_task" => \A x \in Preserved : view.r[x] = own[cur_tcb].r[x]
BY DEF KInv, RunningOK, KernelPoint, ExitPoint, UserPoint

(* A step of the kernel that does not give the processor away.             *)
LEMMA SameTaskOK ==
    ASSUME KInv, RunningOK', cur_tcb \in Task, UNCHANGED <<context, cur_tcb>>,
           DOMAIN svc' = DOMAIN svc, DOMAIN kstack' = Task, DOMAIN own' = Task, DOMAIN call' = Task,
           \A t \in Task : call'[t].stub = call[t].stub,
           \A t \in Task \ {cur_tcb} : kstack'[t] = kstack[t] /\ own'[t] = own[t],
           IsView(own'[cur_tcb])
    PROVE  KInv'
<1>1. ASSUME NEW t \in Task
      PROVE  SuspendedOK(t)' /\ IsView(own[t])'
  <2>1. CASE t = cur_tcb
    BY <2>1 DEF SuspendedOK, KInv
  <2>2. CASE t # cur_tcb
    BY <2>2, StaysSuspended DEF KInv
  <2> QED
    BY <2>1, <2>2
<1> QED
  BY <1>1 DEF KInv

LEMMA LaunchOK == ASSUME KInv, LaunchTask PROVE KInv'
<1> DEFINE t == cur_tcb
<1>1. /\ t \in Task /\ svc.sp = t /\ IsView(view) /\ view.r = launching(t)
      /\ StackOK(own[t], Reports(t), kstack[t], "launch_task")
  BY InKernel DEF LaunchTask, KernelPoint
<1>2. kstack[t] = <<>>
  BY <1>1, EmptyStack
<1>3. view' = launch_to_user(view) /\ IsView(view') /\ view'.pc = "launched"
  BY <1>1 DEF LaunchTask, launch_to_user, IsView
<1>4. own' = [own EXCEPT ![t] = view']
  <2>1. view = [view EXCEPT !.r = launching(t)]
    BY <1>1 DEF IsView
  <2> QED
    BY <1>3, <2>1 DEF LaunchTask, launching
<1>5. StackOK(own[t], Reports(t), kstack[t], view.pc)'
  BY <1>2, <1>3, EmptyStack DEF LaunchTask, UserPoint
<1>6. own'[t] = view' /\ DOMAIN own' = Task /\ \A u \in Task \ {t} : own'[u] = own[u]
  BY <1>1, <1>4 DEF KInv
<1>7. RunningOK'
  BY <1>1, <1>3, <1>5, <1>6 DEF LaunchTask, RunningOK, UserPoint
<1> QED
  BY <1>1, <1>3, <1>6, <1>7, SameTaskOK DEF LaunchTask, KInv

LEMMA SwiOK == ASSUME KInv, Swi PROVE KInv'
<1> DEFINE t == cur_tcb
           f == [pc |-> IF Reports(t) THEN "cmp" ELSE "return", mode |-> "usr", view |-> view]
<1>1. /\ t \in Task /\ svc.sp = t /\ view = own[t] /\ IsView(view) /\ view.pc = "swi"
      /\ kstack[t] = <<>>
  BY InProgram DEF Swi
<1>2. kstack' = [kstack EXCEPT ![t] = <<f>> \o @]
  BY <1>1 DEF Swi, push
<1>3. kstack'[t] = <<f>> \o <<>> /\ DOMAIN kstack' = Task /\ \A u \in Task \ {t} : kstack'[u] = kstack[u]
  BY <1>1, <1>2 DEF KInv
<1>4. SyscallFrame(own[t], Reports(t), f)
  BY <1>1 DEF SyscallFrame
<1>5. StackOK(own[t], Reports(t), <<f>> \o <<>>, "syscall")
  <2> DEFINE n == <<f>> \o <<>>
  <2>1. StackOK(own[t], Reports(t), <<>>, f.pc)
    BY EmptyStack DEF UserPoint
  <2>2. Len(n) = 1 /\ n[1] = f
    BY <2>1, Pushed, EmptySeq DEF StackOK
  <2>3. Fits(own[t], Reports(t), n, 1, "syscall")
    BY <1>4, <2>2 DEF Fits, UserPoint, ExitPoint
  <2> QED
    BY <1>4, <2>1, <2>3, PushedOK
<1>6. /\ IsView(view') /\ view'.pc = "syscall"
      /\ \A x \in Preserved : view'.r[x] = view.r[x]
  BY <1>1 DEF Swi, spoiled, IsView, Preserved, Reg, CallerSaved, CalleeSaved
<1>7. own' = own /\ call' = call /\ cur_tcb' = t /\ Reports(t)' = Reports(t)
  BY DEF Swi, Reports
<1>8. RunningOK'
  BY <1>1, <1>3, <1>5, <1>6, <1>7 DEF Swi, RunningOK, SvcMode, KernelPoint, KInv
<1> QED
  BY <1>1, <1>3, <1>7, <1>8, SameTaskOK DEF Swi, KInv

(* Taking the innermost frame off the running task's stack.                *)
LEMMA PopsFrame ==
    ASSUME KInv, view.pc \in KernelPoint \ {"launch_task"}, kstack' = popped
    PROVE  /\ Frame = kstack[cur_tcb][1]
           /\ StackOK(own[cur_tcb], Reports(cur_tcb), kstack'[cur_tcb], Frame.pc)
           /\ DOMAIN kstack' = Task
           /\ \A u \in Task \ {cur_tcb} : kstack'[u] = kstack[u]
<1>1. /\ cur_tcb \in Task /\ svc.sp = cur_tcb
      /\ StackOK(own[cur_tcb], Reports(cur_tcb), kstack[cur_tcb], view.pc)
  BY InKernel
<1>2. kstack[cur_tcb] # <<>> /\ Head(kstack[cur_tcb]) = kstack[cur_tcb][1]
  BY <1>1, InnermostFrame
<1>3. StackOK(own[cur_tcb], Reports(cur_tcb), Tail(kstack[cur_tcb]), Head(kstack[cur_tcb]).pc)
  BY <1>1, <1>2, PoppedOK
<1> QED
  BY <1>1, <1>2, <1>3 DEF popped, Frame, KernelStack, KInv

LEMMA SyscallReturnsOK == ASSUME KInv, NEW n \in Results \cup Values, SyscallReturns(n) PROVE KInv'
<1> DEFINE t == cur_tcb
           f == kstack[t][1]
<1>1. /\ t \in Task /\ svc.sp = t /\ SyscallFrame(own[t], Reports(t), f)
  BY InKernel, InnermostFrame DEF SyscallReturns, KernelPoint
<1>2. /\ Frame = f
      /\ StackOK(own[t], Reports(t), kstack'[t], f.pc)
      /\ DOMAIN kstack' = Task /\ \A u \in Task \ {t} : kstack'[u] = kstack[u]
  BY PopsFrame DEF SyscallReturns, KernelPoint
<1>3. f.view = own[t] /\ f.pc \in UserPoint
  BY <1>1 DEF SyscallFrame, UserPoint
<1>4. kstack'[t] = <<>>
  BY <1>2, <1>3, EmptyStack
<1>5. view' = [own[t] EXCEPT !.r["r0"] = int(n), !.pc = f.pc] /\ own' = [own EXCEPT ![t] = view']
  BY <1>2, <1>3 DEF SyscallReturns
<1>6. IsView(view') /\ view'.pc = f.pc
  BY <1>1, <1>5 DEF KInv, IsView, Reg, CallerSaved
<1>7. own'[t] = view' /\ DOMAIN own' = Task /\ \A u \in Task \ {t} : own'[u] = own[u]
  BY <1>1, <1>5 DEF KInv
<1>8. DOMAIN call' = Task /\ \A u \in Task : call'[u].stub = call[u].stub
  <2>1. call' = [call EXCEPT ![t] = [call[t] EXCEPT !.result = n]]
    BY DEF SyscallReturns
  <2> QED
    BY <1>1, <2>1 DEF KInv
<1>9. StackOK(own[t], Reports(t), kstack[t], view.pc)'
  BY <1>3, <1>4, <1>6, EmptyStack DEF SyscallReturns
<1>10. RunningOK'
  BY <1>1, <1>3, <1>6, <1>7, <1>9 DEF SyscallReturns, RunningOK
<1> QED
  BY <1>1, <1>2, <1>6, <1>7, <1>8, <1>10, SameTaskOK DEF SyscallReturns, KInv

(* An interrupt comes in user mode, or at one of two points of the kernel. *)
LEMMA IrqOK == ASSUME KInv, Irq PROVE KInv'
<1> DEFINE t == cur_tcb
           f == [pc |-> view.pc, mode |-> psr.mode, psr |-> PsrOf(view),
                 regs |-> saved_by_irq(view), lr |-> svc.lr,
                 usr_sp |-> view.sp, usr_lr |-> view.lr]
<1>1. /\ t \in Task /\ svc.sp = t /\ IsView(view) /\ ~psr.masked
      /\ StackOK(own[t], Reports(t), kstack[t], view.pc)
      /\ \A x \in Preserved : view.r[x] = own[t].r[x]
      /\ \/ view.pc \in UserPoint /\ psr.mode = "usr" /\ view = own[t]
         \/ view.pc \in {"syscall", "handler_tail"} /\ psr.mode = "svc"
  BY DEF Irq, KInv, RunningOK, UserMode, KernelPoint, ExitPoint
<1>2. kstack' = [kstack EXCEPT ![t] = <<f>> \o @]
  BY <1>1 DEF Irq, push
<1>3. /\ kstack'[t] = <<f>> \o kstack[t] /\ DOMAIN kstack' = Task
      /\ \A u \in Task \ {t} : kstack'[u] = kstack[u]
  BY <1>1, <1>2 DEF KInv
<1>4. IrqFrame(own[t], f)
  <2>1. DOMAIN saved_by_irq(view) = SavedByIrq /\ \A x \in SavedByIrq : saved_by_irq(view)[x] = view.r[x]
    BY DEF saved_by_irq, SavedByIrq
  <2>2. PsrOf(view)[2] = psr.mode /\ PsrOf(view)[3] = FALSE /\ PsrOf(view)[4] = view.neg
    <3>1. psr.masked = FALSE
      BY <1>1 DEF KInv, RunningOK, UserMode
    <3> QED
      BY <3>1 DEF PsrOf
  <2> QED
    BY <1>1, <2>1, <2>2 DEF IrqFrame
<1>5. StackOK(own[t], Reports(t), <<f>> \o kstack[t], "irq_handler")
  <2> DEFINE n == <<f>> \o kstack[t]
  <2>1. Len(n) \in Nat \ {0} /\ n[1] = f
    BY <1>1, Pushed DEF StackOK
  <2>2. Fits(own[t], Reports(t), n, 1, "irq_handler")
    BY <1>4, <2>1 DEF Fits, UserPoint, ExitPoint
  <2> QED
    BY <1>1, <1>4, <2>2, PushedOK
<1>6. /\ IsView(view') /\ view'.pc = "irq_handler"
      /\ \A x \in Preserved : view'.r[x] = view.r[x]
  BY <1>1 DEF Irq, spoiled, IsView, Preserved, Reg, CallerSaved, CalleeSaved
<1>7. own' = own /\ call' = call /\ cur_tcb' = t /\ Reports(t)' = Reports(t)
  BY DEF Irq, Reports
<1>8. svc'.sp = t /\ svc'.lr = "exit_banked" /\ DOMAIN svc' = DOMAIN svc
  BY <1>1 DEF Irq, KInv
<1>9. RunningOK'
  BY <1>1, <1>3, <1>5, <1>6, <1>7, <1>8 DEF Irq, RunningOK, SvcMode, KernelPoint, ExitPoint
<1> QED
  BY <1>1, <1>3, <1>7, <1>8, <1>9, SameTaskOK DEF Irq, KInv

LEMMA ExitPointsAlike ==
    ASSUME NEW o, NEW rep, NEW s, NEW p \in ExitPoint, NEW q \in ExitPoint, StackOK(o, rep, s, p)
    PROVE  StackOK(o, rep, s, q)
BY DEF StackOK, Fits, UserPoint, ExitPoint

LEMMA HandlerReturnsOK == ASSUME KInv, HandlerReturns PROVE KInv'
<1> DEFINE t == cur_tcb
<1>1. /\ t \in Task /\ svc.sp = t /\ IsView(view) /\ svc.lr = "exit_banked"
      /\ StackOK(own[t], Reports(t), kstack[t], "irq_handler")
      /\ psr = [mode |-> "svc", masked |-> TRUE]
      /\ \A x \in Preserved : view.r[x] = own[t].r[x]
  BY InKernel DEF HandlerReturns, KInv, RunningOK, KernelPoint, ExitPoint, UserPoint
<1>2. StackOK(own[t], Reports(t), kstack[t], "exit_banked")
  BY <1>1, ExitPointsAlike DEF ExitPoint
<1>3. /\ IsView(view') /\ view'.pc = "exit_banked"
      /\ \A x \in Preserved : view'.r[x] = view.r[x]
  BY <1>1 DEF HandlerReturns, spoiled, IsView, Preserved, Reg, CallerSaved, CalleeSaved
<1>4. UNCHANGED <<psr, svc, kstack, context, cur_tcb, own, call>> /\ Reports(t)' = Reports(t)
  BY DEF HandlerReturns, kernel, Reports
<1>5. RunningOK'
  BY <1>1, <1>2, <1>3, <1>4 DEF RunningOK, KernelPoint, ExitPoint
<1> QED
  BY <1>1, <1>4, <1>5, SameTaskOK DEF KInv

(* The two returns that take a frame of a C function off the stack.        *)
LEMMA CReturnOK ==
    ASSUME KInv, DispatchEnds \/ HandlerTail, HandlerMasks = TRUE
    PROVE  KInv'
<1> DEFINE t == cur_tcb
           f == kstack[t][1]
<1>1. /\ view.pc \in {"dispatched", "handler_tail"} /\ kstack' = popped
      /\ view' = spoiled(view, Frame.pc)
      /\ UNCHANGED <<svc, context, cur_tcb, own, call>> /\ Reports(t)' = Reports(t)
  BY DEF DispatchEnds, HandlerTail, Reports
<1>2. /\ t \in Task /\ svc.sp = t /\ IsView(view)
      /\ \A x \in Preserved : view.r[x] = own[t].r[x]
  BY <1>1, InKernel DEF KernelPoint
<1>3. /\ psr' = [mode |-> "svc", masked |-> psr'.masked]
      /\ psr'.masked \in BOOLEAN
      /\ view.pc = "handler_tail" => psr'.masked
  <2>1. psr \in [mode : {"svc"}, masked : BOOLEAN]
    <3>1. psr = [mode |-> "svc", masked |-> psr.masked] /\ psr.masked \in BOOLEAN
      BY <1>1, InKernel DEF KernelPoint
    <3> QED
      BY <3>1
  <2>2. CASE DispatchEnds
    <3>1. psr' = [mode |-> "svc", masked |-> FALSE]
      BY <2>1, <2>2 DEF DispatchEnds
    <3> QED
      BY <2>2, <3>1 DEF DispatchEnds
  <2>3. CASE HandlerTail
    <3>1. psr' = [mode |-> "svc", masked |-> TRUE]
      BY <2>1, <2>3 DEF HandlerTail
    <3> QED
      BY <3>1
  <2> QED
    BY <2>2, <2>3
<1>4. /\ ReturnFrame(f)
      /\ view.pc = "handler_tail" => f.pc = "exit_banked"
      /\ view.pc = "dispatched" => f.pc # "exit_banked"
  BY <1>1, InKernel, InnermostFrame DEF KernelPoint
<1>5. /\ Frame = f
      /\ StackOK(own[t], Reports(t), kstack'[t], f.pc)
      /\ DOMAIN kstack' = Task /\ \A u \in Task \ {t} : kstack'[u] = kstack[u]
  BY <1>1, PopsFrame DEF KernelPoint
<1>6. /\ IsView(view') /\ view'.pc = f.pc
      /\ \A x \in Preserved : view'.r[x] = view.r[x]
  BY <1>1, <1>2, <1>5 DEF spoiled, IsView, Preserved, Reg, CallerSaved, CalleeSaved
<1>7. f.pc \in {"syscall", "handler_tail", "exit_banked"} /\ (f.pc = "exit_banked" => view.pc = "handler_tail")
  BY <1>1, <1>4 DEF ReturnFrame
<1>8. RunningOK'
  BY <1>1, <1>2, <1>3, <1>5, <1>6, <1>7 DEF RunningOK, KernelPoint, ExitPoint
<1> QED
  BY <1>1, <1>2, <1>5, <1>8, SameTaskOK DEF KInv

(* The return sequence of irq_wrapper, instruction by instruction.         *)
LEMMA ExitBankedOK == ASSUME KInv, ExitBanked PROVE KInv'
<1> DEFINE t == cur_tcb
           f == kstack[t][1]
<1>1. /\ t \in Task /\ svc.sp = t /\ IsView(view) /\ psr = [mode |-> "svc", masked |-> TRUE]
      /\ StackOK(own[t], Reports(t), kstack[t], "exit_banked")
      /\ \A x \in Preserved : view.r[x] = own[t].r[x]
  BY InKernel DEF ExitBanked, KernelPoint, ExitPoint
<1>2. StackOK(own[t], Reports(t), kstack[t], "exit_spsr")
  BY <1>1, ExitPointsAlike DEF ExitPoint
<1>3. Frame = f
  BY <1>1, InnermostFrame DEF Frame, KernelStack, KernelPoint, ExitPoint
<1>4. /\ IsView(view') /\ view'.pc = "exit_spsr"
      /\ view'.sp = f.usr_sp /\ view'.lr = f.usr_lr /\ view'.r["r0"] = f.psr
      /\ \A x \in Preserved : view'.r[x] = view.r[x]
  BY <1>1, <1>3 DEF ExitBanked, IsView, Preserved, Reg, CallerSaved, CalleeSaved
<1>5. UNCHANGED <<psr, svc, kstack, context, cur_tcb, own, call>> /\ Reports(t)' = Reports(t)
  BY DEF ExitBanked, kernel, Reports
<1>6. RunningOK'
  BY <1>1, <1>2, <1>4, <1>5 DEF RunningOK, KernelPoint, ExitPoint
<1> QED
  BY <1>1, <1>5, <1>6, SameTaskOK DEF KInv

LEMMA ExitSpsrOK == ASSUME KInv, ExitSpsr PROVE KInv'
<1> DEFINE t == cur_tcb
           f == kstack[t][1]
<1>1. /\ t \in Task /\ svc.sp = t /\ IsView(view) /\ psr = [mode |-> "svc", masked |-> TRUE]
      /\ StackOK(own[t], Reports(t), kstack[t], "exit_spsr")
      /\ \A x \in Preserved : view.r[x] = own[t].r[x]
      /\ view.sp = f.usr_sp /\ view.lr = f.usr_lr /\ view.r["r0"] = f.psr
  BY InKernel DEF ExitSpsr, KernelPoint, ExitPoint, KInv, RunningOK, UserPoint
<1>2. StackOK(own[t], Reports(t), kstack[t], "exit_pc")
  BY <1>1, ExitPointsAlike DEF ExitPoint
<1>3. /\ IsView(view') /\ view'.pc = "exit_pc"
      /\ view'.sp = f.usr_sp /\ view'.lr = f.usr_lr
      /\ \A x \in Preserved : view'.r[x] = view.r[x]
  BY <1>1 DEF ExitSpsr, Goto, IsView
<1>4. svc'.sp = t /\ svc'.spsr = f.psr /\ DOMAIN svc' = DOMAIN svc
  BY <1>1 DEF ExitSpsr, spsr_from, KInv
<1>5. UNCHANGED <<psr, kstack, context, cur_tcb, own, call>> /\ Reports(t)' = Reports(t)
  BY DEF ExitSpsr, Reports
<1>6. RunningOK'
  BY <1>1, <1>2, <1>3, <1>4, <1>5 DEF RunningOK, KernelPoint, ExitPoint
<1> QED
  BY <1>1, <1>4, <1>5, <1>6, SameTaskOK DEF KInv

(* The return from an interrupt: to the program, whose registers are then  *)
(* all there, or to the point of the kernel that was interrupted.          *)
LEMMA ExitPcOK == ASSUME KInv, ExitPc PROVE KInv'
<1> DEFINE t == cur_tcb
           f == kstack[t][1]
<1>1. /\ t \in Task /\ svc.sp = t /\ IsView(view) /\ IsView(own[t])
      /\ StackOK(own[t], Reports(t), kstack[t], "exit_pc")
      /\ \A x \in Preserved : view.r[x] = own[t].r[x]
      /\ view.sp = f.usr_sp /\ view.lr = f.usr_lr /\ svc.spsr = f.psr
  BY InKernel DEF ExitPc, KernelPoint, ExitPoint, KInv, RunningOK, UserPoint
<1>2. IrqFrame(own[t], f)
  BY <1>1, InnermostFrame DEF KernelPoint, ExitPoint
<1>3. /\ Frame = f
      /\ StackOK(own[t], Reports(t), kstack'[t], f.pc)
      /\ DOMAIN kstack' = Task /\ \A u \in Task \ {t} : kstack'[u] = kstack[u]
  BY PopsFrame DEF ExitPc, KernelPoint, ExitPoint
<1>4. /\ IsView(view') /\ view'.pc = f.pc /\ view'.neg = f.psr[4]
      /\ view'.sp = f.usr_sp /\ view'.lr = f.usr_lr
      /\ \A x \in Reg : view'.r[x] = IF x \in SavedByIrq THEN f.regs[x] ELSE view.r[x]
  BY <1>1, <1>2, <1>3 DEF ExitPc, IrqFrame, IsView
<1>5. psr' = [mode |-> f.mode, masked |-> FALSE]
  BY <1>1, <1>2 DEF ExitPc, IrqFrame
<1>6. svc'.sp = t /\ DOMAIN svc' = DOMAIN svc
  BY <1>1 DEF ExitPc, KInv
<1>7. UNCHANGED <<context, cur_tcb, own, call>> /\ Reports(t)' = Reports(t)
  BY DEF ExitPc, Reports
<1>8. \A x \in Reg : x \in SavedByIrq \/ x \in Preserved
  BY DEF Reg, SavedByIrq, Preserved
<1>9. CASE f.mode = "usr"
  <2>1. /\ f.pc \in UserPoint /\ f.pc = own[t].pc /\ f.psr[4] = own[t].neg
        /\ f.usr_sp = own[t].sp /\ f.usr_lr = own[t].lr
        /\ \A x \in SavedByIrq : f.regs[x] = own[t].r[x]
    BY <1>2, <1>9 DEF IrqFrame
  <2>2. \A x \in Reg : view'.r[x] = own[t].r[x]
    BY <1>1, <1>4, <1>8, <2>1
  <2>3. view' = own[t]
    BY <1>1, <1>4, <2>1, <2>2 DEF IsView
  <2>4. RunningOK'
    BY <1>1, <1>3, <1>4, <1>5, <1>6, <1>7, <1>9, <2>1, <2>3 DEF RunningOK, UserMode
  <2> QED
    BY <1>1, <1>3, <1>6, <1>7, <2>4, SameTaskOK DEF KInv
<1>10. CASE f.mode = "svc"
  <2>1. f.pc \in {"syscall", "handler_tail"}
    BY <1>2, <1>10 DEF IrqFrame
  <2>2. \A x \in Preserved : view'.r[x] = own[t].r[x]
    BY <1>1, <1>4 DEF Preserved, SavedByIrq, CallerSaved, CalleeSaved, Reg
  <2>3. psr'.masked \in BOOLEAN /\ psr' = [mode |-> "svc", masked |-> psr'.masked]
    BY <1>5, <1>10
  <2>4. RunningOK'
    BY <1>1, <1>3, <1>4, <1>6, <1>7, <2>1, <2>2, <2>3 DEF RunningOK, KernelPoint, ExitPoint
  <2> QED
    BY <1>1, <1>3, <1>6, <1>7, <2>4, SameTaskOK DEF KInv
<1> QED
  BY <1>2, <1>9, <1>10 DEF IrqFrame
-----------------------------------------------------------------------------
(* Giving the processor to task t, with the frames of the callers of       *)
(* ctx_switch_full on the stack.                                           *)
LEMMA SwitchOK ==
    ASSUME KInv, view.pc \in KernelPoint \ {"launch_task"},
           NEW t \in Task, t # cur_tcb, NEW frames, ctx_switch_full(t, frames),
           StackOK(own[cur_tcb], Reports(cur_tcb), frames \o kstack[cur_tcb], "dispatched")
    PROVE  KInv'
<1> DEFINE c == cur_tcb
<1>1. /\ c \in Task /\ svc.sp = c /\ IsView(view)
      /\ \A x \in Preserved : view.r[x] = own[c].r[x]
  BY InKernel
<1>2. SuspendedOK(t) /\ StackOK(own[t], Reports(t), kstack[t], context[t].lr) /\ context[t].sp = t
  BY DEF KInv, SuspendedOK
<1>3. /\ kstack' = [kstack EXCEPT ![c] = frames \o @]
      /\ context' = [context EXCEPT ![c] =
             [regs |-> [x \in CalleeSaved |-> view.r[x]], sp |-> c, lr |-> "dispatched"]]
      /\ cur_tcb' = t /\ psr' = SvcMode
      /\ view' = [view EXCEPT !.r = loaded(t), !.pc = context[t].lr]
      /\ svc' = [svc EXCEPT !.sp = t, !.lr = context[t].lr]
      /\ UNCHANGED <<own, call>>
  BY <1>1, <1>2 DEF ctx_switch_full, push, loaded_sp
<1>4. /\ DOMAIN kstack' = Task /\ DOMAIN context' = Task
      /\ kstack'[c] = frames \o kstack[c] /\ kstack'[t] = kstack[t]
      /\ \A u \in Task \ {c} : kstack'[u] = kstack[u] /\ context'[u] = context[u]
      /\ context'[c].sp = c /\ context'[c].lr = "dispatched"
      /\ \A x \in Preserved : context'[c].regs[x] = view.r[x]
  BY <1>1, <1>3 DEF KInv, Preserved
<1>5. Reports(t)' = Reports(t) /\ \A u \in Task : Reports(u)' = Reports(u)
  BY <1>3 DEF Reports
<1>6. ASSUME NEW u \in Task
      PROVE  SuspendedOK(u)'
  <2>1. CASE u = c
    BY <1>1, <1>3, <1>4, <1>5, <2>1 DEF SuspendedOK
  <2>2. CASE u # c
    BY <1>3, <1>4, <1>5, <2>2 DEF SuspendedOK, KInv
  <2> QED
    BY <2>1, <2>2
<1>7. /\ IsView(view') /\ view'.r = loaded(t) /\ view'.pc = context[t].lr
      /\ svc'.sp = t /\ DOMAIN svc' = DOMAIN svc
  BY <1>1, <1>3 DEF IsView, loaded, KInv
<1>8. \/ view'.pc = "launch_task" /\ view'.r = launching(t)
      \/ view'.pc = "dispatched" /\ \A x \in Preserved : view'.r[x] = own[t].r[x]
  <2>1. CASE context[t] = init_task(t)
    BY <1>7, <2>1 DEF init_task, loaded, launching
  <2>2. CASE context[t].lr = "dispatched" /\ \A x \in Preserved : context[t].regs[x] = own[t].r[x]
    BY <1>7, <2>2 DEF loaded, Preserved, Reg
  <2> QED
    BY <1>2, <2>1, <2>2 DEF SuspendedOK
<1>9. RunningOK'
  <2>1. StackOK(own[t], Reports(t), kstack[t], view.pc)'
    BY <1>2, <1>3, <1>4, <1>5, <1>7
  <2>2. psr' = [mode |-> "svc", masked |-> TRUE]
    BY <1>3 DEF SvcMode
  <2>3. view'.pc \in {"launch_task", "dispatched"}
    BY <1>8
  <2> QED
    BY <1>3, <1>7, <1>8, <2>1, <2>2, <2>3 DEF RunningOK, KernelPoint, ExitPoint
<1> QED
  BY <1>3, <1>4, <1>6, <1>7, <1>9 DEF KInv

LEMMA DispatchSaveOK == ASSUME KInv, NEW t \in Task, DispatchSave(t) PROVE KInv'
<1> DEFINE c == cur_tcb
           inner == return_to("handler_tail")
           outer == return_to("exit_banked")
           s1 == <<outer>> \o kstack[c]
           s2 == <<inner>> \o s1
<1>1. StackOK(own[c], Reports(c), kstack[c], "irq_handler") /\ svc.lr = "exit_banked" /\ t # c
  BY InKernel DEF DispatchSave, KInv, RunningOK, KernelPoint, ExitPoint, UserPoint
<1>2. ReturnFrame(inner) /\ ReturnFrame(outer) /\ inner.pc = "handler_tail" /\ outer.pc = "exit_banked"
  BY DEF ReturnFrame, return_to
<1>3. StackOK(own[c], Reports(c), kstack[c], "exit_banked")
  BY <1>1, ExitPointsAlike DEF ExitPoint
<1> HIDE DEF inner, outer
<1>4. StackOK(own[c], Reports(c), s1, "handler_tail")
  <2>1. Len(s1) \in Nat \ {0} /\ s1[1] = outer
    BY <1>3, Pushed DEF StackOK
  <2>2. Fits(own[c], Reports(c), s1, 1, "handler_tail")
    BY <1>2, <2>1 DEF Fits, UserPoint, ExitPoint
  <2> QED
    BY <1>2, <1>3, <2>2, PushedOK
<1> HIDE DEF s1
<1>5. StackOK(own[c], Reports(c), s2, "dispatched")
  <2>1. Len(s2) \in Nat \ {0} /\ s2[1] = inner
    BY <1>4, Pushed DEF StackOK
  <2>2. Fits(own[c], Reports(c), s2, 1, "dispatched")
    BY <1>2, <2>1 DEF Fits, UserPoint, ExitPoint
  <2> QED
    BY <1>2, <1>4, <2>2, PushedOK
<1>6. s2 = <<inner, outer>> \o kstack[c]
  BY <1>1, TwoPushed DEF StackOK, s1
<1>7. ctx_switch_full(t, <<inner, outer>>)
  BY <1>1 DEF DispatchSave, inner, outer
<1> QED
  BY <1>1, <1>5, <1>6, <1>7, SwitchOK DEF DispatchSave, KernelPoint, ExitPoint

LEMMA DispatchSleepOK == ASSUME KInv, NEW t \in Task, DispatchSleep(t) PROVE KInv'
<1> DEFINE c == cur_tcb
           f == return_to("syscall")
           s == <<f>> \o kstack[c]
<1>1. StackOK(own[c], Reports(c), kstack[c], "syscall") /\ t # c
  BY InKernel DEF DispatchSleep, KernelPoint
<1>2. ReturnFrame(f) /\ f.pc = "syscall"
  BY DEF ReturnFrame, return_to
<1>3. ctx_switch_full(t, <<f>>)
  BY DEF DispatchSleep
<1> HIDE DEF f
<1>4. Len(s) \in Nat \ {0} /\ s[1] = f
  BY <1>1, Pushed DEF StackOK
<1>5. Fits(own[c], Reports(c), s, 1, "dispatched")
  BY <1>2, <1>4 DEF Fits, UserPoint, ExitPoint
<1>6. StackOK(own[c], Reports(c), s, "dispatched")
  BY <1>1, <1>2, <1>5, PushedOK
<1> QED
  BY <1>1, <1>3, <1>6, SwitchOK DEF DispatchSleep, KernelPoint
-----------------------------------------------------------------------------
LEMMA KernelNext == ASSUME HandlerMasks = TRUE PROVE KInv /\ [Next]_vars => KInv'
<1> SUFFICES ASSUME KInv, [Next]_vars
             PROVE  KInv'
  OBVIOUS
<1>1. CASE \/ LaunchJump \/ \E stub \in Calls : CallStub(stub)
           \/ Stmfd \/ Cmp \/ Bpl \/ Ldr \/ Rsblt \/ Str \/ Mov \/ Ldmfd \/ Return
  BY <1>1, InstructionsStep, ProgramStepOK
<1>2. CASE LaunchTask \/ Swi \/ \E n \in Results \cup Values : SyscallReturns(n)
  BY <1>2, LaunchOK, SwiOK, SyscallReturnsOK
<1>3. CASE IrqStep
  BY <1>3, IrqOK, HandlerReturnsOK, CReturnOK, ExitBankedOK, ExitSpsrOK, ExitPcOK DEF IrqStep
<1>4. CASE \E t \in Task : DispatchSave(t) \/ DispatchSleep(t)
  BY <1>4, DispatchSaveOK, DispatchSleepOK
<1>5. CASE UNCHANGED vars
  <2> SUFFICES ASSUME UNCHANGED <<view, psr, svc, kstack, context, cur_tcb, own, call>>
               PROVE  KInv'
    BY <1>5 DEF vars
  <2>1. \A t \in Task : Reports(t)' = Reports(t)
    BY DEF Reports
  <2> QED
    BY <2>1 DEF KInv, RunningOK, SuspendedOK
<1> QED
  BY <1>1, <1>2, <1>3, <1>4, <1>5 DEF Next, StubStep

(* Whatever interrupts and dispatches come between two instructions of a   *)
(* program, it finds its registers, flag and stack pointer as it left them *)
(* (int_asm.S:19-61, ctx_switch_asm.S).                                    *)
THEOREM RegistersAlwaysComeBack ==
    ASSUME HandlerMasks = TRUE
    PROVE  Spec => []RegistersComeBack
<1>1. KInv => RegistersComeBack
  BY InProgram DEF RegistersComeBack, InUserProgram
<1> QED
  BY <1>1, KernelInit, KernelNext, PTL DEF Spec

(* A program runs in user mode with interrupts on, and the kernel in       *)
(* supervisor mode, through any nesting of interrupts (int_asm.S:36-37).   *)
THEOREM UserCodeAlwaysInUserMode ==
    ASSUME HandlerMasks = TRUE
    PROVE  Spec => []UserCodeInUserMode
<1>1. ASSUME KInv
      PROVE  UserCodeInUserMode
  <2>1. CASE view.pc \in UserPoint
    BY <1>1, <2>1, InProgram DEF UserCodeInUserMode, InUserProgram
  <2>2. CASE view.pc \notin UserPoint
    <3>1. psr = [mode |-> "svc", masked |-> psr.masked]
      BY <1>1, <2>2 DEF KInv, RunningOK
    <3>2. psr.mode = "svc"
      BY <3>1
    <3> QED
      BY <2>2, <3>2 DEF UserCodeInUserMode, InUserProgram
  <2> QED
    BY <2>1, <2>2
<1> QED
  BY <1>1, KernelInit, KernelNext, PTL DEF Spec

LEMMA OutermostIsProgram ==
    ASSUME NEW o, NEW rep, NEW s, NEW p, StackOK(o, rep, s, p), NEW i \in 1 .. Len(s)
    PROVE  s[i].mode = "usr" <=> i = Len(s)
<1>1. /\ SyscallFrame(o, rep, s[i]) \/ IrqFrame(o, s[i]) \/ ReturnFrame(s[i])
      /\ Fits(o, rep, s, i + 1, s[i].pc)
  BY DEF StackOK
<1>2. Len(s) \in Nat
  BY Pushed DEF StackOK
<1>3. CASE s[i].mode = "usr"
  <2>1. s[i].pc \in UserPoint
    BY <1>1, <1>3 DEF SyscallFrame, IrqFrame, ReturnFrame, UserPoint
  <2> QED
    BY <1>1, <1>2, <1>3, <2>1 DEF Fits
<1>4. CASE s[i].mode # "usr"
  <2>1. s[i].pc \in {"syscall", "handler_tail", "exit_banked"}
    BY <1>1, <1>4 DEF SyscallFrame, IrqFrame, ReturnFrame
  <2>2. i + 1 \in 1 .. Len(s)
    BY <1>1, <2>1 DEF Fits, ExitPoint
  <2> QED
    BY <1>2, <1>4, <2>2
<1> QED
  BY <1>3, <1>4

(* No path through the kernel leaves a frame behind or takes one too many: *)
(* a task's stack leads back to its program through its outermost frame.   *)
THEOREM KernelStacksAlwaysBalanced ==
    ASSUME HandlerMasks = TRUE
    PROVE  Spec => []KernelStacksBalanced
<1>1. ASSUME KInv
      PROVE  KernelStacksBalanced
  <2>1. svc.sp = cur_tcb /\ (InUserProgram => kstack[cur_tcb] = <<>>)
    BY <1>1, InProgram DEF KInv, RunningOK, InUserProgram
  <2>2. ASSUME NEW t \in Task, NEW i \in 1 .. Len(kstack[t])
        PROVE  kstack[t][i].mode = "usr" <=> i = Len(kstack[t])
    <3>1. PICK p : StackOK(own[t], Reports(t), kstack[t], p)
      BY <1>1 DEF KInv, RunningOK, SuspendedOK
    <3> QED
      BY <3>1, OutermostIsProgram
  <2> QED
    BY <2>1, <2>2 DEF KernelStacksBalanced
<1> QED
  BY <1>1, KernelInit, KernelNext, PTL DEF Spec
-----------------------------------------------------------------------------
(* How far a program is in its stub: what the call left in its registers,  *)
(* and r1 on its user stack from stmfd to ldmfd.                           *)
reporting(c)      == \E stub \in Calls : stub.swi = c.stub /\ stub.reports
answer(c)         == IF reporting(c) /\ c.result < 0 THEN -1 ELSE c.result
with_r0(regs, n)  == [regs EXCEPT !["r0"] = int(n)]
with_r1(regs, a)  == [regs EXCEPT !["r1"] = a]
errno_address     == <<"address of errno">>

StubPoint == UserPoint \ {"launched", "user"}

(* The program of t, with view v, user stack u, and the call c under way.  *)
StubAt(t, v, c, u) ==
    /\ DOMAIN c = {"stub", "regs", "result"}
    /\ v.pc \in UserPoint \cup {"launch_task"}
    /\ v.pc = "launched" => v.r["r6"] = reg(t, "stack_pos")
    /\ v.pc \in UserPoint \ {"launched"} => v.sp = reg(t, "stack_pos")
    /\ u = IF v.pc \in StubPoint \ {"stmfd", "return"} /\ reporting(c)
           THEN <<c.regs["r1"]>> ELSE <<>>
    /\ v.pc \in StubPoint => c.result \in Int /\ c.regs = [x \in Reg |-> c.regs[x]]
    /\ v.pc \in StubPoint \ {"swi", "return"} => reporting(c)
    /\ v.pc \in {"stmfd", "swi"} => v.r = c.regs
    /\ v.pc \in {"cmp", "bpl", "ldr"} => v.r = with_r0(c.regs, c.result)
    /\ v.pc = "bpl" => v.neg = (c.result < 0)
    /\ v.pc \in {"ldr", "rsblt"} => v.neg = TRUE
    /\ v.pc \in {"ldr", "rsblt", "str", "mov"} => c.result < 0
    /\ v.pc = "rsblt" => v.r = with_r1(with_r0(c.regs, c.result), errno_address)
    /\ v.pc \in {"str", "mov"} => v.r = with_r1(with_r0(c.regs, -c.result), errno_address)
    /\ v.pc = "ldmfd" => v.r = with_r1(with_r0(c.regs, answer(c)), v.r["r1"])
    /\ v.pc = "return" => v.r = with_r0(c.regs, answer(c))

SInv == /\ DOMAIN ustack = Task
        /\ \A t \in Task : StubAt(t, own[t], call[t], ustack[t])
        /\ view.pc = "launch_task" => own[cur_tcb].pc = "launch_task"
        /\ \A t \in Task \ {cur_tcb} :
             context[t].lr = "launch_task" => own[t].pc = "launch_task"

LEMMA StubInit == Init => SInv
BY DEF Init, SInv, StubAt, UserPoint, StubPoint, NotCalled

(* A step of one program leaves the stubs of the others alone.             *)
LEMMA RunningStub ==
    ASSUME KInv, SInv, NEW t, t \in Task, NEW v, NEW c, NEW u, StubAt(t, v, c, u),
           own' = [own EXCEPT ![t] = v],
           call'[t] = c, ustack'[t] = u,
           \A x \in Task \ {t} : call'[x] = call[x] /\ ustack'[x] = ustack[x],
           DOMAIN ustack' = Task,
           t = cur_tcb, view' = v, UNCHANGED <<cur_tcb, context>>
    PROVE  SInv'
<1>1. DOMAIN own = Task
  BY DEF KInv
<1>2. ASSUME NEW x \in Task
      PROVE  StubAt(x, own'[x], call'[x], ustack'[x])
  <2>1. CASE x = t
    BY <1>1, <2>1
  <2>2. CASE x # t
    BY <1>1, <2>2 DEF SInv
  <2> QED
    BY <2>1, <2>2
<1> QED
  BY <1>1, <1>2 DEF SInv

(* What is known of the program that is about to execute an instruction.   *)
LEMMA AtInstruction ==
    ASSUME KInv, SInv, NEW point \in UserPoint, InUserCode(point)
    PROVE  /\ cur_tcb \in Task /\ view = own[cur_tcb] /\ IsView(view) /\ view.pc = point
           /\ StubAt(cur_tcb, view, call[cur_tcb], ustack[cur_tcb])
BY InProgram DEF InUserCode, KInv, SInv, kernel

LEMMA CmpStub ==
    ASSUME NEW t, NEW v, NEW c, NEW u, StubAt(t, v, c, u), IsView(v), v.pc = "cmp"
    PROVE  StubAt(t, [v EXCEPT !.neg = (v.r["r0"][2] < 0), !.pc = "bpl"], c, u)
<1> DEFINE w == [v EXCEPT !.neg = (v.r["r0"][2] < 0), !.pc = "bpl"]
<1>1. /\ v.r = with_r0(c.regs, c.result) /\ v.sp = reg(t, "stack_pos") /\ reporting(c)
      /\ u = <<c.regs["r1"]>> /\ c.result \in Int /\ c.regs = [x \in Reg |-> c.regs[x]]
  BY DEF StubAt, UserPoint, StubPoint
<1>2. v.r["r0"] = int(c.result)
  BY <1>1 DEF with_r0, Reg, CallerSaved
<1>3. w.pc = "bpl" /\ w.r = v.r /\ w.sp = v.sp /\ w.neg = (c.result < 0)
  BY <1>2 DEF IsView, int
<1> HIDE DEF w
<1>4. StubAt(t, w, c, u)
  BY <1>1, <1>3 DEF StubAt, UserPoint, StubPoint
<1> QED
  BY <1>4 DEF w

LEMMA BplStub ==
    ASSUME NEW t, NEW v, NEW c, NEW u, StubAt(t, v, c, u), IsView(v), v.pc = "bpl"
    PROVE  StubAt(t, Goto(v, IF branch_if_plus(v) THEN "ldmfd" ELSE "ldr"), c, u)
<1> DEFINE w == Goto(v, IF branch_if_plus(v) THEN "ldmfd" ELSE "ldr")
<1>1. /\ v.r = with_r0(c.regs, c.result) /\ v.sp = reg(t, "stack_pos") /\ reporting(c)
      /\ u = <<c.regs["r1"]>> /\ c.result \in Int /\ c.regs = [x \in Reg |-> c.regs[x]]
      /\ v.neg = (c.result < 0)
  BY DEF StubAt, UserPoint, StubPoint
<1>2. /\ w.pc = IF c.result < 0 THEN "ldr" ELSE "ldmfd"
      /\ w.r = v.r /\ w.sp = v.sp /\ w.neg = v.neg
  BY <1>1 DEF IsView, Goto, branch_if_plus
<1> HIDE DEF w
<1>3. ASSUME c.result < 0
      PROVE  StubAt(t, w, c, u)
  BY <1>1, <1>2, <1>3 DEF StubAt, UserPoint, StubPoint
<1>4. ASSUME ~(c.result < 0)
      PROVE  StubAt(t, w, c, u)
  <2>1. answer(c) = c.result
    BY <1>4 DEF answer
  <2>2. v.r = with_r1(v.r, v.r["r1"])
    BY <1>1 DEF with_r0, with_r1
  <2> QED
    BY <1>1, <1>2, <1>4, <2>1, <2>2 DEF StubAt, UserPoint, StubPoint
<1>5. StubAt(t, w, c, u)
  BY <1>3, <1>4
<1> QED
  BY <1>5 DEF w

LEMMA LdrStub ==
    ASSUME NEW t, NEW v, NEW c, NEW u, StubAt(t, v, c, u), IsView(v), v.pc = "ldr"
    PROVE  StubAt(t, [v EXCEPT !.r["r1"] = errno_address, !.pc = "rsblt"], c, u)
<1> DEFINE w == [v EXCEPT !.r["r1"] = errno_address, !.pc = "rsblt"]
<1>1. /\ v.r = with_r0(c.regs, c.result) /\ v.sp = reg(t, "stack_pos") /\ reporting(c)
      /\ u = <<c.regs["r1"]>> /\ c.result \in Int /\ c.regs = [x \in Reg |-> c.regs[x]]
      /\ v.neg = TRUE /\ c.result < 0
  BY DEF StubAt, UserPoint, StubPoint
<1>2. w.pc = "rsblt" /\ w.r = with_r1(v.r, errno_address) /\ w.sp = v.sp /\ w.neg = v.neg
  BY DEF IsView, with_r1
<1> HIDE DEF w
<1>3. StubAt(t, w, c, u)
  BY <1>1, <1>2 DEF StubAt, UserPoint, StubPoint
<1> QED
  BY <1>3 DEF w

LEMMA RsbltStub ==
    ASSUME NEW t, NEW v, NEW c, NEW u, StubAt(t, v, c, u), IsView(v), v.pc = "rsblt"
    PROVE  StubAt(t, Goto(negated(v), "str"), c, u)
<1> DEFINE w == Goto(negated(v), "str")
<1>1. /\ v.r = with_r1(with_r0(c.regs, c.result), errno_address)
      /\ v.sp = reg(t, "stack_pos") /\ reporting(c)
      /\ u = <<c.regs["r1"]>> /\ c.result \in Int /\ c.regs = [x \in Reg |-> c.regs[x]]
      /\ v.neg = TRUE /\ c.result < 0
  BY DEF StubAt, UserPoint, StubPoint
<1>2. v.r["r0"] = int(c.result)
  BY <1>1 DEF with_r0, with_r1, Reg, CallerSaved
<1>3. with_r0(v.r, -c.result) = with_r1(with_r0(c.regs, -c.result), errno_address)
  BY <1>1 DEF with_r0, with_r1
<1>4. w.pc = "str" /\ w.r = with_r0(v.r, -c.result) /\ w.sp = v.sp
  <2>1. v.r["r0"][2] = c.result
    BY <1>2 DEF int
  <2>2. w = Goto([v EXCEPT !.r["r0"] = int(-c.result)], "str")
    BY <1>1, <2>1 DEF negated
  <2> QED
    BY <2>2 DEF IsView, Goto, with_r0
<1> HIDE DEF w
<1>5. StubAt(t, w, c, u)
  BY <1>1, <1>3, <1>4 DEF StubAt, UserPoint, StubPoint
<1> QED
  BY <1>5 DEF w

LEMMA StrStub ==
    ASSUME NEW t, NEW v, NEW c, NEW u, StubAt(t, v, c, u), IsView(v), v.pc = "str"
    PROVE  StubAt(t, Goto(v, "mov"), c, u)
<1> DEFINE w == Goto(v, "mov")
<1>1. w.pc = "mov" /\ w.r = v.r /\ w.sp = v.sp
  BY DEF IsView, Goto
<1> HIDE DEF w
<1>2. StubAt(t, w, c, u)
  BY <1>1 DEF StubAt, UserPoint, StubPoint
<1> QED
  BY <1>2 DEF w

LEMMA MovStub ==
    ASSUME NEW t, NEW v, NEW c, NEW u, StubAt(t, v, c, u), IsView(v), v.pc = "mov"
    PROVE  StubAt(t, [v EXCEPT !.r["r0"] = int(-1), !.pc = "ldmfd"], c, u)
<1> DEFINE w == [v EXCEPT !.r["r0"] = int(-1), !.pc = "ldmfd"]
<1>1. /\ v.r = with_r1(with_r0(c.regs, -c.result), errno_address)
      /\ v.sp = reg(t, "stack_pos") /\ reporting(c)
      /\ u = <<c.regs["r1"]>> /\ c.result \in Int /\ c.regs = [x \in Reg |-> c.regs[x]]
      /\ c.result < 0
  BY DEF StubAt, UserPoint, StubPoint
<1>2. answer(c) = -1
  BY <1>1 DEF answer
<1>3. w.pc = "ldmfd" /\ w.r = with_r0(v.r, -1) /\ w.sp = v.sp
  BY DEF IsView, with_r0
<1>4. with_r0(v.r, -1) = with_r1(with_r0(c.regs, -1), with_r0(v.r, -1)["r1"])
  BY <1>1 DEF with_r0, with_r1, Reg, CallerSaved
<1> HIDE DEF w
<1>5. StubAt(t, w, c, u)
  BY <1>1, <1>2, <1>3, <1>4 DEF StubAt, UserPoint, StubPoint
<1> QED
  BY <1>5 DEF w

LEMMA LdmfdStub ==
    ASSUME NEW t, NEW v, NEW c, NEW u, StubAt(t, v, c, u), IsView(v), v.pc = "ldmfd"
    PROVE  StubAt(t, [v EXCEPT !.r["r1"] = Head(u), !.pc = "return"], c, Tail(u))
<1> DEFINE w == [v EXCEPT !.r["r1"] = Head(u), !.pc = "return"]
<1>1. /\ v.r = with_r1(with_r0(c.regs, answer(c)), v.r["r1"])
      /\ v.sp = reg(t, "stack_pos") /\ reporting(c)
      /\ u = <<c.regs["r1"]>> /\ c.result \in Int /\ c.regs = [x \in Reg |-> c.regs[x]]
  BY DEF StubAt, UserPoint, StubPoint
<1>2. Head(u) = c.regs["r1"] /\ Tail(u) = <<>>
  BY <1>1
<1>3. w.pc = "return" /\ w.r = with_r1(v.r, Head(u)) /\ w.sp = v.sp
  BY DEF IsView, with_r1
<1>4. with_r1(v.r, c.regs["r1"]) = with_r0(c.regs, answer(c))
  BY <1>1 DEF with_r0, with_r1
<1> HIDE DEF w
<1>5. StubAt(t, w, c, Tail(u))
  BY <1>1, <1>2, <1>3, <1>4 DEF StubAt, UserPoint, StubPoint
<1> QED
  BY <1>5 DEF w

LEMMA StmfdStub ==
    ASSUME NEW t, NEW v, NEW c, NEW u, StubAt(t, v, c, u), IsView(v), v.pc = "stmfd"
    PROVE  StubAt(t, Goto(v, "swi"), c, <<v.r["r1"]>> \o u)
<1> DEFINE w == Goto(v, "swi")
<1>1. /\ v.r = c.regs /\ v.sp = reg(t, "stack_pos") /\ reporting(c)
      /\ u = <<>> /\ c.result \in Int /\ c.regs = [x \in Reg |-> c.regs[x]]
  BY DEF StubAt, UserPoint, StubPoint
<1>2. <<v.r["r1"]>> \o u = <<c.regs["r1"]>>
  <2>1. <<c.regs["r1"]>> \in Seq({c.regs["r1"]})
    OBVIOUS
  <2> QED
    BY <1>1, <2>1, ConcatEmptySeq
<1>3. w.pc = "swi" /\ w.r = v.r /\ w.sp = v.sp
  BY DEF IsView, Goto
<1> HIDE DEF w
<1>4. StubAt(t, w, c, <<v.r["r1"]>> \o u)
  BY <1>1, <1>2, <1>3 DEF StubAt, UserPoint, StubPoint
<1> QED
  BY <1>4 DEF w

(* The answer of the system call, to a stub that waits behind its swi.     *)
LEMMA AnsweredStub ==
    ASSUME NEW t, NEW v, NEW c, NEW u, StubAt(t, v, c, u), IsView(v), v.pc = "swi",
           NEW n \in Int, NEW d, d.regs = c.regs, d.stub = c.stub, d.result = n,
           DOMAIN d = DOMAIN c
    PROVE  StubAt(t, [v EXCEPT !.r["r0"] = int(n), !.pc = IF reporting(c) THEN "cmp" ELSE "return"],
                  d, u)
<1> DEFINE w == [v EXCEPT !.r["r0"] = int(n), !.pc = IF reporting(c) THEN "cmp" ELSE "return"]
<1>1. /\ v.r = c.regs /\ v.sp = reg(t, "stack_pos")
      /\ u = IF reporting(c) THEN <<c.regs["r1"]>> ELSE <<>>
      /\ c.regs = [x \in Reg |-> c.regs[x]]
  BY DEF StubAt, UserPoint, StubPoint
<1>2. reporting(d) = reporting(c)
  BY DEF reporting
<1>3. /\ w.pc = IF reporting(c) THEN "cmp" ELSE "return"
      /\ w.r = with_r0(d.regs, d.result) /\ w.sp = v.sp
  BY <1>1 DEF IsView, with_r0
<1> HIDE DEF w
<1>4. ASSUME reporting(c)
      PROVE  StubAt(t, w, d, u)
  BY <1>1, <1>2, <1>3, <1>4 DEF StubAt, UserPoint, StubPoint
<1>5. ASSUME ~reporting(c)
      PROVE  StubAt(t, w, d, u)
  <2>1. answer(d) = d.result
    BY <1>2, <1>5 DEF answer
  <2> QED
    BY <1>1, <1>2, <1>3, <1>5, <2>1 DEF StubAt, UserPoint, StubPoint
<1>6. StubAt(t, w, d, u)
  BY <1>4, <1>5
<1> QED
  BY <1>6 DEF w

(* An instruction that leaves the call and the user stack alone.           *)
LEMMA InstructionStub ==
    ASSUME KInv, SInv, NEW point \in UserPoint, InUserCode(point),
           NEW w, view' = w, own' = [own EXCEPT ![cur_tcb] = w],
           StubAt(cur_tcb, w, call[cur_tcb], ustack[cur_tcb]), UNCHANGED <<call, ustack>>
    PROVE  SInv'
<1>1. cur_tcb \in Task
  BY AtInstruction
<1> QED
  BY <1>1, RunningStub DEF InUserCode, kernel, SInv

LEMMA InstructionsStub ==
    ASSUME KInv, SInv, Cmp \/ Bpl \/ Ldr \/ Rsblt \/ Str \/ Mov
    PROVE  SInv'
<1> USE DEF Executes, UserPoint
<1>1. CASE Cmp
  BY <1>1, AtInstruction, CmpStub, InstructionStub DEF Cmp
<1>2. CASE Bpl
  BY <1>2, AtInstruction, BplStub, InstructionStub DEF Bpl
<1>3. CASE Ldr
  BY <1>3, AtInstruction, LdrStub, InstructionStub DEF Ldr, errno_address
<1>4. CASE Rsblt
  BY <1>4, AtInstruction, RsbltStub, InstructionStub DEF Rsblt
<1>5. CASE Str
  BY <1>5, AtInstruction, StrStub, InstructionStub DEF Str
<1>6. CASE Mov
  BY <1>6, AtInstruction, MovStub, InstructionStub DEF Mov
<1> QED
  BY <1>1, <1>2, <1>3, <1>4, <1>5, <1>6

LEMMA StmfdOK == ASSUME KInv, SInv, Stmfd PROVE SInv'
<1> DEFINE t == cur_tcb
           w == Goto(view, "swi")
           n == <<view.r["r1"]>> \o ustack[t]
<1>1. /\ t \in Task /\ view = own[t] /\ IsView(view) /\ view.pc = "stmfd"
      /\ StubAt(t, view, call[t], ustack[t])
  BY AtInstruction DEF Stmfd, UserPoint
<1>2. view.sp[2] = t
  BY <1>1 DEF StubAt, UserPoint, reg
<1>3. /\ view' = w /\ own' = [own EXCEPT ![t] = w] /\ UNCHANGED <<call, cur_tcb, context>>
      /\ ustack' = [ustack EXCEPT ![t] = n]
  BY <1>1, <1>2 DEF Stmfd, Executes, InUserCode, kernel
<1>4. StubAt(t, w, call[t], n)
  BY <1>1, StmfdStub
<1> HIDE DEF w, n
<1>5. /\ DOMAIN ustack' = Task /\ ustack'[t] = n
      /\ \A x \in Task \ {t} : ustack'[x] = ustack[x]
  BY <1>1, <1>3 DEF SInv
<1> QED
  BY <1>1, <1>3, <1>4, <1>5, RunningStub

LEMMA LdmfdOK == ASSUME KInv, SInv, Ldmfd PROVE SInv'
<1> DEFINE t == cur_tcb
           w == [view EXCEPT !.r["r1"] = Head(ustack[t]), !.pc = "return"]
           n == Tail(ustack[t])
<1>1. /\ t \in Task /\ view = own[t] /\ IsView(view) /\ view.pc = "ldmfd"
      /\ StubAt(t, view, call[t], ustack[t])
  BY AtInstruction DEF Ldmfd, UserPoint
<1>2. view.sp[2] = t
  BY <1>1 DEF StubAt, UserPoint, reg
<1>3. /\ view' = w /\ own' = [own EXCEPT ![t] = w] /\ UNCHANGED <<call, cur_tcb, context>>
      /\ ustack' = [ustack EXCEPT ![t] = n]
  BY <1>1, <1>2 DEF Ldmfd, Executes, InUserCode, kernel
<1>4. StubAt(t, w, call[t], n)
  BY <1>1, LdmfdStub
<1> HIDE DEF w, n
<1>5. /\ DOMAIN ustack' = Task /\ ustack'[t] = n
      /\ \A x \in Task \ {t} : ustack'[x] = ustack[x]
  BY <1>1, <1>3 DEF SInv
<1> QED
  BY <1>1, <1>3, <1>4, <1>5, RunningStub

LEMMA ReturnOK == ASSUME KInv, SInv, Return PROVE SInv'
<1> DEFINE t == cur_tcb
           w == Goto(view, "user")
<1>1. /\ t \in Task /\ view = own[t] /\ IsView(view) /\ view.pc = "return"
      /\ StubAt(t, view, call[t], ustack[t])
  BY AtInstruction DEF Return, UserPoint
<1>2. /\ view' = w /\ own' = [own EXCEPT ![t] = w] /\ UNCHANGED <<ustack, cur_tcb, context>>
      /\ call' = [call EXCEPT ![t] = NotCalled]
  BY <1>1 DEF Return, Executes, InUserCode, kernel
<1>3. w.pc = "user" /\ w.sp = reg(t, "stack_pos") /\ ustack[t] = <<>>
  BY <1>1 DEF StubAt, UserPoint, StubPoint, IsView, Goto
<1> HIDE DEF w
<1>4. StubAt(t, w, NotCalled, ustack[t])
  BY <1>3 DEF StubAt, UserPoint, StubPoint, NotCalled
<1>5. call'[t] = NotCalled /\ \A x \in Task \ {t} : call'[x] = call[x]
  BY <1>1, <1>2 DEF KInv
<1> QED
  BY <1>1, <1>2, <1>4, <1>5, RunningStub DEF SInv

LEMMA LaunchJumpOK == ASSUME KInv, SInv, LaunchJump PROVE SInv'
<1> DEFINE t == cur_tcb
           w == launch_jump(view)
<1>1. /\ t \in Task /\ view = own[t] /\ IsView(view) /\ view.pc = "launched"
      /\ StubAt(t, view, call[t], ustack[t])
  BY AtInstruction DEF LaunchJump, UserPoint
<1>2. view' = w /\ own' = [own EXCEPT ![t] = w] /\ UNCHANGED <<call, ustack>>
  BY <1>1 DEF LaunchJump, Executes
<1>3. /\ w.pc = "user" /\ w.sp = reg(t, "stack_pos") /\ ustack[t] = <<>>
      /\ DOMAIN call[t] = {"stub", "regs", "result"}
  BY <1>1 DEF StubAt, UserPoint, StubPoint, IsView, launch_jump
<1> HIDE DEF w
<1>4. StubAt(t, w, call[t], ustack[t])
  BY <1>3 DEF StubAt, UserPoint, StubPoint
<1> QED
  BY <1>2, <1>4, InstructionStub DEF LaunchJump, UserPoint

(* Two stubs with the same swi do the same: the swi tells them apart.      *)
LEMMA SwiTellsStub ==
    ASSUME NEW stub \in Calls, NEW c, c.stub = stub.swi
    PROVE  stub.reports \in BOOLEAN /\ (reporting(c) <=> stub.reports)
<1>1. ASSUME NEW a \in Calls, NEW b \in Calls, a.swi = b.swi
      PROVE  a.reports \in BOOLEAN /\ a.reports = b.reports
  <2>1. ASSUME NEW x \in Calls
        PROVE  IF x.swi \in {"SLEEP_SWI", "TIME_SWI"} THEN x.reports = FALSE ELSE x.reports = TRUE
    <3>1. \/ x = read \/ x = write \/ x = task_create \/ x = event_wait
          \/ x = mutex_create \/ x = mutex_lock \/ x = mutex_unlock
          \/ x = sleep \/ x = time
      BY CallsAssumption
    <3>2. CASE x = sleep \/ x = time
      BY <3>2 DEF sleep, time
    <3>3. CASE x = read \/ x = write \/ x = task_create \/ x = event_wait
      BY <3>3 DEF read, write, task_create, event_wait
    <3>4. CASE x = mutex_create \/ x = mutex_lock \/ x = mutex_unlock
      BY <3>4 DEF mutex_create, mutex_lock, mutex_unlock
    <3> QED
      BY <3>1, <3>2, <3>3, <3>4
  <2> QED
    BY <1>1, <2>1
<1> QED
  BY <1>1 DEF reporting

LEMMA CallStubOK == ASSUME KInv, SInv, NEW stub \in Calls, CallStub(stub) PROVE SInv'
<1> DEFINE t == cur_tcb
           w == [view EXCEPT !.r = [x \in Reg |-> reg(t, x)], !.lr = reg(t, "lr"),
                             !.pc = IF stub.reports THEN "stmfd" ELSE "swi"]
           c == [stub |-> stub.swi, regs |-> w.r, result |-> 0]
<1>1. /\ t \in Task /\ view = own[t] /\ IsView(view) /\ view.pc = "user"
      /\ StubAt(t, view, call[t], ustack[t])
  BY AtInstruction DEF CallStub, UserPoint
<1>2. /\ view' = w /\ own' = [own EXCEPT ![t] = w] /\ UNCHANGED <<ustack, cur_tcb, context>>
      /\ call' = [call EXCEPT ![t] = c]
  BY <1>1 DEF CallStub, Executes, InUserCode, kernel
<1>3. /\ w.pc = IF stub.reports THEN "stmfd" ELSE "swi"
      /\ w.r = [x \in Reg |-> reg(t, x)]
      /\ w.sp = reg(t, "stack_pos") /\ ustack[t] = <<>>
  BY <1>1 DEF StubAt, UserPoint, StubPoint, IsView
<1>4. DOMAIN c = {"stub", "regs", "result"} /\ c.stub = stub.swi /\ c.regs = [x \in Reg |-> c.regs[x]] /\ c.result = 0 /\ w.r = c.regs
  BY <1>3
<1>5. reporting(c) <=> stub.reports
  BY <1>4, SwiTellsStub
<1>6. call'[t] = c /\ \A x \in Task \ {t} : call'[x] = call[x]
  BY <1>1, <1>2 DEF KInv
<1> HIDE DEF w, c
<1>7. StubAt(t, w, c, ustack[t])
  BY <1>3, <1>4, <1>5 DEF StubAt, UserPoint, StubPoint
<1> QED
  BY <1>1, <1>2, <1>6, <1>7, RunningStub DEF SInv

LEMMA LaunchStubOK == ASSUME KInv, SInv, LaunchTask PROVE SInv'
<1> DEFINE t == cur_tcb
           v == [view EXCEPT !.r = launching(t)]
           w == launch_to_user(v)
<1>1. /\ t \in Task /\ IsView(view) /\ view.r = launching(t) /\ own[t].pc = "launch_task"
      /\ StubAt(t, own[t], call[t], ustack[t])
  BY InKernel DEF LaunchTask, KernelPoint, SInv
<1>2. v = view
  BY <1>1 DEF IsView
<1>3. view' = w /\ own' = [own EXCEPT ![t] = w] /\ UNCHANGED <<ustack, call, cur_tcb, context>>
  BY <1>2 DEF LaunchTask, launching
<1>4. ustack[t] = <<>> /\ DOMAIN call[t] = {"stub", "regs", "result"}
  BY <1>1 DEF StubAt, UserPoint, StubPoint
<1>5. w.pc = "launched" /\ w.r["r6"] = reg(t, "stack_pos")
  BY <1>1, <1>2 DEF IsView, launch_to_user, launching, init_task, Reg, CallerSaved, CalleeSaved
<1> HIDE DEF w
<1>6. StubAt(t, w, call[t], ustack[t])
  BY <1>4, <1>5 DEF StubAt, UserPoint, StubPoint
<1> QED
  BY <1>1, <1>3, <1>6, RunningStub DEF SInv

LEMMA SyscallAnswersOK == ASSUME KInv, SInv, NEW n \in Results \cup Values, SyscallReturns(n) PROVE SInv'
<1> DEFINE t == cur_tcb
           f == kstack[t][1]
           d == [call[t] EXCEPT !.result = n]
           w == [own[t] EXCEPT !.r["r0"] = int(n),
                               !.pc = IF reporting(call[t]) THEN "cmp" ELSE "return"]
<1>1. t \in Task /\ SyscallFrame(own[t], Reports(t), f) /\ IsView(own[t])
  BY InKernel, InnermostFrame DEF SyscallReturns, KernelPoint, KInv
<1>2. Frame = f
  BY PopsFrame DEF SyscallReturns, KernelPoint
<1>3. f.view = own[t] /\ own[t].pc = "swi" /\ f.pc = IF reporting(call[t]) THEN "cmp" ELSE "return"
  BY <1>1 DEF SyscallFrame, Reports, reporting
<1>4. /\ view' = w /\ own' = [own EXCEPT ![t] = w] /\ call' = [call EXCEPT ![t] = d]
      /\ UNCHANGED <<ustack, cur_tcb, context>>
  BY <1>2, <1>3 DEF SyscallReturns
<1>5. n \in Int
  BY ResultsAssumption
<1>6. /\ d.regs = call[t].regs /\ d.stub = call[t].stub /\ d.result = n
      /\ DOMAIN d = DOMAIN call[t]
  BY <1>1 DEF SInv, StubAt
<1>7. StubAt(t, own[t], call[t], ustack[t])
  BY <1>1 DEF SInv
<1>8. call'[t] = d /\ \A x \in Task \ {t} : call'[x] = call[x]
  BY <1>1, <1>4 DEF KInv
<1> HIDE DEF d
<1>9. StubAt(t, w, d, ustack[t])
  BY <1>1, <1>3, <1>5, <1>6, <1>7, AnsweredStub
<1> HIDE DEF w
<1> QED
  BY <1>1, <1>4, <1>8, <1>9, RunningStub DEF SInv

(* The kernel's own steps leave every stub where it is.                    *)
LEMMA KernelKeepsStubs ==
    ASSUME KInv, SInv, Swi \/ IrqStep
    PROVE  SInv'
<1>1. UNCHANGED <<own, call, ustack, cur_tcb, context>>
  BY DEF Swi, IrqStep, Irq, HandlerReturns, DispatchEnds, HandlerTail, ExitBanked, ExitSpsr,
         ExitPc, kernel
<1>2. IsView(view)
  BY DEF KInv, RunningOK
<1>3. view'.pc # "launch_task"
  <2>1. CASE Swi \/ Irq
    BY <1>2, <2>1 DEF Swi, Irq, spoiled, IsView
  <2>2. CASE HandlerReturns
    <3>1. svc.lr = "exit_banked"
      BY <2>2 DEF HandlerReturns, KInv, RunningOK, UserPoint
    <3> QED
      BY <1>2, <2>2, <3>1 DEF HandlerReturns, spoiled, IsView
  <2>3. CASE ExitBanked \/ ExitSpsr
    BY <1>2, <2>3 DEF ExitBanked, ExitSpsr, Goto, IsView
  <2>4. CASE DispatchEnds \/ HandlerTail \/ ExitPc
    <3> DEFINE f == kstack[cur_tcb][1]
    <3>1. view.pc \in KernelPoint \ {"launch_task"} /\ kstack' = popped
      BY <2>4 DEF DispatchEnds, HandlerTail, ExitPc, KernelPoint, ExitPoint
    <3>2. Frame = f
      BY <3>1, PopsFrame
    <3>3. SyscallFrame(own[cur_tcb], Reports(cur_tcb), f) \/ IrqFrame(own[cur_tcb], f) \/ ReturnFrame(f)
      BY <3>1, InKernel, InnermostFrame
    <3>4. f.pc # "launch_task"
      BY <3>3 DEF SyscallFrame, IrqFrame, ReturnFrame, UserPoint
    <3>5. view'.pc = f.pc
      BY <1>2, <2>4, <3>2 DEF DispatchEnds, HandlerTail, ExitPc, spoiled, IsView
    <3> QED
      BY <3>4, <3>5
  <2> QED
    BY <2>1, <2>2, <2>3, <2>4 DEF IrqStep
<1> QED
  BY <1>1, <1>3 DEF SInv

(* A task that gets the processor goes on where it was: one that was never *)
(* launched is still before its launch.                                    *)
LEMMA SwitchKeepsStubs ==
    ASSUME KInv, SInv, NEW t \in Task, t # cur_tcb, NEW frames, ctx_switch_full(t, frames),
           view.pc \in KernelPoint
    PROVE  SInv'
<1> DEFINE c == cur_tcb
<1>1. c \in Task /\ IsView(view) /\ DOMAIN context = Task
  BY InKernel DEF KInv
<1>2. UNCHANGED <<own, call, ustack>> /\ cur_tcb' = t /\ view'.pc = context[t].lr
  BY <1>1 DEF ctx_switch_full, IsView
<1>3. context'[c].lr = "dispatched" /\ \A u \in Task \ {c} : context'[u] = context[u]
  BY <1>1 DEF ctx_switch_full
<1>4. view'.pc = "launch_task" => own'[t].pc = "launch_task"
  BY <1>2 DEF SInv
<1>5. ASSUME NEW u \in Task \ {t}, context'[u].lr = "launch_task"
      PROVE  own'[u].pc = "launch_task"
  BY <1>2, <1>3, <1>5 DEF SInv
<1> QED
  BY <1>2, <1>4, <1>5 DEF SInv

LEMMA StubNext == KInv /\ SInv /\ [Next]_vars => SInv'
<1> SUFFICES ASSUME KInv, SInv, [Next]_vars
             PROVE  SInv'
  OBVIOUS
<1>1. CASE LaunchTask \/ LaunchJump \/ \E stub \in Calls : CallStub(stub)
  BY <1>1, LaunchStubOK, LaunchJumpOK, CallStubOK
<1>2. CASE StubStep
  BY <1>2, StmfdOK, InstructionsStub, LdmfdOK, ReturnOK, KernelKeepsStubs DEF StubStep
<1>3. CASE IrqStep
  BY <1>3, KernelKeepsStubs
<1>4. CASE \E n \in Results \cup Values : SyscallReturns(n)
  BY <1>4, SyscallAnswersOK
<1>5. CASE \E t \in Task : DispatchSave(t) \/ DispatchSleep(t)
  BY <1>5, SwitchKeepsStubs DEF DispatchSave, DispatchSleep, KernelPoint, ExitPoint
<1>6. CASE UNCHANGED vars
  BY <1>6 DEF vars, SInv
<1> QED
  BY <1>1, <1>2, <1>3, <1>4, <1>5, <1>6 DEF Next

(* A stub that has stored its error number and not returned: the number is *)
(* in errno unless another stub has stored since.                          *)
HasStored(t) == /\ own[t].pc \in {"mov", "ldmfd", "return"}
                /\ Reports(t) /\ call[t].result < 0

EInv == /\ errno_of # {} => \E t \in Task : errno_of = {t}
        /\ \A t \in Task : HasStored(t) =>
             /\ errno_of # {}
             /\ errno_of = {t} => errno = -call[t].result

LEMMA StoredInit == Init => EInv
BY DEF Init, EInv, HasStored, UserPoint, Reports, NotCalled

(* A step that stores nothing and leaves every other program alone.        *)
LEMMA StoredKept ==
    ASSUME EInv, UNCHANGED stored,
           \A t \in Task : HasStored(t)' => HasStored(t) /\ call'[t].result = call[t].result
    PROVE  EInv'
BY DEF EInv, stored

(* What a store writes, and where the program goes from there.             *)
LEMMA Stores ==
    ASSUME KInv, SInv, Str
    PROVE  /\ errno_of' = {cur_tcb}
           /\ errno' = -call[cur_tcb].result /\ call[cur_tcb].result < 0
           /\ call' = call /\ \A t \in Task \ {cur_tcb} : own'[t] = own[t]
<1>1. /\ cur_tcb \in Task /\ view = own[cur_tcb] /\ view.pc = "str"
      /\ StubAt(cur_tcb, view, call[cur_tcb], ustack[cur_tcb])
  BY AtInstruction DEF Str, UserPoint
<1>2. /\ call[cur_tcb].result < 0
      /\ view.r = with_r1(with_r0(call[cur_tcb].regs, -call[cur_tcb].result), errno_address)
      /\ call[cur_tcb].regs = [x \in Reg |-> call[cur_tcb].regs[x]]
  BY <1>1 DEF StubAt, UserPoint, StubPoint
<1>3. view.r["r0"] = int(-call[cur_tcb].result) /\ view.r["r1"] = errno_address
  BY <1>2 DEF with_r0, with_r1, Reg, CallerSaved
<1>4. errno' = view.r["r0"][2]
  BY <1>3 DEF Str, errno_address
<1>5. errno' = -call[cur_tcb].result
  BY <1>3, <1>4 DEF int
<1>6. \A t \in Task \ {cur_tcb} : own'[t] = own[t]
  BY <1>1 DEF Str, Executes, KInv
<1> QED
  BY <1>2, <1>5, <1>6 DEF Str

(* A program that is not behind its store afterwards, or was before.       *)
LEMMA StoredElsewhere ==
    ASSUME KInv, EInv, UNCHANGED stored, cur_tcb \in Task,
           NEW w, own' = [own EXCEPT ![cur_tcb] = w],
           NEW d, call'[cur_tcb] = d, \A t \in Task \ {cur_tcb} : call'[t] = call[t],
           w.pc \in {"mov", "ldmfd", "return"} /\ reporting(d) /\ d.result < 0
             => HasStored(cur_tcb) /\ d.result = call[cur_tcb].result
    PROVE  EInv'
<1>1. ASSUME NEW t \in Task, HasStored(t)'
      PROVE  HasStored(t) /\ call'[t].result = call[t].result
  <2>1. CASE t = cur_tcb
    <3>1. own'[t] = w /\ call'[t] = d
      BY <2>1 DEF KInv
    <3> QED
      BY <1>1, <2>1, <3>1 DEF HasStored, Reports, reporting
  <2>2. CASE t # cur_tcb
    <3>1. own'[t] = own[t] /\ call'[t] = call[t]
      BY <2>2 DEF KInv
    <3> QED
      BY <1>1, <3>1 DEF HasStored, Reports
  <2> QED
    BY <2>1, <2>2
<1> QED
  BY <1>1, StoredKept

LEMMA StoredStr == ASSUME KInv, SInv, EInv, Str PROVE EInv'
<1>1. cur_tcb \in Task /\ own[cur_tcb].pc = "str"
  BY AtInstruction DEF Str, UserPoint
<1>2. ASSUME NEW t \in Task, HasStored(t)'
      PROVE  /\ errno_of' # {}
             /\ errno_of' = {t} => errno' = -call'[t].result
  <2>1. CASE t = cur_tcb
    BY <2>1, Stores
  <2>2. CASE t # cur_tcb
    BY <2>2, Stores
  <2> QED
    BY <2>1, <2>2
<1>3. \E t \in Task : errno_of' = {t}
  BY <1>1, Stores
<1> QED
  BY <1>2, <1>3 DEF EInv

(* The instructions around the store.                                      *)
LEMMA StoredInstructions ==
    ASSUME KInv, SInv, EInv, Cmp \/ Bpl \/ Ldr \/ Rsblt \/ Mov \/ Stmfd \/ Ldmfd
    PROVE  EInv'
<1> DEFINE c == call[cur_tcb]
<1>1. PICK point \in UserPoint : InUserCode(point)
  BY DEF Cmp, Bpl, Ldr, Rsblt, Mov, Stmfd, Ldmfd, UserPoint
<1>2. /\ cur_tcb \in Task /\ view = own[cur_tcb] /\ IsView(view)
      /\ StubAt(cur_tcb, view, c, ustack[cur_tcb])
  BY <1>1, AtInstruction
<1>3. UNCHANGED <<call, stored>>
  BY DEF Cmp, Bpl, Ldr, Rsblt, Mov, Stmfd, Ldmfd
<1>4. own' = [own EXCEPT ![cur_tcb] = view']
  BY <1>2 DEF Cmp, Bpl, Ldr, Rsblt, Mov, Stmfd, Ldmfd, Executes
<1>5. ASSUME view'.pc \in {"mov", "ldmfd", "return"}, reporting(c), c.result < 0
      PROVE  HasStored(cur_tcb)
  <2>1. CASE Mov \/ Ldmfd
    BY <1>2, <1>5, <2>1 DEF Mov, Ldmfd, InUserCode, HasStored, Reports, reporting
  <2>2. CASE Bpl
    <3>1. view.neg = TRUE
      BY <1>2, <1>5, <2>2 DEF Bpl, InUserCode, StubAt, UserPoint
    <3>2. view'.pc = "ldr"
      BY <1>2, <2>2, <3>1 DEF Bpl, Executes, Goto, branch_if_plus, IsView
    <3> QED
      BY <1>5, <3>2
  <2>3. CASE Cmp \/ Ldr \/ Stmfd
    <3>1. view'.pc \in {"bpl", "rsblt", "swi"}
      BY <1>2, <2>3 DEF Cmp, Ldr, Stmfd, Executes, Goto, IsView
    <3> QED
      BY <1>5, <3>1
  <2>4. CASE Rsblt
    <3>1. view'.pc = "str"
      BY <1>2, <2>4 DEF Rsblt, Executes, Goto, negated, IsView
    <3> QED
      BY <1>5, <3>1
  <2> QED
    BY <2>1, <2>2, <2>3, <2>4
<1> HIDE DEF c
<1> QED
  BY <1>2, <1>3, <1>4, <1>5, StoredElsewhere DEF c

(* Entering and leaving a stub.                                            *)
LEMMA StoredAtEnds ==
    ASSUME KInv, SInv, EInv,
           LaunchTask \/ LaunchJump \/ Return \/ \E stub \in Calls : CallStub(stub)
    PROVE  EInv'
<1> DEFINE w == own'[cur_tcb]
<1>1. cur_tcb \in Task /\ IsView(view) /\ IsView(own[cur_tcb])
  BY DEF KInv, RunningOK
<1>2. \A t \in Task \ {cur_tcb} : call'[t] = call[t]
  BY DEF KInv, LaunchTask, LaunchJump, Return, CallStub
<1>3. own' = [own EXCEPT ![cur_tcb] = w] /\ UNCHANGED stored
  BY <1>1 DEF KInv, LaunchTask, LaunchJump, Return, CallStub, Executes
<1>4. w.pc \in {"launched", "user", "stmfd", "swi"}
  <2>1. CASE LaunchTask
    BY <1>1, <2>1 DEF KInv, LaunchTask, launch_to_user, IsView
  <2>2. CASE LaunchJump
    BY <1>1, <2>2 DEF KInv, LaunchJump, Executes, launch_jump, IsView
  <2>3. CASE Return
    BY <1>1, <2>3 DEF KInv, Return, Executes, Goto, IsView
  <2>4. CASE \E stub \in Calls : CallStub(stub)
    <3>1. PICK stub \in Calls : CallStub(stub)
      BY <2>4
    <3>2. w.pc = IF stub.reports THEN "stmfd" ELSE "swi"
      BY <1>1, <3>1 DEF KInv, CallStub, Executes, IsView
    <3> QED
      BY <3>2
  <2> QED
    BY <2>1, <2>2, <2>3, <2>4
<1> HIDE DEF w
<1> QED
  BY <1>1, <1>2, <1>3, <1>4, StoredElsewhere

LEMMA StoredSyscall ==
    ASSUME KInv, SInv, EInv, NEW n \in Results \cup Values, SyscallReturns(n)
    PROVE  EInv'
<1> DEFINE f == kstack[cur_tcb][1]
           d == [call[cur_tcb] EXCEPT !.result = n]
<1>1. /\ cur_tcb \in Task /\ IsView(own[cur_tcb])
      /\ SyscallFrame(own[cur_tcb], Reports(cur_tcb), f)
  BY InKernel, InnermostFrame DEF SyscallReturns, KernelPoint, KInv
<1>2. Frame = f
  BY PopsFrame DEF SyscallReturns, KernelPoint
<1>3. f.view = own[cur_tcb] /\ f.pc = IF Reports(cur_tcb) THEN "cmp" ELSE "return"
  BY <1>1 DEF SyscallFrame
<1>4. /\ own' = [own EXCEPT ![cur_tcb] = own'[cur_tcb]]
      /\ call'[cur_tcb] = d /\ \A t \in Task \ {cur_tcb} : call'[t] = call[t]
      /\ UNCHANGED stored
  BY <1>1 DEF SyscallReturns, KInv
<1>5. own'[cur_tcb].pc = f.pc
  BY <1>1, <1>2 DEF SyscallReturns, KInv, IsView
<1>6. DOMAIN call[cur_tcb] = {"stub", "regs", "result"}
  BY <1>1 DEF SInv, StubAt
<1>7. reporting(d) <=> Reports(cur_tcb)
  BY <1>6 DEF reporting, Reports
<1> HIDE DEF d, f
<1> QED
  BY <1>1, <1>3, <1>4, <1>5, <1>7, StoredElsewhere

LEMMA StoredNext == KInv /\ SInv /\ EInv /\ [Next]_vars => EInv'
<1> SUFFICES ASSUME KInv, SInv, EInv, [Next]_vars
             PROVE  EInv'
  OBVIOUS
<1>1. CASE LaunchTask \/ LaunchJump \/ \E stub \in Calls : CallStub(stub)
  BY <1>1, StoredAtEnds
<1>2. CASE StubStep
  <2>1. CASE Swi
    <3>1. UNCHANGED <<stored, own, call>>
      BY <2>1 DEF Swi
    <3> QED
      BY <3>1, StoredKept DEF HasStored, Reports
  <2> QED
    BY <1>2, <2>1, StoredInstructions, StoredStr, StoredAtEnds DEF StubStep
<1>3. CASE IrqStep \/ UNCHANGED vars \/ \E t \in Task : DispatchSave(t) \/ DispatchSleep(t)
  <2>1. UNCHANGED <<stored, own, call>>
    BY <1>3 DEF vars, IrqStep, Irq, HandlerReturns, DispatchEnds, HandlerTail, ExitBanked,
       ExitSpsr, ExitPc, DispatchSave, DispatchSleep, ctx_switch_full
  <2> QED
    BY <2>1, StoredKept DEF HasStored, Reports
<1>4. CASE \E n \in Results \cup Values : SyscallReturns(n)
  BY <1>4, StoredSyscall
<1> QED
  BY <1>1, <1>2, <1>3, <1>4 DEF Next

(* A stub answers what the system call answered, or -1 for an error, and   *)
(* leaves every other register as its caller had it (read.S:13-25).  The   *)
(* number of its error is in errno then, unless the stub of another task   *)
(* has stored one since.                                                   *)
THEOREM WrappersAlwaysReport ==
    ASSUME HandlerMasks = TRUE
    PROVE  Spec => WrapperReports
<1> DEFINE Step == Return =>
                     LET c == call[cur_tcb]
                         failed == Reports(cur_tcb) /\ c.result < 0
                     IN  /\ view'.r = [c.regs EXCEPT !["r0"] = int(IF failed THEN -1 ELSE c.result)]
                         /\ failed => errno = -c.result \/ errno_of \ {cur_tcb} # {}
<1>1. ASSUME KInv, SInv, EInv, Return
      PROVE  Step
  <2> DEFINE c == call[cur_tcb]
  <2>1. /\ cur_tcb \in Task /\ view = own[cur_tcb] /\ IsView(view) /\ view.pc = "return"
        /\ StubAt(cur_tcb, view, c, ustack[cur_tcb])
    BY <1>1, AtInstruction DEF Return, UserPoint
  <2>2. view'.r = view.r
    BY <1>1, <2>1 DEF Return, Executes, Goto, IsView
  <2>3. view'.r = [c.regs EXCEPT !["r0"] = int(IF Reports(cur_tcb) /\ c.result < 0 THEN -1 ELSE c.result)]
    BY <2>1, <2>2 DEF StubAt, with_r0, answer, reporting, Reports
  <2>4. ASSUME Reports(cur_tcb), c.result < 0
        PROVE  errno = -c.result \/ errno_of \ {cur_tcb} # {}
    <3>1. HasStored(cur_tcb)
      BY <2>1, <2>4 DEF HasStored
    <3>2. /\ errno_of # {}
          /\ errno_of = {cur_tcb} => errno = -c.result
      BY <1>1, <2>1, <3>1 DEF EInv
    <3>3. PICK t \in Task : errno_of = {t}
      BY <1>1, <3>2 DEF EInv
    <3>4. t # cur_tcb => t \in errno_of \ {cur_tcb}
      BY <3>3
    <3> QED
      BY <3>2, <3>3, <3>4
  <2> QED
    BY <2>3, <2>4
<1>2. KInv /\ SInv /\ EInv => [Step]_vars
  BY <1>1
<1>3. Spec => [][Step]_vars
  <2> HIDE DEF Step
  <2> QED
    BY <1>2, KernelInit, KernelNext, StubInit, StubNext, StoredInit, StoredNext, PTL DEF Spec
<1> QED
  BY <1>3 DEF WrapperReports

(* The errno that all tasks share only ever changes to the number of an    *)
(* error of the task that runs (errno.c:9, read.S:19-23).                  *)
THEOREM ErrnoOnlyEverFromFailures ==
    ASSUME HandlerMasks = TRUE
    PROVE  Spec => ErrnoOnlyFromFailures
<1> DEFINE Step == errno' # errno => /\ call[cur_tcb].result < 0
                                     /\ errno' = -call[cur_tcb].result
<1>1. ASSUME KInv, SInv, [Next]_vars
      PROVE  Step
  <2>1. CASE Str
    BY <1>1, <2>1, Stores
  <2>2. CASE ~Str
    <3>1. errno' = errno
      BY <1>1, <2>2 DEF Next, vars, stored, LaunchTask, LaunchJump, CallStub, StubStep, Stmfd, Swi, Cmp,
         Bpl, Ldr, Rsblt, Mov, Ldmfd, Return, IrqStep, Irq, HandlerReturns, DispatchEnds,
         HandlerTail, ExitBanked, ExitSpsr, ExitPc, SyscallReturns, DispatchSave,
         DispatchSleep, ctx_switch_full
    <3> QED
      BY <3>1
  <2> QED
    BY <2>1, <2>2
<1>2. KInv /\ SInv /\ [Next]_vars => [Step]_vars
  BY <1>1
<1>3. Spec => [][Step]_vars
  <2> HIDE DEF Step
  <2> QED
    BY <1>2, KernelInit, KernelNext, StubInit, StubNext, PTL DEF Spec
<1> QED
  BY <1>3 DEF ErrnoOnlyFromFailures
=============================================================================
