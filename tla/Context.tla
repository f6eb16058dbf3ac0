------------------------------- MODULE Context -------------------------------
(***************************************************************************)
(* What the processor's registers go through: the system call stubs of the *)
(* user library (tasks/libc/swi), irq_wrapper of int_asm.S, the context    *)
(* switches of ctx_switch_asm.S and the dispatch functions around them.    *)
(* A stub is executed instruction by instruction, the kernel in the pieces *)
(* between which an interrupt can come.                                    *)
(*                                                                         *)
(* Registers hold tagged symbols: <<"reg", t, x>> is what the program of   *)
(* task t keeps in x, <<"int", n>> the number n.  The repository lacks the *)
(* entry and exit of system calls and irq_handler; they are external.      *)
(* Which task a dispatch finds is the matter of Kernel.tla: here, any.     *)
(***************************************************************************)
EXTENDS Integers, Sequences, SequencesExt, FiniteSets

CONSTANTS Task,
          Calls,         \* the stubs that the programs call
          Results,       \* what a system call that can fail may answer
          Values,        \* what sleep and time may answer
          HandlerMasks,  \* does irq_handler disable interrupts before it returns?
          MaxFrames      \* bound: kernel stack frames under an interrupt

CallerSaved == {"r0", "r1", "r2", "r3", "ip"}
CalleeSaved == {"r4", "r5", "r6", "r7", "r8", "r9", "r10", "r11"}
Reg == CallerSaved \cup CalleeSaved

read         == [swi |-> "READ_SWI",     reports |-> TRUE]
write        == [swi |-> "WRITE_SWI",    reports |-> TRUE]
sleep        == [swi |-> "SLEEP_SWI",    reports |-> FALSE]
time         == [swi |-> "TIME_SWI",     reports |-> FALSE]
task_create  == [swi |-> "CREATE_SWI",   reports |-> TRUE]
event_wait   == [swi |-> "EVENT_WAIT",   reports |-> TRUE]
mutex_create == [swi |-> "MUTEX_CREATE", reports |-> TRUE]
mutex_lock   == [swi |-> "MUTEX_LOCK",   reports |-> TRUE]
mutex_unlock == [swi |-> "MUTEX_UNLOCK", reports |-> TRUE]
ASSUME CallsAssumption ==
    Calls \subseteq {read, write, sleep, time, task_create, event_wait,
                     mutex_create, mutex_lock, mutex_unlock}
ASSUME ResultsAssumption == Results \cup Values \subseteq Int

VARIABLES view,      \* the registers: r, neg (the N flag), pc, and sp and lr of user mode
          psr,       \* mode and interrupt mask
          svc,       \* supervisor mode's own sp (whose kernel stack), lr and spsr
          kstack,    \* kernel stack of each task, innermost frame first
          ustack,    \* user stack of each task
          context,   \* tcb.context of each task
          cur_tcb,
          errno,
          errno_of,  \* history: the task whose stub stored errno last, if any
          own,       \* history: the view each task's program must find
          call       \* history: the stub a task is in, its registers at the call, the answer
kernel == <<psr, svc, kstack, context, cur_tcb>>
stored == <<errno, errno_of>>
vars   == <<view, psr, svc, kstack, ustack, context, cur_tcb, stored, own, call>>

int(n)     == <<"int", n>>
reg(t, x)  == <<"reg", t, x>>
scratch    == <<"scratch">>          \* left over by kernel code
UserMode   == [mode |-> "usr", masked |-> FALSE]
SvcMode    == [mode |-> "svc", masked |-> TRUE]
PsrOf(v)   == <<"psr", psr.mode, psr.masked, v.neg>>
NotCalled  == [stub |-> "none", regs |-> <<>>, result |-> 0]

(* init_task: only r4, r5, r6, sp and lr matter; r8 is not set at all.     *)
init_task(t) ==
    [regs |-> [x \in CalleeSaved |-> CASE x = "r4" -> reg(t, "lambda")
                                       [] x = "r5" -> reg(t, "data")
                                       [] x = "r6" -> reg(t, "stack_pos")
                                       [] x = "r8" -> scratch
                                       [] OTHER    -> int(0)],
     sp |-> t, lr |-> "launch_task"]

(* dispatch_nosave has half-switched to the first task.                    *)
Init == \E t \in Task :
    /\ cur_tcb = t
    /\ context = [u \in Task |-> init_task(u)]
    /\ view = [r  |-> [x \in Reg |-> IF x \in CalleeSaved THEN init_task(t).regs[x] ELSE scratch],
               neg |-> FALSE, pc |-> "launch_task", sp |-> scratch, lr |-> scratch]
    /\ psr = SvcMode
    /\ svc = [sp |-> t, lr |-> "launch_task", spsr |-> <<"psr", "svc", TRUE, FALSE>>]
    /\ kstack = [u \in Task |-> <<>>]
    /\ ustack = [u \in Task |-> <<>>]
    /\ errno = 0
    /\ errno_of = {}
    /\ own = [u \in Task |-> view]
    /\ call = [u \in Task |-> NotCalled]
-----------------------------------------------------------------------------
(* The user side.  An instruction is an operator on a view; it is applied  *)
(* to the registers and to what the program expects of them.               *)
launch_to_user(v) ==
    [v EXCEPT !.r = [x \in Reg |-> CASE x = "r0" -> @["r5"]
                                     [] x \in {"r1", "r2", "r3", "r5", "r8", "ip"} -> int(0)
                                     [] OTHER -> @[x]],
              !.pc = "launched"]

LaunchTask ==
    /\ view.pc = "launch_task"
    /\ view' = launch_to_user(view)
    /\ psr' = UserMode
    /\ own' = [own EXCEPT ![cur_tcb] = launch_to_user(
           [view EXCEPT !.r = [x \in Reg |-> IF x \in CalleeSaved THEN init_task(cur_tcb).regs[x] ELSE scratch]])]
    /\ UNCHANGED <<svc, kstack, ustack, context, cur_tcb, stored, call>>

InUserCode(point) == /\ psr.mode = "usr"
                     /\ view.pc = point
                     /\ UNCHANGED kernel

Executes(instr(_)) == /\ view' = instr(view)
                      /\ own' = [own EXCEPT ![cur_tcb] = instr(own[cur_tcb])]

launch_jump(v) == [v EXCEPT !.sp = v.r["r6"], !.r["r6"] = int(0),
                            !.lr = <<"deadbeef">>, !.pc = "user"]
LaunchJump == /\ InUserCode("launched")
              /\ Executes(launch_jump)
              /\ UNCHANGED <<ustack, stored, call>>

Goto(v, point) == [v EXCEPT !.pc = point]

(* A program works with every register, then calls a stub.                 *)
CallStub(stub) ==
    LET computed(v) == [v EXCEPT !.r = [x \in Reg |-> reg(cur_tcb, x)], !.lr = reg(cur_tcb, "lr"),
                                 !.pc = IF stub.reports THEN "stmfd" ELSE "swi"]
    IN  /\ InUserCode("user")
        /\ Executes(computed)
        /\ call' = [call EXCEPT ![cur_tcb] = [stub |-> stub.swi, regs |-> view'.r, result |-> 0]]
        /\ UNCHANGED <<ustack, stored>>

Reports(t) == \E stub \in Calls : stub.swi = call[t].stub /\ stub.reports

Stmfd == /\ InUserCode("stmfd")
         /\ ustack' = [ustack EXCEPT ![view.sp[2]] = <<view.r["r1"]>> \o @]
         /\ Executes(LAMBDA v : Goto(v, "swi"))
         /\ UNCHANGED <<stored, call>>

Cmp == LET cmp(v) == [v EXCEPT !.neg = (v.r["r0"][2] < 0), !.pc = "bpl"]
       IN  /\ InUserCode("cmp")
           /\ Executes(cmp)
           /\ UNCHANGED <<ustack, stored, call>>

branch_if_positive(v) == v.r["r0"] # int(0) /\ ~v.neg                \* mutant
branch_if_plus(v)     == ~v.neg

Bpl == LET bpl(v) == Goto(v, IF branch_if_plus(v) THEN "ldmfd" ELSE "ldr")
       IN  /\ InUserCode("bpl")
           /\ Executes(bpl)
           /\ UNCHANGED <<ustack, stored, call>>

Ldr == LET ldr(v) == [v EXCEPT !.r["r1"] = <<"address of errno">>, !.pc = "rsblt"]
       IN  /\ InUserCode("ldr")
           /\ Executes(ldr)
           /\ UNCHANGED <<ustack, stored, call>>

not_negated(v) == v                                                  \* mutant
negated(v)     == IF v.neg THEN [v EXCEPT !.r["r0"] = int(-v.r["r0"][2])] ELSE v

Rsblt == LET rsblt(v) == Goto(negated(v), "str")
         IN  /\ InUserCode("rsblt")
             /\ Executes(rsblt)
             /\ UNCHANGED <<ustack, stored, call>>

Str == /\ InUserCode("str")
       /\ errno' = IF view.r["r1"] = <<"address of errno">> THEN view.r["r0"][2] ELSE errno
       /\ errno_of' = {cur_tcb}
       /\ Executes(LAMBDA v : Goto(v, "mov"))
       /\ UNCHANGED <<ustack, call>>

Mov == LET mov(v) == [v EXCEPT !.r["r0"] = int(-1), !.pc = "ldmfd"]
       IN  /\ InUserCode("mov")
           /\ Executes(mov)
           /\ UNCHANGED <<ustack, stored, call>>

Ldmfd == LET ldmfd(v) == [v EXCEPT !.r["r1"] = Head(ustack[v.sp[2]]), !.pc = "return"]
         IN  /\ InUserCode("ldmfd")
             /\ Executes(ldmfd)
             /\ ustack' = [ustack EXCEPT ![view.sp[2]] = Tail(@)]
             /\ UNCHANGED <<stored, call>>

Return == /\ InUserCode("return")
          /\ Executes(LAMBDA v : Goto(v, "user"))
          /\ call' = [call EXCEPT ![cur_tcb] = NotCalled]
          /\ UNCHANGED <<ustack, stored>>
-----------------------------------------------------------------------------
(* The kernel side.                                                        *)
KernelStack == kstack[svc.sp]
Frame       == Head(KernelStack)
push(frames) == [kstack EXCEPT ![svc.sp] = frames \o @]
popped       == [kstack EXCEPT ![svc.sp] = Tail(@)]
return_to(point) == [pc |-> point, mode |-> "none"]      \* frame of a C function

(* C code keeps r4 to r11 and spoils the other registers.                  *)
spoiled(v, point) ==
    [v EXCEPT !.r = [x \in Reg |-> IF x \in CallerSaved THEN scratch ELSE @[x]],
              !.neg = FALSE, !.pc = point]

(* The processor's swi and the kernel's code behind it: registers and what *)
(* user mode needs are saved, interrupts are off, r8 is global_data.       *)
Swi == /\ psr.mode = "usr"
       /\ view.pc = "swi"
       /\ kstack' = push(<<[pc   |-> IF Reports(cur_tcb) THEN "cmp" ELSE "return",
                            mode |-> "usr", view |-> view]>>)
       /\ view' = [spoiled(view, "syscall") EXCEPT !.r["r8"] = <<"global_data">>]
       /\ psr' = SvcMode
       /\ svc' = [svc EXCEPT !.spsr = PsrOf(view)]
       /\ UNCHANGED <<ustack, context, cur_tcb, stored, own, call>>

SyscallReturns(result) ==
    LET answered(v) == [v EXCEPT !.r["r0"] = int(result), !.pc = Frame.pc]
    IN  /\ view.pc = "syscall"
        /\ result \in IF Reports(cur_tcb) THEN Results ELSE Values
        /\ view' = answered(Frame.view)
        /\ own' = [own EXCEPT ![cur_tcb] = answered(@)]
        /\ call' = [call EXCEPT ![cur_tcb].result = result]
        /\ psr' = UserMode
        /\ kstack' = popped
        /\ UNCHANGED <<svc, ustack, context, cur_tcb, stored>>

frame_without_ip(v)  == [x \in {"r0", "r1", "r2", "r3", "r8"} |-> v.r[x]]     \* mutant
saved_by_irq(v)      == [x \in CallerSaved \cup {"r8"} |-> v.r[x]]

(* int_asm.S:19-61: under masked interrupts from start to end.             *)
Irq == /\ ~psr.masked
       /\ Len(KernelStack) < MaxFrames
       /\ kstack' = push(<<[pc |-> view.pc, mode |-> psr.mode, psr |-> PsrOf(view),
                            regs |-> saved_by_irq(view), lr |-> svc.lr,
                            usr_sp |-> view.sp, usr_lr |-> view.lr]>>)
       /\ svc' = [svc EXCEPT !.spsr = PsrOf(view), !.lr = "exit_banked"]
       /\ psr' = SvcMode
       /\ view' = [spoiled(view, "irq_handler") EXCEPT !.r["r8"] = <<"global_data">>]
       /\ UNCHANGED <<ustack, context, cur_tcb, stored, own, call>>

HandlerReturns == /\ view.pc = "irq_handler"
                  /\ view' = spoiled(view, svc.lr)
                  /\ UNCHANGED <<kernel, ustack, stored, own, call>>

loaded(t) ==
    [x \in Reg |-> IF x \in CalleeSaved THEN context[t].regs[x] ELSE scratch]

loaded_sp_kept(t) == svc.sp                                          \* mutant
loaded_sp(t)      == context[t].sp

(* ctx_switch_full, called with the innermost of frames on the stack.      *)
ctx_switch_full(t, frames) ==
    /\ kstack' = push(frames)
    /\ context' = [context EXCEPT ![cur_tcb] =
           [regs |-> [x \in CalleeSaved |-> view.r[x]], sp |-> svc.sp, lr |-> "dispatched"]]
    /\ cur_tcb' = t
    /\ view' = [view EXCEPT !.r = loaded(t), !.pc = context[t].lr]
    /\ svc' = [svc EXCEPT !.sp = loaded_sp(t), !.lr = context[t].lr]
    /\ psr' = SvcMode
    /\ UNCHANGED <<ustack, stored, own, call>>

DispatchSave(t) == /\ view.pc = "irq_handler"
                   /\ t # cur_tcb
                   /\ ctx_switch_full(t, <<return_to("handler_tail"), return_to(svc.lr)>>)

DispatchSleep(t) == /\ view.pc = "syscall"
                    /\ t # cur_tcb
                    /\ ctx_switch_full(t, <<return_to("syscall")>>)

(* The end of dispatch_save and dispatch_sleep in the resumed task:        *)
(* interrupts go on, whoever the caller is.                                *)
DispatchEnds == /\ view.pc = "dispatched"
                /\ psr' = [psr EXCEPT !.masked = FALSE]
                /\ view' = spoiled(view, Frame.pc)
                /\ kstack' = popped
                /\ UNCHANGED <<svc, ustack, context, cur_tcb, stored, own, call>>

HandlerTail == /\ view.pc = "handler_tail"
               /\ psr' = [psr EXCEPT !.masked = HandlerMasks]
               /\ view' = spoiled(view, Frame.pc)
               /\ kstack' = popped
               /\ UNCHANGED <<svc, ustack, context, cur_tcb, stored, own, call>>

ExitBanked == /\ view.pc = "exit_banked"
              /\ view' = [view EXCEPT !.sp = Frame.usr_sp, !.lr = Frame.usr_lr,
                                      !.r["r0"] = Frame.psr, !.pc = "exit_spsr"]
              /\ UNCHANGED <<kernel, ustack, stored, own, call>>

spsr_left(v) == svc.spsr                                             \* mutant
spsr_from(v) == v.r["r0"]

ExitSpsr == /\ view.pc = "exit_spsr"
            /\ svc' = [svc EXCEPT !.spsr = spsr_from(view)]
            /\ view' = Goto(view, "exit_pc")
            /\ UNCHANGED <<psr, kstack, context, cur_tcb, ustack, stored, own, call>>

(* ldmfd with ^: registers, pc and, from spsr, the status in one step.     *)
ExitPc == /\ view.pc = "exit_pc"
          /\ view' = [view EXCEPT !.r = [x \in Reg |-> IF x \in DOMAIN Frame.regs
                                                       THEN Frame.regs[x] ELSE @[x]],
                                  !.neg = svc.spsr[4], !.pc = Frame.pc]
          /\ psr' = [mode |-> svc.spsr[2], masked |-> svc.spsr[3]]
          /\ svc' = [svc EXCEPT !.lr = Frame.lr]
          /\ kstack' = popped
          /\ UNCHANGED <<ustack, context, cur_tcb, stored, own, call>>

StubStep == Stmfd \/ Swi \/ Cmp \/ Bpl \/ Ldr \/ Rsblt \/ Str \/ Mov \/ Ldmfd \/ Return
IrqStep  == Irq \/ HandlerReturns \/ DispatchEnds \/ HandlerTail \/ ExitBanked \/ ExitSpsr \/ ExitPc

Next == \/ LaunchTask \/ LaunchJump
        \/ \E stub \in Calls : CallStub(stub)
        \/ StubStep
        \/ IrqStep
        \/ \E n \in Results \cup Values : SyscallReturns(n)
        \/ \E t \in Task : DispatchSave(t) \/ DispatchSleep(t)

Spec == Init /\ [][Next]_vars
-----------------------------------------------------------------------------
UserPoint == {"launched", "user", "stmfd", "swi", "cmp", "bpl", "ldr", "rsblt", "str",
              "mov", "ldmfd", "return"}
InUserProgram == view.pc \in UserPoint

(* Whatever interrupts and other tasks do between two of its instructions, *)
(* a program finds its registers, its flag, its stack pointer and its      *)
(* place as it left them.                                                  *)
RegistersComeBack == InUserProgram => view = own[cur_tcb]

(* int_asm.S:36-37, "we need atomic reload of pc and cpsr during the       *)
(* return sequence in case we came in from user mode": a program runs in   *)
(* user mode with interrupts on, and the kernel in supervisor mode.        *)
UserCodeInUserMode == IF InUserProgram THEN psr = UserMode ELSE psr.mode = "svc"

(* A program runs on an empty kernel stack; a suspended task's stack leads *)
(* back to its program through its outermost frame, and through that only. *)
KernelStacksBalanced ==
    /\ svc.sp = cur_tcb
    /\ InUserProgram => kstack[cur_tcb] = <<>>
    /\ \A t \in Task : \A i \in 1 .. Len(kstack[t]) :
         kstack[t][i].mode = "usr" <=> i = Len(kstack[t])

(* read.S:13-25 and its copies: a stub answers the system call's result,   *)
(* or -1 for an error, and changes no other register, whatever came in     *)
(* between.  With -1 it leaves the number of its error in errno, unless    *)
(* another task's stub has stored one since: errno.c:9 has one for all.    *)
WrapperReports ==
    [][Return =>
         LET c == call[cur_tcb]
             failed == Reports(cur_tcb) /\ c.result < 0
         IN  /\ view'.r = [c.regs EXCEPT !["r0"] = int(IF failed THEN -1 ELSE c.result)]
             /\ failed => errno = -c.result \/ errno_of \ {cur_tcb} # {}]_vars

(* errno.c:9, shared by all tasks: it only ever changes to the positive    *)
(* number of an error that the running task has just met.                  *)
ErrnoOnlyFromFailures ==
    [][errno' # errno => /\ call[cur_tcb].result < 0
                         /\ errno' = -call[cur_tcb].result]_vars
=============================================================================
