------------------------------- MODULE Signals -------------------------------
(***************************************************************************)
(* Signal handling (vm.c): the registry of handlers, the signal masks of   *)
(* the threads, and the signal manager, the main context, which looks for  *)
(* a pending signal after each instruction and calls its handler.          *)
(*                                                                         *)
(* Atomicity.  One bytecode instruction of a context is one action, except *)
(* that SIG is two: it stores the handler and then changes the mask of its *)
(* thread, both under the mutex of the signal registry.  The look for      *)
(* signals after each instruction is two as well, under the same mutex:    *)
(* sigpending, and sigwait with what follows.  Signals arrive, and other   *)
(* contexts run, between any two actions.                                  *)
(*                                                                         *)
(* The kernel.  No sigaction is ever installed, so a signal delivered to   *)
(* any thread takes its default action; the signals modelled are those     *)
(* whose default action is to end the process (SIGINT, SIGTERM, ...).  A   *)
(* signal sent to the process is delivered if some thread does not block   *)
(* it, and is otherwise pending once, however often it is sent.  A signal  *)
(* that a thread raises is pending for that thread only.                   *)
(***************************************************************************)
EXTENDS Integers, Sequences, FiniteSets, SequencesExt

CONSTANTS
  Contexts,      \* the execution contexts, each a thread
  Main,          \* the one vm_main executes
  Signals,       \* the signals that are sent
  MaxCalls,      \* bound: the number of calls Main has open
  MaxSent        \* bound: the number of signals sent

ASSUME SignalsAssumption ==
  /\ Main \in Contexts
  /\ IsFiniteSet(Signals)
  /\ MaxCalls \in Nat
  /\ MaxSent \in Nat

Actions == {"default", "ignore", "function"}    \* VM_SIGNAL_DEFAULT, ...

VARIABLES
  handlers,      \* m_handlers of the signal registry
  sigset,        \* m_sigset of the signal registry
  setting,       \* the context that is between the two steps of SIG, if any
  seen,          \* what sigpending returned to Main, until it calls sigwait
  mask,          \* the signals each thread blocks
  pending,       \* the signals pending for the process
  raised,        \* the signals pending for Main's thread, which raised them
  alive,         \* FALSE once a signal has ended the process
  at,            \* "unborn", "starting", "running" or "gone", per context
  step,          \* whether Main is about to execute or to look for signals
  flags,         \* m_flags of Main
  stack,         \* m_return_stack of Main: m_flags, and who pushed it
  setters,       \* the contexts that have executed SIG (history)
  sent           \* how many signals were sent

registry == <<handlers, sigset, setting, setters>>
kernel == <<mask, pending, raised, alive, at>>
machine == <<flags, stack>>
vars == <<registry, kernel, seen, step, machine, sent>>

Init ==
  /\ handlers = [s \in Signals |-> "default"]
  /\ sigset = {}
  /\ setting = {}
  /\ setters = {}
  /\ seen = {}
  /\ raised = {}
  /\ mask = [c \in Contexts |-> {}]
  /\ pending = {}
  /\ alive = TRUE
  /\ at = [c \in Contexts |-> IF c = Main THEN "running" ELSE "unborn"]
  /\ step = "execute"
  /\ flags = {"SIG_MANAGER"}
  /\ stack = <<>>
  /\ sent = 0

Threads == {c \in Contexts : at[c] \in {"starting", "running"}}

(* What sigpending returns to thread c.                                    *)
PendingFor(c) == IF c = Main THEN pending \cup raised ELSE pending

(* The mutex of the registry: held inside SIG, and by Main while it looks. *)
MutexFree == setting = {} /\ seen = {}

-----------------------------------------------------------------------------
(* The kernel                                                              *)

(* pthread_sigmask(SIG_SETMASK, set) by thread c: pending signals that are *)
(* no longer blocked are delivered before it returns.                      *)
SetMask(c, set) ==
  /\ mask' = [mask EXCEPT ![c] = set]
  /\ alive' = (PendingFor(c) \subseteq set)

(* Somebody sends the process a signal.                                    *)
Send(s) ==
  /\ alive
  /\ sent < MaxSent
  /\ IF \E c \in Threads : s \notin mask[c]
       THEN alive' = FALSE /\ UNCHANGED pending
       ELSE pending' = pending \cup {s} /\ UNCHANGED alive
  /\ sent' = sent + 1
  /\ UNCHANGED <<registry, mask, raised, at, seen, step, machine>>

-----------------------------------------------------------------------------
(* Instructions                                                            *)

(* Main executes one instruction and then looks for signals; the other     *)
(* contexts execute instructions only.                                     *)
Executing(c) ==
  /\ alive
  /\ at[c] = "running"
  /\ c \notin setting
  /\ c = Main => step = "execute"

Executed(c) == step' = IF c = Main THEN "look" ELSE step

Execute(c) == Executing(c) /\ Executed(c)

(* SIG and vm_set_signal_handler: the handler is stored and the registry's *)
(* set of signals brought up to date, with the mutex locked.               *)
SetHandler(c, s, action) ==
  /\ Executing(c)
  /\ MutexFree
  /\ handlers' = [handlers EXCEPT ![s] = action]
  /\ sigset' = IF action = "default" THEN sigset \ {s} ELSE sigset \cup {s}
  /\ setting' = {c}
  /\ setters' = setters \cup {c}
  /\ UNCHANGED <<kernel, seen, step, machine, sent>>

(* Mutant of SetSigmask: the mask of the thread is left as it is.          *)
MutantSetSigmask(c) ==
  /\ alive
  /\ c \in setting
  /\ setting' = {}
  /\ Executed(c)
  /\ UNCHANGED <<handlers, sigset, setters, kernel, seen, machine, sent>>

(* The mask of the thread becomes that set, and the mutex is unlocked.     *)
SetSigmask(c) ==
  /\ alive
  /\ c \in setting
  /\ SetMask(c, sigset)
  /\ setting' = {}
  /\ Executed(c)
  /\ UNCHANGED <<handlers, sigset, setters, pending, raised, at, seen, machine, sent>>

(* vm_state_clone, which vm_rs_push and vm_rs_pop go through: m_flags is   *)
(* not copied, and the memory copied to is zeroed.                         *)
StateCloned(state) == [state EXCEPT !.flags = {}]

(* CALL and FRCALL by Main.                                                *)
Call ==
  /\ Execute(Main)
  /\ Len(stack) < MaxCalls
  /\ stack' = Append(stack, StateCloned([flags |-> flags, by |-> "call"]))
  /\ UNCHANGED <<registry, kernel, seen, flags, sent>>

(* RETURN by Main, from a handler or from a function.                      *)
Return ==
  /\ Execute(Main)
  /\ stack # <<>>
  /\ flags' = StateCloned(Last(stack)).flags
  /\ stack' = Front(stack)
  /\ UNCHANGED <<registry, kernel, seen, sent>>

(* CORO: the new thread inherits the mask of its creator, and blocks all   *)
(* signals as the first thing it does.                                     *)
Coro(c, child) ==
  /\ Execute(c)
  /\ at[child] = "unborn"
  /\ at' = [at EXCEPT ![child] = "starting"]
  /\ mask' = [mask EXCEPT ![child] = mask[c]]
  /\ UNCHANGED <<registry, pending, raised, alive, seen, machine, sent>>

StartCoro(c) ==
  /\ alive
  /\ at[c] = "starting"
  /\ at' = [at EXCEPT ![c] = "running"]
  /\ mask' = [mask EXCEPT ![c] = Signals]
  /\ UNCHANGED <<registry, pending, raised, alive, seen, step, machine, sent>>

(* END of a coroutine.                                                     *)
EndCoro(c) ==
  /\ c # Main
  /\ Execute(c)
  /\ at' = [at EXCEPT ![c] = "gone"]
  /\ UNCHANGED <<registry, mask, pending, raised, alive, seen, machine, sent>>

(* Any other instruction of Main.                                          *)
Other ==
  /\ Execute(Main)
  /\ UNCHANGED <<registry, kernel, seen, machine, sent>>

-----------------------------------------------------------------------------
(* The look for signals in vm_execute                                      *)

(* Mutant of Looking: a handler may be interrupted.                        *)
MutantLooking == alive /\ step = "look" /\ "SIG_MANAGER" \in flags

Looking ==
  /\ alive
  /\ step = "look"
  /\ "SIG_MANAGER" \in flags
  /\ "IN_SIG_HANDLER" \notin flags

(* The manager is not Main as it is now, or there is nothing for it.       *)
LookInVain ==
  /\ alive
  /\ step = "look"
  /\ Looking => MutexFree /\ PendingFor(Main) = {}
  /\ step' = "execute"
  /\ UNCHANGED <<registry, kernel, seen, machine, sent>>

(* sigpending: there are signals, and the mutex stays locked.              *)
Look ==
  /\ Looking
  /\ MutexFree
  /\ PendingFor(Main) # {}
  /\ seen' = PendingFor(Main)
  /\ UNCHANGED <<registry, kernel, step, machine, sent>>

(* Mutant of Taken: the signal stays pending.                              *)
MutantTaken(s) ==
  /\ alive
  /\ s \in seen
  /\ UNCHANGED <<pending, raised>>
  /\ seen' = {}
  /\ step' = "execute"
  /\ UNCHANGED <<registry, mask, at, sent>>

(* sigwait takes one of the signals seen, from the thread or the process.  *)
Taken(s) ==
  /\ alive
  /\ s \in seen
  /\ \/ s \in pending /\ pending' = pending \ {s} /\ UNCHANGED raised
     \/ s \in raised /\ raised' = raised \ {s} /\ UNCHANGED pending
  /\ seen' = {}
  /\ step' = "execute"
  /\ UNCHANGED <<registry, mask, at, sent>>

HandleIgnore(s) ==
  /\ handlers[s] = "ignore"
  /\ Taken(s)
  /\ UNCHANGED <<alive, machine>>

(* The signal is taken and raised again, for Main's own thread: it ends    *)
(* the process, unless Main blocks it; then it is pending for that thread. *)
HandleDefault(s) ==
  /\ alive
  /\ s \in seen
  /\ handlers[s] = "default"
  /\ \/ s \in pending /\ pending' = pending \ {s}
     \/ s \in raised /\ UNCHANGED pending
  /\ raised' = raised \cup {s}
  /\ alive' = (s \in mask[Main])
  /\ seen' = {}
  /\ step' = "execute"
  /\ UNCHANGED <<registry, mask, at, machine, sent>>

(* The handler is called like a function.                                  *)
HandleFunction(s) ==
  /\ handlers[s] = "function"
  /\ Taken(s)
  /\ stack' = Append(stack, StateCloned([flags |-> flags, by |-> "signal"]))
  /\ flags' = flags \cup {"IN_SIG_HANDLER"}
  /\ UNCHANGED alive

-----------------------------------------------------------------------------

Handle(s) == HandleIgnore(s) \/ HandleDefault(s) \/ HandleFunction(s)

Looks == LookInVain \/ Look

Next ==
  \/ \E s \in Signals : Send(s) \/ Handle(s)
  \/ Call \/ Return \/ Other \/ Looks
  \/ \E c \in Contexts :
       \/ StartCoro(c) \/ EndCoro(c) \/ SetSigmask(c)
       \/ \E child \in Contexts : Coro(c, child)
       \/ \E s \in Signals, action \in Actions : SetHandler(c, s, action)

(* The operating system runs every thread, and gives the mutex to Main if  *)
(* it waits for it and the mutex is freed again and again.  Main's         *)
(* instructions end.                                                       *)
Fairness ==
  /\ WF_vars(Other)
  /\ SF_vars(Looks)
  /\ WF_vars(\E s \in Signals : Handle(s))
  /\ \A c \in Contexts : WF_vars(SetSigmask(c))

Spec == Init /\ [][Next]_vars /\ Fairness

-----------------------------------------------------------------------------
(* Properties                                                              *)

(* Types of the variables.                                                 *)
TypeOK ==
  /\ handlers \in [Signals -> Actions]
  /\ sigset \subseteq Signals
  /\ setting \subseteq Contexts /\ setters \subseteq Contexts
  /\ seen \subseteq pending \cup raised
  /\ mask \in [Contexts -> SUBSET Signals]
  /\ pending \cup raised \subseteq Signals
  /\ flags \subseteq {"SIG_MANAGER", "IN_SIG_HANDLER"}
  /\ Len(stack) <= MaxCalls + 1

HandlersActive == {i \in 1 .. Len(stack) : stack[i].by = "signal"}

(* "any further signals will not get processed until the current one       *)
(* finishes processing" (NOTES): a handler is never interrupted by another *)
(* one, nor by itself, however it calls and returns.                       *)
HandlersDontNest == Cardinality(HandlersActive) <= 1

(* A signal waits for the handler it has, or to be ignored.                *)
Waits(s) == alive /\ s \in pending /\ handlers[s] # "default"

Manages == "SIG_MANAGER" \in flags /\ "IN_SIG_HANDLER" \notin flags

(* The look after every instruction comes to every signal that waits: if   *)
(* Main goes on managing signals, and none of them takes its default       *)
(* action, it is taken in the end, whoever installs handlers meanwhile,    *)
(* which locks the same mutex.                                             *)
WaitingIsTaken ==
  \A s \in Signals :
    Waits(s) ~> \/ ~Waits(s)
                \/ ~Manages
                \/ \E t \in pending \cup raised : handlers[t] = "default"

(* The same without the last exception: a signal that is raised again and  *)
(* again, because Main blocks it still, does not keep the others waiting.  *)
NotKeptWaiting ==
  \A s \in Signals : Waits(s) ~> (~Waits(s) \/ ~Manages)

(* While Main alone installs handlers, a signal with a handler or to be    *)
(* ignored does not end the process, once SIG is through, whatever         *)
(* coroutines there are: none is just starting.                            *)
HandledNeverKills ==
  [][setters \subseteq {Main} /\ setting = {} /\ (\A c \in Contexts : at[c] # "starting") =>
       \A s \in Signals : handlers[s] # "default" /\ Send(s) => alive']_vars

(* The same also while a coroutine starts:   "make all threads block all   *)
(* signals (done by blocking all signals in main before starting any)"     *)
(* (NOTES).  A thread has its creator's mask until it blocks all signals.  *)
HandledNeverKillsStarting ==
  [][setters \subseteq {Main} /\ setting = {} =>
       \A s \in Signals : handlers[s] # "default" /\ Send(s) => alive']_vars

(* "main thread blocks all signals that have had a "handler" registered"   *)
(* (NOTES), whichever context executed SIG, once it is through.            *)
MainBlocksHandled ==
  alive /\ setting = {} => \A s \in Signals : handlers[s] # "default" => s \in mask[Main]

(* "when the signal handler eventually returns, the return stack entry it  *)
(* created is popped and restored, which disables the "in a signal         *)
(* handler" flag" (NOTES): with no handler active Main manages signals.    *)
FlagsRestored ==
  HandlersActive = {} => flags = {"SIG_MANAGER"}
=============================================================================
