----------------------------- MODULE ContextProofs -----------------------------
(***************************************************************************)
(* Proofs about what each context has to itself: its signals (Signals) and *)
(* its data stack (Stack), for any contexts, signals, values and bounds.   *)
(*                                                                         *)
(* Signals: handlers do not nest, no signal is taken twice, and none with  *)
(* a handler ends the process while Main is alone.                         *)
(*                                                                         *)
(* Stack: of every string and reference, as many clones are alive as there *)
(* are on the stacks and among the parameters a failed CORO forgot; and    *)
(* the instructions have their documented effects on sequences of values   *)
(* (Stack implements OperandStack).                                        *)
(***************************************************************************)
EXTENDS Signals, Stack, SequenceTheorems, FiniteSetTheorems, WellFoundedInduction, TLAPS

-----------------------------------------------------------------------------
(* Signals: the invariant                                                  *)

AllFlags == {"SIG_MANAGER", "IN_SIG_HANDLER"}

Frames == [flags : SUBSET AllFlags, by : {"call", "signal"}]

Types ==
  /\ handlers \in [Signals -> Actions]
  /\ sigset \subseteq Signals
  /\ setting \subseteq setters /\ setters \subseteq Contexts
  /\ seen \subseteq pending \cup raised
  /\ mask \in [Contexts -> SUBSET Signals]
  /\ pending \subseteq Signals /\ raised \subseteq Signals
  /\ at \in [Contexts -> {"unborn", "starting", "running", "gone"}]
  /\ flags \subseteq AllFlags
  /\ stack \in Seq(Frames)

(* While Main manages signals no handler has ever been called: a state     *)
(* that comes back from the return stack has lost its flags, and with them *)
(* the permission to look for signals.                                     *)
StackInv ==
  /\ \A i, j \in 1 .. Len(stack) : stack[i].by = "signal" /\ stack[j].by = "signal" => i = j
  /\ Manages => \A i \in 1 .. Len(stack) : stack[i].by # "signal"
  /\ IF Manages THEN Len(stack) <= MaxCalls ELSE Len(stack) <= MaxCalls + 1

(* Between sigpending and sigwait Main executes no instruction.            *)
SeenInv == seen # {} => Manages /\ step = "look"

(* While Main alone has installed handlers, it blocks every signal that    *)
(* has one, but in the middle of SIG, and the others block all signals,    *)
(* but when they start.                                                    *)
MaskInv ==
  /\ at[Main] = "running"
  /\ sigset = {s \in Signals : handlers[s] # "default"}
  /\ setters \subseteq {Main} /\ setting = {} => sigset \subseteq mask[Main]
  /\ setters \subseteq {Main} =>
       \A c \in Contexts \ {Main} : at[c] = "running" => mask[c] = Signals

Inv == Types /\ StackInv /\ SeenInv /\ MaskInv
-----------------------------------------------------------------------------
(* Signals: the parts of the state that the invariants are about           *)

(* A frame is pushed.                                                      *)
LEMMA StackGrows ==
  ASSUME stack \in Seq(Frames), NEW f \in Frames, stack' = Append(stack, f)
  PROVE  /\ stack' \in Seq(Frames)
         /\ Len(stack) \in Nat
         /\ Len(stack') = Len(stack) + 1
         /\ \A i \in 1 .. Len(stack) : stack'[i] = stack[i]
         /\ stack'[Len(stack) + 1] = f
  BY AppendProperties, LenProperties

(* The beginning of a sequence.                                            *)
LEMMA Beginning ==
  ASSUME NEW S, NEW s \in Seq(S), NEW n \in 0 .. Len(s)
  PROVE  /\ SubSeq(s, 1, n) \in Seq(S)
         /\ Len(SubSeq(s, 1, n)) = n
         /\ \A i \in 1 .. n : SubSeq(s, 1, n)[i] = s[i]
  <1>1. Len(s) \in Nat /\ \A i \in 1 .. Len(s) : s[i] \in S
    BY LenProperties, ElementOfSeq
  <1>2. n \in Int /\ 1 \in Int /\ \A i \in 1 .. n : s[i] \in S
    BY <1>1
  <1> QED
    BY <1>1, <1>2, SubSeqProperties

(* The newest frame is popped.                                             *)
LEMMA StackShrinks ==
  ASSUME stack \in Seq(Frames), stack # <<>>, stack' = Front(stack)
  PROVE  /\ stack' \in Seq(Frames)
         /\ Len(stack) \in Nat
         /\ Len(stack') = Len(stack) - 1
         /\ \A i \in 1 .. Len(stack') : stack'[i] = stack[i]
         /\ Last(stack) \in Frames
  <1>1. Len(stack) \in Nat /\ Len(stack) >= 1 /\ \A i \in 1 .. Len(stack) : stack[i] \in Frames
    BY LenProperties, ElementOfSeq, EmptySeq
  <1>2. Len(stack) - 1 \in 0 .. Len(stack) /\ Last(stack) \in Frames
    BY <1>1 DEF Last
  <1>3. stack' = SubSeq(stack, 1, Len(stack) - 1)
    BY DEF Front
  <1> QED
    BY <1>1, <1>2, <1>3, Beginning, ZenonT(60)

(* What does not touch the return stack leaves its invariant as it is.     *)
LEMMA StackUnchanged ==
  ASSUME StackInv, UNCHANGED machine
  PROVE  StackInv'
  BY DEF StackInv, Manages, machine

(* What does not touch the masks, the handlers or the contexts leaves the  *)
(* last part as it is.                                                     *)
LEMMA MaskUnchanged ==
  ASSUME MaskInv, UNCHANGED <<registry, mask, at>>
  PROVE  MaskInv'
  BY DEF MaskInv, registry

(* An instruction of any context leaves what Main has seen as it is.       *)
LEMMA SeenUnchanged ==
  ASSUME SeenInv, NEW c \in Contexts, Executing(c), Executed(c), UNCHANGED <<seen, machine>>
  PROVE  SeenInv'
  BY DEF SeenInv, Executing, Executed, Manages, machine

-----------------------------------------------------------------------------
(* The invariant                                                           *)

(* It holds at the start.                                                  *)
LEMMA InitInv ==
  Init => Inv
  <1> SUFFICES ASSUME Init PROVE Inv
    OBVIOUS
  <1>1. Types
    BY SignalsAssumption DEF Init, Types, Actions, AllFlags
  <1>2. StackInv
    BY SignalsAssumption DEF Init, StackInv
  <1>3. SeenInv
    BY DEF Init, SeenInv
  <1>4. MaskInv
    BY SignalsAssumption DEF Init, MaskInv
  <1> QED
    BY <1>1, <1>2, <1>3, <1>4 DEF Inv

(* A signal is sent.                                                       *)
LEMMA SendInv ==
  ASSUME Inv, NEW s \in Signals, Send(s)
  PROVE  Inv'
  <1>1. pending' \subseteq Signals /\ pending \subseteq pending'
    BY DEF Inv, Types, Send
  <1>2. Types'
    BY <1>1 DEF Inv, Types, Send, registry, machine
  <1>3. StackInv' /\ MaskInv'
    BY StackUnchanged, MaskUnchanged DEF Inv, Send
  <1>4. SeenInv'
    BY DEF Inv, SeenInv, Send, Manages, machine
  <1> QED
    BY <1>2, <1>3, <1>4 DEF Inv

(* SIG stores the handler.                                                 *)
LEMMA SetHandlerInv ==
  ASSUME Inv, NEW c \in Contexts, NEW s \in Signals, NEW action \in Actions,
         SetHandler(c, s, action)
  PROVE  Inv'
  <1>1. Types'
    BY DEF Inv, Types, SetHandler, machine, kernel
  <1>2. StackInv'
    BY StackUnchanged DEF Inv, SetHandler
  <1>3. SeenInv'
    BY DEF Inv, SeenInv, SetHandler, Manages, machine
  <1>4. MaskInv'
    <2>1. sigset' = {z \in Signals : handlers'[z] # "default"}
      BY DEF Inv, Types, MaskInv, SetHandler
    <2>2. setters' \subseteq {Main} => setters \subseteq {Main}
      BY DEF SetHandler
    <2>3. setting' # {}
      BY DEF SetHandler
    <2> QED
      BY <2>1, <2>2, <2>3 DEF Inv, MaskInv, SetHandler, kernel
  <1> QED
    BY <1>1, <1>2, <1>3, <1>4 DEF Inv

(* SIG changes the mask of its thread.                                     *)
LEMMA SetSigmaskInv ==
  ASSUME Inv, NEW c \in Contexts, SetSigmask(c)
  PROVE  Inv'
  <1>1. Types'
    BY DEF Inv, Types, SetSigmask, SetMask, machine
  <1>2. StackInv'
    BY StackUnchanged DEF Inv, SetSigmask
  <1>3. SeenInv'
    BY DEF Inv, SeenInv, SetSigmask, Executed, Manages, machine
  <1>4. MaskInv'
    <2>1. setters \subseteq {Main} => c = Main
      BY DEF Inv, Types, SetSigmask
    <2>2. setters \subseteq {Main} => mask'[Main] = sigset'
      BY <2>1, SignalsAssumption DEF Inv, Types, SetSigmask, SetMask
    <2>3. ASSUME setters \subseteq {Main}, NEW d \in Contexts \ {Main}
          PROVE  mask'[d] = mask[d]
      BY <2>1, <2>3 DEF Inv, Types, SetSigmask, SetMask
    <2> QED
      BY <2>2, <2>3 DEF Inv, MaskInv, SetSigmask
  <1> QED
    BY <1>1, <1>2, <1>3, <1>4 DEF Inv

(* CALL and FRCALL                                                         *)
LEMMA CallInv ==
  ASSUME Inv, Call
  PROVE  Inv'
  <1> DEFINE frame == StateCloned([flags |-> flags, by |-> "call"])
  <1>1. frame \in Frames /\ frame.by = "call"
    BY DEF StateCloned, Frames
  <1>2. stack' = Append(stack, frame) /\ UNCHANGED flags /\ Len(stack) < MaxCalls
    BY DEF Call
  <1> HIDE DEF frame
  <1>3. /\ stack' \in Seq(Frames) /\ Len(stack) \in Nat /\ Len(stack') = Len(stack) + 1
        /\ \A i \in 1 .. Len(stack) : stack'[i] = stack[i]
        /\ stack'[Len(stack) + 1] = frame
    BY <1>1, <1>2, StackGrows DEF Inv, Types
  <1>4. Types'
    BY <1>3 DEF Inv, Types, Call, registry, kernel
  <1>5. StackInv'
    BY <1>1, <1>2, <1>3, SignalsAssumption DEF Inv, StackInv, Manages
  <1>6. MaskInv'
    BY MaskUnchanged DEF Inv, Call, kernel
  <1>7. SeenInv'
    BY DEF Inv, SeenInv, Call, Execute, Executing
  <1> QED
    BY <1>4, <1>5, <1>6, <1>7 DEF Inv

(* RETURN                                                                  *)
LEMMA ReturnInv ==
  ASSUME Inv, Return
  PROVE  Inv'
  <1>1. stack \in Seq(Frames) /\ stack # <<>> /\ stack' = Front(stack)
    BY DEF Inv, Types, Return
  <1>2. /\ stack' \in Seq(Frames) /\ Len(stack) \in Nat /\ Len(stack') = Len(stack) - 1
        /\ \A i \in 1 .. Len(stack') : stack'[i] = stack[i]
        /\ Last(stack) \in Frames
    BY <1>1, StackShrinks
  <1>3. flags' = {}
    BY <1>2 DEF Return, StateCloned, Frames
  <1>4. Types'
    BY <1>2, <1>3 DEF Inv, Types, Return, registry, kernel
  <1>5. StackInv'
    BY <1>2, <1>3, SignalsAssumption DEF Inv, StackInv, Manages
  <1>6. MaskInv'
    BY MaskUnchanged DEF Inv, Return, kernel
  <1>7. SeenInv'
    BY DEF Inv, SeenInv, Return, Execute, Executing
  <1> QED
    BY <1>4, <1>5, <1>6, <1>7 DEF Inv

(* CORO                                                                    *)
LEMMA CoroInv ==
  ASSUME Inv, NEW c \in Contexts, NEW child \in Contexts, Coro(c, child)
  PROVE  Inv'
  <1>1. Types'
    BY DEF Inv, Types, Coro, registry, machine
  <1>2. StackInv' /\ SeenInv'
    BY StackUnchanged, SeenUnchanged DEF Inv, Coro, Execute
  <1>3. child # Main
    BY SignalsAssumption DEF Inv, MaskInv, Coro
  <1>4. MaskInv'
    BY <1>3, SignalsAssumption DEF Inv, Types, MaskInv, Coro, registry
  <1> QED
    BY <1>1, <1>2, <1>4 DEF Inv

(* The start of a coroutine                                                *)
LEMMA StartCoroInv ==
  ASSUME Inv, NEW c \in Contexts, StartCoro(c)
  PROVE  Inv'
  <1>1. Types'
    BY DEF Inv, Types, StartCoro, registry, machine
  <1>2. StackInv' /\ SeenInv'
    BY StackUnchanged DEF Inv, StartCoro, SeenInv, Manages, machine
  <1>3. c # Main
    BY SignalsAssumption DEF Inv, MaskInv, StartCoro
  <1>4. MaskInv'
    BY <1>3, SignalsAssumption DEF Inv, Types, MaskInv, StartCoro, registry
  <1> QED
    BY <1>1, <1>2, <1>4 DEF Inv

(* The end of one                                                          *)
LEMMA EndCoroInv ==
  ASSUME Inv, NEW c \in Contexts, EndCoro(c)
  PROVE  Inv'
  <1>1. Types'
    BY DEF Inv, Types, EndCoro, registry, machine
  <1>2. StackInv' /\ SeenInv'
    BY StackUnchanged, SeenUnchanged DEF Inv, EndCoro, Execute
  <1>3. MaskInv'
    BY SignalsAssumption DEF Inv, Types, MaskInv, EndCoro, registry
  <1> QED
    BY <1>1, <1>2, <1>3 DEF Inv

(* Main looks.                                                             *)
LEMMA LooksInv ==
  ASSUME Inv, Looks
  PROVE  Inv'
  <1>1. UNCHANGED <<registry, mask, pending, raised, at, machine>>
    BY DEF Looks, LookInVain, Look, kernel
  <1>2. seen' \subseteq pending \cup raised
    BY DEF Looks, LookInVain, Look, PendingFor, Inv, Types
  <1>3. Types'
    BY <1>1, <1>2 DEF Inv, Types, registry, machine
  <1>4. StackInv' /\ MaskInv'
    BY <1>1, StackUnchanged, MaskUnchanged DEF Inv
  <1>5. SeenInv'
    <2>1. CASE LookInVain
      BY <2>1 DEF LookInVain, Inv, SeenInv, Looking, MutexFree, Manages, machine
    <2>2. CASE Look
      BY <2>2 DEF Look, Looking, SeenInv, Manages, machine
    <2> QED
      BY <2>1, <2>2 DEF Looks
  <1> QED
    BY <1>3, <1>4, <1>5 DEF Inv

(* A signal is taken, whatever is done with it.                            *)
LEMMA TakenInv ==
  ASSUME Inv, NEW s \in Signals, Taken(s)
  PROVE  /\ MaskInv' /\ SeenInv'
         /\ seen' = {} /\ pending' \subseteq Signals /\ raised' \subseteq Signals
         /\ Manages
  <1>1. MaskInv'
    BY MaskUnchanged DEF Inv, Taken
  <1> QED
    BY <1>1 DEF Inv, Types, SeenInv, Taken

(* A signal is ignored.                                                    *)
LEMMA HandleIgnoreInv ==
  ASSUME Inv, NEW s \in Signals, HandleIgnore(s)
  PROVE  Inv'
  <1>1. /\ MaskInv' /\ SeenInv'
        /\ seen' = {} /\ pending' \subseteq Signals /\ raised' \subseteq Signals
    BY TakenInv DEF HandleIgnore
  <1>2. Types'
    BY <1>1 DEF Inv, Types, HandleIgnore, Taken, registry, machine
  <1>3. StackInv'
    BY StackUnchanged DEF Inv, HandleIgnore
  <1> QED
    BY <1>1, <1>2, <1>3 DEF Inv

(* A signal is raised again.                                               *)
LEMMA HandleDefaultInv ==
  ASSUME Inv, NEW s \in Signals, HandleDefault(s)
  PROVE  Inv'
  <1>1. seen' = {} /\ pending' \subseteq Signals /\ raised' \subseteq Signals
    BY DEF Inv, Types, HandleDefault
  <1>2. Types'
    BY <1>1 DEF Inv, Types, HandleDefault, registry, machine
  <1>3. StackInv' /\ MaskInv' /\ SeenInv'
    BY <1>1, StackUnchanged, MaskUnchanged DEF Inv, HandleDefault, SeenInv
  <1> QED
    BY <1>2, <1>3 DEF Inv

(* A signal's handler is called.                                           *)
LEMMA HandleFunctionInv ==
  ASSUME Inv, NEW s \in Signals, HandleFunction(s)
  PROVE  Inv'
  <1> DEFINE frame == StateCloned([flags |-> flags, by |-> "signal"])
  <1>1. /\ MaskInv' /\ SeenInv' /\ Manages
        /\ seen' = {} /\ pending' \subseteq Signals /\ raised' \subseteq Signals
    BY TakenInv DEF HandleFunction
  <1>2. frame \in Frames /\ frame.by = "signal"
    BY DEF StateCloned, Frames
  <1>3. stack' = Append(stack, frame) /\ flags' = flags \cup {"IN_SIG_HANDLER"}
    BY DEF HandleFunction
  <1> HIDE DEF frame
  <1>4. /\ stack' \in Seq(Frames) /\ Len(stack) \in Nat /\ Len(stack') = Len(stack) + 1
        /\ \A i \in 1 .. Len(stack) : stack'[i] = stack[i]
        /\ stack'[Len(stack) + 1] = frame
    BY <1>2, <1>3, StackGrows DEF Inv, Types
  <1>5. Types'
    BY <1>1, <1>3, <1>4 DEF Inv, Types, AllFlags, HandleFunction, Taken, registry
  <1>6. ~Manages'
    BY <1>3 DEF Manages
  <1>7. StackInv'
    BY <1>1, <1>2, <1>4, <1>6, SignalsAssumption DEF Inv, StackInv
  <1> QED
    BY <1>1, <1>5, <1>7 DEF Inv

(* Every step preserves the invariant.                                     *)
LEMMA StepInv ==
  ASSUME Inv, [Next]_vars
  PROVE  Inv'
  <1>1. CASE UNCHANGED vars
    <2>1. UNCHANGED <<registry, kernel, seen, step, machine, sent>>
      BY <1>1 DEF vars
    <2>2. Types' /\ SeenInv'
      BY <2>1 DEF Inv, Types, SeenInv, Manages, registry, kernel, machine
    <2> QED
      BY <2>1, <2>2, StackUnchanged, MaskUnchanged DEF Inv, kernel
  <1>2. CASE Other
    <2>1. UNCHANGED <<registry, kernel, seen, machine>>
      BY <1>2 DEF Other
    <2>2. Types'
      BY <2>1 DEF Inv, Types, registry, kernel, machine
    <2>3. SeenInv'
      BY <1>2, <2>1, SeenUnchanged, SignalsAssumption DEF Inv, Other, Execute
    <2> QED
      BY <2>1, <2>2, <2>3, StackUnchanged, MaskUnchanged DEF Inv, kernel
  <1> QED
    BY <1>1, <1>2, SendInv, HandleIgnoreInv, HandleDefaultInv, HandleFunctionInv, CallInv,
       ReturnInv, LooksInv, StartCoroInv, EndCoroInv, CoroInv, SetHandlerInv, SetSigmaskInv
    DEF Next, Handle

-----------------------------------------------------------------------------
(* Theorem.  The registry, the masks, the flags and the return stack keep  *)
(* their types, and the stack its bound.                                   *)
THEOREM SignalsTypeCorrect ==
  Spec => []TypeOK
  <1>1. Inv => TypeOK
    <2> SUFFICES ASSUME Inv PROVE TypeOK
      OBVIOUS
    <2>1. Len(stack) <= MaxCalls + 1
      <3>1. Len(stack) \in Nat
        BY LenProperties DEF Inv, Types
      <3> QED
        BY <3>1, SignalsAssumption DEF Inv, StackInv
    <2> QED
      BY <2>1 DEF Inv, Types, TypeOK, AllFlags
  <1> QED
    BY <1>1, InitInv, StepInv, PTL DEF Spec

(* Theorem.  A handler is never interrupted by another, nor by itself, for *)
(* any number of signals, calls and contexts (vm_execute, vm.c).           *)
THEOREM HandlersNeverNest ==
  Spec => []HandlersDontNest
  <1>1. Inv => HandlersDontNest
    <2> SUFFICES ASSUME Inv PROVE HandlersDontNest
      OBVIOUS
    <2>1. CASE HandlersActive = {}
      BY <2>1, FS_EmptySet DEF HandlersDontNest
    <2>2. CASE \E i \in HandlersActive : TRUE
      <3>1. PICK i \in HandlersActive : TRUE
        BY <2>2
      <3>2. HandlersActive = {i}
        BY <3>1 DEF Inv, StackInv, HandlersActive
      <3>3. Cardinality({i}) = 1
        BY FS_Singleton
      <3> QED
        BY <3>2, <3>3 DEF HandlersDontNest
    <2> QED
      BY <2>1, <2>2
  <1> QED
    BY <1>1, InitInv, StepInv, PTL DEF Spec

(* Theorem.  While Main alone has executed SIG, a signal with a handler,   *)
(* or to be ignored, does not end the process, however many coroutines     *)
(* there are, unless SIG is in the middle of it or a coroutine just starts *)
(* (vm_set_signal_handler, vm_execute).                                    *)
THEOREM HandledSignalsHarmless ==
  Spec => HandledNeverKills
  <1> DEFINE Harmless ==
        setters \subseteq {Main} /\ setting = {} /\ (\A c \in Contexts : at[c] # "starting") =>
          \A s \in Signals : handlers[s] # "default" /\ Send(s) => alive'
  <1>1. Inv => Harmless
    <2> SUFFICES ASSUME Inv, setters \subseteq {Main}, setting = {},
                        \A c \in Contexts : at[c] # "starting",
                        NEW s \in Signals, handlers[s] # "default", Send(s)
                 PROVE  alive'
      OBVIOUS
    <2>1. s \in mask[Main]
      BY DEF Inv, MaskInv
    <2>2. ASSUME NEW c \in Threads PROVE s \in mask[c]
      BY <2>1, <2>2 DEF Inv, MaskInv, Threads
    <2> QED
      BY <2>2 DEF Send
  <1>2. Inv /\ [Next]_vars => [Harmless]_vars
    BY <1>1
  <1> HIDE DEF Harmless
  <1>3. Spec => [][Harmless]_vars
    BY <1>2, InitInv, StepInv, PTL DEF Spec
  <1> QED
    BY <1>3 DEF HandledNeverKills, Harmless

-----------------------------------------------------------------------------
(* Stack: counting in stretches of a block or of a list                    *)

Where(f, a, b, v) == {i \in a .. b : f[i] = v}

CountIn(f, a, b, v) == Cardinality(Where(f, a, b, v))

(* A stretch of slots is finite, so its occurrences can be counted.        *)
LEMMA CountFinite ==
  ASSUME NEW f, NEW a \in Int, NEW b \in Int, NEW v
  PROVE  IsFiniteSet(Where(f, a, b, v)) /\ CountIn(f, a, b, v) \in Nat
  <1>1. IsFiniteSet(a .. b)
    BY FS_Interval
  <1>2. Where(f, a, b, v) \in SUBSET (a .. b)
    BY DEF Where
  <1>3. IsFiniteSet(Where(f, a, b, v))
    BY <1>1, <1>2, FS_Subset, Zenon
  <1> QED
    BY <1>3, FS_CardinalityType DEF CountIn

(* A stretch is cut in two.                                                *)
LEMMA CountSplit ==
  ASSUME NEW f, NEW a \in Int, NEW k \in Int, NEW b \in Int, NEW v,
         a <= k + 1, k <= b
  PROVE  CountIn(f, a, b, v) = CountIn(f, a, k, v) + CountIn(f, k + 1, b, v)
  <1> DEFINE S == Where(f, a, k, v)
             T == Where(f, k + 1, b, v)
  <1>1. Where(f, a, b, v) = S \cup T
    BY DEF Where
  <1>2. S \cap T = {}
    BY DEF Where
  <1>3. k + 1 \in Int
    OBVIOUS
  <1>4. IsFiniteSet(S) /\ Cardinality(S) \in Nat
    BY CountFinite, Zenon DEF CountIn
  <1>5. IsFiniteSet(T) /\ Cardinality(T) \in Nat
    BY <1>3, CountFinite, Zenon DEF CountIn
  <1> HIDE DEF S, T
  <1>6. Cardinality(S \cup T) = Cardinality(S) + Cardinality(T) - Cardinality(S \cap T)
    BY <1>4, <1>5, FS_Union
  <1>7. Cardinality(S \cup T) = Cardinality(S) + Cardinality(T)
    <2>1. Cardinality(S \cap T) = 0
      BY <1>2, FS_EmptySet, Zenon
    <2> QED
      BY <1>4, <1>5, <1>6, <2>1
  <1> QED
    BY <1>1, <1>7 DEF CountIn, S, T

(* Two stretches have the same values in the same or in the reverse order. *)
Moved(f, g, a, b, k) == \A i \in a .. b : g[i + k] = f[i]

Mirrored(f, g, a, b, k) == \A i \in a .. b : g[k - i] = f[i]

(* A stretch that is moved k slots on holds a value as often as before.    *)
LEMMA CountMoved ==
  ASSUME NEW f, NEW g, NEW a \in Int, NEW b \in Int, NEW k \in Int, NEW v,
         NEW c, c = a + k, NEW d, d = b + k,
         Moved(f, g, a, b, k)
  PROVE  CountIn(g, c, d, v) = CountIn(f, a, b, v)
  <1> DEFINE S == Where(f, a, b, v)
             T == Where(g, c, d, v)
             h == [i \in S |-> i + k]
  <1>1. h \in Bijection(S, T)
    <2>1. h \in [S -> T]
      BY DEF Where, Moved
    <2>2. \A i, j \in S : h[i] = h[j] => i = j
      BY DEF Where, Moved
    <2>3. ASSUME NEW j \in T
          PROVE  \E i \in S : h[i] = j
      <3>1. j - k \in S
        BY DEF Where, Moved
      <3>2. h[j - k] = j
        BY <3>1 DEF Where, Moved
      <3> QED
        BY <3>1, <3>2
    <2> HIDE DEF S, T, h
    <2> QED
      BY <2>1, <2>2, <2>3 DEF Bijection, Injection, IsInjective, Surjection
  <1>2. IsFiniteSet(S)
    BY CountFinite, Zenon
  <1>3. Cardinality(T) = Cardinality(S)
    <2> HIDE DEF S, T, h
    <2> QED
      BY <1>1, <1>2, FS_Bijection DEF ExistsBijection
  <1> QED
    BY <1>3 DEF CountIn

(* So does one that is turned over.                                        *)
LEMMA CountMirrored ==
  ASSUME NEW f, NEW g, NEW a \in Int, NEW b \in Int, NEW k \in Int, NEW v,
         NEW c, c = k - b, NEW d, d = k - a,
         Mirrored(f, g, a, b, k)
  PROVE  CountIn(g, c, d, v) = CountIn(f, a, b, v)
  <1> DEFINE S == Where(f, a, b, v)
             T == Where(g, c, d, v)
             h == [i \in S |-> k - i]
  <1>1. h \in Bijection(S, T)
    <2>1. h \in [S -> T]
      BY DEF Where, Mirrored
    <2>2. \A i, j \in S : h[i] = h[j] => i = j
      BY DEF Where, Mirrored
    <2>3. ASSUME NEW j \in T
          PROVE  \E i \in S : h[i] = j
      <3>1. k - j \in S
        BY DEF Where, Mirrored
      <3>2. h[k - j] = j
        BY <3>1 DEF Where, Mirrored
      <3> QED
        BY <3>1, <3>2
    <2> HIDE DEF S, T, h
    <2> QED
      BY <2>1, <2>2, <2>3 DEF Bijection, Injection, IsInjective, Surjection
  <1>2. IsFiniteSet(S)
    BY CountFinite, Zenon
  <1>3. Cardinality(T) = Cardinality(S)
    <2> HIDE DEF S, T, h
    <2> QED
      BY <1>1, <1>2, FS_Bijection DEF ExistsBijection
  <1> QED
    BY <1>3 DEF CountIn

(* So does one that nothing has changed.                                   *)
LEMMA CountSame ==
  ASSUME NEW f, NEW g, NEW a \in Int, NEW b \in Int, NEW v,
         \A i \in a .. b : g[i] = f[i]
  PROVE  CountIn(g, a, b, v) = CountIn(f, a, b, v)
  <1>1. Where(g, a, b, v) = Where(f, a, b, v)
    BY DEF Where
  <1> QED
    BY <1>1 DEF CountIn

(* A value that is in no slot of a stretch is counted zero times.          *)
LEMMA CountNone ==
  ASSUME NEW f, NEW a \in Int, NEW b \in Int, NEW v,
         \A i \in a .. b : f[i] # v
  PROVE  CountIn(f, a, b, v) = 0
  <1>1. Where(f, a, b, v) = {}
    BY DEF Where
  <1> QED
    BY <1>1, FS_EmptySet DEF CountIn

(* The values of a list.                                                   *)
LEMMA OccursIn ==
  ASSUME NEW v, NEW n \in Nat, NEW list, DOMAIN list = 1 .. n
  PROVE  Occurs(v, list) = CountIn(list, 1, n, v) /\ Occurs(v, list) \in Nat
  <1>1. Occurs(v, list) = CountIn(list, 1, n, v)
    BY DEF Occurs, CountIn, Where
  <1> QED
    <2>1. n \in Int /\ 1 \in Int
      OBVIOUS
    <2> QED
      BY <1>1, <2>1, CountFinite

(* One list after another.                                                 *)
OneAfterTheOther(s, t, u, x, y) ==
  /\ DOMAIN s = 1 .. x /\ DOMAIN t = 1 .. y /\ DOMAIN u = 1 .. x + y
  /\ \A i \in 1 .. x : u[i] = s[i]
  /\ \A i \in 1 .. y : u[i + x] = t[i]

(* A list that is made of two holds a value as often as they do together.  *)
LEMMA CountTogether ==
  ASSUME NEW s, NEW t, NEW u, NEW x \in Nat, NEW y \in Nat, NEW v,
         OneAfterTheOther(s, t, u, x, y)
  PROVE  Occurs(v, u) = Occurs(v, s) + Occurs(v, t)
  <1>1. CountIn(u, 1, x + y, v) = CountIn(u, 1, x, v) + CountIn(u, x + 1, x + y, v)
    BY CountSplit
  <1>2. CountIn(u, 1, x, v) = CountIn(s, 1, x, v)
    BY CountSame DEF OneAfterTheOther
  <1>3. CountIn(u, x + 1, x + y, v) = CountIn(t, 1, y, v)
    <2>1. Moved(t, u, 1, y, x)
      BY DEF Moved, OneAfterTheOther
    <2>2. x + 1 = 1 + x /\ x + y = y + x
      OBVIOUS
    <2> QED
      BY <2>1, <2>2, CountMoved
  <1>4. Occurs(v, s) = CountIn(s, 1, x, v) /\ Occurs(v, t) = CountIn(t, 1, y, v)
    BY OccursIn DEF OneAfterTheOther
  <1>5. Occurs(v, u) = CountIn(u, 1, x + y, v)
    BY OccursIn DEF OneAfterTheOther
  <1> QED
    BY <1>1, <1>2, <1>3, <1>4, <1>5

(* So does the concatenation of two sequences.                             *)
LEMMA OccursTogether ==
  ASSUME NEW v, NEW s \in Seq(Values), NEW t \in Seq(Values)
  PROVE  Occurs(v, s \o t) = Occurs(v, s) + Occurs(v, t)
  <1>1. PICK x \in Nat, y \in Nat : x = Len(s) /\ y = Len(t)
    BY LenProperties
  <1>2. DOMAIN s = 1 .. x /\ DOMAIN t = 1 .. y
    BY <1>1, LenProperties
  <1>3. PICK u : u = s \o t
    OBVIOUS
  <1>4. u \in Seq(Values) /\ Len(u) = x + y
    BY <1>1, <1>3, ConcatProperties, Zenon
  <1>5. DOMAIN u = 1 .. x + y /\ x + y \in Nat
    BY <1>4, LenProperties
  <1>6. \A i \in 1 .. x : u[i] = s[i]
    BY <1>1, <1>3
  <1>7. \A i \in 1 .. y : u[i + x] = t[i]
    BY <1>1, <1>3
  <1>8. Occurs(v, u) = Occurs(v, s) + Occurs(v, t)
    <2>1. OneAfterTheOther(s, t, u, x, y)
      BY <1>2, <1>5, <1>6, <1>7 DEF OneAfterTheOther
    <2> QED
      BY <2>1, CountTogether
  <1> QED
    BY <1>3, <1>8, Zenon

-----------------------------------------------------------------------------
(* Well-formed stacks                                                      *)

Blocks == UNION {[0 .. n - 1 -> Values] : n \in 0 .. MaxAllocated}

(* A block at least as long as the contents, with nothing above them.      *)
Stacks ==
  {s \in [items : Blocks, count : Nat] :
     /\ s.count <= Allocated(s)
     /\ \A i \in DOMAIN s.items : i >= s.count => s.items[i] = Undef}

(* A block has as many slots as its size.                                  *)
LEMMA BlockSize ==
  ASSUME NEW n \in Nat
  PROVE  Cardinality(0 .. n - 1) = n
  <1>1. Cardinality(0 .. n - 1) = IF 0 > n - 1 THEN 0 ELSE (n - 1) - 0 + 1
    BY FS_Interval
  <1> QED
    BY <1>1

(* What a well-formed stack is, and when a record is one.                  *)
LEMMA StackFacts ==
  ASSUME NEW s \in Stacks
  PROVE  /\ s = [items |-> s.items, count |-> s.count]
         /\ Allocated(s) \in 0 .. MaxAllocated
         /\ DOMAIN s.items = 0 .. Allocated(s) - 1
         /\ s.items \in [0 .. Allocated(s) - 1 -> Values]
         /\ s.count \in Nat
         /\ s.count <= Allocated(s)
         /\ \A i \in 0 .. s.count - 1 : s.items[i] \in Values
         /\ \A i \in DOMAIN s.items : i >= s.count => s.items[i] = Undef
  <1>1. s \in [items : Blocks, count : Nat]
    BY DEF Stacks
  <1>2. s.items \in Blocks /\ s.count \in Nat /\ s = [items |-> s.items, count |-> s.count]
    BY <1>1
  <1>3. PICK n \in 0 .. MaxAllocated : s.items \in [0 .. n - 1 -> Values]
    BY <1>2 DEF Blocks
  <1>4. Allocated(s) = n
    <2>1. DOMAIN s.items = 0 .. n - 1
      BY <1>3
    <2>2. n \in Nat
      BY StackAssumption
    <2> QED
      BY <2>1, <2>2, BlockSize DEF Allocated
  <1>5. s.count <= Allocated(s) /\ \A i \in DOMAIN s.items : i >= s.count => s.items[i] = Undef
    BY DEF Stacks
  <1>6. \A i \in 0 .. s.count - 1 : s.items[i] \in Values
    BY <1>2, <1>3, <1>4, <1>5
  <1> QED
    BY <1>2, <1>3, <1>4, <1>5, <1>6

(* Undefined slots above the count make a block and a count a stack.       *)
LEMMA StackMade ==
  ASSUME NEW n \in 0 .. MaxAllocated, NEW f \in [0 .. n - 1 -> Values], NEW k \in 0 .. n,
         \A i \in k .. n - 1 : f[i] = Undef
  PROVE  /\ [items |-> f, count |-> k] \in Stacks
         /\ Allocated([items |-> f, count |-> k]) = n
  <1> DEFINE s == [items |-> f, count |-> k]
  <1>1. n \in Nat /\ k \in Nat
    BY StackAssumption
  <1>2. s.items = f /\ s.count = k
    OBVIOUS
  <1>3. f \in Blocks
    BY DEF Blocks
  <1>4. s \in [items : Blocks, count : Nat]
    BY <1>1, <1>3
  <1>5. DOMAIN s.items = 0 .. n - 1
    BY <1>2
  <1>6. Allocated(s) = n
    BY <1>1, <1>5, BlockSize DEF Allocated
  <1> HIDE DEF s
  <1>7. \A i \in DOMAIN s.items : i >= s.count => s.items[i] = Undef
    BY <1>1, <1>2, <1>5
  <1>8. s.count <= Allocated(s)
    BY <1>1, <1>2, <1>6
  <1>9. s \in Stacks
    BY <1>4, <1>7, <1>8 DEF Stacks
  <1> QED
    BY <1>6, <1>9 DEF s

(* STACK_INIT makes an empty stack, and so does STACK_DESTROY.             *)
LEMMA NewStacks ==
  /\ NewStack \in Stacks
  /\ NewStack.count = 0
  /\ NoStack \in Stacks
  /\ NoStack.count = 0
  <1>1. Undef \in Values /\ InitialSize \in 0 .. MaxAllocated /\ 0 \in 0 .. InitialSize
          /\ 0 \in 0 .. MaxAllocated /\ 0 \in 0 .. 0
    BY StackAssumption DEF Values
  <1>2. NewStack \in Stacks
    <2> DEFINE f == [i \in 0 .. InitialSize - 1 |-> Undef]
    <2>1. f \in [0 .. InitialSize - 1 -> Values] /\ \A i \in 0 .. InitialSize - 1 : f[i] = Undef
      BY <1>1
    <2> HIDE DEF f
    <2>2. [items |-> f, count |-> 0] \in Stacks
      BY <1>1, <2>1, StackMade
    <2> QED
      BY <2>2 DEF f, NewStack
  <1>3. NoStack \in Stacks
    <2> DEFINE f == [i \in {} |-> Undef]
    <2>1. 0 .. 0 - 1 = {}
      OBVIOUS
    <2>2. f \in [0 .. 0 - 1 -> Values] /\ \A i \in 0 .. 0 - 1 : f[i] = Undef
      BY <2>1
    <2> HIDE DEF f
    <2>3. [items |-> f, count |-> 0] \in Stacks
      BY <1>1, <2>2, StackMade
    <2> QED
      BY <2>3 DEF f, NoStack
  <1> QED
    BY <1>2, <1>3 DEF NewStack, NoStack

(* How often a value is on a stack.                                        *)
InStack(s, v) == CountIn(s.items, 0, s.count - 1, v)

(* How often a stack holds a value is a number.                            *)
LEMMA InStackNat ==
  ASSUME NEW s \in Stacks, NEW v
  PROVE  InStack(s, v) \in Nat
  <1>1. s.count - 1 \in Int /\ 0 \in Int
    BY StackFacts
  <1> QED
    BY <1>1, CountFinite DEF InStack

(* An empty stack holds nothing.                                           *)
LEMMA InEmpty ==
  ASSUME NEW s \in Stacks, s.count = 0, NEW v
  PROVE  InStack(s, v) = 0
  <1>1. \A i \in 0 .. s.count - 1 : s.items[i] # v
    OBVIOUS
  <1>2. s.count - 1 \in Int /\ 0 \in Int
    OBVIOUS
  <1> QED
    BY <1>1, <1>2, CountNone DEF InStack

(* Half of the address space is one of the powers of two.                  *)
LEMMA HalfWordPower ==
  HalfWord \in Powers
  <1>1. WordBits - 1 \in 0 .. WordBits
    BY WordAssumption
  <1> QED
    BY <1>1, Zenon DEF HalfWord, Powers

(* The next power of two exists, as no block exceeds the memory.           *)
LEMMA NextIsGreater ==
  ASSUME NEW n \in 0 .. MaxAllocated + 1
  PROVE  nextupow2(n) \in Nat /\ nextupow2(n) > n
  <1> DEFINE Above == {p \in Powers : p > n}
  <1> DEFINE Less == OpToRel(<, Nat)
  <1>1. n \in Nat /\ n <= MaxAllocated + 1 /\ MaxAllocated + 1 \in Nat
    BY StackAssumption
  <1>2. Above \subseteq Nat
    BY WordAssumption
  <1>3. PICK p \in Powers : p > MaxAllocated + 1
    BY HalfWordPower, WordAssumption
  <1>4. p \in Nat /\ p \in Above
    BY <1>1, <1>3, WordAssumption
  <1>5. \A x, y \in Nat : x < y => <<x, y>> \in Less
    BY DEF OpToRel
  <1>6. IsWellFoundedOn(Less, Nat)
    BY NatLessThanWellFounded
  <1>7. \A x \in Above : x \in Powers /\ x > n
    OBVIOUS
  <1>8. \A x \in Powers : x > n => x \in Above
    OBVIOUS
  <1> HIDE DEF Above, Less
  <1>9. PICK least \in Above : \A q \in Above : ~(<<q, least>> \in Less)
    BY <1>2, <1>4, <1>6, WFMin
  <1>10. ASSUME NEW q \in Above
         PROVE  least <= q
    <2>1. q \in Nat /\ least \in Nat /\ ~(<<q, least>> \in Less)
      BY <1>2, <1>9
    <2>2. ~(q < least)
      BY <2>1, <1>5
    <2> QED
      BY <2>1, <2>2
  <1>11. \E r \in Powers : r > n /\ \A q \in Powers : q > n => r <= q
    BY <1>7, <1>8, <1>10
  <1>12. nextupow2(n) \in Powers /\ nextupow2(n) > n
    BY <1>11, Zenon DEF nextupow2
  <1> QED
    BY <1>12, WordAssumption

(* A reservation never shrinks the block, and makes the room asked for.    *)
LEMMA ReservedIsEnough ==
  ASSUME NEW s \in Stacks, NEW n \in Nat, s.count + n <= MaxAllocated + 1
  PROVE  /\ Reserved(s, s.count + n) \in Nat
         /\ Reserved(s, s.count + n) >= Allocated(s)
         /\ Reserved(s, s.count + n) >= s.count + n
         /\ Allocated(s) >= s.count + n => ~ Refused(s, n)
  <1>1. MaxAllocated \in Nat
    BY StackAssumption
  <1>2. Allocated(s) \in Nat /\ Allocated(s) <= MaxAllocated /\ s.count \in Nat
    BY <1>1, StackFacts
  <1>3. s.count + n \in 0 .. MaxAllocated + 1
    BY <1>1, <1>2
  <1>4. nextupow2(s.count + n) \in Nat /\ nextupow2(s.count + n) > s.count + n
    BY <1>3, NextIsGreater, Zenon
  <1> QED
    BY <1>1, <1>2, <1>4 DEF Reserved, Refused

-----------------------------------------------------------------------------
(* Popping and pushing                                                     *)

(* The topmost items, counted in the block.                                *)
LEMMA TopCounted ==
  ASSUME NEW m, m.stack \in Stacks, NEW n \in 0 .. m.stack.count
  PROVE  /\ Top(m, n) \in Seq(Values)
         /\ Len(Top(m, n)) = n
         /\ \A v : Occurs(v, Top(m, n)) = CountIn(m.stack.items, m.stack.count - n, m.stack.count - 1, v)
  <1>1. PICK s \in Stacks : s = m.stack
    OBVIOUS
  <1>2. PICK list : list = Top(m, n)
    OBVIOUS
  <1>3. s.count \in Nat /\ n \in Nat /\ n <= s.count /\ \A i \in 0 .. s.count - 1 : s.items[i] \in Values
    BY <1>1, StackFacts
  <1>4. list = [i \in 1 .. n |-> s.items[s.count - i]]
    BY <1>1, <1>2 DEF Top
  <1>5. \A i \in 1 .. n : s.count - i \in 0 .. s.count - 1
    BY <1>3
  <1>6. list \in [1 .. n -> Values]
    BY <1>3, <1>4, <1>5
  <1>7. list \in Seq(Values) /\ Len(list) = n /\ DOMAIN list = 1 .. n
    BY <1>3, <1>6
  <1>8. ASSUME NEW v
        PROVE  Occurs(v, list) = CountIn(s.items, s.count - n, s.count - 1, v)
    <2>1. Occurs(v, list) = CountIn(list, 1, n, v)
      BY <1>3, <1>7, OccursIn
    <2>2. PICK f : f = s.items
      OBVIOUS
    <2>3. PICK k \in Nat : k = s.count
      BY <1>3
    <2>4. Mirrored(list, f, 1, n, k)
      BY <1>4, <2>2, <2>3 DEF Mirrored
    <2>5. CountIn(f, k - n, k - 1, v) = CountIn(list, 1, n, v)
      BY <1>3, <2>4, CountMirrored
    <2> QED
      BY <2>1, <2>2, <2>3, <2>5
  <1> QED
    BY <1>1, <1>2, <1>7, <1>8

(* Giving up the n topmost items.                                          *)
LEMMA CutBelow ==
  ASSUME NEW s \in Stacks, NEW n \in 0 .. s.count
  PROVE  /\ Cut(s, n) \in Stacks
         /\ Allocated(Cut(s, n)) = Allocated(s)
         /\ Cut(s, n).count = s.count - n
         /\ \A i \in 0 .. s.count - n - 1 : Cut(s, n).items[i] = s.items[i]
         /\ \A v : InStack(s, v) = InStack(Cut(s, n), v) + CountIn(s.items, s.count - n, s.count - 1, v)
  <1> DEFINE f == [i \in DOMAIN s.items |->
                    IF i \in s.count - n .. s.count - 1 THEN Undef ELSE s.items[i]]
             k == s.count - n
             a == Allocated(s)
  <1>1. /\ s.count \in Nat /\ n \in Nat /\ n <= s.count
        /\ a \in 0 .. MaxAllocated
        /\ DOMAIN s.items = 0 .. a - 1
        /\ s.items \in [0 .. a - 1 -> Values]
        /\ s.count <= a
        /\ \A i \in DOMAIN s.items : i >= s.count => s.items[i] = Undef
    BY StackFacts
  <1>2. Undef \in Values
    BY DEF Values
  <1>3. f \in [0 .. a - 1 -> Values]
    BY <1>1, <1>2
  <1>4. k \in 0 .. a
    BY <1>1
  <1>5. \A i \in k .. a - 1 : f[i] = Undef
    BY <1>1
  <1>6. \A i \in 0 .. k - 1 : f[i] = s.items[i]
    BY <1>1
  <1>7. Cut(s, n) = [items |-> f, count |-> k]
    BY DEF Cut
  <1>8. Cut(s, n).items = f /\ Cut(s, n).count = k
    BY <1>7
  <1> HIDE DEF f
  <1>9. Cut(s, n) \in Stacks /\ Allocated(Cut(s, n)) = a
    BY <1>1, <1>3, <1>4, <1>5, <1>7, StackMade, SMTT(30)
  <1>10. ASSUME NEW v
         PROVE  InStack(s, v) = InStack(Cut(s, n), v) + CountIn(s.items, k, s.count - 1, v)
    <2>0. PICK g : g = s.items
      OBVIOUS
    <2>1. PICK l \in Nat : l = s.count
      BY <1>1
    <2>2. PICK j \in Nat : j = k /\ j <= l
      BY <1>1, <2>1
    <2>3. CountIn(g, 0, l - 1, v) = CountIn(g, 0, j - 1, v) + CountIn(g, (j - 1) + 1, l - 1, v)
      BY <2>2, CountSplit
    <2>4. (j - 1) + 1 = j
      OBVIOUS
    <2>5. CountIn(f, 0, j - 1, v) = CountIn(g, 0, j - 1, v)
      BY <1>6, <2>0, <2>1, <2>2, CountSame
    <2> HIDE DEF k
    <2> QED
      BY <1>8, <2>0, <2>1, <2>2, <2>3, <2>4, <2>5 DEF InStack
  <1> QED
    BY <1>6, <1>8, <1>9, <1>10

(* What STACK_POP takes and what it leaves make up what there was.         *)
LEMMA TopAndCut ==
  ASSUME NEW m, m.stack \in Stacks, NEW n \in 0 .. m.stack.count, NEW v
  PROVE  /\ InStack(m.stack, v) = InStack(Cut(m.stack, n), v) + Occurs(v, Top(m, n))
         /\ Occurs(v, Top(m, n)) \in Nat
  <1>1. Occurs(v, Top(m, n)) = CountIn(m.stack.items, m.stack.count - n, m.stack.count - 1, v)
    BY TopCounted, Zenon
  <1>2. InStack(m.stack, v) = InStack(Cut(m.stack, n), v)
                                + CountIn(m.stack.items, m.stack.count - n, m.stack.count - 1, v)
    BY CutBelow
  <1>3. Occurs(v, Top(m, n)) \in Nat
    <2>1. Top(m, n) \in Seq(Values) /\ n \in Nat
      BY TopCounted, StackFacts
    <2>2. PICK k \in Nat : DOMAIN Top(m, n) = 1 .. k
      BY <2>1, LenProperties
    <2> QED
      BY <2>2, OccursIn
  <1> QED
    BY <1>1, <1>2, <1>3

(* A stack from which everything has been popped.                          *)
LEMMA TopOfAll ==
  ASSUME NEW m, m.stack \in Stacks, NEW v
  PROVE  Occurs(v, Top(m, m.stack.count)) = InStack(m.stack, v)
  <1>1. PICK s \in Stacks : s = m.stack
    OBVIOUS
  <1>2. s.count \in Nat /\ s.count \in 0 .. s.count
    BY StackFacts
  <1>3. Cut(s, s.count) \in Stacks /\ Cut(s, s.count).count = 0
    BY <1>2, CutBelow
  <1>4. InStack(Cut(s, s.count), v) = 0
    BY <1>3, InEmpty
  <1>5. /\ InStack(s, v) = InStack(Cut(s, s.count), v) + Occurs(v, Top(m, s.count))
        /\ Occurs(v, Top(m, s.count)) \in Nat
    BY <1>1, <1>2, TopAndCut, Zenon
  <1> QED
    BY <1>1, <1>4, <1>5

(* Pushing a list, the first value on top.                                 *)
LEMMA PlacedAbove ==
  ASSUME NEW s \in Stacks, NEW list \in Seq(Values),
         s.count + Len(list) <= MaxAllocated + 1, ~ Refused(s, Len(list))
  PROVE  /\ Placed(s, list) \in Stacks
         /\ Placed(s, list).count = s.count + Len(list)
         /\ Allocated(Placed(s, list)) >= Allocated(s)
         /\ \A i \in 0 .. s.count - 1 : Placed(s, list).items[i] = s.items[i]
         /\ \A i \in 1 .. Len(list) : Placed(s, list).items[s.count + Len(list) - i] = list[i]
         /\ \A v : InStack(Placed(s, list), v) = InStack(s, v) + Occurs(v, list)
  <1>1. PICK n \in Nat : n = Len(list)
    BY LenProperties
  <1>2. PICK k \in Nat : k = s.count
    BY StackFacts
  <1>3. PICK size : size = Reserved(s, s.count + n)
    OBVIOUS
  <1>4. PICK a : a = Allocated(s)
    OBVIOUS
  <1>5. MaxAllocated \in Nat
    BY StackAssumption
  <1>6. size \in Nat /\ size >= a /\ size >= k + n /\ size <= MaxAllocated
    <2>1. s.count + n <= MaxAllocated + 1
      BY <1>1
    <2>2. size \in Nat /\ size >= a /\ size >= s.count + n
      BY <1>3, <1>4, <2>1, ReservedIsEnough
    <2> QED
      BY <1>1, <1>2, <1>3, <1>5, <2>2 DEF Refused
  <1>7. /\ a \in 0 .. MaxAllocated /\ DOMAIN s.items = 0 .. a - 1
        /\ s.items \in [0 .. a - 1 -> Values] /\ k <= a
        /\ \A i \in DOMAIN s.items : i >= k => s.items[i] = Undef
    BY <1>2, <1>4, StackFacts
  <1>8. DOMAIN list = 1 .. n /\ \A i \in 1 .. n : list[i] \in Values
    BY <1>1, LenProperties, ElementOfSeq
  <1>9. Undef \in Values
    BY DEF Values
  <1>10. \A i : Slot(s, i) \in Values /\ (i \in Nat /\ i >= k => Slot(s, i) = Undef)
    BY <1>7, <1>9 DEF Slot
  <1>11. \A i \in 0 .. k - 1 : Slot(s, i) = s.items[i]
    BY <1>7 DEF Slot
  <1> DEFINE f == [i \in 0 .. size - 1 |-> IF i \in k .. k + n - 1 THEN list[n - (i - k)] ELSE Slot(s, i)]
  <1>12. Placed(s, list) = [items |-> f, count |-> k + n]
    BY <1>1, <1>2, <1>3 DEF Placed
  <1>13. \A i \in k .. k + n - 1 : n - (i - k) \in 1 .. n
    OBVIOUS
  <1>14. f \in [0 .. size - 1 -> Values]
    BY <1>8, <1>10, <1>13
  <1>15. \A i \in k + n .. size - 1 : f[i] = Undef
    BY <1>10
  <1>16. \A i \in 0 .. k - 1 : f[i] = s.items[i]
    BY <1>6, <1>11
  <1>17. \A i \in 1 .. n : f[k + n - i] = list[i]
    <2> TAKE i \in 1 .. n
    <2>1. k + n - i \in k .. k + n - 1 /\ k + n - i \in 0 .. size - 1 /\ n - ((k + n - i) - k) = i
      BY <1>6
    <2> QED
      BY <2>1
  <1>18. size \in 0 .. MaxAllocated /\ k + n \in 0 .. size
    BY <1>5, <1>6
  <1> HIDE DEF f
  <1>19. Placed(s, list) \in Stacks /\ Allocated(Placed(s, list)) = size
    BY <1>12, <1>14, <1>15, <1>18, StackMade
  <1>20. Placed(s, list).items = f /\ Placed(s, list).count = k + n
    BY <1>12
  <1>21. ASSUME NEW v
         PROVE  InStack(Placed(s, list), v) = InStack(s, v) + Occurs(v, list)
    <2>1. PICK g : g = s.items
      OBVIOUS
    <2>2. PICK h : h = f
      OBVIOUS
    <2>3. CountIn(h, 0, k + n - 1, v) = CountIn(h, 0, k - 1, v) + CountIn(h, (k - 1) + 1, k + n - 1, v)
      BY CountSplit
    <2>4. CountIn(h, 0, k - 1, v) = CountIn(g, 0, k - 1, v)
      BY <1>16, <2>1, <2>2, CountSame
    <2>5. Mirrored(list, h, 1, n, k + n)
      BY <1>17, <2>2 DEF Mirrored
    <2>6. (k - 1) + 1 = k + n - n
      OBVIOUS
    <2>7. CountIn(h, (k - 1) + 1, k + n - 1, v) = CountIn(list, 1, n, v)
      BY <2>5, <2>6, CountMirrored
    <2>8. Occurs(v, list) = CountIn(list, 1, n, v)
      BY <1>8, OccursIn
    <2>9. InStack(s, v) = CountIn(g, 0, k - 1, v) /\ InStack(Placed(s, list), v) = CountIn(h, 0, k + n - 1, v)
      BY <1>2, <1>20, <2>1, <2>2, SMTT(30) DEF InStack
    <2> QED
      BY <2>3, <2>4, <2>7, <2>8, <2>9
  <1> QED
    BY <1>1, <1>2, <1>4, <1>6, <1>16, <1>17, <1>19, <1>20, <1>21

(* The slots that a push fills held nothing that it would destroy.         *)
LEMMA NothingStale ==
  ASSUME NEW s \in Stacks, NEW n \in Nat, NEW o \in Objects
  PROVE  Occurs(o, [i \in 1 .. n |-> Slot(s, s.count + i - 1)]) = 0
  <1> DEFINE list == [i \in 1 .. n |-> Slot(s, s.count + i - 1)]
  <1>1. \A i \in 1 .. n : list[i] = Undef
    BY StackFacts DEF Slot
  <1>2. Undef # o
    BY StackAssumption
  <1>3. DOMAIN list = 1 .. n
    OBVIOUS
  <1> HIDE DEF list
  <1>4. Occurs(o, list) = CountIn(list, 1, n, o)
    BY <1>3, OccursIn
  <1>5. CountIn(list, 1, n, o) = 0
    BY <1>1, <1>2, CountNone
  <1>6. Occurs(o, list) = 0
    BY <1>4, <1>5
  <1> QED
    BY <1>6 DEF list

-----------------------------------------------------------------------------
(* Instructions on the way: what is held besides the values on the stack   *)

Clones == [Objects -> Int]

Plus(k, list) == [o \in Objects |-> k[o] + Occurs(o, list)]

Minus(k, list) == [o \in Objects |-> k[o] - Occurs(o, list)]

(* Beside those on the stack there are as many clones as k says.           *)
Sound(m, k) ==
  /\ m \in [stack : Stacks, held : Clones]
  /\ \A o \in Objects : m.held[o] = k[o] + InStack(m.stack, o)

(* What a sound stack comes with.                                          *)
LEMMA SoundFacts ==
  ASSUME NEW m, NEW k, Sound(m, k)
  PROVE  /\ m.stack \in Stacks
         /\ m.stack.count \in Nat
         /\ m.stack.count <= MaxAllocated
         /\ m.held \in Clones
         /\ m = [stack |-> m.stack, held |-> m.held]
         /\ \A o \in Objects : m.held[o] \in Int /\ m.held[o] = k[o] + InStack(m.stack, o)
  <1>1. m.stack \in Stacks /\ m.held \in Clones /\ m = [stack |-> m.stack, held |-> m.held]
    BY DEF Sound
  <1>2. \A o \in Objects : m.held[o] \in Int
    BY <1>1 DEF Clones
  <1>3. PICK s \in Stacks : s = m.stack
    BY <1>1
  <1>4. s.count \in Nat /\ s.count <= MaxAllocated
    <2>1. s.count \in Nat /\ Allocated(s) \in 0 .. MaxAllocated /\ s.count <= Allocated(s)
      BY StackFacts
    <2>2. MaxAllocated \in Nat
      BY StackAssumption
    <2> QED
      BY <2>1, <2>2
  <1> QED
    BY <1>1, <1>2, <1>3, <1>4 DEF Sound

(* How often a list holds a value is a number.                             *)
LEMMA OccursNat ==
  ASSUME NEW list \in Seq(Values), NEW o
  PROVE  Occurs(o, list) \in Nat
  <1>1. PICK n \in Nat : DOMAIN list = 1 .. n
    BY LenProperties
  <1> QED
    BY <1>1, OccursIn

(* Cloning a list and destroying it again cancel out, in either order.     *)
LEMMA PlusMinus ==
  ASSUME NEW k \in Clones, NEW list \in Seq(Values)
  PROVE  /\ Plus(k, list) \in Clones
         /\ Minus(k, list) \in Clones
         /\ Minus(Plus(k, list), list) = k
         /\ Plus(Minus(k, list), list) = k
  <1>1. \A o \in Objects : Occurs(o, list) \in Int /\ k[o] \in Int
    BY OccursNat DEF Clones
  <1>2. \A o \in Objects : k[o] + Occurs(o, list) \in Int /\ k[o] - Occurs(o, list) \in Int
    BY <1>1
  <1>3. Plus(k, list) \in Clones /\ Minus(k, list) \in Clones
    BY <1>2 DEF Plus, Minus, Clones
  <1>4. \A o \in Objects : (k[o] + Occurs(o, list)) - Occurs(o, list) = k[o]
                              /\ (k[o] - Occurs(o, list)) + Occurs(o, list) = k[o]
    BY <1>1
  <1>5. Minus(Plus(k, list), list) = [o \in Objects |-> (k[o] + Occurs(o, list)) - Occurs(o, list)]
    BY DEF Plus, Minus
  <1>6. Plus(Minus(k, list), list) = [o \in Objects |-> (k[o] - Occurs(o, list)) + Occurs(o, list)]
    BY DEF Plus, Minus
  <1>7. k = [o \in Objects |-> k[o]]
    BY DEF Clones
  <1> QED
    BY <1>3, <1>4, <1>5, <1>6, <1>7

(* Two lists that were cloned may be destroyed together.                   *)
LEMMA MinusBoth ==
  ASSUME NEW k \in Clones, NEW s \in Seq(Values), NEW t \in Seq(Values)
  PROVE  Minus(Plus(Plus(k, s), t), s \o t) = k
  <1>1. \A o \in Objects : k[o] \in Int /\ Occurs(o, s) \in Int /\ Occurs(o, t) \in Int
    BY OccursNat DEF Clones
  <1>2. \A o \in Objects : Occurs(o, s \o t) = Occurs(o, s) + Occurs(o, t)
    BY OccursTogether
  <1>3. \A o \in Objects : ((k[o] + Occurs(o, s)) + Occurs(o, t)) - Occurs(o, s \o t) = k[o]
    <2> TAKE o \in Objects
    <2>1. PICK w : w = s \o t
      OBVIOUS
    <2>2. Occurs(o, w) = Occurs(o, s) + Occurs(o, t)
      BY <1>2, <2>1, Zenon
    <2>3. ((k[o] + Occurs(o, s)) + Occurs(o, t)) - Occurs(o, w) = k[o]
      BY <1>1, <2>2
    <2> QED
      BY <2>1, <2>3, Zenon
  <1>4. Minus(Plus(Plus(k, s), t), s \o t)
          = [o \in Objects |-> ((k[o] + Occurs(o, s)) + Occurs(o, t)) - Occurs(o, s \o t)]
    BY DEF Plus, Minus
  <1>5. k = [o \in Objects |-> k[o]]
    BY DEF Clones
  <1> QED
    BY <1>3, <1>4, <1>5, Zenon

(* anon_scalar_clone changes the count of clones and no stack.             *)
LEMMA ClonedIs ==
  ASSUME NEW s, NEW h, NEW list, NEW m, m = [stack |-> s, held |-> h]
  PROVE  Cloned(m, list) = [stack |-> s, held |-> Plus(h, list)]
  BY DEF Cloned, Plus

(* The functions of stack.h keep the account.                              *)
LEMMA SoundCloned ==
  ASSUME NEW m, NEW k \in Clones, Sound(m, k), NEW list \in Seq(Values)
  PROVE  Sound(Cloned(m, list), Plus(k, list)) /\ Cloned(m, list).stack = m.stack
  <1>1. PICK s \in Stacks, h \in Clones : m = [stack |-> s, held |-> h]
    BY SoundFacts
  <1>2. Cloned(m, list) = [stack |-> s, held |-> Plus(h, list)]
    BY <1>1 DEF Cloned, Plus
  <1>3. Plus(h, list) \in Clones
    BY PlusMinus
  <1>4. \A o \in Objects : h[o] = k[o] + InStack(s, o)
    BY <1>1, SoundFacts
  <1>5. \A o \in Objects : k[o] \in Int /\ InStack(s, o) \in Int /\ Occurs(o, list) \in Int
    BY InStackNat, OccursNat DEF Clones
  <1>6. \A o \in Objects : h[o] + Occurs(o, list) = (k[o] + Occurs(o, list)) + InStack(s, o)
    BY <1>4, <1>5
  <1>7. \A o \in Objects : Plus(h, list)[o] = Plus(k, list)[o] + InStack(s, o)
    BY <1>6 DEF Plus
  <1> QED
    BY <1>1, <1>2, <1>3, <1>7 DEF Sound

(* anon_scalar_destroy takes the values of the list out of the account.    *)
LEMMA SoundDestroyed ==
  ASSUME NEW m, NEW k \in Clones, Sound(m, k), NEW list \in Seq(Values)
  PROVE  Sound(Destroyed(m, list), Minus(k, list)) /\ Destroyed(m, list).stack = m.stack
  <1>1. PICK s \in Stacks, h \in Clones : m = [stack |-> s, held |-> h]
    BY SoundFacts
  <1>2. Destroyed(m, list) = [stack |-> s, held |-> Minus(h, list)]
    BY <1>1 DEF Destroyed, Minus
  <1>3. Minus(h, list) \in Clones
    BY PlusMinus
  <1>4. \A o \in Objects : h[o] = k[o] + InStack(s, o)
    BY <1>1, SoundFacts
  <1>5. \A o \in Objects : k[o] \in Int /\ InStack(s, o) \in Int /\ Occurs(o, list) \in Int
    BY InStackNat, OccursNat DEF Clones
  <1>6. \A o \in Objects : h[o] - Occurs(o, list) = (k[o] - Occurs(o, list)) + InStack(s, o)
    BY <1>4, <1>5
  <1>7. \A o \in Objects : Minus(h, list)[o] = Minus(k, list)[o] + InStack(s, o)
    BY <1>6 DEF Minus
  <1> QED
    BY <1>1, <1>2, <1>3, <1>7 DEF Sound

(* STACK_POP without results: what is popped leaves the account.           *)
LEMMA SoundPoppedAway ==
  ASSUME NEW m, NEW k \in Clones, Sound(m, k), NEW n \in 0 .. m.stack.count
  PROVE  /\ Sound(PoppedAway(m, n), k)
         /\ PoppedAway(m, n).stack = Cut(m.stack, n)
         /\ PoppedAway(m, n).stack.count = m.stack.count - n
  <1>1. PICK s \in Stacks, h \in Clones : m = [stack |-> s, held |-> h]
    BY SoundFacts
  <1>2. m.stack = s /\ m.held = h
    BY <1>1
  <1>3. PICK list \in Seq(Values) : list = Top(m, n)
    BY <1>2, TopCounted
  <1>4. PoppedAway(m, n) = [stack |-> Cut(s, n), held |-> Minus(h, list)]
    <2>1. PoppedAway(m, n) = [Destroyed(m, list) EXCEPT !.stack = Cut(s, n)]
      BY <1>2, <1>3, Zenon DEF PoppedAway
    <2>2. Destroyed(m, list) = [stack |-> s, held |-> Minus(h, list)]
      BY <1>1 DEF Destroyed, Minus
    <2> QED
      BY <2>1, <2>2
  <1>5. Cut(s, n) \in Stacks /\ Cut(s, n).count = s.count - n
    BY <1>2, CutBelow
  <1>6. \A o \in Objects : h[o] = k[o] + InStack(s, o)
    BY <1>1, SoundFacts
  <1>7. \A o \in Objects : k[o] \in Int /\ InStack(Cut(s, n), o) \in Int /\ Occurs(o, list) \in Int
    BY <1>5, InStackNat, OccursNat DEF Clones
  <1>8. \A o \in Objects : InStack(s, o) = InStack(Cut(s, n), o) + Occurs(o, list)
    BY <1>2, <1>3, TopAndCut
  <1>9. \A o \in Objects : h[o] - Occurs(o, list) = k[o] + InStack(Cut(s, n), o)
    BY <1>6, <1>7, <1>8
  <1>10. \A o \in Objects : Minus(h, list)[o] = k[o] + InStack(Cut(s, n), o)
    BY <1>9 DEF Minus
  <1>11. Minus(h, list) \in Clones
    BY PlusMinus
  <1> QED
    BY <1>1, <1>2, <1>4, <1>5, <1>10, <1>11 DEF Sound

(* STACK_POP with results: what is popped is the caller's to destroy.      *)
LEMMA SoundPopped ==
  ASSUME NEW m, NEW k \in Clones, Sound(m, k), NEW n \in 0 .. m.stack.count
  PROVE  /\ Sound(Popped(m, n), Plus(k, Top(m, n)))
         /\ Popped(m, n).stack = Cut(m.stack, n)
         /\ Popped(m, n).stack.count = m.stack.count - n
  <1>1. PICK s \in Stacks, h \in Clones : m = [stack |-> s, held |-> h]
    BY SoundFacts
  <1>2. m.stack = s /\ m.held = h
    BY <1>1
  <1>3. PICK list \in Seq(Values) : list = Top(m, n)
    BY <1>2, TopCounted
  <1>4. Popped(m, n) = [stack |-> Cut(s, n), held |-> Minus(Plus(h, list), list)]
    <2>1. Popped(m, n) = [Destroyed(Cloned(m, list), list) EXCEPT !.stack = Cut(s, n)]
      BY <1>2, <1>3, Zenon DEF Popped
    <2>2. Cloned(m, list) = [stack |-> s, held |-> Plus(h, list)]
      BY <1>1 DEF Cloned, Plus
    <2>3. Destroyed(Cloned(m, list), list) = [stack |-> s, held |-> Minus(Plus(h, list), list)]
      BY <2>2 DEF Destroyed, Minus
    <2> QED
      BY <2>1, <2>3
  <1>5. Cut(s, n) \in Stacks /\ Cut(s, n).count = s.count - n
    BY <1>2, CutBelow
  <1>6. \A o \in Objects : h[o] = k[o] + InStack(s, o)
    BY <1>1, SoundFacts
  <1>7. \A o \in Objects : k[o] \in Int /\ InStack(Cut(s, n), o) \in Int /\ Occurs(o, list) \in Int
    BY <1>5, InStackNat, OccursNat DEF Clones
  <1>8. \A o \in Objects : InStack(s, o) = InStack(Cut(s, n), o) + Occurs(o, list)
    BY <1>2, <1>3, TopAndCut
  <1>9. \A o \in Objects : h[o] = (k[o] + Occurs(o, list)) + InStack(Cut(s, n), o)
    BY <1>6, <1>7, <1>8
  <1>10. \A o \in Objects : h[o] = Plus(k, list)[o] + InStack(Cut(s, n), o)
    BY <1>9 DEF Plus
  <1>11. Minus(Plus(h, list), list) = h
    BY PlusMinus
  <1>12. Popped(m, n) = [stack |-> Cut(s, n), held |-> h]
    BY <1>4, <1>11
  <1> QED
    BY <1>1, <1>2, <1>3, <1>5, <1>10, <1>12 DEF Sound

(* A push keeps the account too: what it clones is on the stack, or nothing *)
(* happens.                                                                *)
LEMMA SoundPushed ==
  ASSUME NEW m, NEW k \in Clones, Sound(m, k), NEW list \in Seq(Values),
         m.stack.count + Len(list) <= MaxAllocated + 1
  PROVE  /\ Sound(Pushed(m, list), k)
         /\ Refused(m.stack, Len(list)) => Pushed(m, list).stack = m.stack
         /\ ~ Refused(m.stack, Len(list)) => Pushed(m, list).stack = Placed(m.stack, list)
         /\ Pushed(m, list).stack.count \in Nat
         /\ Pushed(m, list).stack.count <= m.stack.count + Len(list)
  <1>1. PICK s \in Stacks, h \in Clones : m = [stack |-> s, held |-> h]
    BY SoundFacts
  <1>2. m.stack = s /\ m.held = h
    BY <1>1
  <1>3. PICK n \in Nat : n = Len(list)
    BY LenProperties
  <1>4. s.count \in Nat
    BY StackFacts
  <1>5. CASE Refused(s, n)
    <2>1. Pushed(m, list) = m
      BY <1>2, <1>3, <1>5, Zenon DEF Pushed
    <2> QED
      BY <1>2, <1>3, <1>4, <1>5, <2>1
  <1>6. CASE ~ Refused(s, n)
    <2>1. PICK stale : stale = [i \in 1 .. Len(list) |-> Slot(m.stack, m.stack.count + i - 1)]
      OBVIOUS
    <2>2. Pushed(m, list) = [Cloned(Destroyed(m, stale), list) EXCEPT !.stack = Placed(s, list)]
      <3>1. ~ Refused(m.stack, Len(list))
        BY <1>2, <1>3, <1>6
      <3>2. Pushed(m, list) = [Cloned(Destroyed(m, stale), list) EXCEPT !.stack = Placed(m.stack, list)]
        BY <2>1, <3>1, Zenon DEF Pushed
      <3>3. Placed(m.stack, list) = Placed(s, list)
        BY <1>2
      <3> QED
        BY <3>2, <3>3
    <2>3. Destroyed(m, stale) = [stack |-> s, held |-> Minus(h, stale)]
      BY <1>1 DEF Destroyed, Minus
    <2>4. Minus(h, stale) = h
      <3>1. \A o \in Objects : Occurs(o, stale) = 0
        BY <1>2, <1>3, <2>1, NothingStale
      <3>2. \A o \in Objects : h[o] \in Int
        BY DEF Clones
      <3>3. \A o \in Objects : h[o] - Occurs(o, stale) = h[o]
        BY <3>1, <3>2
      <3>4. h = [o \in Objects |-> h[o]]
        BY DEF Clones
      <3> QED
        BY <3>3, <3>4 DEF Minus
    <2>5. Cloned(Destroyed(m, stale), list) = [stack |-> s, held |-> Plus(h, list)]
      <3>1. PICK d : d = Destroyed(m, stale)
        OBVIOUS
      <3>2. d = [stack |-> s, held |-> h]
        BY <2>3, <2>4, <3>1
      <3>3. Cloned(d, list) = [stack |-> s, held |-> Plus(h, list)]
        BY <3>2, ClonedIs
      <3> QED
        BY <3>1, <3>3
    <2>6. Pushed(m, list) = [stack |-> Placed(s, list), held |-> Plus(h, list)]
      BY <2>2, <2>5
    <2>7. /\ Placed(s, list) \in Stacks
          /\ Placed(s, list).count = s.count + n
          /\ \A v : InStack(Placed(s, list), v) = InStack(s, v) + Occurs(v, list)
      BY <1>2, <1>3, <1>6, PlacedAbove
    <2>8. \A o \in Objects : h[o] = k[o] + InStack(s, o)
      BY <1>1, SoundFacts
    <2>9. \A o \in Objects : k[o] \in Int /\ InStack(s, o) \in Int /\ Occurs(o, list) \in Int
      BY InStackNat, OccursNat DEF Clones
    <2>10. \A o \in Objects : h[o] + Occurs(o, list) = k[o] + InStack(Placed(s, list), o)
      BY <2>7, <2>8, <2>9
    <2>11. \A o \in Objects : Plus(h, list)[o] = k[o] + InStack(Placed(s, list), o)
      BY <2>10 DEF Plus
    <2>12. Plus(h, list) \in Clones
      BY PlusMinus
    <2>13. Sound(Pushed(m, list), k) /\ Pushed(m, list).stack = Placed(s, list)
      BY <2>6, <2>7, <2>11, <2>12 DEF Sound
    <2> QED
      BY <1>2, <1>3, <1>4, <1>6, <2>7, <2>13
  <1> QED
    BY <1>5, <1>6

(* A new value that is pushed and destroyed leaves the rest as it was.     *)
LEMMA SoundPushNew ==
  ASSUME NEW m, NEW k \in Clones, Sound(m, k), NEW v \in Values,
         m.stack.count <= MaxAllocated
  PROVE  /\ Sound(PushNew(m, v), k)
         /\ Refused(m.stack, 1) => PushNew(m, v).stack = m.stack
         /\ ~ Refused(m.stack, 1) => PushNew(m, v).stack = Placed(m.stack, <<v>>)
  <1>1. PICK list : list = <<v>>
    OBVIOUS
  <1>2. list \in Seq(Values) /\ Len(list) = 1
    BY <1>1
  <1>3. PICK a : a = Cloned(m, list)
    OBVIOUS
  <1>4. Plus(k, list) \in Clones /\ Minus(Plus(k, list), list) = k
    BY <1>2, PlusMinus
  <1>5. Sound(a, Plus(k, list)) /\ a.stack = m.stack
    BY <1>2, <1>3, SoundCloned
  <1>6. PICK b : b = Pushed(a, list)
    OBVIOUS
  <1>7. a.stack.count + Len(list) <= MaxAllocated + 1
    <2>1. m.stack.count \in Nat /\ MaxAllocated \in Nat
      BY SoundFacts, StackAssumption
    <2> QED
      BY <1>2, <1>5, <2>1
  <1>8. /\ Sound(b, Plus(k, list))
        /\ Refused(a.stack, Len(list)) => b.stack = a.stack
        /\ ~ Refused(a.stack, Len(list)) => b.stack = Placed(a.stack, list)
    BY <1>2, <1>4, <1>5, <1>6, <1>7, SoundPushed
  <1>9. Sound(Destroyed(b, list), k) /\ Destroyed(b, list).stack = b.stack
    BY <1>2, <1>4, <1>8, SoundDestroyed
  <1>10. PushNew(m, v) = Destroyed(b, list)
    BY <1>1, <1>3, <1>6, Zenon DEF PushNew
  <1> QED
    BY <1>1, <1>2, <1>5, <1>8, <1>9, <1>10

-----------------------------------------------------------------------------
(* The places on all stacks                                                *)

Mine(st, c, o) == {c} \X Where(st[c].items, 0, st[c].count - 1, o)

Others(st, c, o) == UNION {Mine(st, d, o) : d \in Owners \ {c}}

PlacesOf(st, o) ==
  {x \in UNION {{c} \X (0 .. st[c].count - 1) : c \in Owners} : st[x[1]].items[x[2]] = o}

Total(st, o) == Cardinality(PlacesOf(st, o))

(* The places of an object on one stack are as many as its slots say.      *)
LEMMA MineCounted ==
  ASSUME NEW st \in [Owners -> Stacks], NEW c \in Owners, NEW o
  PROVE  IsFiniteSet(Mine(st, c, o)) /\ Cardinality(Mine(st, c, o)) = InStack(st[c], o)
  <1>1. st[c].count - 1 \in Int /\ 0 \in Int
    BY StackFacts
  <1>2. PICK W : W = Where(st[c].items, 0, st[c].count - 1, o)
    OBVIOUS
  <1>3. IsFiniteSet(W) /\ Cardinality(W) = InStack(st[c], o) /\ Cardinality(W) \in Nat
    BY <1>1, <1>2, CountFinite DEF CountIn, InStack
  <1>4. IsFiniteSet({c}) /\ Cardinality({c}) = 1
    BY FS_Singleton
  <1>5. IsFiniteSet({c} \X W) /\ Cardinality({c} \X W) = Cardinality({c}) * Cardinality(W)
    BY <1>3, <1>4, FS_Product, Zenon
  <1>6. 1 * Cardinality(W) = Cardinality(W)
    BY <1>3
  <1>7. Cardinality({c} \X W) = Cardinality(W)
    BY <1>4, <1>5, <1>6, Zenon
  <1> QED
    BY <1>2, <1>3, <1>5, <1>7 DEF Mine

(* Its places on the other stacks are finitely many.                       *)
LEMMA OthersFinite ==
  ASSUME NEW st \in [Owners -> Stacks], NEW c \in Owners, NEW o
  PROVE  IsFiniteSet(Others(st, c, o)) /\ Cardinality(Others(st, c, o)) \in Nat
  <1> DEFINE I == Owners \ {c}
             F == [d \in I |-> Mine(st, d, o)]
  <1>1. IsFiniteSet(I)
    BY FS_Subset, StackAssumption
  <1>2. F \in Surjection(I, {Mine(st, d, o) : d \in I})
    BY Zenon DEF Surjection
  <1>3. \A T \in {Mine(st, d, o) : d \in I} : IsFiniteSet(T)
    BY MineCounted
  <1> HIDE DEF I
  <1>4. IsFiniteSet({Mine(st, d, o) : d \in I})
    BY <1>1, <1>2, FS_Surjection
  <1>5. IsFiniteSet(UNION {Mine(st, d, o) : d \in I})
    BY <1>3, <1>4, FS_UNION
  <1> QED
    BY <1>5, FS_CardinalityType DEF Others, I

(* All its places are those on one stack and those on the others.          *)
LEMMA PlacesSplit ==
  ASSUME NEW st \in [Owners -> Stacks], NEW c \in Owners, NEW o
  PROVE  /\ IsFiniteSet(PlacesOf(st, o))
         /\ Total(st, o) = Cardinality(Others(st, c, o)) + InStack(st[c], o)
  <1>1. PlacesOf(st, o) = Others(st, c, o) \cup Mine(st, c, o)
    <2>1. ASSUME NEW x \in PlacesOf(st, o)
          PROVE  x \in Others(st, c, o) \cup Mine(st, c, o)
      <3>1. PICK d \in Owners : x \in {d} \X (0 .. st[d].count - 1)
        BY DEF PlacesOf
      <3>2. x \in Mine(st, d, o)
        <4>1. PICK i \in 0 .. st[d].count - 1 : x = <<d, i>>
          BY <3>1
        <4>2. st[x[1]].items[x[2]] = o
          BY DEF PlacesOf
        <4>3. st[d].items[i] = o
          BY <4>1, <4>2
        <4>4. i \in Where(st[d].items, 0, st[d].count - 1, o)
          BY <4>3 DEF Where
        <4> QED
          BY <4>1, <4>4 DEF Mine
      <3> QED
        BY <3>2 DEF Others
    <2>2. ASSUME NEW x, NEW d \in Owners, x \in Mine(st, d, o)
          PROVE  x \in PlacesOf(st, o)
      <3>1. PICK i \in 0 .. st[d].count - 1 : x = <<d, i>> /\ st[d].items[i] = o
        BY <2>2 DEF Mine, Where
      <3>2. x \in {d} \X (0 .. st[d].count - 1)
        BY <3>1
      <3>3. st[x[1]].items[x[2]] = o
        BY <3>1
      <3> QED
        BY <3>2, <3>3 DEF PlacesOf
    <2>3. ASSUME NEW x \in Others(st, c, o) \cup Mine(st, c, o)
          PROVE  x \in PlacesOf(st, o)
      <3>1. \E d \in Owners : x \in Mine(st, d, o)
        BY DEF Others
      <3> QED
        BY <2>2, <3>1
    <2> QED
      BY <2>1, <2>3
  <1>2. Others(st, c, o) \cap Mine(st, c, o) = {}
    <2>1. ASSUME NEW x \in Others(st, c, o)
          PROVE  x \notin Mine(st, c, o)
      <3>1. PICK d \in Owners \ {c} : x \in Mine(st, d, o)
        BY DEF Others
      <3>2. x[1] = d
        BY <3>1 DEF Mine
      <3>3. x \in Mine(st, c, o) => x[1] = c
        BY DEF Mine
      <3> QED
        BY <3>2, <3>3
    <2> QED
      BY <2>1
  <1>3. PICK S, T : S = Others(st, c, o) /\ T = Mine(st, c, o)
    OBVIOUS
  <1>4. IsFiniteSet(S) /\ Cardinality(S) \in Nat /\ IsFiniteSet(T) /\ Cardinality(T) = InStack(st[c], o)
    BY <1>3, OthersFinite, MineCounted
  <1>5. InStack(st[c], o) \in Nat
    BY InStackNat
  <1>6. IsFiniteSet(S \cup T) /\ Cardinality(S \cup T) = Cardinality(S) + Cardinality(T) - Cardinality(S \cap T)
    BY <1>4, FS_Union, Zenon
  <1>7. Cardinality(S \cap T) = 0
    BY <1>2, <1>3, FS_EmptySet, Zenon
  <1>8. Cardinality(S \cup T) = Cardinality(S) + InStack(st[c], o)
    BY <1>4, <1>5, <1>6, <1>7
  <1> QED
    BY <1>1, <1>3, <1>6, <1>8 DEF Total

(* One stack is replaced by another.                                       *)
LEMMA TotalNat ==
  ASSUME NEW st \in [Owners -> Stacks], NEW o
  PROVE  Total(st, o) \in Nat
  <1>1. IsFiniteSet(PlacesOf(st, o))
    BY PlacesSplit, StackAssumption
  <1> QED
    BY <1>1, FS_CardinalityType DEF Total

Replaced(new, st, c, s) == new = [st EXCEPT ![c] = s]

(* When one stack is replaced, the total changes by what that stack gains  *)
(* or loses.                                                               *)
LEMMA TotalChanges ==
  ASSUME NEW st \in [Owners -> Stacks], NEW c \in Owners, NEW s \in Stacks, NEW o,
         NEW new, Replaced(new, st, c, s)
  PROVE  /\ new \in [Owners -> Stacks]
         /\ Total(new, o) = (Total(st, o) - InStack(st[c], o)) + InStack(s, o)
         /\ Total(new, o) \in Nat
         /\ Total(st, o) \in Nat
         /\ Total(st, o) >= InStack(st[c], o)
  <1>1. new \in [Owners -> Stacks]
    BY DEF Replaced
  <1>2. new[c] = s /\ \A d \in Owners \ {c} : new[d] = st[d]
    BY DEF Replaced
  <1>3. Others(new, c, o) = Others(st, c, o)
    <2>1. \A d \in Owners \ {c} : Mine(new, d, o) = Mine(st, d, o)
      BY <1>2 DEF Mine
    <2> QED
      BY <2>1 DEF Others
  <1>4. Total(new, o) = Cardinality(Others(new, c, o)) + InStack(new[c], o)
    BY <1>1, PlacesSplit
  <1>5. Total(st, o) = Cardinality(Others(st, c, o)) + InStack(st[c], o)
    BY PlacesSplit
  <1>6. Cardinality(Others(st, c, o)) \in Nat
    BY OthersFinite
  <1>7. InStack(st[c], o) \in Nat /\ InStack(s, o) \in Nat
    BY InStackNat
  <1>8. /\ Total(new, o) = (Total(st, o) - InStack(st[c], o)) + InStack(s, o)
        /\ Total(new, o) \in Nat /\ Total(st, o) \in Nat /\ Total(st, o) >= InStack(st[c], o)
    BY <1>2, <1>3, <1>4, <1>5, <1>6, <1>7
  <1> QED
    BY <1>1, <1>8

-----------------------------------------------------------------------------
(* Stack: the account of the clones                                        *)

Accounted(st, h, l) == \A o \in Objects : h[o] = l[o] + Total(st, o)

(* Stacks are well-formed, a context that is not running has an empty one,  *)
(* and the clones add up over all stacks.                                  *)
StackIInv ==
  /\ stacks \in [Owners -> Stacks]
  /\ started \subseteq Owners
  /\ \A c \in Owners \ started : stacks[c].count = 0
  /\ held \in [Objects -> Nat]
  /\ leaked \in [Objects -> Nat]
  /\ status \in {"ok", "aborted", "wild"}
  /\ Accounted(stacks, held, leaked)

(* The clones that are not on the stack of c.                              *)
Elsewhere(c) == [o \in Objects |-> held[o] - InStack(stacks[c], o)]

(* A context's stack is sound for the account of everything elsewhere.     *)
LEMMA OfSound ==
  ASSUME StackIInv, NEW c \in Owners
  PROVE  /\ Elsewhere(c) \in Clones
         /\ Sound(Of(c), Elsewhere(c))
         /\ Of(c).stack = stacks[c]
         /\ Of(c).stack.count = Depth(c)
         /\ Depth(c) \in Nat
         /\ Depth(c) <= Allocated(stacks[c])
         /\ Depth(c) <= MaxAllocated
         /\ MaxAllocated \in Nat
  <1>1. stacks[c] \in Stacks /\ held \in [Objects -> Nat]
    BY DEF StackIInv
  <1>2. \A o \in Objects : held[o] \in Int /\ InStack(stacks[c], o) \in Int
    BY <1>1, InStackNat
  <1>3. \A o \in Objects : held[o] - InStack(stacks[c], o) \in Int
                            /\ held[o] = (held[o] - InStack(stacks[c], o)) + InStack(stacks[c], o)
    BY <1>2
  <1>4. Elsewhere(c) \in Clones
    BY <1>3 DEF Elsewhere, Clones
  <1>5. held \in Clones
    BY <1>1 DEF Clones
  <1>6. Of(c) = [stack |-> stacks[c], held |-> held]
    BY DEF Of
  <1>7. Of(c).stack = stacks[c] /\ Of(c).held = held
    BY <1>6
  <1>8. \A o \in Objects : held[o] = Elsewhere(c)[o] + InStack(stacks[c], o)
    BY <1>3 DEF Elsewhere
  <1>9. Sound(Of(c), Elsewhere(c))
    BY <1>1, <1>5, <1>6, <1>7, <1>8 DEF Sound
  <1>10. MaxAllocated \in Nat
    BY StackAssumption
  <1>11. stacks[c].count \in Nat /\ Allocated(stacks[c]) \in 0 .. MaxAllocated
           /\ stacks[c].count <= Allocated(stacks[c])
    BY <1>1, StackFacts
  <1> QED
    BY <1>4, <1>7, <1>9, <1>10, <1>11 DEF Depth

(* One stack changes, and the clones with it.                              *)
Balanced(c, s, h, l) ==
  /\ h = [o \in Objects |-> h[o]]
  /\ \A o \in Objects : h[o] = (Elsewhere(c)[o] + InStack(s, o)) + (l[o] - leaked[o])

(* A change that balances one stack balances all.                          *)
LEMMA OneStackChanges ==
  ASSUME StackIInv, NEW c \in Owners, NEW s \in Stacks, NEW h, NEW l \in [Objects -> Nat],
         Balanced(c, s, h, l)
  PROVE  /\ [stacks EXCEPT ![c] = s] \in [Owners -> Stacks]
         /\ Accounted([stacks EXCEPT ![c] = s], h, l)
         /\ h \in [Objects -> Nat]
  <1>1. /\ stacks \in [Owners -> Stacks]
        /\ held \in [Objects -> Nat] /\ leaked \in [Objects -> Nat]
        /\ \A o \in Objects : held[o] = leaked[o] + Total(stacks, o)
    BY DEF StackIInv, Accounted
  <1>2. PICK new \in [Owners -> Stacks] : new = [stacks EXCEPT ![c] = s]
    BY <1>1
  <1>3. ASSUME NEW o \in Objects
        PROVE  h[o] \in Nat /\ h[o] = l[o] + Total(new, o)
    <2>2. /\ Total(new, o) = (Total(stacks, o) - InStack(stacks[c], o)) + InStack(s, o)
          /\ Total(new, o) \in Nat /\ Total(stacks, o) \in Nat
      <3>1. Replaced(new, stacks, c, s)
        BY <1>2 DEF Replaced
      <3>2. stacks \in [Owners -> Stacks]
        BY <1>1
      <3>3. Total(new, o) = (Total(stacks, o) - InStack(stacks[c], o)) + InStack(s, o)
        BY <3>1, <3>2, TotalChanges, SMTT(20)
      <3>4. Total(new, o) \in Nat
        BY <3>1, <3>2, TotalChanges, SMTT(20)
      <3>5. Total(stacks, o) \in Nat
        BY <3>2, TotalNat
      <3> QED
        BY <3>3, <3>4, <3>5
    <2>3. InStack(stacks[c], o) \in Nat /\ InStack(s, o) \in Nat
      BY <1>1, InStackNat
    <2>4. Elsewhere(c)[o] = held[o] - InStack(stacks[c], o)
      BY DEF Elsewhere
    <2>5. held[o] = leaked[o] + Total(stacks, o) /\ leaked[o] \in Nat /\ l[o] \in Nat /\ held[o] \in Nat
      BY <1>1
    <2>6. h[o] = (Elsewhere(c)[o] + InStack(s, o)) + (l[o] - leaked[o])
      BY DEF Balanced
    <2>8. PICK x : x = h[o]
      OBVIOUS
    <2>9. x = ((held[o] - InStack(stacks[c], o)) + InStack(s, o)) + (l[o] - leaked[o])
      BY <2>4, <2>6, <2>8, Zenon
    <2>7. h[o] \in Nat /\ h[o] = l[o] + Total(new, o)
      BY <2>2, <2>3, <2>5, <2>8, <2>9
    <2> QED
      BY <2>7
  <1>4. h \in [Objects -> Nat]
    BY <1>3 DEF Balanced
  <1> QED
    BY <1>2, <1>3, <1>4 DEF Accounted

(* An instruction that ends with a sound stack keeps the invariant.        *)
LEMMA BecomeKeeps ==
  ASSUME StackIInv, NEW c \in Owners, c \in started, NEW m, Sound(m, Elsewhere(c)), Become(c, m)
  PROVE  StackIInv'
  <1>1. /\ stacks \in [Owners -> Stacks] /\ started \subseteq Owners
        /\ \A d \in Owners \ started : stacks[d].count = 0
        /\ leaked \in [Objects -> Nat] /\ status \in {"ok", "aborted", "wild"}
    BY DEF StackIInv
  <1>2. PICK s \in Stacks, h \in Clones : m = [stack |-> s, held |-> h]
    BY SoundFacts
  <1>3. /\ stacks' = [stacks EXCEPT ![c] = s] /\ held' = h
        /\ started' = started /\ leaked' = leaked /\ status' = status
    BY <1>2 DEF Become
  <1>4. \A o \in Objects : h[o] = Elsewhere(c)[o] + InStack(s, o) /\ h[o] \in Int
    BY <1>2, SoundFacts
  <1>5. Elsewhere(c) \in Clones
    BY OfSound
  <1>6. \A o \in Objects : h[o] = (Elsewhere(c)[o] + InStack(s, o)) + (leaked[o] - leaked[o])
    <2>1. \A o \in Objects : leaked[o] \in Int /\ h[o] + (leaked[o] - leaked[o]) = h[o]
      BY <1>1, <1>4
    <2> QED
      BY <1>4, <2>1
  <1>7. Balanced(c, s, h, leaked)
    BY <1>6 DEF Balanced, Clones
  <1>8. /\ [stacks EXCEPT ![c] = s] \in [Owners -> Stacks]
        /\ Accounted([stacks EXCEPT ![c] = s], h, leaked)
        /\ h \in [Objects -> Nat]
    BY <1>1, <1>7, OneStackChanges
  <1>9. \A d \in Owners \ started : [stacks EXCEPT ![c] = s][d].count = 0
    BY <1>1
  <1> QED
    BY <1>1, <1>3, <1>8, <1>9 DEF StackIInv

(* So does one that stops the program.                                     *)
LEMMA StopsKeeps ==
  ASSUME StackIInv, NEW how \in {"aborted", "wild"}, Stops(how)
  PROVE  StackIInv'
  BY DEF StackIInv, Stops

(* At the start the stacks are empty and no clone is alive.                *)
LEMMA StackInitIInv ==
  StackInit => StackIInv
  <1> SUFFICES ASSUME StackInit PROVE StackIInv
    OBVIOUS
  <1>1. First \in Owners
    BY StackAssumption
  <1>2. stacks \in [Owners -> Stacks] /\ \A c \in Owners : stacks[c].count = 0
    BY NewStacks DEF StackInit
  <1>3. /\ started \subseteq Owners /\ held \in [Objects -> Nat] /\ leaked \in [Objects -> Nat]
        /\ status = "ok" /\ \A o \in Objects : held[o] = 0 /\ leaked[o] = 0
    BY <1>1 DEF StackInit
  <1>4. ASSUME NEW o \in Objects
        PROVE  Total(stacks, o) = 0
    <2>1. \A c \in Owners : 0 .. stacks[c].count - 1 = {}
      BY <1>2
    <2>2. PlacesOf(stacks, o) = {}
      BY <2>1 DEF PlacesOf
    <2> QED
      BY <2>2, FS_EmptySet DEF Total
  <1>5. Accounted(stacks, held, leaked)
    BY <1>3, <1>4 DEF Accounted
  <1> QED
    BY <1>2, <1>3, <1>5 DEF StackIInv

-----------------------------------------------------------------------------
(* The instructions keep the account                                       *)

(* A literal is pushed, or there is no memory for it.                      *)
LEMMA LiteralKeeps ==
  ASSUME StackIInv, NEW c \in Owners, Literal(c)
  PROVE  StackIInv'
  <1>1. PICK v \in Values : Become(c, PushNew(Of(c), v))
    BY DEF Literal
  <1>2. PICK k \in Clones : k = Elsewhere(c)
    BY OfSound
  <1>3. Sound(Of(c), k) /\ Of(c).stack.count <= MaxAllocated
    BY <1>2, OfSound
  <1>4. Sound(PushNew(Of(c), v), k)
    BY <1>3, SoundPushNew
  <1>5. c \in started
    BY DEF Literal, Running
  <1> QED
    BY <1>1, <1>2, <1>4, <1>5, BecomeKeeps

(* The operands are destroyed after the result has been pushed.            *)
LEMMA OperateKeeps ==
  ASSUME StackIInv, NEW c \in Owners, NEW n \in 1 .. 2, Operate(c, n)
  PROVE  StackIInv'
  <1>1. PICK v \in Ints : Become(c, Destroyed(PushNew(Popped(Of(c), n), v), Top(Of(c), n)))
    BY DEF Operate
  <1>2. v \in Values
    BY DEF Values
  <1>3. PICK k \in Clones : k = Elsewhere(c)
    BY OfSound
  <1>4. Sound(Of(c), k) /\ Of(c).stack \in Stacks /\ n \in 0 .. Of(c).stack.count
    BY <1>3, OfSound, SoundFacts DEF Operate
  <1>5. PICK list \in Seq(Values) : list = Top(Of(c), n)
    BY <1>4, TopCounted
  <1>6. PICK m : m = Popped(Of(c), n)
    OBVIOUS
  <1>7. Sound(m, Plus(k, list))
    BY <1>4, <1>5, <1>6, SoundPopped
  <1>8. Plus(k, list) \in Clones /\ Minus(Plus(k, list), list) = k
    BY PlusMinus
  <1>9. Sound(PushNew(m, v), Plus(k, list))
    BY <1>2, <1>7, <1>8, SoundFacts, SoundPushNew
  <1>10. Sound(Destroyed(PushNew(m, v), list), k)
    BY <1>8, <1>9, SoundDestroyed
  <1>11. Become(c, Destroyed(PushNew(m, v), list))
    BY <1>1, <1>5, <1>6, Zenon
  <1>12. c \in started
    BY DEF Operate, Running
  <1> QED
    BY <1>3, <1>10, <1>11, <1>12, BecomeKeeps

(* The condition is destroyed after it has been looked at.                 *)
LEMMA BranchKeeps ==
  ASSUME StackIInv, NEW c \in Owners, Branch(c)
  PROVE  StackIInv'
  <1>1. PICK k \in Clones : k = Elsewhere(c)
    BY OfSound
  <1>2. Sound(Of(c), k) /\ Of(c).stack \in Stacks /\ 1 \in 0 .. Of(c).stack.count
    BY <1>1, OfSound, SoundFacts DEF Branch
  <1>3. PICK list \in Seq(Values) : list = Top(Of(c), 1)
    BY <1>2, TopCounted
  <1>4. PICK m : m = Popped(Of(c), 1)
    OBVIOUS
  <1>5. Sound(m, Plus(k, list))
    BY <1>2, <1>3, <1>4, SoundPopped
  <1>6. Plus(k, list) \in Clones /\ Minus(Plus(k, list), list) = k
    BY PlusMinus
  <1>7. Sound(Destroyed(m, list), k)
    BY <1>5, <1>6, SoundDestroyed
  <1>8. Become(c, Destroyed(m, list)) /\ c \in started
    BY <1>3, <1>4, Zenon DEF Branch, Running
  <1> QED
    BY <1>1, <1>7, <1>8, BecomeKeeps

(* The count of ROT and its like is popped, or a value is dropped.         *)
LEMMA CountPoppedSound ==
  ASSUME StackIInv, NEW c \in Owners, Depth(c) >= 1
  PROVE  /\ Sound(CountPopped(c), Elsewhere(c))
         /\ CountPopped(c).stack = Cut(stacks[c], 1)
         /\ CountPopped(c).stack.count = Depth(c) - 1
  <1>1. PICK k \in Clones : k = Elsewhere(c)
    BY OfSound
  <1>2. Sound(Of(c), k) /\ 1 \in 0 .. Of(c).stack.count
    BY <1>1, OfSound
  <1>3. /\ Sound(PoppedAway(Of(c), 1), k)
        /\ PoppedAway(Of(c), 1).stack = Cut(Of(c).stack, 1)
        /\ PoppedAway(Of(c), 1).stack.count = Of(c).stack.count - 1
    BY <1>2, SoundPoppedAway
  <1> QED
    BY <1>1, <1>3, OfSound DEF CountPopped

(* DROP destroys the top.                                                  *)
LEMMA DropKeeps ==
  ASSUME StackIInv, NEW c \in Owners, Drop(c)
  PROVE  StackIInv'
  <1>1. Sound(CountPopped(c), Elsewhere(c))
    BY CountPoppedSound DEF Drop
  <1>2. Become(c, CountPopped(c)) /\ c \in started
    BY DEF Drop, CountPopped, Running
  <1> QED
    BY <1>1, <1>2, BecomeKeeps

(* ROT and TOR without memory destroy the count.                           *)
LEMMA RotateFailsKeeps ==
  ASSUME StackIInv, NEW c \in Owners, RotateFails(c)
  PROVE  StackIInv'
  <1>1. Sound(CountPopped(c), Elsewhere(c))
    BY CountPoppedSound DEF RotateFails, NoMemory
  <1>2. Become(c, CountPopped(c)) /\ c \in started
    BY DEF RotateFails, NoMemory, Running
  <1> QED
    BY <1>1, <1>2, BecomeKeeps

(* REV without memory puts a zero in the place of the count.               *)
LEMMA RevFailsKeeps ==
  ASSUME StackIInv, NEW c \in Owners, RevFails(c)
  PROVE  StackIInv'
  <1>1. PICK k \in Clones : k = Elsewhere(c)
    BY OfSound
  <1>2. Sound(CountPopped(c), k)
    BY <1>1, CountPoppedSound DEF RevFails, NoMemory
  <1>3. 0 \in Values
    BY StackAssumption DEF Values
  <1>4. Sound(PushNew(CountPopped(c), 0), k)
    BY <1>2, <1>3, SoundFacts, SoundPushNew
  <1>5. Become(c, PushNew(CountPopped(c), 0)) /\ c \in started
    BY DEF RevFails, NoMemory, Running
  <1> QED
    BY <1>1, <1>4, <1>5, BecomeKeeps

(* DUP and OVER clone what they copy, or meet a moved block and stop.      *)
LEMMA CopyKeeps ==
  ASSUME StackIInv, NEW c \in Owners, NEW d \in 1 .. 2, Copy(c, d)
  PROVE  StackIInv'
  <1>1. CASE Stops("wild")
    BY <1>1, StopsKeeps
  <1>2. CASE Become(c, Pushed(Of(c), <<stacks[c].items[Depth(c) - d]>>))
    <2>1. PICK k \in Clones : k = Elsewhere(c)
      BY OfSound
    <2>2. Sound(Of(c), k) /\ Of(c).stack.count <= MaxAllocated
      BY <2>1, OfSound
    <2>3. stacks[c] \in Stacks
      BY DEF StackIInv
    <2>4. stacks[c].count \in Nat /\ \A i \in 0 .. stacks[c].count - 1 : stacks[c].items[i] \in Values
      BY <2>3, StackFacts
    <2>5. Depth(c) - d \in 0 .. stacks[c].count - 1
      BY <2>4 DEF Copy, Depth
    <2>6. PICK list : list = <<stacks[c].items[Depth(c) - d]>>
      OBVIOUS
    <2>7. list \in Seq(Values) /\ Len(list) = 1
      BY <2>4, <2>5, <2>6
    <2>8. Of(c).stack.count + Len(list) <= MaxAllocated + 1
      BY <2>2, <2>7, OfSound
    <2>9. Sound(Pushed(Of(c), list), k)
      BY <2>2, <2>7, <2>8, SoundPushed
    <2>10. Become(c, Pushed(Of(c), list)) /\ c \in started
      BY <1>2, <2>6 DEF Copy, Running
    <2> QED
      BY <2>1, <2>9, <2>10, BecomeKeeps
  <1> QED
    BY <1>1, <1>2 DEF Copy

(* Two items change places.                                                *)
LEMMA SwappedSame ==
  ASSUME NEW s \in Stacks, s.count > 1
  PROVE  /\ Swapped(s) \in Stacks
         /\ Swapped(s).count = s.count
         /\ \A i \in 0 .. s.count - 3 : Swapped(s).items[i] = s.items[i]
         /\ Swapped(s).items[s.count - 1] = s.items[s.count - 2]
         /\ Swapped(s).items[s.count - 2] = s.items[s.count - 1]
         /\ \A v : InStack(Swapped(s), v) = InStack(s, v)
  <1>1. PICK k \in Nat : k = s.count /\ k > 1
    BY StackFacts
  <1>2. PICK a \in 0 .. MaxAllocated : a = Allocated(s)
    BY StackFacts
  <1>3. PICK f \in [0 .. a - 1 -> Values] : f = s.items
    BY <1>2, StackFacts
  <1>4. s = [items |-> f, count |-> k] /\ k <= a /\ \A i \in 0 .. a - 1 : i >= k => f[i] = Undef
    BY <1>1, <1>2, <1>3, StackFacts
  <1>5. MaxAllocated \in Nat
    BY StackAssumption
  <1>6. k - 1 \in 0 .. a - 1 /\ k - 2 \in 0 .. a - 1 /\ k - 1 # k - 2 /\ a \in Nat /\ k \in 0 .. a
    BY <1>1, <1>4, <1>5
  <1> DEFINE g == [f EXCEPT ![k - 1] = f[k - 2], ![k - 2] = f[k - 1]]
  <1>7. g \in [0 .. a - 1 -> Values] /\ g[k - 1] = f[k - 2] /\ g[k - 2] = f[k - 1]
    BY <1>6
  <1>8. \A i \in 0 .. a - 1 : i # k - 1 /\ i # k - 2 => g[i] = f[i]
    OBVIOUS
  <1>9. Swapped(s) = [items |-> g, count |-> k]
    <2>1. s.items = f /\ s.count = k
      BY <1>1, <1>3
    <2>2. Swapped(s) = [s EXCEPT !.items = g]
      BY <2>1 DEF Swapped
    <2> HIDE DEF g
    <2> QED
      BY <1>4, <2>2
  <1> HIDE DEF g
  <1>10. \A i \in k .. a - 1 : g[i] = Undef
    BY <1>4, <1>6, <1>8
  <1>11. Swapped(s) \in Stacks
    BY <1>6, <1>7, <1>9, <1>10, StackMade
  <1>12. Swapped(s).items = g /\ Swapped(s).count = k
    BY <1>9
  <1>13. \A i \in 0 .. k - 3 : g[i] = f[i]
    BY <1>6, <1>8
  <1>14. ASSUME NEW v
         PROVE  InStack(Swapped(s), v) = InStack(s, v)
    <2>1. CountIn(f, 0, k - 1, v) = CountIn(f, 0, k - 3, v) + CountIn(f, (k - 3) + 1, k - 1, v)
      BY <1>1, CountSplit
    <2>2. PICK h : h = g
      OBVIOUS
    <2>3. CountIn(h, 0, k - 1, v) = CountIn(h, 0, k - 3, v) + CountIn(h, (k - 3) + 1, k - 1, v)
      BY <1>1, CountSplit
    <2>4. CountIn(h, 0, k - 3, v) = CountIn(f, 0, k - 3, v)
      BY <1>13, <2>2, CountSame
    <2>5. Mirrored(f, h, k - 2, k - 1, (k + k) - 3)
      <3>1. \A i \in k - 2 .. k - 1 : i = k - 2 \/ i = k - 1
        OBVIOUS
      <3>2. ((k + k) - 3) - (k - 1) = k - 2 /\ ((k + k) - 3) - (k - 2) = k - 1
        OBVIOUS
      <3> QED
        BY <1>7, <2>2, <3>1, <3>2 DEF Mirrored
    <2>6. CountIn(h, k - 2, k - 1, v) = CountIn(f, k - 2, k - 1, v)
      <3>1. ((k + k) - 3) - (k - 1) = k - 2 /\ ((k + k) - 3) - (k - 2) = k - 1
        OBVIOUS
      <3>2. k - 1 \in Int /\ k - 2 \in Int /\ (k + k) - 3 \in Int
        OBVIOUS
      <3> QED
        BY <2>5, <3>1, <3>2, CountMirrored
    <2>7. (k - 3) + 1 = k - 2
      OBVIOUS
    <2>8. InStack(s, v) = CountIn(f, 0, k - 1, v) /\ InStack(Swapped(s), v) = CountIn(h, 0, k - 1, v)
      BY <1>1, <1>3, <1>12, <2>2 DEF InStack
    <2> QED
      BY <2>1, <2>3, <2>4, <2>6, <2>7, <2>8
  <1> QED
    BY <1>1, <1>3, <1>7, <1>11, <1>12, <1>13, <1>14

(* SWAP changes no count of clones.                                        *)
LEMMA SwapIs ==
  ASSUME StackIInv, NEW c \in Owners, Swap(c)
  PROVE  Become(c, [stack |-> Swapped(stacks[c]), held |-> held])
  <1>1. Of(c) = [stack |-> stacks[c], held |-> held]
    BY DEF Of
  <1>2. [Of(c) EXCEPT !.stack = Swapped(stacks[c])] = [stack |-> Swapped(stacks[c]), held |-> held]
    BY <1>1
  <1> QED
    BY <1>2 DEF Swap

(* SWAP moves bytes, and with them the clones.                             *)
LEMMA SwapKeeps ==
  ASSUME StackIInv, NEW c \in Owners, Swap(c)
  PROVE  StackIInv'
  <1>1. PICK s \in Stacks : s = stacks[c]
    BY DEF StackIInv
  <1>2. s.count > 1
    BY <1>1 DEF Swap, Depth
  <1>3. Swapped(s) \in Stacks /\ \A v : InStack(Swapped(s), v) = InStack(s, v)
    BY <1>2, SwappedSame
  <1>4. PICK m : m = [stack |-> Swapped(s), held |-> held]
    OBVIOUS
  <1>5. Of(c) = [stack |-> s, held |-> held]
    BY <1>1 DEF Of
  <1>6. held \in Clones /\ \A o \in Objects : held[o] = Elsewhere(c)[o] + InStack(s, o)
    BY <1>5, OfSound DEF Sound
  <1>7. Sound(m, Elsewhere(c))
    BY <1>3, <1>4, <1>6 DEF Sound
  <1>8. Become(c, m) /\ c \in started
    BY <1>1, <1>4, SwapIs DEF Swap, Running
  <1> QED
    BY <1>7, <1>8, BecomeKeeps

-----------------------------------------------------------------------------
(* ROT, TOR and REV                                                        *)

(* ROT pops and pushes the same values.                                    *)
LEMMA RotKeeps ==
  ASSUME StackIInv, NEW c \in Owners, NEW n \in 0 .. Depth(c), Rot(c, n)
  PROVE  StackIInv'
  <1>1. PICK k \in Clones : k = Elsewhere(c)
    BY OfSound
  <1>2. PICK d \in Nat : d = Depth(c) /\ d > n /\ d <= MaxAllocated /\ MaxAllocated \in Nat /\ n \in Nat
    BY OfSound DEF Rot, Enough
  <1>3. c \in started
    BY DEF Rot, Enough, Running
  <1>4. PICK m : m = CountPopped(c)
    OBVIOUS
  <1>5. Sound(m, k) /\ m.stack.count = d - 1 /\ m.stack \in Stacks
    BY <1>1, <1>2, <1>4, CountPoppedSound, SoundFacts
  <1>6. CASE n <= 1
    <2>1. Become(c, m)
      BY <1>2, <1>4, <1>6 DEF Rot
    <2> QED
      BY <1>1, <1>3, <1>5, <2>1, BecomeKeeps
  <1>7. CASE n > 1
    <2>1. 1 \in 0 .. m.stack.count
      BY <1>2, <1>5, <1>7
    <2>2. PICK top \in Seq(Values) : top = Top(m, 1) /\ Len(top) = 1
      BY <1>5, <2>1, TopCounted
    <2>3. PICK m1 : m1 = Popped(m, 1)
      OBVIOUS
    <2>4. Sound(m1, Plus(k, top)) /\ m1.stack.count = d - 2
      BY <1>2, <1>5, <2>1, <2>2, <2>3, SoundPopped
    <2>5. n - 1 \in 0 .. m1.stack.count /\ m1.stack \in Stacks
      BY <1>2, <1>7, <2>4, SoundFacts
    <2>6. PICK others \in Seq(Values) : others = Top(m1, n - 1) /\ Len(others) = n - 1
      BY <2>5, TopCounted
    <2>7. Plus(k, top) \in Clones /\ Plus(Plus(k, top), others) \in Clones
      BY PlusMinus
    <2>8. PICK m2 : m2 = Popped(m1, n - 1)
      OBVIOUS
    <2>9. Sound(m2, Plus(Plus(k, top), others)) /\ m2.stack.count = (d - 2) - (n - 1)
      BY <1>2, <2>4, <2>5, <2>6, <2>7, <2>8, SoundPopped, SMTT(30)
    <2>10. PICK m3 : m3 = Pushed(m2, top)
      OBVIOUS
    <2>11. m2.stack.count + Len(top) <= MaxAllocated + 1
      <3>1. Len(top) = 1 /\ m2.stack.count = (d - 2) - (n - 1)
        BY <2>2, <2>9
      <3> QED
        BY <1>2, <1>7, <3>1
    <2>12. Sound(m3, Plus(Plus(k, top), others)) /\ m3.stack.count <= m2.stack.count + Len(top)
             /\ m3.stack.count \in Nat
      BY <2>7, <2>9, <2>10, <2>11, SoundPushed
    <2>13. m3.stack.count + Len(others) <= MaxAllocated + 1
      <3>1. Len(top) = 1 /\ Len(others) = n - 1 /\ m2.stack.count = (d - 2) - (n - 1)
        BY <2>2, <2>6, <2>9
      <3>2. m3.stack.count <= m2.stack.count + Len(top) /\ m3.stack.count \in Nat
        BY <2>12
      <3> QED
        BY <1>2, <1>7, <3>1, <3>2, SMTT(30)
    <2>14. Sound(Pushed(m3, others), Plus(Plus(k, top), others))
      BY <2>7, <2>12, <2>13, SoundPushed
    <2>15. PICK both \in Seq(Values) : both = top \o others
      BY ConcatProperties, Zenon
    <2>16. Minus(Plus(Plus(k, top), others), both) = k
      BY <2>15, MinusBoth, Zenon
    <2>17. Sound(Destroyed(Pushed(m3, others), both), k)
      BY <2>7, <2>14, <2>16, SoundDestroyed
    <2>18. Become(c, Destroyed(Pushed(m3, others), both))
      <3>1. Become(c, Destroyed(Pushed(Pushed(Popped(Popped(m, 1), n - 1), Top(m, 1)), Top(Popped(m, 1), n - 1)),
                                Top(m, 1) \o Top(Popped(m, 1), n - 1)))
        BY <1>4, <1>7, Zenon DEF Rot
      <3> QED
        BY <2>2, <2>3, <2>6, <2>8, <2>10, <2>15, <3>1, Zenon
    <2> QED
      BY <1>1, <1>3, <2>17, <2>18, BecomeKeeps
  <1> QED
    BY <1>2, <1>6, <1>7

(* So does TOR.                                                            *)
LEMMA TorKeeps ==
  ASSUME StackIInv, NEW c \in Owners, NEW n \in 0 .. Depth(c), Tor(c, n)
  PROVE  StackIInv'
  <1>1. PICK k \in Clones : k = Elsewhere(c)
    BY OfSound
  <1>2. PICK d \in Nat : d = Depth(c) /\ d > n /\ d <= MaxAllocated /\ MaxAllocated \in Nat /\ n \in Nat
    BY OfSound DEF Tor, Enough
  <1>3. c \in started
    BY DEF Tor, Enough, Running
  <1>4. PICK m : m = CountPopped(c)
    OBVIOUS
  <1>5. Sound(m, k) /\ m.stack.count = d - 1 /\ m.stack \in Stacks
    BY <1>1, <1>2, <1>4, CountPoppedSound, SoundFacts
  <1>6. CASE n <= 1
    <2>1. Become(c, m)
      BY <1>2, <1>4, <1>6 DEF Tor
    <2> QED
      BY <1>1, <1>3, <1>5, <2>1, BecomeKeeps
  <1>7. CASE n > 1
    <2>1. n - 1 \in 0 .. m.stack.count
      BY <1>2, <1>5, <1>7
    <2>2. PICK others \in Seq(Values) : others = Top(m, n - 1) /\ Len(others) = n - 1
      BY <1>5, <2>1, TopCounted
    <2>3. PICK m1 : m1 = Popped(m, n - 1)
      OBVIOUS
    <2>4. Sound(m1, Plus(k, others)) /\ m1.stack.count = (d - 1) - (n - 1)
      BY <1>2, <1>5, <2>1, <2>2, <2>3, SoundPopped
    <2>5. 1 \in 0 .. m1.stack.count /\ m1.stack \in Stacks
      BY <1>2, <1>7, <2>4, SoundFacts
    <2>6. PICK bottom \in Seq(Values) : bottom = Top(m1, 1) /\ Len(bottom) = 1
      BY <2>5, TopCounted
    <2>7. Plus(k, others) \in Clones /\ Plus(Plus(k, others), bottom) \in Clones
      BY PlusMinus
    <2>8. PICK m2 : m2 = Popped(m1, 1)
      OBVIOUS
    <2>9. Sound(m2, Plus(Plus(k, others), bottom)) /\ m2.stack.count = ((d - 1) - (n - 1)) - 1
      BY <1>2, <2>4, <2>5, <2>6, <2>7, <2>8, SoundPopped, SMTT(30)
    <2>10. PICK m3 : m3 = Pushed(m2, others)
      OBVIOUS
    <2>11. m2.stack.count + Len(others) <= MaxAllocated + 1
      BY <1>2, <2>2, <2>9
    <2>12. Sound(m3, Plus(Plus(k, others), bottom)) /\ m3.stack.count <= m2.stack.count + Len(others)
             /\ m3.stack.count \in Nat
      BY <2>7, <2>9, <2>10, <2>11, SoundPushed
    <2>13. m3.stack.count + Len(bottom) <= MaxAllocated + 1
      <3>1. Len(bottom) = 1 /\ Len(others) = n - 1 /\ m2.stack.count = ((d - 1) - (n - 1)) - 1
        BY <2>2, <2>6, <2>9
      <3>2. m3.stack.count <= m2.stack.count + Len(others) /\ m3.stack.count \in Nat
        BY <2>12
      <3> QED
        BY <1>2, <1>7, <3>1, <3>2, SMTT(30)
    <2>14. Sound(Pushed(m3, bottom), Plus(Plus(k, others), bottom))
      BY <2>7, <2>12, <2>13, SoundPushed
    <2>15. PICK both \in Seq(Values) : both = others \o bottom
      BY ConcatProperties, Zenon
    <2>16. Minus(Plus(Plus(k, others), bottom), both) = k
      BY <2>15, MinusBoth, Zenon
    <2>17. Sound(Destroyed(Pushed(m3, bottom), both), k)
      BY <2>7, <2>14, <2>16, SoundDestroyed
    <2>18. Become(c, Destroyed(Pushed(m3, bottom), both))
      <3>1. Become(c, Destroyed(Pushed(Pushed(Popped(Popped(m, n - 1), 1), Top(m, n - 1)), Top(Popped(m, n - 1), 1)),
                                Top(m, n - 1) \o Top(Popped(m, n - 1), 1)))
        BY <1>4, <1>7, Zenon DEF Tor
      <3> QED
        BY <2>2, <2>3, <2>6, <2>8, <2>10, <2>15, <3>1, Zenon
    <2> QED
      BY <1>1, <1>3, <2>17, <2>18, BecomeKeeps
  <1> QED
    BY <1>2, <1>6, <1>7

(* So does REV, with the count.                                            *)
LEMMA RevKeeps ==
  ASSUME StackIInv, NEW c \in Owners, NEW n \in 0 .. Depth(c), Rev(c, n)
  PROVE  StackIInv'
  <1>1. PICK k \in Clones : k = Elsewhere(c)
    BY OfSound
  <1>2. PICK d \in Nat : d = Depth(c) /\ d > n /\ d <= MaxAllocated /\ MaxAllocated \in Nat /\ n \in Nat
    BY OfSound DEF Rev, Enough
  <1>3. c \in started
    BY DEF Rev, Enough, Running
  <1>4. Sound(Of(c), k) /\ Of(c).stack.count = d /\ Of(c).stack \in Stacks /\ 1 \in 0 .. Of(c).stack.count
    BY <1>1, <1>2, OfSound, SoundFacts
  <1>5. PICK count \in Seq(Values) : count = Top(Of(c), 1) /\ Len(count) = 1
    BY <1>4, TopCounted
  <1>6. PICK m : m = Popped(Of(c), 1)
    OBVIOUS
  <1>7. Sound(m, Plus(k, count)) /\ m.stack.count = d - 1
    BY <1>4, <1>5, <1>6, SoundPopped
  <1>8. n \in 0 .. m.stack.count /\ m.stack \in Stacks
    BY <1>2, <1>7, SoundFacts
  <1>9. PICK items \in Seq(Values) : items = Top(m, n) /\ Len(items) = n
    BY <1>8, TopCounted
  <1>10. Plus(k, count) \in Clones /\ Plus(Plus(k, count), items) \in Clones
    BY PlusMinus
  <1>11. PICK m1 : m1 = Popped(m, n)
    OBVIOUS
  <1>12. Sound(m1, Plus(Plus(k, count), items)) /\ m1.stack.count = (d - 1) - n
    BY <1>7, <1>8, <1>9, <1>10, <1>11, SoundPopped
  <1>13. PICK turned : turned = [i \in 1 .. n |-> items[n + 1 - i]]
    OBVIOUS
  <1>14. turned \in Seq(Values) /\ Len(turned) = n
    <2>1. \A i \in 1 .. n : items[i] \in Values
      BY <1>9, ElementOfSeq
    <2>2. \A i \in 1 .. n : n + 1 - i \in 1 .. n
      BY <1>2
    <2>3. turned \in [1 .. n -> Values]
      BY <1>13, <2>1, <2>2
    <2> QED
      BY <1>2, <2>3
  <1>15. PICK m2 : m2 = Pushed(m1, turned)
    OBVIOUS
  <1>16. m1.stack.count + Len(turned) <= MaxAllocated + 1
    BY <1>2, <1>12, <1>14
  <1>17. Sound(m2, Plus(Plus(k, count), items)) /\ m2.stack.count <= m1.stack.count + Len(turned)
           /\ m2.stack.count \in Nat
    BY <1>10, <1>12, <1>14, <1>15, <1>16, SoundPushed
  <1>18. PICK m3 : m3 = Destroyed(m2, items)
    OBVIOUS
  <1>19. Minus(Plus(Plus(k, count), items), items) = Plus(k, count) /\ Minus(Plus(k, count), count) = k
    BY <1>10, PlusMinus
  <1>20. Sound(m3, Plus(k, count)) /\ m3.stack = m2.stack
    BY <1>10, <1>17, <1>18, <1>19, SoundDestroyed
  <1>21. m3.stack.count + Len(count) <= MaxAllocated + 1
    <2>1. Len(count) = 1 /\ Len(turned) = n /\ m1.stack.count = (d - 1) - n
      BY <1>5, <1>12, <1>14
    <2>2. m3.stack.count <= m1.stack.count + Len(turned) /\ m3.stack.count \in Nat
      BY <1>17, <1>20
    <2> QED
      BY <1>2, <2>1, <2>2, SMTT(30)
  <1>22. Sound(Pushed(m3, count), Plus(k, count))
    BY <1>10, <1>20, <1>21, SoundPushed
  <1>23. Sound(Destroyed(Pushed(m3, count), count), k)
    BY <1>10, <1>19, <1>22, SoundDestroyed
  <1>24. Become(c, Destroyed(Pushed(m3, count), count))
    <2>1. Become(c, Destroyed(Pushed(Destroyed(Pushed(Popped(m, n), [i \in 1 .. n |-> Top(m, n)[n + 1 - i]]),
                                               Top(m, n)), Top(Of(c), 1)), Top(Of(c), 1)))
      BY <1>6, Zenon DEF Rev
    <2>2. Become(c, Destroyed(Pushed(Destroyed(Pushed(m1, [i \in 1 .. n |-> items[n + 1 - i]]), items), count), count))
      BY <1>5, <1>9, <1>11, <2>1, Zenon
    <2> QED
      BY <1>13, <1>15, <1>18, <2>2, Zenon
  <1> QED
    BY <1>1, <1>3, <1>23, <1>24, BecomeKeeps

-----------------------------------------------------------------------------
(* CORO and END                                                            *)

(* What a context that is being started leaves behind: the parameters are  *)
(* held by nobody's stack, or by the new one.                              *)
LEMMA ParentSound ==
  ASSUME StackIInv, NEW c \in Owners, NEW n \in 0 .. Depth(c), Depth(c) > n
  PROVE  /\ CountPopped(c).stack \in Stacks
         /\ n \in 0 .. CountPopped(c).stack.count
         /\ Top(CountPopped(c), n) \in Seq(Values)
         /\ Len(Top(CountPopped(c), n)) = n
         /\ Sound(Parent(c, n), Plus(Elsewhere(c), Top(CountPopped(c), n)))
         /\ Parent(c, n).stack = Cut(CountPopped(c).stack, n)
  <1>1. PICK k \in Clones : k = Elsewhere(c)
    BY OfSound
  <1>2. Depth(c) \in Nat /\ Depth(c) >= 1
    BY OfSound
  <1>3. PICK m : m = CountPopped(c)
    OBVIOUS
  <1>4. Sound(m, k) /\ m.stack.count = Depth(c) - 1
    BY <1>1, <1>2, <1>3, CountPoppedSound
  <1>5. m.stack \in Stacks /\ n \in 0 .. m.stack.count
    BY <1>2, <1>4, SoundFacts
  <1>6. Top(m, n) \in Seq(Values) /\ Len(Top(m, n)) = n
    BY <1>5, TopCounted
  <1>7. Sound(Popped(m, n), Plus(k, Top(m, n))) /\ Popped(m, n).stack = Cut(m.stack, n)
    BY <1>4, <1>5, SoundPopped
  <1>8. Parent(c, n) = Popped(m, n)
    BY <1>3 DEF Parent
  <1> QED
    BY <1>1, <1>3, <1>5, <1>6, <1>7, <1>8, Zenon

(* The account of the two stacks.                                          *)
LEMMA ChildSound ==
  ASSUME StackIInv, NEW c \in Owners, NEW n \in 0 .. Depth(c), Depth(c) > n
  PROVE  /\ Parent(c, n).stack \in Stacks
         /\ Child(c, n).stack \in Stacks
         /\ Child(c, n).held \in Clones
         /\ Child(c, n) = [stack |-> Child(c, n).stack, held |-> Child(c, n).held]
         /\ \A o \in Objects :
              Child(c, n).held[o]
                = (Elsewhere(c)[o] + InStack(Parent(c, n).stack, o)) + InStack(Child(c, n).stack, o)
         /\ Refused(NewStack, n) => Child(c, n).stack = NewStack
         /\ ~ Refused(NewStack, n) => Child(c, n).stack = Placed(NewStack, Top(CountPopped(c), n))
  <1>1. PICK k \in Clones : k = Elsewhere(c)
    BY OfSound
  <1>2. PICK params \in Seq(Values) : params = Top(CountPopped(c), n) /\ Len(params) = n
    BY ParentSound
  <1>3. PICK p : p = Parent(c, n)
    OBVIOUS
  <1>4. Sound(p, Plus(k, params))
    BY <1>1, <1>2, <1>3, ParentSound
  <1>5. PICK s \in Stacks, h \in Clones : p = [stack |-> s, held |-> h]
    BY <1>4, SoundFacts
  <1>6. \A o \in Objects : h[o] = (k[o] + Occurs(o, params)) + InStack(s, o)
    <2>1. \A o \in Objects : h[o] = Plus(k, params)[o] + InStack(s, o)
      BY <1>4, <1>5, SoundFacts
    <2> QED
      BY <2>1 DEF Plus
  <1>7. PICK child : child = [stack |-> NewStack, held |-> h]
    OBVIOUS
  <1>8. Sound(child, h)
    <2>1. NewStack \in Stacks /\ \A o : InStack(NewStack, o) = 0
      BY NewStacks, InEmpty
    <2>2. \A o \in Objects : h[o] \in Int /\ h[o] = h[o] + 0
      BY DEF Clones
    <2> QED
      BY <1>7, <2>1, <2>2 DEF Sound
  <1>9. child.stack = NewStack /\ child.stack.count = 0
    BY <1>7, NewStacks
  <1>10. child.stack.count + Len(params) <= MaxAllocated + 1
    <2>1. MaxAllocated \in Nat /\ n <= MaxAllocated /\ n \in Nat
      BY OfSound
    <2> QED
      BY <1>2, <1>9, <2>1
  <1>11. PICK full : full = Pushed(child, params)
    OBVIOUS
  <1>12. /\ Sound(full, h)
         /\ Refused(child.stack, Len(params)) => full.stack = child.stack
         /\ ~ Refused(child.stack, Len(params)) => full.stack = Placed(child.stack, params)
    BY <1>8, <1>10, <1>11, SoundPushed
  <1>13. PICK r : r = Destroyed(full, params)
    OBVIOUS
  <1>14. Sound(r, Minus(h, params)) /\ r.stack = full.stack
    BY <1>12, <1>13, SoundDestroyed
  <1>15. r.stack \in Stacks /\ r.held \in Clones /\ r = [stack |-> r.stack, held |-> r.held]
           /\ \A o \in Objects : r.held[o] = Minus(h, params)[o] + InStack(r.stack, o)
    BY <1>14, SoundFacts
  <1>16. \A o \in Objects : r.held[o] = (k[o] + InStack(s, o)) + InStack(r.stack, o)
    <2> TAKE o \in Objects
    <2>1. r.held[o] = (h[o] - Occurs(o, params)) + InStack(r.stack, o)
      BY <1>15 DEF Minus
    <2>2. h[o] = (k[o] + Occurs(o, params)) + InStack(s, o)
      BY <1>6
    <2>3. k[o] \in Int /\ h[o] \in Int
      BY DEF Clones
    <2>4. Occurs(o, params) \in Nat /\ InStack(s, o) \in Nat /\ InStack(r.stack, o) \in Nat
      BY <1>15, OccursNat, InStackNat
    <2> QED
      BY <2>1, <2>2, <2>3, <2>4
  <1>17. Child(c, n) = r
    <2>1. [p EXCEPT !.stack = NewStack] = child
      BY <1>5, <1>7
    <2> QED
      BY <1>2, <1>3, <1>11, <1>13, <2>1, Zenon DEF Child
  <1>18. Parent(c, n).stack = s
    BY <1>3, <1>5
  <1> QED
    BY <1>1, <1>2, <1>9, <1>12, <1>14, <1>15, <1>16, <1>17, <1>18

(* CORO gives the parameters to the new stack, or destroys them.           *)
LEMMA CoroStartsKeeps ==
  ASSUME StackIInv, NEW c \in Owners, NEW d \in Owners, NEW n \in 0 .. Depth(c), CoroStarts(c, d, n)
  PROVE  StackIInv'
  <1>1. /\ stacks \in [Owners -> Stacks] /\ started \subseteq Owners
        /\ \A e \in Owners \ started : stacks[e].count = 0
        /\ held \in [Objects -> Nat] /\ leaked \in [Objects -> Nat]
        /\ status \in {"ok", "aborted", "wild"}
        /\ \A o \in Objects : held[o] = leaked[o] + Total(stacks, o)
    BY DEF StackIInv, Accounted
  <1>2. c \in started /\ d \notin started /\ c # d /\ Depth(c) > n
    BY DEF CoroStarts, MayCoro, Running
  <1>3. PICK ps \in Stacks : ps = Parent(c, n).stack
    BY <1>2, ChildSound
  <1>4. PICK cs \in Stacks : cs = Child(c, n).stack
    BY <1>2, ChildSound
  <1>5. PICK h \in Clones : h = Child(c, n).held
    BY <1>2, ChildSound
  <1>6. \A o \in Objects : h[o] = (Elsewhere(c)[o] + InStack(ps, o)) + InStack(cs, o)
    BY <1>2, <1>3, <1>4, <1>5, ChildSound
  <1>7. /\ stacks' = [stacks EXCEPT ![c] = ps, ![d] = cs] /\ held' = h
        /\ started' = started \cup {d} /\ leaked' = leaked /\ status' = status
    BY <1>3, <1>4, <1>5 DEF CoroStarts
  <1>8. PICK one \in [Owners -> Stacks] : one = [stacks EXCEPT ![c] = ps]
    BY <1>1
  <1>9. PICK two \in [Owners -> Stacks] : two = [one EXCEPT ![d] = cs]
    OBVIOUS
  <1>10. stacks' = two
    BY <1>7, <1>8, <1>9
  <1>11. Replaced(one, stacks, c, ps) /\ Replaced(two, one, d, cs)
    BY <1>8, <1>9 DEF Replaced
  <1>12. one[d] = stacks[d] /\ stacks[d] \in Stacks /\ stacks[d].count = 0
    BY <1>1, <1>2, <1>8
  <1>13. ASSUME NEW o \in Objects
         PROVE  h[o] \in Nat /\ h[o] = leaked[o] + Total(two, o)
    <2>1. Total(one, o) = (Total(stacks, o) - InStack(stacks[c], o)) + InStack(ps, o)
      BY <1>1, <1>11, TotalChanges
    <2>2. Total(two, o) = (Total(one, o) - InStack(one[d], o)) + InStack(cs, o)
      BY <1>11, TotalChanges
    <2>3. InStack(one[d], o) = 0
      BY <1>12, InEmpty
    <2>4. Total(stacks, o) \in Nat /\ Total(one, o) \in Nat /\ Total(two, o) \in Nat
      BY <1>1, TotalNat
    <2>5. InStack(stacks[c], o) \in Nat /\ InStack(ps, o) \in Nat /\ InStack(cs, o) \in Nat
      BY <1>1, InStackNat
    <2>6. Elsewhere(c)[o] = held[o] - InStack(stacks[c], o)
      BY DEF Elsewhere
    <2>7. held[o] = leaked[o] + Total(stacks, o) /\ leaked[o] \in Nat /\ held[o] \in Nat
      BY <1>1
    <2>8. h[o] = (Elsewhere(c)[o] + InStack(ps, o)) + InStack(cs, o)
      BY <1>6
    <2>9. PICK x, y : x = h[o] /\ y = Elsewhere(c)[o]
      OBVIOUS
    <2>10. x = (y + InStack(ps, o)) + InStack(cs, o) /\ y = held[o] - InStack(stacks[c], o)
      BY <2>6, <2>8, <2>9, Zenon
    <2>11. x \in Nat /\ x = leaked[o] + Total(two, o)
      BY <2>1, <2>2, <2>3, <2>4, <2>5, <2>7, <2>10
    <2> QED
      BY <2>9, <2>11
  <1>14. h \in [Objects -> Nat]
    BY <1>13 DEF Clones
  <1>15. \A e \in Owners \ (started \cup {d}) : two[e].count = 0
    BY <1>1, <1>2, <1>8, <1>9
  <1>16. Accounted(two, h, leaked)
    BY <1>13 DEF Accounted
  <1> QED
    BY <1>1, <1>7, <1>10, <1>14, <1>15, <1>16 DEF StackIInv

(* A new stack without contents.                                           *)
LEMMA CoroBareKeeps ==
  ASSUME StackIInv, NEW c \in Owners, NEW d \in Owners, CoroBare(c, d)
  PROVE  StackIInv'
  <1>1. /\ stacks \in [Owners -> Stacks] /\ started \subseteq Owners
        /\ \A e \in Owners \ started : stacks[e].count = 0
        /\ held \in [Objects -> Nat] /\ leaked \in [Objects -> Nat]
        /\ status \in {"ok", "aborted", "wild"}
        /\ \A o \in Objects : held[o] = leaked[o] + Total(stacks, o)
    BY DEF StackIInv, Accounted
  <1>2. c \in started /\ d \notin started /\ c # d /\ Depth(c) >= 1
    BY DEF CoroBare, MayCoro, Running
  <1>3. PICK m : m = CountPopped(c)
    OBVIOUS
  <1>4. Sound(m, Elsewhere(c))
    BY <1>2, <1>3, CountPoppedSound
  <1>5. PICK ps \in Stacks, h \in Clones : m = [stack |-> ps, held |-> h]
    BY <1>4, SoundFacts
  <1>6. \A o \in Objects : h[o] = Elsewhere(c)[o] + InStack(ps, o)
    BY <1>4, <1>5, SoundFacts
  <1>7. /\ stacks' = [stacks EXCEPT ![c] = ps, ![d] = NewStack] /\ held' = h
        /\ started' = started \cup {d} /\ leaked' = leaked /\ status' = status
    BY <1>3, <1>5 DEF CoroBare
  <1>8. PICK one \in [Owners -> Stacks] : one = [stacks EXCEPT ![c] = ps]
    BY <1>1
  <1>9. PICK two \in [Owners -> Stacks] : two = [one EXCEPT ![d] = NewStack]
    BY NewStacks
  <1>10. stacks' = two
    BY <1>7, <1>8, <1>9
  <1>11. Replaced(one, stacks, c, ps) /\ Replaced(two, one, d, NewStack)
    BY <1>8, <1>9 DEF Replaced
  <1>12. one[d] = stacks[d] /\ stacks[d] \in Stacks /\ stacks[d].count = 0
           /\ NewStack \in Stacks /\ NewStack.count = 0
    BY <1>1, <1>2, <1>8, NewStacks
  <1>13. ASSUME NEW o \in Objects
         PROVE  h[o] \in Nat /\ h[o] = leaked[o] + Total(two, o)
    <2>1. Total(one, o) = (Total(stacks, o) - InStack(stacks[c], o)) + InStack(ps, o)
      BY <1>1, <1>11, TotalChanges
    <2>2. Total(two, o) = (Total(one, o) - InStack(one[d], o)) + InStack(NewStack, o)
      BY <1>11, <1>12, TotalChanges
    <2>3. InStack(one[d], o) = 0 /\ InStack(NewStack, o) = 0
      BY <1>12, InEmpty
    <2>4. Total(stacks, o) \in Nat /\ Total(one, o) \in Nat /\ Total(two, o) \in Nat
      BY <1>1, TotalNat
    <2>5. InStack(stacks[c], o) \in Nat /\ InStack(ps, o) \in Nat
      BY <1>1, InStackNat
    <2>6. Elsewhere(c)[o] = held[o] - InStack(stacks[c], o)
      BY DEF Elsewhere
    <2>7. held[o] = leaked[o] + Total(stacks, o) /\ leaked[o] \in Nat /\ held[o] \in Nat
      BY <1>1
    <2>8. h[o] = Elsewhere(c)[o] + InStack(ps, o)
      BY <1>6
    <2>9. PICK x, y : x = h[o] /\ y = Elsewhere(c)[o]
      OBVIOUS
    <2>10. x = y + InStack(ps, o) /\ y = held[o] - InStack(stacks[c], o)
      BY <2>6, <2>8, <2>9, Zenon
    <2>11. x \in Nat /\ x = leaked[o] + Total(two, o)
      BY <2>1, <2>2, <2>3, <2>4, <2>5, <2>7, <2>10
    <2> QED
      BY <2>9, <2>11
  <1>14. h \in [Objects -> Nat]
    BY <1>13 DEF Clones
  <1>15. \A e \in Owners \ (started \cup {d}) : two[e].count = 0
    BY <1>1, <1>2, <1>8, <1>9
  <1>16. Accounted(two, h, leaked)
    BY <1>13 DEF Accounted
  <1> QED
    BY <1>1, <1>7, <1>10, <1>14, <1>15, <1>16 DEF StackIInv

(* CORO without a thread destroys the new stack and what is on it.         *)
LEMMA CoroUncreatedKeeps ==
  ASSUME StackIInv, NEW c \in Owners, NEW n \in 0 .. Depth(c), CoroUncreated(c, n)
  PROVE  StackIInv'
  <1>1. c \in started /\ Depth(c) > n
    BY DEF CoroUncreated, Running
  <1>2. PICK r : r = Child(c, n)
    OBVIOUS
  <1>3. PICK ps \in Stacks : ps = Parent(c, n).stack
    BY <1>1, ChildSound
  <1>4. PICK cs \in Stacks, h \in Clones : r = [stack |-> cs, held |-> h]
    BY <1>1, <1>2, ChildSound
  <1>5. r.stack = cs /\ r.held = h
    BY <1>4
  <1>6. \A o \in Objects : h[o] = (Elsewhere(c)[o] + InStack(ps, o)) + InStack(cs, o)
    BY <1>1, <1>2, <1>3, <1>5, ChildSound
  <1>7. PICK list : list = Top(r, r.stack.count)
    OBVIOUS
  <1>8. \A o : Occurs(o, list) = InStack(cs, o)
    BY <1>5, <1>7, TopOfAll
  <1>9. list \in Seq(Values)
    BY <1>5, <1>7, TopCounted, StackFacts
  <1>10. PICK m : m = [stack |-> ps, held |-> Minus(h, list)]
    OBVIOUS
  <1>11. Minus(h, list) \in Clones
    BY <1>9, PlusMinus
  <1>12. \A o \in Objects : Minus(h, list)[o] = Elsewhere(c)[o] + InStack(ps, o)
    <2> TAKE o \in Objects
    <2>1. Minus(h, list)[o] = h[o] - Occurs(o, list)
      BY DEF Minus
    <2>2. Elsewhere(c)[o] \in Int /\ h[o] \in Int
      BY OfSound DEF Clones
    <2>3. InStack(ps, o) \in Nat /\ InStack(cs, o) \in Nat
      BY InStackNat
    <2> QED
      BY <1>6, <1>8, <2>1, <2>2, <2>3
  <1>13. Sound(m, Elsewhere(c))
    BY <1>10, <1>11, <1>12 DEF Sound
  <1>14. Become(c, m)
    <2>1. Destroyed(r, list) = [stack |-> cs, held |-> Minus(h, list)]
      BY <1>4 DEF Destroyed, Minus
    <2>2. [Destroyed(r, list) EXCEPT !.stack = ps] = m
      BY <1>10, <2>1
    <2>3. Become(c, [Destroyed(r, Top(r, r.stack.count)) EXCEPT !.stack = Parent(c, n).stack])
      BY <1>2, Zenon DEF CoroUncreated
    <2> QED
      BY <1>3, <1>7, <2>2, <2>3
  <1> QED
    BY <1>1, <1>13, <1>14, BecomeKeeps

(* What is forgotten is counted as leaked.                                 *)
LEMMA CoroForgetsKeeps ==
  ASSUME StackIInv, NEW c \in Owners, NEW n \in 0 .. Depth(c), CoroForgets(c, n)
  PROVE  StackIInv'
  <1>1. /\ stacks \in [Owners -> Stacks] /\ started \subseteq Owners
        /\ \A e \in Owners \ started : stacks[e].count = 0
        /\ leaked \in [Objects -> Nat] /\ status \in {"ok", "aborted", "wild"}
    BY DEF StackIInv
  <1>2. c \in started /\ Depth(c) > n
    BY DEF CoroForgets, Running
  <1>3. PICK params \in Seq(Values) : params = Top(CountPopped(c), n)
    BY <1>2, ParentSound
  <1>4. Sound(Parent(c, n), Plus(Elsewhere(c), params))
    BY <1>2, <1>3, ParentSound
  <1>5. PICK s \in Stacks, h \in Clones : Parent(c, n) = [stack |-> s, held |-> h]
    BY <1>4, SoundFacts
  <1>6. \A o \in Objects : h[o] = Plus(Elsewhere(c), params)[o] + InStack(s, o)
    BY <1>4, <1>5, SoundFacts
  <1>7. PICK l : l = [o \in Objects |-> leaked[o] + Occurs(o, params)]
    OBVIOUS
  <1>8. l \in [Objects -> Nat]
    BY <1>1, <1>7, OccursNat
  <1>9. Balanced(c, s, h, l)
    <2>1. ASSUME NEW o \in Objects
          PROVE  h[o] = (Elsewhere(c)[o] + InStack(s, o)) + (l[o] - leaked[o])
      <3>1. h[o] = (Elsewhere(c)[o] + Occurs(o, params)) + InStack(s, o)
        BY <1>6 DEF Plus
      <3>2. l[o] = leaked[o] + Occurs(o, params)
        BY <1>7
      <3>3. Elsewhere(c)[o] \in Int /\ leaked[o] \in Nat
        BY <1>1, OfSound DEF Clones
      <3>4. Occurs(o, params) \in Nat /\ InStack(s, o) \in Nat
        BY OccursNat, InStackNat
      <3> QED
        BY <3>1, <3>2, <3>3, <3>4
    <2> QED
      BY <2>1 DEF Balanced, Clones
  <1>10. /\ [stacks EXCEPT ![c] = s] \in [Owners -> Stacks]
         /\ Accounted([stacks EXCEPT ![c] = s], h, l)
         /\ h \in [Objects -> Nat]
    BY <1>8, <1>9, OneStackChanges
  <1>11. /\ stacks' = [stacks EXCEPT ![c] = s] /\ held' = h /\ leaked' = l
         /\ started' = started /\ status' = status
    <2>1. /\ stacks' = [stacks EXCEPT ![c] = Parent(c, n).stack] /\ held' = Parent(c, n).held
          /\ leaked' = [o \in Objects |-> leaked[o] + Occurs(o, Top(CountPopped(c), n))]
          /\ started' = started /\ status' = status
      BY DEF CoroForgets
    <2>2. leaked' = l
      BY <1>3, <1>7, <2>1, Zenon
    <2> QED
      BY <1>5, <2>1, <2>2
  <1>12. \A e \in Owners \ started : [stacks EXCEPT ![c] = s][e].count = 0
    BY <1>1, <1>2
  <1> QED
    BY <1>1, <1>8, <1>10, <1>11, <1>12 DEF StackIInv

(* A context that ends destroys what is on its stack.                      *)
LEMMA EndKeeps ==
  ASSUME StackIInv, NEW c \in Owners, End(c)
  PROVE  StackIInv'
  <1>1. /\ stacks \in [Owners -> Stacks] /\ started \subseteq Owners
        /\ \A e \in Owners \ started : stacks[e].count = 0
        /\ held \in [Objects -> Nat] /\ leaked \in [Objects -> Nat]
        /\ status \in {"ok", "aborted", "wild"}
    BY DEF StackIInv
  <1>2. PICK m : m = Of(c)
    OBVIOUS
  <1>3. m = [stack |-> stacks[c], held |-> held] /\ m.stack = stacks[c] /\ m.stack.count = Depth(c)
    BY <1>2 DEF Of, Depth
  <1>4. PICK list : list = Top(m, Depth(c))
    OBVIOUS
  <1>5. \A o : Occurs(o, list) = InStack(stacks[c], o)
    BY <1>1, <1>3, <1>4, TopOfAll
  <1>6. held' = Minus(held, list)
    <2>1. Destroyed(m, list) = [stack |-> stacks[c], held |-> Minus(held, list)]
      BY <1>3 DEF Destroyed, Minus
    <2>2. held' = Destroyed(m, list).held
      BY <1>2, <1>4, Zenon DEF End
    <2> QED
      BY <2>1, <2>2
  <1>7. PICK h : h = Minus(held, list)
    OBVIOUS
  <1>8. Balanced(c, NoStack, h, leaked)
    <2>1. h = [o \in Objects |-> h[o]]
      BY <1>7 DEF Minus
    <2>2. ASSUME NEW o \in Objects
          PROVE  h[o] = (Elsewhere(c)[o] + InStack(NoStack, o)) + (leaked[o] - leaked[o])
      <3>1. InStack(NoStack, o) = 0
        BY NewStacks, InEmpty
      <3>2. h[o] = held[o] - InStack(stacks[c], o)
        BY <1>5, <1>7 DEF Minus
      <3>3. Elsewhere(c)[o] = held[o] - InStack(stacks[c], o)
        BY DEF Elsewhere
      <3>4. Elsewhere(c)[o] \in Int /\ leaked[o] \in Nat
        BY <1>1, OfSound DEF Clones
      <3>5. PICK y \in Int : y = Elsewhere(c)[o]
        BY <3>4
      <3>6. h[o] = y
        BY <3>2, <3>3, <3>5, Zenon
      <3>7. y = (y + 0) + (leaked[o] - leaked[o])
        BY <3>4
      <3> QED
        BY <3>1, <3>5, <3>6, <3>7, Zenon
    <2> QED
      BY <2>1, <2>2, Zenon DEF Balanced
  <1>9. /\ [stacks EXCEPT ![c] = NoStack] \in [Owners -> Stacks]
        /\ Accounted([stacks EXCEPT ![c] = NoStack], h, leaked)
        /\ h \in [Objects -> Nat]
    BY <1>1, <1>8, NewStacks, OneStackChanges
  <1>10. /\ stacks' = [stacks EXCEPT ![c] = NoStack] /\ held' = h /\ leaked' = leaked
         /\ started' = started \ {c} /\ status' = status
    BY <1>6, <1>7 DEF End
  <1>11. \A e \in Owners \ (started \ {c}) : [stacks EXCEPT ![c] = NoStack][e].count = 0
    BY <1>1, NewStacks
  <1> QED
    BY <1>1, <1>9, <1>10, <1>11 DEF StackIInv

(* Every instruction keeps the account.                                    *)
LEMMA StackNextIInv ==
  StackIInv /\ [StackNext]_stackVars => StackIInv'
  <1> SUFFICES ASSUME StackIInv, [StackNext]_stackVars PROVE StackIInv'
    OBVIOUS
  <1>1. CASE UNCHANGED stackVars
    BY <1>1 DEF StackIInv, stackVars
  <1>2. CASE StackNext
    <2>1. PICK c \in Owners :
            \/ Literal(c) \/ Branch(c) \/ Drop(c) \/ Swap(c) \/ Dup(c) \/ Over(c) \/ End(c)
            \/ \E n \in 1 .. 2 : Operate(c, n) \/ Underflow(c, n)
            \/ TooFew(c, 1) \/ RotateFails(c) \/ RevFails(c) \/ CoroTooFew(c)
            \/ \E n \in 0 .. Depth(c) :
                 Rot(c, n) \/ Tor(c, n) \/ Rev(c, n) \/ CoroUncreated(c, n) \/ CoroForgets(c, n)
            \/ \E d \in Owners :
                 CoroBare(c, d) \/ \E n \in 0 .. Depth(c) : CoroStarts(c, d, n)
      BY <1>2 DEF StackNext
    <2>2. CASE Literal(c)
      BY <2>2, LiteralKeeps
    <2>3. CASE Branch(c)
      BY <2>3, BranchKeeps
    <2>4. CASE Drop(c)
      BY <2>4, DropKeeps
    <2>5. CASE Swap(c)
      BY <2>5, SwapKeeps
    <2>6. CASE Dup(c) \/ Over(c)
      BY <2>6, CopyKeeps DEF Dup, Over
    <2>7. CASE End(c)
      BY <2>7, EndKeeps
    <2>8. CASE \E n \in 1 .. 2 : Operate(c, n)
      BY <2>8, OperateKeeps
    <2>9. CASE Stops("aborted")
      BY <2>9, StopsKeeps
    <2>10. CASE RotateFails(c)
      BY <2>10, RotateFailsKeeps
    <2>11. CASE RevFails(c)
      BY <2>11, RevFailsKeeps
    <2>12. CASE \E n \in 0 .. Depth(c) : Rot(c, n)
      BY <2>12, RotKeeps
    <2>13. CASE \E n \in 0 .. Depth(c) : Tor(c, n)
      BY <2>13, TorKeeps
    <2>14. CASE \E n \in 0 .. Depth(c) : Rev(c, n)
      BY <2>14, RevKeeps
    <2>15. CASE \E n \in 0 .. Depth(c) : CoroUncreated(c, n)
      BY <2>15, CoroUncreatedKeeps
    <2>16. CASE \E n \in 0 .. Depth(c) : CoroForgets(c, n)
      BY <2>16, CoroForgetsKeeps
    <2>17. CASE \E d \in Owners : CoroBare(c, d)
      BY <2>17, CoroBareKeeps
    <2>18. CASE \E d \in Owners : \E n \in 0 .. Depth(c) : CoroStarts(c, d, n)
      BY <2>18, CoroStartsKeeps
    <2>19. TooFew(c, 1) \/ CoroTooFew(c) \/ (\E n \in 1 .. 2 : Underflow(c, n)) => Stops("aborted")
      BY DEF TooFew, CoroTooFew, Underflow
    <2> QED
      BY <2>1, <2>2, <2>3, <2>4, <2>5, <2>6, <2>7, <2>8, <2>9, <2>10, <2>11, <2>12, <2>13,
         <2>14, <2>15, <2>16, <2>17, <2>18, <2>19, ZenonT(60)
  <1> QED
    BY <1>1, <1>2

(* The account says that the clones are exact.                             *)
LEMMA IInvClonesExact ==
  StackIInv => ClonesExact
  <1> SUFFICES ASSUME StackIInv PROVE ClonesExact
    OBVIOUS
  <1>1. StackTypeOK
    <2>1. \A c \in Owners : stacks[c] \in Stacks
      BY DEF StackIInv
    <2>2. MaxAllocated \in Nat
      BY StackAssumption
    <2>3. ASSUME NEW c \in Owners
          PROVE  /\ stacks[c].count \in Nat
                 /\ DOMAIN stacks[c].items = 0 .. Allocated(stacks[c]) - 1
                 /\ stacks[c].count <= Allocated(stacks[c]) /\ Allocated(stacks[c]) <= MaxAllocated
                 /\ \A i \in DOMAIN stacks[c].items : stacks[c].items[i] \in Values
      BY <2>1, <2>2, StackFacts, SMTT(30)
    <2> QED
      BY <2>3 DEF StackTypeOK, StackIInv
  <1>2. FreeSlotsUndefined
    <2> SUFFICES ASSUME NEW c \in Owners, NEW i \in DOMAIN stacks[c].items, i >= Depth(c)
                 PROVE  stacks[c].items[i] = Undef
      BY DEF FreeSlotsUndefined
    <2>1. stacks[c] \in Stacks
      BY DEF StackIInv
    <2> QED
      BY <2>1, StackFacts DEF Depth
  <1>3. \A o \in Objects :
          held[o] = leaked[o] + Cardinality({x \in Items : stacks[x[1]].items[x[2]] = o})
    <2>1. \A o \in Objects : {x \in Items : stacks[x[1]].items[x[2]] = o} = PlacesOf(stacks, o)
      BY DEF Items, PlacesOf, Depth
    <2> QED
      BY <2>1 DEF StackIInv, Accounted, Total
  <1> QED
    BY <1>1, <1>2, <1>3 DEF ClonesExact

(* The state of every stack is as it should be, and of every string and    *)
(* reference exactly as many clones are alive as there are on the stacks   *)
(* and among the forgotten ones, whatever instructions are executed.       *)
THEOREM StacksOwnClones ==
  StackSpec => []ClonesExact
  BY StackInitIInv, StackNextIInv, IInvClonesExact, PTL DEF StackSpec

-----------------------------------------------------------------------------
(* The contents of a stack as a sequence, the top at its end               *)

(* The contents of a stack, from the bottom.                               *)
LEMMA ContentsAre ==
  ASSUME NEW s \in Stacks
  PROVE  /\ Contents(s) \in Seq(Values)
         /\ Len(Contents(s)) = s.count
         /\ s.count \in Nat
         /\ \A i \in 1 .. s.count : Contents(s)[i] = s.items[i - 1]
  <1>1. s.count \in Nat /\ \A i \in 0 .. s.count - 1 : s.items[i] \in Values
    BY StackFacts
  <1>2. \A i \in 1 .. s.count : s.items[i - 1] \in Values
    BY <1>1
  <1>3. Contents(s) \in [1 .. s.count -> Values]
    BY <1>2 DEF Contents
  <1> QED
    BY <1>1, <1>3 DEF Contents

(* Two sequences joined.                                                   *)
JoinOf(z, u, w, m, n) ==
  /\ z \in Seq(Values)
  /\ Len(z) = m + n
  /\ \A i \in 1 .. m : z[i] = u[i]
  /\ \A i \in m + 1 .. m + n : z[i] = w[i - m]

(* Two sequences after each other, value by value.                         *)
LEMMA Joined ==
  ASSUME NEW u \in Seq(Values), NEW w \in Seq(Values), NEW m \in Nat, NEW n \in Nat,
         Len(u) = m, Len(w) = n
  PROVE  JoinOf(u \o w, u, w, m, n)
  <1>1. u \o w \in Seq(Values) /\ Len(u \o w) = Len(u) + Len(w)
    BY ConcatProperties, Zenon
  <1>2. \A i \in 1 .. m + n : (u \o w)[i] = IF i <= m THEN u[i] ELSE w[i - m]
    BY ConcatProperties
  <1> QED
    BY <1>1, <1>2 DEF JoinOf

(* A part of a sequence, value by value.                                   *)
LEMMA PartOf ==
  ASSUME NEW u \in Seq(Values), NEW l \in Nat, Len(u) = l, NEW a \in 1 .. l + 1, NEW b \in 0 .. l, a <= b + 1
  PROVE  /\ SubSeq(u, a, b) \in Seq(Values)
         /\ Len(SubSeq(u, a, b)) = (b + 1) - a
         /\ \A i \in 1 .. (b + 1) - a : SubSeq(u, a, b)[i] = u[(a - 1) + i]
  <1>1. \A i \in a .. b : u[i] \in Values
    <2>1. \A i \in a .. b : i \in 1 .. Len(u)
      OBVIOUS
    <2> QED
      BY <2>1, ElementOfSeq
  <1>2. a \in Int /\ b \in Int
    OBVIOUS
  <1>3. SubSeq(u, a, b) = [i \in 1 .. (b - a + 1) |-> u[i + a - 1]]
    OBVIOUS
  <1>4. SubSeq(u, a, b) \in Seq(Values)
    BY <1>1, <1>2, SubSeqProperties
  <1>5. Len(SubSeq(u, a, b)) = IF a <= b THEN b - a + 1 ELSE 0
    BY <1>1, <1>2, SubSeqProperties
  <1>6. (b + 1) - a = b - a + 1 /\ Len(SubSeq(u, a, b)) = (b + 1) - a
    BY <1>5
  <1>7. ASSUME NEW i \in 1 .. (b + 1) - a
        PROVE  SubSeq(u, a, b)[i] = u[(a - 1) + i]
    <2>1. (a - 1) + i = i + a - 1 /\ i \in 1 .. b - a + 1
      OBVIOUS
    <2> QED
      BY <1>3, <2>1
  <1> QED
    BY <1>4, <1>6, <1>7

(* The operators of OperandStack.                                          *)
LEMMA BelowIs ==
  ASSUME NEW u \in Seq(Values), NEW l \in Nat, Len(u) = l, NEW n \in 0 .. l
  PROVE  /\ Operands!Below(u, n) \in Seq(Values)
         /\ Len(Operands!Below(u, n)) = l - n
         /\ \A i \in 1 .. l - n : Operands!Below(u, n)[i] = u[i]
  <1>1. PICK b \in 0 .. l : b = l - n
    OBVIOUS
  <1>2. 1 \in 1 .. l + 1 /\ 1 <= b + 1
    OBVIOUS
  <1>3. /\ SubSeq(u, 1, b) \in Seq(Values) /\ Len(SubSeq(u, 1, b)) = (b + 1) - 1
        /\ \A i \in 1 .. (b + 1) - 1 : SubSeq(u, 1, b)[i] = u[(1 - 1) + i]
    BY <1>2, PartOf
  <1>4. (b + 1) - 1 = b /\ \A i \in 1 .. b : (1 - 1) + i = i
    BY <1>1
  <1>5. Operands!Below(u, n) = SubSeq(u, 1, b)
    BY <1>1 DEF Operands!Below
  <1> QED
    BY <1>1, <1>3, <1>4, <1>5

(* The values on top of a sequence, one by one.                            *)
LEMMA TopOfIs ==
  ASSUME NEW u \in Seq(Values), NEW l \in Nat, Len(u) = l, NEW n \in 0 .. l
  PROVE  /\ Operands!TopOf(u, n) \in Seq(Values)
         /\ Len(Operands!TopOf(u, n)) = n
         /\ \A i \in 1 .. n : Operands!TopOf(u, n)[i] = u[(l - n) + i]
  <1>1. PICK a \in 1 .. l + 1 : a = (l - n) + 1
    OBVIOUS
  <1>2. l \in 0 .. l /\ a <= l + 1
    OBVIOUS
  <1>3. /\ SubSeq(u, a, l) \in Seq(Values) /\ Len(SubSeq(u, a, l)) = (l + 1) - a
        /\ \A i \in 1 .. (l + 1) - a : SubSeq(u, a, l)[i] = u[(a - 1) + i]
    BY <1>2, PartOf
  <1>4. (l + 1) - a = n /\ a - 1 = l - n
    BY <1>1
  <1>5. Operands!TopOf(u, n) = SubSeq(u, a, l)
    BY <1>1 DEF Operands!TopOf
  <1> QED
    BY <1>3, <1>4, <1>5

(* STACK_POP leaves the lower part of the contents.                        *)
LEMMA SeqCut ==
  ASSUME NEW s \in Stacks, NEW n \in 0 .. s.count
  PROVE  /\ Cut(s, n) \in Stacks
         /\ Allocated(Cut(s, n)) = Allocated(s)
         /\ Cut(s, n).count = s.count - n
         /\ \A i \in 1 .. s.count - n : Contents(Cut(s, n))[i] = Contents(s)[i]
         /\ Contents(Cut(s, n)) = Operands!Below(Contents(s), n)
  <1>1. PICK t : t = Cut(s, n)
    OBVIOUS
  <1>2. t \in Stacks /\ Allocated(t) = Allocated(s) /\ t.count = s.count - n
          /\ \A i \in 0 .. s.count - n - 1 : t.items[i] = s.items[i]
    BY <1>1, CutBelow
  <1>3. PICK l \in Nat : l = s.count
    BY StackFacts
  <1>4. \A i \in 1 .. l - n : Contents(t)[i] = Contents(s)[i]
    <2> TAKE i \in 1 .. l - n
    <2>1. i \in 1 .. t.count /\ i \in 1 .. s.count /\ i - 1 \in 0 .. s.count - n - 1
      BY <1>2, <1>3
    <2>2. Contents(t)[i] = t.items[i - 1] /\ Contents(s)[i] = s.items[i - 1]
      BY <1>2, <2>1, ContentsAre
    <2> QED
      BY <1>2, <2>1, <2>2
  <1>5. PICK u \in Seq(Values), w \in Seq(Values) : u = Contents(s) /\ w = Contents(t)
    BY <1>2, ContentsAre
  <1>6. Len(u) = l /\ Len(w) = l - n
    BY <1>2, <1>3, <1>5, ContentsAre
  <1>7. PICK b \in Seq(Values) : b = Operands!Below(u, n) /\ Len(b) = l - n /\ \A i \in 1 .. l - n : b[i] = u[i]
    BY <1>3, <1>6, BelowIs, ZenonT(60)
  <1>8. \A i \in 1 .. Len(w) : w[i] = b[i]
    BY <1>4, <1>5, <1>6, <1>7
  <1>9. w = b
    BY <1>6, <1>7, <1>8, SeqEqual
  <1> QED
    BY <1>1, <1>2, <1>3, <1>4, <1>5, <1>7, <1>9

(* STACK_PUSH leaves the contents and puts the list above them, turned     *)
(* over.                                                                   *)
LEMMA SeqPlaced ==
  ASSUME NEW s \in Stacks, NEW list \in Seq(Values), NEW n \in Nat, Len(list) = n,
         s.count + n <= MaxAllocated + 1, ~ Refused(s, n)
  PROVE  /\ Placed(s, list) \in Stacks
         /\ Allocated(Placed(s, list)) >= Allocated(s)
         /\ Placed(s, list).count = s.count + n
         /\ \A i \in 1 .. s.count : Contents(Placed(s, list))[i] = Contents(s)[i]
         /\ \A i \in s.count + 1 .. s.count + n :
              Contents(Placed(s, list))[i] = list[((s.count + n) + 1) - i]
  <1>1. PICK t : t = Placed(s, list)
    OBVIOUS
  <1>2. /\ t \in Stacks /\ t.count = s.count + n /\ Allocated(t) >= Allocated(s)
        /\ \A i \in 0 .. s.count - 1 : t.items[i] = s.items[i]
        /\ \A i \in 1 .. n : t.items[s.count + n - i] = list[i]
    BY <1>1, PlacedAbove
  <1>3. PICK l \in Nat : l = s.count
    BY StackFacts
  <1>4. \A i \in 1 .. l : Contents(t)[i] = Contents(s)[i]
    <2> TAKE i \in 1 .. l
    <2>1. i \in 1 .. t.count /\ i \in 1 .. s.count /\ i - 1 \in 0 .. s.count - 1
      BY <1>2, <1>3
    <2>2. Contents(t)[i] = t.items[i - 1] /\ Contents(s)[i] = s.items[i - 1]
      BY <1>2, <2>1, ContentsAre
    <2> QED
      BY <1>2, <2>1, <2>2
  <1>5. \A i \in l + 1 .. l + n : Contents(t)[i] = list[((l + n) + 1) - i]
    <2> TAKE i \in l + 1 .. l + n
    <2>1. i \in 1 .. t.count /\ ((l + n) + 1) - i \in 1 .. n /\ l + n - (((l + n) + 1) - i) = i - 1
      BY <1>2, <1>3, SMTT(30)
    <2>2. Contents(t)[i] = t.items[i - 1]
      BY <1>2, <2>1, ContentsAre
    <2>3. t.items[l + n - (((l + n) + 1) - i)] = list[((l + n) + 1) - i]
      BY <1>2, <1>3, <2>1
    <2> QED
      BY <2>1, <2>2, <2>3
  <1> QED
    BY <1>1, <1>2, <1>3, <1>4, <1>5

(* The results of STACK_POP are the contents from the top down.            *)
LEMMA SeqTop ==
  ASSUME NEW m, m.stack \in Stacks, NEW n \in 0 .. m.stack.count
  PROVE  /\ Top(m, n) \in Seq(Values)
         /\ Len(Top(m, n)) = n
         /\ \A i \in 1 .. n : Top(m, n)[i] = Contents(m.stack)[(m.stack.count + 1) - i]
  <1>1. PICK s \in Stacks : s = m.stack
    OBVIOUS
  <1>2. PICK l \in Nat : l = s.count
    BY StackFacts
  <1>3. Top(m, n) = [i \in 1 .. n |-> s.items[l - i]]
    BY <1>1, <1>2 DEF Top
  <1>4. ASSUME NEW i \in 1 .. n
        PROVE  Top(m, n)[i] = Contents(s)[(l + 1) - i]
    <2>1. (l + 1) - i \in 1 .. s.count /\ ((l + 1) - i) - 1 = l - i
      BY <1>1, <1>2
    <2>2. Contents(s)[(l + 1) - i] = s.items[((l + 1) - i) - 1]
      BY <2>1, ContentsAre
    <2> QED
      BY <1>3, <2>1, <2>2
  <1> QED
    BY <1>1, <1>2, <1>4, TopCounted

(* A sequence with a value in it is not empty.                             *)
LEMMA NotEmpty ==
  ASSUME NEW u, Len(u) # 0
  PROVE  u # << >>
  <1>1. Len(<< >>) = 0
    BY EmptySeq, Zenon
  <1> QED
    BY <1>1, Zenon

(* A sequence of one value.                                                *)
LEMMA OneValue ==
  ASSUME NEW v \in Values
  PROVE  /\ <<v>> \in Seq(Values)
         /\ Len(<<v>>) = 1
         /\ <<v>>[1] = v
  OBVIOUS

(* Sequences with the same values are the same.                            *)
LEMMA Extensional ==
  ASSUME NEW u \in Seq(Values), NEW w \in Seq(Values), NEW n \in Nat,
         Len(u) = n, Len(w) = n, \A i \in 1 .. n : u[i] = w[i]
  PROVE  u = w
  BY SeqEqual

(* A reversed sequence, value by value.                                    *)
LEMMA ReverseIs ==
  ASSUME NEW u \in Seq(Values), NEW l \in Nat, Len(u) = l
  PROVE  /\ Operands!Reverse(u) \in Seq(Values)
         /\ Len(Operands!Reverse(u)) = l
         /\ \A i \in 1 .. l : Operands!Reverse(u)[i] = u[(l + 1) - i]
  <1>1. Operands!Reverse(u) = [i \in 1 .. l |-> u[(l - i) + 1]]
    BY DEF Operands!Reverse
  <1>2. \A i \in 1 .. l : (l - i) + 1 \in 1 .. l /\ (l - i) + 1 = (l + 1) - i
    OBVIOUS
  <1>3. \A i \in 1 .. l : u[i] \in Values
    BY ElementOfSeq
  <1>4. Operands!Reverse(u) \in [1 .. l -> Values]
    BY <1>1, <1>2, <1>3
  <1> QED
    BY <1>1, <1>2, <1>4

(* Reversed twice, a sequence is itself.                                   *)
LEMMA ReverseTwice ==
  ASSUME NEW u \in Seq(Values)
  PROVE  Operands!Reverse(Operands!Reverse(u)) = u
  <1>1. PICK l \in Nat : l = Len(u)
    BY LenProperties
  <1>2. PICK r \in Seq(Values) : r = Operands!Reverse(u)
    BY <1>1, ReverseIs
  <1>3. Len(r) = l /\ \A i \in 1 .. l : r[i] = u[(l + 1) - i]
    BY <1>1, <1>2, ReverseIs
  <1>4. PICK w \in Seq(Values) : w = Operands!Reverse(r)
    BY <1>3, ReverseIs
  <1>5. Len(w) = l /\ \A i \in 1 .. l : w[i] = r[(l + 1) - i]
    BY <1>3, <1>4, ReverseIs, ZenonT(60)
  <1>6. \A i \in 1 .. l : w[i] = u[i]
    <2> TAKE i \in 1 .. l
    <2>1. (l + 1) - i \in 1 .. l /\ (l + 1) - ((l + 1) - i) = i
      OBVIOUS
    <2> QED
      BY <1>3, <1>5, <2>1
  <1>7. w = u
    BY <1>1, <1>5, <1>6, Extensional
  <1> QED
    BY <1>2, <1>4, <1>7

(* A part of a sequence, the reverse of one.                               *)
LowPart(w, s, l, n) ==
  /\ w \in Seq(Values)
  /\ Len(w) = l - n
  /\ \A i \in 1 .. l - n : w[i] = s[i]

HighPart(w, s, l, n) ==
  /\ w \in Seq(Values)
  /\ Len(w) = n
  /\ \A i \in 1 .. n : w[i] = s[(l - n) + i]

(* Below and TopOf cut a sequence in two.                                  *)
LEMMA Parts ==
  ASSUME NEW s \in Seq(Values), NEW l \in Nat, Len(s) = l, NEW n \in 0 .. l
  PROVE  /\ LowPart(Operands!Below(s, n), s, l, n)
         /\ HighPart(Operands!TopOf(s, n), s, l, n)
  <1>1. LowPart(Operands!Below(s, n), s, l, n)
    BY BelowIs DEF LowPart
  <1>2. HighPart(Operands!TopOf(s, n), s, l, n)
    BY TopOfIs DEF HighPart
  <1> QED
    BY <1>1, <1>2

(* The highest part of length one is the last value.                       *)
LEMMA OneValueAbove ==
  ASSUME NEW s \in Seq(Values), NEW l \in Nat, Len(s) = l, NEW w, HighPart(w, s, l, 1), 1 <= l
  PROVE  w = <<s[l]>>
  <1>1. w \in Seq(Values) /\ Len(w) = 1 /\ w[1] = s[(l - 1) + 1]
    BY DEF HighPart
  <1>2. (l - 1) + 1 = l
    OBVIOUS
  <1>3. w[1] = s[l]
    BY <1>1, <1>2
  <1>4. w = <<w[1]>>
    BY <1>1
  <1> QED
    BY <1>3, <1>4

(* One value is the same in reverse.                                       *)
LEMMA ReverseOne ==
  ASSUME NEW v \in Values
  PROVE  Operands!Reverse(<<v>>) = <<v>>
  <1>1. Operands!Reverse(<<v>>) = [i \in 1 .. Len(<<v>>) |-> <<v>>[(Len(<<v>>) - i) + 1]]
    BY DEF Operands!Reverse
  <1>2. Len(<<v>>) = 1 /\ <<v>>[1] = v
    OBVIOUS
  <1>3. \A i \in 1 .. 1 : (1 - i) + 1 = 1
    OBVIOUS
  <1>4. Operands!Reverse(<<v>>) = [i \in 1 .. 1 |-> v]
    BY <1>1, <1>2, <1>3
  <1> QED
    BY <1>4

(* What is below what is below, and the parts of the top.                  *)
LEMMA BelowBelow ==
  ASSUME NEW s \in Seq(Values), NEW l \in Nat, Len(s) = l,
         NEW a \in 0 .. l, NEW b \in 0 .. l, NEW n \in 0 .. l, n = a + b
  PROVE  Operands!Below(Operands!Below(s, a), b) = Operands!Below(s, n)
  <1>1. PICK t : t = Operands!Below(s, a)
    OBVIOUS
  <1>2. LowPart(t, s, l, a)
    BY <1>1, Parts
  <1>3. PICK k \in Nat : k = l - a
    OBVIOUS
  <1>4. t \in Seq(Values) /\ Len(t) = k /\ \A i \in 1 .. k : t[i] = s[i]
    BY <1>2, <1>3 DEF LowPart
  <1>5. b \in 0 .. k
    BY <1>3
  <1>6. PICK u : u = Operands!Below(t, b)
    OBVIOUS
  <1>7. LowPart(u, t, k, b)
    BY <1>4, <1>5, <1>6, Parts
  <1>8. PICK w : w = Operands!Below(s, n)
    OBVIOUS
  <1>9. LowPart(w, s, l, n)
    BY <1>8, Parts
  <1>10. PICK j \in Nat : j = l - n /\ j = k - b /\ j <= k
    BY <1>3
  <1>11. u \in Seq(Values) /\ Len(u) = j /\ \A i \in 1 .. j : u[i] = t[i]
    BY <1>7, <1>10 DEF LowPart
  <1>12. w \in Seq(Values) /\ Len(w) = j /\ \A i \in 1 .. j : w[i] = s[i]
    BY <1>9, <1>10 DEF LowPart
  <1>13. \A i \in 1 .. j : i \in 1 .. k
    BY <1>10
  <1>14. \A i \in 1 .. j : u[i] = w[i]
    BY <1>4, <1>11, <1>12, <1>13
  <1>15. u = w
    BY <1>11, <1>12, <1>14, Extensional
  <1> QED
    BY <1>1, <1>6, <1>8, <1>15

(* Of the n values on top, the topmost, the one at the bottom and the      *)
(* others.                                                                 *)
LEMMA TopParts ==
  ASSUME NEW s \in Seq(Values), NEW l \in Nat, Len(s) = l, NEW n \in 2 .. l
  PROVE  /\ Operands!TopOf(s, 1) = <<Operands!Last(Operands!TopOf(s, n))>>
         /\ Operands!TopOf(Operands!Below(s, 1), n - 1) = Operands!Front(Operands!TopOf(s, n))
         /\ Operands!TopOf(s, n - 1) = Tail(Operands!TopOf(s, n))
         /\ Operands!TopOf(Operands!Below(s, n - 1), 1) = <<Head(Operands!TopOf(s, n))>>
  <1>1. n \in 0 .. l /\ 1 \in 0 .. l /\ 1 <= l
    OBVIOUS
  <1>2. PICK list : list = Operands!TopOf(s, n)
    OBVIOUS
  <1>3. HighPart(list, s, l, n)
    BY <1>1, <1>2, Parts
  <1>4. list \in Seq(Values) /\ Len(list) = n /\ \A i \in 1 .. n : list[i] = s[(l - n) + i]
    BY <1>3 DEF HighPart
  <1>5. PICK j \in 1 .. l : j = n - 1
    OBVIOUS
  <1>6. PICK k \in Nat : k = l - 1
    OBVIOUS
  <1>7. Operands!TopOf(s, 1) = <<Operands!Last(list)>>
    <2>1. HighPart(Operands!TopOf(s, 1), s, l, 1)
      BY <1>1, Parts
    <2>2. Operands!TopOf(s, 1) = <<s[l]>>
      BY <1>1, <2>1, OneValueAbove
    <2>3. Operands!Last(list) = list[n]
      BY <1>4 DEF Operands!Last
    <2>4. (l - n) + n = l /\ n \in 1 .. n
      OBVIOUS
    <2>5. list[n] = s[l]
      BY <1>4, <2>4
    <2> QED
      BY <2>2, <2>3, <2>5
  <1>8. Operands!TopOf(Operands!Below(s, 1), j) = Operands!Front(list)
    <2>1. PICK t : t = Operands!Below(s, 1)
      OBVIOUS
    <2>2. LowPart(t, s, l, 1)
      BY <1>1, <2>1, Parts
    <2>3. t \in Seq(Values) /\ Len(t) = k /\ \A i \in 1 .. k : t[i] = s[i]
      BY <1>6, <2>2 DEF LowPart
    <2>4. j \in 0 .. k
      BY <1>5, <1>6
    <2>5. PICK u : u = Operands!TopOf(t, j)
      OBVIOUS
    <2>6. HighPart(u, t, k, j)
      BY <2>3, <2>4, <2>5, Parts
    <2>7. u \in Seq(Values) /\ Len(u) = j /\ \A i \in 1 .. j : u[i] = t[(k - j) + i]
      BY <2>6 DEF HighPart
    <2>8. PICK w : w = Operands!Below(list, 1)
      OBVIOUS
    <2>9. LowPart(w, list, n, 1)
      <3>1. n \in Nat /\ 1 \in 0 .. n
        OBVIOUS
      <3> QED
        BY <1>4, <2>8, <3>1, Parts
    <2>10. w \in Seq(Values) /\ Len(w) = j /\ \A i \in 1 .. j : w[i] = list[i]
      BY <1>5, <2>9 DEF LowPart
    <2>11. Operands!Front(list) = w
      BY <2>8 DEF Operands!Front, Operands!Below
    <2>12. \A i \in 1 .. j : u[i] = w[i]
      <3> TAKE i \in 1 .. j
      <3>1. (k - j) + i \in 1 .. k /\ (k - j) + i = (l - n) + i /\ i \in 1 .. n
        BY <1>5, <1>6
      <3>2. u[i] = t[(k - j) + i] /\ w[i] = list[i] /\ list[i] = s[(l - n) + i]
        BY <1>4, <2>7, <2>10, <3>1
      <3>3. t[(k - j) + i] = s[(k - j) + i]
        BY <2>3, <3>1
      <3> QED
        BY <3>1, <3>2, <3>3
    <2>13. j \in Nat
      OBVIOUS
    <2>14. u = w
      BY <2>7, <2>10, <2>12, <2>13, Extensional
    <2> QED
      BY <2>1, <2>5, <2>11, <2>14
  <1>9. Operands!TopOf(s, j) = Tail(list)
    <2>1. PICK u : u = Operands!TopOf(s, j)
      OBVIOUS
    <2>2. j \in 0 .. l /\ j \in Nat
      OBVIOUS
    <2>3. HighPart(u, s, l, j)
      BY <2>1, <2>2, Parts
    <2>4. u \in Seq(Values) /\ Len(u) = j /\ \A i \in 1 .. j : u[i] = s[(l - j) + i]
      BY <2>3 DEF HighPart
    <2>5. list # << >>
      BY <1>4, NotEmpty
    <2>6. Tail(list) \in Seq(Values)
      BY <1>4, <2>5, HeadTailProperties, Zenon
    <2>7. Len(Tail(list)) = Len(list) - 1
      BY <1>4, <2>5, HeadTailProperties, Zenon
    <2>8. \A i \in 1 .. Len(Tail(list)) : Tail(list)[i] = list[i + 1]
      BY <1>4, <2>5, HeadTailProperties, Zenon
    <2>9. PICK w : w = Tail(list)
      OBVIOUS
    <2>10. w \in Seq(Values) /\ Len(w) = j
      BY <1>4, <1>5, <2>6, <2>7, <2>9
    <2>11. \A i \in 1 .. j : w[i] = list[i + 1]
      BY <2>8, <2>9, <2>10
    <2>12. \A i \in 1 .. j : u[i] = w[i]
      <3> TAKE i \in 1 .. j
      <3>1. i + 1 \in 1 .. n /\ (l - j) + i = (l - n) + (i + 1)
        BY <1>5
      <3>2. list[i + 1] = s[(l - n) + (i + 1)]
        BY <1>4, <3>1
      <3>3. u[i] = s[(l - j) + i]
        BY <2>4
      <3> QED
        BY <2>11, <3>1, <3>2, <3>3
    <2>13. u = w
      BY <2>2, <2>4, <2>10, <2>12, Extensional
    <2> QED
      BY <2>1, <2>9, <2>13
  <1>10. Operands!TopOf(Operands!Below(s, j), 1) = <<Head(list)>>
    <2>1. PICK a \in Nat : a = l - j /\ a >= 1
      BY <1>5
    <2>2. PICK t : t = Operands!Below(s, j)
      OBVIOUS
    <2>3. j \in 0 .. l
      OBVIOUS
    <2>4. LowPart(t, s, l, j)
      BY <2>2, <2>3, Parts
    <2>5. t \in Seq(Values) /\ Len(t) = a /\ \A i \in 1 .. a : t[i] = s[i]
      BY <2>1, <2>4 DEF LowPart
    <2>6. 1 \in 0 .. a /\ a \in 1 .. a /\ 1 <= a
      BY <2>1
    <2>7. HighPart(Operands!TopOf(t, 1), t, a, 1)
      BY <2>5, <2>6, Parts
    <2>8. Operands!TopOf(t, 1) = <<t[a]>>
      BY <2>5, <2>6, <2>7, OneValueAbove
    <2>9. Head(list) = list[1]
      OBVIOUS
    <2>10. (l - n) + 1 = a /\ 1 \in 1 .. n
      BY <1>5, <2>1
    <2>11. list[1] = t[a]
      BY <1>4, <2>5, <2>6, <2>10
    <2> QED
      BY <2>2, <2>8, <2>9, <2>11
  <1> QED
    BY <1>2, <1>5, <1>7, <1>8, <1>9, <1>10

-----------------------------------------------------------------------------
(* What the functions of stack.h do to the sequence of the values          *)

(* An instruction on its way: the values on its stack, which has a slots.  *)
Carries(m, u, a) ==
  /\ \E k \in Clones : Sound(m, k)
  /\ u = Contents(m.stack)
  /\ a \in Nat /\ Allocated(m.stack) >= a

(* What it means to carry a sequence.                                      *)
LEMMA CarriesFacts ==
  ASSUME NEW m, NEW u, NEW a, Carries(m, u, a)
  PROVE  /\ m.stack \in Stacks
         /\ u = Contents(m.stack)
         /\ u \in Seq(Values)
         /\ Len(u) = m.stack.count
         /\ Len(u) \in Nat
         /\ Allocated(m.stack) \in Nat
         /\ Allocated(m.stack) <= MaxAllocated
         /\ Len(u) <= Allocated(m.stack)
         /\ MaxAllocated \in Nat
         /\ a \in Nat /\ Allocated(m.stack) >= a
  <1>1. PICK k \in Clones : Sound(m, k)
    BY DEF Carries
  <1>2. m.stack \in Stacks
    BY <1>1, SoundFacts
  <1>3. u = Contents(m.stack) /\ a \in Nat /\ Allocated(m.stack) >= a
    BY DEF Carries
  <1>4. MaxAllocated \in Nat
    BY StackAssumption
  <1>5. Allocated(m.stack) \in 0 .. MaxAllocated /\ m.stack.count <= Allocated(m.stack)
    BY <1>2, StackFacts
  <1> QED
    BY <1>2, <1>3, <1>4, <1>5, ContentsAre

(* After STACK_POP a stack carries the lower part; the results are the     *)
(* rest, turned over.                                                      *)
LEMMA CarriesPopped ==
  ASSUME NEW m, NEW u, NEW a, Carries(m, u, a), NEW n \in 0 .. Len(u)
  PROVE  /\ Carries(Popped(m, n), Operands!Below(u, n), a)
         /\ Carries(PoppedAway(m, n), Operands!Below(u, n), a)
         /\ Top(m, n) = Operands!Reverse(Operands!TopOf(u, n))
         /\ Top(m, n) \in Seq(Values)
         /\ Len(Top(m, n)) = n
  <1>1. PICK k \in Clones : Sound(m, k)
    BY DEF Carries
  <1>2. PICK s \in Stacks : s = m.stack
    BY CarriesFacts
  <1>3. PICK l \in Nat : l = s.count
    BY <1>2, StackFacts
  <1>4. u = Contents(s) /\ u \in Seq(Values) /\ Len(u) = l /\ Allocated(s) >= a /\ a \in Nat
    BY <1>2, <1>3, CarriesFacts
  <1>5. n \in 0 .. l /\ n \in 0 .. s.count /\ n \in 0 .. m.stack.count /\ n \in Nat
    BY <1>2, <1>3, <1>4
  <1>6. Sound(PoppedAway(m, n), k) /\ PoppedAway(m, n).stack = Cut(s, n)
    BY <1>1, <1>2, <1>5, SoundPoppedAway
  <1>7. Sound(Popped(m, n), Plus(k, Top(m, n))) /\ Popped(m, n).stack = Cut(s, n)
    BY <1>1, <1>2, <1>5, SoundPopped
  <1>8. Plus(k, Top(m, n)) \in Clones
    <2>1. Top(m, n) \in Seq(Values)
      BY <1>2, <1>5, TopCounted
    <2> QED
      BY <2>1, PlusMinus
  <1>9. Contents(Cut(s, n)) = Operands!Below(u, n) /\ Allocated(Cut(s, n)) >= a
    BY <1>4, <1>5, SeqCut
  <1>10. PICK list : list = Top(m, n)
    OBVIOUS
  <1>11. list \in Seq(Values) /\ Len(list) = n /\ \A i \in 1 .. n : list[i] = u[(l + 1) - i]
    <2>1. /\ list \in Seq(Values) /\ Len(list) = n
          /\ \A i \in 1 .. n : list[i] = Contents(s)[(s.count + 1) - i]
      BY <1>2, <1>5, <1>10, SeqTop
    <2> QED
      BY <1>3, <1>4, <2>1
  <1>12. PICK top : top = Operands!TopOf(u, n)
    OBVIOUS
  <1>13. HighPart(top, u, l, n)
    BY <1>4, <1>5, <1>12, Parts
  <1>14. top \in Seq(Values) /\ Len(top) = n /\ \A i \in 1 .. n : top[i] = u[(l - n) + i]
    BY <1>13 DEF HighPart
  <1>15. PICK r : r = Operands!Reverse(top)
    OBVIOUS
  <1>16. r \in Seq(Values) /\ Len(r) = n /\ \A i \in 1 .. n : r[i] = top[(n + 1) - i]
    BY <1>5, <1>14, <1>15, ReverseIs
  <1>17. \A i \in 1 .. n : list[i] = r[i]
    <2> TAKE i \in 1 .. n
    <2>1. (n + 1) - i \in 1 .. n /\ (l - n) + ((n + 1) - i) = (l + 1) - i
      BY <1>5
    <2>2. top[(n + 1) - i] = u[(l - n) + ((n + 1) - i)]
      BY <1>14, <2>1
    <2>3. r[i] = top[(n + 1) - i] /\ list[i] = u[(l + 1) - i]
      BY <1>11, <1>16
    <2> QED
      BY <2>1, <2>2, <2>3
  <1>18. list = r
    BY <1>5, <1>11, <1>16, <1>17, Extensional
  <1> QED
    BY <1>1, <1>6, <1>7, <1>8, <1>9, <1>10, <1>11, <1>12, <1>15, <1>18 DEF Carries

(* A stack onto which a list has been pushed.                              *)
LEMMA PlacedContents ==
  ASSUME NEW s \in Stacks, NEW list \in Seq(Values),
         s.count + Len(list) <= MaxAllocated + 1, ~ Refused(s, Len(list))
  PROVE  Contents(Placed(s, list)) = Contents(s) \o Operands!Reverse(list)
  <1>1. PICK n \in Nat : n = Len(list)
    BY LenProperties
  <1>2. PICK l \in Nat : l = s.count
    BY StackFacts
  <1>3. PICK t : t = Placed(s, list)
    OBVIOUS
  <1>4. s.count + n <= MaxAllocated + 1 /\ ~ Refused(s, n)
    BY <1>1
  <1>5. /\ t \in Stacks /\ t.count = s.count + n
        /\ \A i \in 1 .. s.count : Contents(t)[i] = Contents(s)[i]
        /\ \A i \in s.count + 1 .. s.count + n : Contents(t)[i] = list[((s.count + n) + 1) - i]
    BY <1>1, <1>3, <1>4, SeqPlaced
  <1>6. PICK u : u = Contents(s)
    OBVIOUS
  <1>7. u \in Seq(Values) /\ Len(u) = l
    BY <1>2, <1>6, ContentsAre
  <1>8. PICK w : w = Contents(t)
    OBVIOUS
  <1>9. w \in Seq(Values) /\ Len(w) = l + n
    BY <1>2, <1>5, <1>8, ContentsAre
  <1>10. \A i \in 1 .. l : w[i] = u[i]
    BY <1>2, <1>5, <1>6, <1>8
  <1>11. \A i \in l + 1 .. l + n : w[i] = list[((l + n) + 1) - i]
    BY <1>2, <1>5, <1>8
  <1>12. PICK r : r = Operands!Reverse(list)
    OBVIOUS
  <1>13. r \in Seq(Values) /\ Len(r) = n /\ \A i \in 1 .. n : r[i] = list[(n + 1) - i]
    BY <1>1, <1>12, ReverseIs
  <1>14. PICK z : z = u \o r
    OBVIOUS
  <1>15. /\ z \in Seq(Values) /\ Len(z) = l + n
         /\ \A i \in 1 .. l : z[i] = u[i]
         /\ \A i \in l + 1 .. l + n : z[i] = r[i - l]
    <2>1. r \in Seq(Values) /\ Len(r) = n
      BY <1>13
    <2>2. JoinOf(z, u, r, l, n)
      BY <1>7, <1>14, <2>1, Joined
    <2> QED
      BY <2>2 DEF JoinOf
  <1>16. \A i \in 1 .. l + n : w[i] = z[i]
    <2> TAKE i \in 1 .. l + n
    <2>1. CASE i <= l
      BY <1>10, <1>15, <2>1
    <2>2. CASE i > l
      <3>1. i \in l + 1 .. l + n /\ i - l \in 1 .. n /\ (n + 1) - (i - l) = ((l + n) + 1) - i
        BY <2>2
      <3>2. w[i] = list[((l + n) + 1) - i] /\ z[i] = r[i - l] /\ r[i - l] = list[(n + 1) - (i - l)]
        BY <1>11, <1>13, <1>15, <3>1
      <3> QED
        BY <3>1, <3>2
    <2> QED
      BY <2>1, <2>2
  <1>17. l + n \in Nat
    OBVIOUS
  <1>18. w = z
    BY <1>9, <1>15, <1>16, <1>17, Extensional
  <1> QED
    BY <1>3, <1>6, <1>8, <1>12, <1>14, <1>18

(* After STACK_PUSH it carries the list as well, turned over, if there is  *)
(* memory, as there is where the values were popped.                       *)
LEMMA CarriesPushed ==
  ASSUME NEW m, NEW u, NEW a, Carries(m, u, a), NEW list \in Seq(Values),
         NEW n \in Nat, Len(list) = n, Len(u) + n <= MaxAllocated + 1
  PROVE  /\ Refused(m.stack, n) => Carries(Pushed(m, list), u, a)
         /\ ~ Refused(m.stack, n) => Carries(Pushed(m, list), u \o Operands!Reverse(list), a)
         /\ Len(u) + n <= a => ~ Refused(m.stack, n)
  <1>1. PICK k \in Clones : Sound(m, k)
    BY DEF Carries
  <1>2. PICK s \in Stacks : s = m.stack
    BY CarriesFacts
  <1>3. u = Contents(s) /\ Len(u) = s.count /\ Allocated(s) \in Nat /\ s.count \in Nat /\ Allocated(s) >= a
          /\ a \in Nat
    BY <1>2, CarriesFacts
  <1>4. s.count + n <= MaxAllocated + 1 /\ m.stack.count + Len(list) <= MaxAllocated + 1
    BY <1>2, <1>3
  <1>5. /\ Sound(Pushed(m, list), k)
        /\ Refused(s, n) => Pushed(m, list).stack = s
        /\ ~ Refused(s, n) => Pushed(m, list).stack = Placed(s, list)
    BY <1>1, <1>2, <1>4, SoundPushed
  <1>6. ASSUME Refused(s, n)
        PROVE  Carries(Pushed(m, list), u, a)
    BY <1>3, <1>5, <1>6 DEF Carries
  <1>7. ASSUME ~ Refused(s, n)
        PROVE  Carries(Pushed(m, list), u \o Operands!Reverse(list), a)
    <2>1. Contents(Placed(s, list)) = u \o Operands!Reverse(list)
      BY <1>3, <1>4, <1>7, PlacedContents
    <2>2. Allocated(Placed(s, list)) >= a
      <3>1. Placed(s, list) \in Stacks /\ Allocated(Placed(s, list)) >= Allocated(s)
        BY <1>4, <1>7, SeqPlaced
      <3>2. Allocated(Placed(s, list)) \in 0 .. MaxAllocated
        BY <3>1, StackFacts
      <3> QED
        BY <1>3, <3>1, <3>2
    <2> QED
      BY <1>5, <1>7, <2>1, <2>2 DEF Carries
  <1>8. ASSUME Len(u) + n <= a
        PROVE  ~ Refused(s, n)
    <2>1. Allocated(s) >= s.count + n
      BY <1>3, <1>8
    <2> QED
      BY <1>4, <2>1, ReservedIsEnough
  <1> QED
    BY <1>2, <1>6, <1>7, <1>8

(* Destroying a list that is not on the stack leaves what it carries.      *)
LEMMA CarriesDestroyed ==
  ASSUME NEW m, NEW u, NEW a, Carries(m, u, a), NEW list \in Seq(Values)
  PROVE  Carries(Destroyed(m, list), u, a)
  <1>1. PICK k \in Clones : Sound(m, k)
    BY DEF Carries
  <1>2. Sound(Destroyed(m, list), Minus(k, list)) /\ Destroyed(m, list).stack = m.stack
    BY <1>1, SoundDestroyed
  <1>3. Minus(k, list) \in Clones
    BY PlusMinus
  <1> QED
    BY <1>2, <1>3 DEF Carries

(* A new value is appended, if there is memory.                            *)
LEMMA CarriesPushNew ==
  ASSUME NEW m, NEW u, NEW a, Carries(m, u, a), NEW v \in Values
  PROVE  /\ Refused(m.stack, 1) => Carries(PushNew(m, v), u, a)
         /\ ~ Refused(m.stack, 1) => Carries(PushNew(m, v), Append(u, v), a)
         /\ Len(u) + 1 <= a => ~ Refused(m.stack, 1)
  <1>1. PICK k \in Clones : Sound(m, k)
    BY DEF Carries
  <1>2. PICK list : list = <<v>>
    OBVIOUS
  <1>3. list \in Seq(Values) /\ Len(list) = 1 /\ Operands!Reverse(list) = <<v>>
    BY <1>2, OneValue, ReverseOne
  <1>4. PICK x : x = Cloned(m, list)
    OBVIOUS
  <1>5. Sound(x, Plus(k, list)) /\ x.stack = m.stack
    BY <1>1, <1>3, <1>4, SoundCloned
  <1>6. Plus(k, list) \in Clones
    BY <1>3, PlusMinus
  <1>7. Carries(x, u, a)
    BY <1>5, <1>6 DEF Carries
  <1>8. 1 \in Nat /\ Len(u) + 1 <= MaxAllocated + 1
    BY CarriesFacts
  <1>9. /\ Refused(x.stack, 1) => Carries(Pushed(x, list), u, a)
        /\ ~ Refused(x.stack, 1) => Carries(Pushed(x, list), u \o Operands!Reverse(list), a)
        /\ Len(u) + 1 <= a => ~ Refused(x.stack, 1)
    BY <1>3, <1>7, <1>8, CarriesPushed
  <1>10. PushNew(m, v) = Destroyed(Pushed(x, list), list)
    BY <1>2, <1>4, Zenon DEF PushNew
  <1>11. u \o <<v>> = Append(u, v)
    BY CarriesFacts, AppendIsConcat, Zenon
  <1>12. CASE Refused(m.stack, 1)
    BY <1>3, <1>5, <1>9, <1>10, <1>12, CarriesDestroyed
  <1>13. CASE ~ Refused(m.stack, 1)
    <2>1. Carries(Pushed(x, list), Append(u, v), a)
      BY <1>3, <1>5, <1>9, <1>11, <1>13
    <2>2. Carries(PushNew(m, v), Append(u, v), a)
      BY <1>3, <1>10, <2>1, CarriesDestroyed
    <2> QED
      BY <1>13, <2>2
  <1>14. Len(u) + 1 <= a => ~ Refused(m.stack, 1)
    BY <1>5, <1>9
  <1> QED
    BY <1>12, <1>13, <1>14

(* A sequence of length zero is empty.                                     *)
LEMMA Empty ==
  ASSUME NEW u \in Seq(Values), Len(u) = 0
  PROVE  u = << >>
  BY EmptySeq, Zenon

(* The lengths of the parts.                                               *)
LEMMA PartLengths ==
  ASSUME NEW s \in Seq(Values), NEW n \in 0 .. Len(s)
  PROVE  /\ Operands!Below(s, n) \in Seq(Values)
         /\ Len(Operands!Below(s, n)) = Len(s) - n
         /\ Operands!TopOf(s, n) \in Seq(Values)
         /\ Len(Operands!TopOf(s, n)) = n
  <1>1. PICK l \in Nat : l = Len(s)
    BY LenProperties
  <1>2. n \in 0 .. l
    BY <1>1
  <1>3. LowPart(Operands!Below(s, n), s, l, n) /\ HighPart(Operands!TopOf(s, n), s, l, n)
    BY <1>1, <1>2, Parts
  <1> QED
    BY <1>1, <1>3 DEF LowPart, HighPart

(* Nothing is joined to a sequence.                                        *)
LEMMA JoinedToNothing ==
  ASSUME NEW u \in Seq(Values), NEW w \in Seq(Values)
  PROVE  /\ Len(w) = 0 => u \o w = u
         /\ Len(u) = 0 => u \o w = w
  <1>1. ASSUME Len(w) = 0 PROVE u \o w = u
    <2>1. w = << >>
      BY <1>1, Empty
    <2> QED
      BY <2>1, ConcatEmptySeq, Zenon
  <1>2. ASSUME Len(u) = 0 PROVE u \o w = w
    <2>1. u = << >>
      BY <1>2, Empty
    <2> QED
      BY <2>1, ConcatEmptySeq, Zenon
  <1> QED
    BY <1>1, <1>2

-----------------------------------------------------------------------------
(* What ROT and TOR do: the values that are popped first are pushed first. *)

(* Two lists are popped and pushed in the order in which they came, as ROT *)
(* and TOR do: the stack carries them in the other order.                  *)
LEMMA TurnedOver ==
  ASSUME NEW m, NEW u, NEW a, Carries(m, u, a), NEW x \in Nat, NEW y \in Nat, NEW n \in 0 .. Len(u),
         n = x + y, Len(u) <= a
  PROVE  Carries(Destroyed(Pushed(Pushed(Popped(Popped(m, x), y), Top(m, x)), Top(Popped(m, x), y)),
                           Top(m, x) \o Top(Popped(m, x), y)),
                 (Operands!Below(u, n) \o Operands!TopOf(u, x)) \o Operands!TopOf(Operands!Below(u, x), y), a)
  <1>1. PICK l \in Nat : l = Len(u) /\ l <= MaxAllocated /\ MaxAllocated \in Nat
    BY CarriesFacts
  <1>2. u \in Seq(Values) /\ a \in Nat /\ l <= a
    BY <1>1, CarriesFacts
  <1>3. x \in 0 .. Len(u)
    BY <1>1
  <1>4. PICK m1, f : m1 = Popped(m, x) /\ f = Top(m, x)
    OBVIOUS
  <1>5. PICK low, high : low = Operands!Below(u, x) /\ high = Operands!TopOf(u, x)
    OBVIOUS
  <1>6. Carries(m1, low, a) /\ f = Operands!Reverse(high) /\ f \in Seq(Values) /\ Len(f) = x
    BY <1>3, <1>4, <1>5, CarriesPopped
  <1>7. low \in Seq(Values) /\ Len(low) = l - x /\ high \in Seq(Values)
    BY <1>1, <1>2, <1>3, <1>5, PartLengths
  <1>8. y \in 0 .. Len(low)
    BY <1>1, <1>7
  <1>9. PICK m2, g : m2 = Popped(m1, y) /\ g = Top(m1, y)
    OBVIOUS
  <1>10. PICK lowest, mid : lowest = Operands!Below(low, y) /\ mid = Operands!TopOf(low, y)
    OBVIOUS
  <1>11. Carries(m2, lowest, a) /\ g = Operands!Reverse(mid) /\ g \in Seq(Values) /\ Len(g) = y
    BY <1>6, <1>8, <1>9, <1>10, CarriesPopped
  <1>12. lowest \in Seq(Values) /\ Len(lowest) = (l - x) - y /\ mid \in Seq(Values)
    BY <1>7, <1>8, <1>10, PartLengths
  <1>13. Operands!Reverse(f) = high /\ Operands!Reverse(g) = mid
    BY <1>6, <1>7, <1>11, <1>12, ReverseTwice
  <1>14. lowest = Operands!Below(u, n)
    <2>1. x \in 0 .. l /\ y \in 0 .. l /\ n \in 0 .. l
      BY <1>1
    <2> QED
      BY <1>1, <1>2, <1>5, <1>10, <2>1, BelowBelow
  <1>15. PICK m3 : m3 = Pushed(m2, f)
    OBVIOUS
  <1>16. Carries(m3, lowest \o high, a)
    <2>1. Len(lowest) + x <= MaxAllocated + 1 /\ Len(lowest) + x <= a
      BY <1>1, <1>2, <1>12
    <2>2. ~ Refused(m2.stack, x)
      BY <1>6, <1>11, <2>1, CarriesPushed
    <2> QED
      BY <1>6, <1>11, <1>13, <1>15, <2>1, <2>2, CarriesPushed
  <1>17. PICK z : z = lowest \o high
    OBVIOUS
  <1>18. Len(z) = ((l - x) - y) + x
    <2>1. Len(lowest \o high) = Len(lowest) + Len(high)
      BY <1>7, <1>12, ConcatProperties, Zenon
    <2>2. Len(high) = x
      BY <1>2, <1>3, <1>5, PartLengths
    <2> QED
      BY <1>12, <1>17, <2>1, <2>2
  <1>19. PICK m4 : m4 = Pushed(m3, g)
    OBVIOUS
  <1>20. Carries(m4, z \o mid, a)
    <2>1. Len(z) + y <= MaxAllocated + 1 /\ Len(z) + y <= a
      BY <1>1, <1>2, <1>18
    <2>2. Carries(m3, z, a)
      BY <1>16, <1>17
    <2>3. ~ Refused(m3.stack, y)
      BY <1>11, <2>1, <2>2, CarriesPushed
    <2> QED
      BY <1>11, <1>13, <1>19, <2>1, <2>2, <2>3, CarriesPushed
  <1>21. PICK both : both = f \o g
    OBVIOUS
  <1>22. both \in Seq(Values)
    BY <1>6, <1>11, <1>21, ConcatProperties, Zenon
  <1>23. Carries(Destroyed(m4, both), z \o mid, a)
    BY <1>20, <1>22, CarriesDestroyed
  <1> QED
    BY <1>4, <1>5, <1>9, <1>10, <1>14, <1>15, <1>17, <1>19, <1>21, <1>23, Zenon

(* With one value there is nothing to turn.                                *)
LEMMA OneTurned ==
  ASSUME NEW s \in Seq(Values), Len(s) >= 1
  PROVE  /\ (Operands!Below(s, 1) \o <<Operands!Last(Operands!TopOf(s, 1))>>)
               \o Operands!Front(Operands!TopOf(s, 1)) = s
         /\ (Operands!Below(s, 1) \o Tail(Operands!TopOf(s, 1)))
               \o <<Head(Operands!TopOf(s, 1))>> = s
  <1>1. PICK l \in Nat : l = Len(s) /\ l >= 1
    BY LenProperties
  <1>20. PICK list : list = Operands!TopOf(s, 1)
    OBVIOUS
  <1>2. 1 \in 0 .. l /\ 1 \in 0 .. Len(s)
    BY <1>1
  <1>3. HighPart(list, s, l, 1)
    BY <1>1, <1>2, <1>20, Parts
  <1>4. list = <<s[l]>> /\ list \in Seq(Values) /\ Len(list) = 1
    BY <1>1, <1>3, OneValueAbove DEF HighPart
  <1>5. s[l] \in Values
    BY <1>1, ElementOfSeq
  <1>6. Operands!Last(list) = s[l] /\ Head(list) = s[l]
    BY <1>4 DEF Operands!Last
  <1>7. Operands!Front(list) \in Seq(Values) /\ Len(Operands!Front(list)) = 0
    <2>1. Operands!Front(list) = Operands!Below(list, 1)
      BY DEF Operands!Front, Operands!Below
    <2>4. list \in Seq(Values) /\ Len(list) = 1
      BY <1>4, Zenon
    <2>2. list \in Seq(Values) /\ 1 \in 0 .. Len(list)
      BY <2>4
    <2>3. /\ Operands!Below(list, 1) \in Seq(Values)
          /\ Len(Operands!Below(list, 1)) = Len(list) - 1
      BY <2>2, PartLengths, Zenon
    <2> QED
      BY <2>1, <2>3, <2>4
  <1>8. Tail(list) \in Seq(Values) /\ Len(Tail(list)) = 0
    <2>1. list \in Seq(Values) /\ Len(list) = 1 /\ Len(list) # 0
      BY <1>4
    <2>2. list # << >>
      BY <2>1, NotEmpty, Zenon
    <2>3. Tail(list) \in Seq(Values) /\ Len(Tail(list)) = Len(list) - 1
      BY <2>1, <2>2, HeadTailProperties, Zenon
    <2> QED
      BY <2>1, <2>3
  <1>9. PICK low : low = Operands!Below(s, 1)
    OBVIOUS
  <1>10. LowPart(low, s, l, 1)
    BY <1>1, <1>2, <1>9, Parts
  <1>11. PICK k \in Nat : k = l - 1
    BY <1>1
  <1>12. low \in Seq(Values) /\ Len(low) = k /\ \A i \in 1 .. k : low[i] = s[i]
    BY <1>10, <1>11 DEF LowPart
  <1>13. PICK one : one = <<s[l]>>
    OBVIOUS
  <1>14. one \in Seq(Values) /\ Len(one) = 1 /\ one[1] = s[l]
    BY <1>5, <1>13, OneValue
  <1>15. PICK z : z = low \o one
    OBVIOUS
  <1>16. JoinOf(z, low, one, k, 1)
    <2>1. low \in Seq(Values) /\ Len(low) = k /\ 1 \in Nat
      BY <1>12
    <2> QED
      BY <1>14, <1>15, <2>1, Joined
  <1>17. z = s
    <2>1. z \in Seq(Values) /\ Len(z) = k + 1 /\ (\A i \in 1 .. k : z[i] = low[i])
            /\ \A i \in k + 1 .. k + 1 : z[i] = one[i - k]
      BY <1>16 DEF JoinOf
    <2>2. k + 1 = l /\ l \in k + 1 .. k + 1 /\ l - k = 1
      BY <1>11
    <2>3. z[l] = s[l]
      BY <1>14, <2>1, <2>2
    <2>4. \A i \in 1 .. l : i \in 1 .. k \/ i = l
      BY <1>11
    <2>5. \A i \in 1 .. l : z[i] = s[i]
      BY <1>12, <2>1, <2>3, <2>4
    <2> QED
      BY <1>1, <2>1, <2>2, <2>5, Extensional
  <1>18. (low \o one) \o Operands!Front(list) = s
    BY <1>7, <1>15, <1>17, JoinedToNothing
  <1>19. (low \o Tail(list)) \o one = s
    <2>1. low \o Tail(list) = low
      BY <1>8, <1>12, JoinedToNothing
    <2> QED
      BY <1>15, <1>17, <2>1
  <1> QED
    BY <1>6, <1>9, <1>13, <1>18, <1>19, <1>20, Zenon

-----------------------------------------------------------------------------
(* Each instruction does to the sequence what its stack effect promises    *)

(* A context's stack carries its contents.                                 *)
LEMMA OfCarries ==
  ASSUME StackIInv, NEW c \in Owners
  PROVE  /\ Carries(Of(c), Contents(stacks[c]), Allocated(stacks[c]))
         /\ Contents(stacks[c]) \in Seq(Values)
         /\ Len(Contents(stacks[c])) = Depth(c)
         /\ Depth(c) \in Nat
         /\ Depth(c) <= Allocated(stacks[c])
         /\ Depth(c) <= MaxAllocated
         /\ MaxAllocated \in Nat
  <1>1. Elsewhere(c) \in Clones /\ Sound(Of(c), Elsewhere(c)) /\ Of(c).stack = stacks[c]
    BY OfSound
  <1>2. stacks[c] \in Stacks
    BY DEF StackIInv
  <1>3. Allocated(stacks[c]) \in 0 .. MaxAllocated /\ MaxAllocated \in Nat
    BY <1>2, StackFacts, StackAssumption
  <1>4. Carries(Of(c), Contents(stacks[c]), Allocated(stacks[c]))
    BY <1>1, <1>3 DEF Carries
  <1>5. Contents(stacks[c]) \in Seq(Values) /\ Len(Contents(stacks[c])) = stacks[c].count
    BY <1>2, ContentsAre
  <1> QED
    BY <1>3, <1>4, <1>5, OfSound DEF Depth

(* When one stack is replaced, one sequence is.                            *)
LEMMA StackBecomes ==
  ASSUME StackIInv, NEW c \in Owners, NEW s, stacks' = [stacks EXCEPT ![c] = s]
  PROVE  Operands!Becomes(c, Contents(s))
  <1>1. DOMAIN stacks = Owners
    BY DEF StackIInv
  <1>2. stacks'[c] = s /\ \A d \in Owners \ {c} : stacks'[d] = stacks[d]
    BY <1>1
  <1>3. [d \in Owners |-> Contents(stacks'[d])]
          = [[d \in Owners |-> Contents(stacks[d])] EXCEPT ![c] = Contents(s)]
    <2>1. \A d \in Owners : Contents(stacks'[d]) = IF d = c THEN Contents(s) ELSE Contents(stacks[d])
      BY <1>2
    <2> QED
      BY <2>1
  <1>4. [d \in Owners |-> Contents(stacks[d])]' = [d \in Owners |-> Contents(stacks'[d])]
    BY DEF Contents
  <1> QED
    BY <1>3, <1>4 DEF Operands!Becomes

(* An instruction that ends with a stack that carries u makes u the        *)
(* sequence.                                                               *)
LEMMA BecomesIs ==
  ASSUME StackIInv, NEW c \in Owners, NEW m, NEW u, NEW a, Carries(m, u, a), Become(c, m)
  PROVE  Operands!Becomes(c, u)
  <1>1. stacks' = [stacks EXCEPT ![c] = m.stack] /\ u = Contents(m.stack)
    BY DEF Become, Carries
  <1> QED
    BY <1>1, StackBecomes

(* The sequence of a context, as OperandStack sees it.                     *)
LEMMA SeenThere ==
  ASSUME NEW c \in Owners
  PROVE  [d \in Owners |-> Contents(stacks[d])][c] = Contents(stacks[c])
  OBVIOUS

(* Where no stack changes, no sequence does.                               *)
LEMMA SameStacks ==
  ASSUME stacks' = stacks
  PROVE  UNCHANGED Operands!vars
  BY DEF Operands!vars, Contents

(* A stack that carries what it did before changes no sequence.            *)
LEMMA SameSequence ==
  ASSUME NEW c \in Owners, Operands!Becomes(c, Contents(stacks[c]))
  PROVE  UNCHANGED Operands!vars
  <1>1. [d \in Owners |-> Contents(stacks[d])]'
          = [[d \in Owners |-> Contents(stacks[d])] EXCEPT ![c] = Contents(stacks[c])]
    BY DEF Operands!Becomes
  <1>2. [[d \in Owners |-> Contents(stacks[d])] EXCEPT ![c] = Contents(stacks[c])]
          = [d \in Owners |-> Contents(stacks[d])]
    OBVIOUS
  <1> QED
    BY <1>1, <1>2 DEF Operands!vars

(* The count on the top, and the values below it.                          *)
LEMMA TopValue ==
  ASSUME StackIInv, NEW c \in Owners, Depth(c) >= 1
  PROVE  /\ Top(Of(c), 1)[1] = Operands!Last(Contents(stacks[c]))
         /\ Top(Of(c), 1)[1] \in Values
         /\ Contents(stacks[c]) # << >>
  <1>1. PICK s \in Stacks : s = stacks[c]
    BY DEF StackIInv
  <1>2. Of(c).stack = s /\ s.count = Depth(c)
    BY <1>1, OfSound
  <1>3. PICK l \in Nat : l = s.count /\ l >= 1
    BY <1>2, OfSound
  <1>4. 1 \in 0 .. Of(c).stack.count
    BY <1>2, <1>3
  <1>5. /\ Top(Of(c), 1) \in Seq(Values) /\ Len(Top(Of(c), 1)) = 1
        /\ \A i \in 1 .. 1 : Top(Of(c), 1)[i] = Contents(Of(c).stack)[(Of(c).stack.count + 1) - i]
    BY <1>1, <1>2, <1>4, SeqTop
  <1>6. Top(Of(c), 1)[1] = Contents(s)[l]
    <2>1. (l + 1) - 1 = l
      OBVIOUS
    <2> QED
      BY <1>2, <1>3, <1>5, <2>1
  <1>7. Contents(s) \in Seq(Values) /\ Len(Contents(s)) = l
    BY <1>3, ContentsAre
  <1>8. Contents(s)[l] \in Values
    BY <1>3, <1>7, ElementOfSeq
  <1>9. Operands!Last(Contents(s)) = Contents(s)[l]
    BY <1>7 DEF Operands!Last
  <1>10. Contents(s) # << >>
    BY <1>3, <1>7, NotEmpty
  <1> QED
    BY <1>1, <1>6, <1>8, <1>9, <1>10

(* A count that is large enough is one the abstract stack counts.          *)
LEMMA CountedIs ==
  ASSUME StackIInv, NEW c \in Owners, NEW n \in Nat, Depth(c) > n,
         n = Operands!SizeOf(Operands!Last(Contents(stacks[c])))
  PROVE  Operands!Counted(c, n)
  <1>1. Depth(c) \in Nat /\ Len(Contents(stacks[c])) = Depth(c) /\ Depth(c) >= 1
    BY OfCarries
  <1>2. Contents(stacks[c]) # << >>
    BY <1>1, TopValue
  <1>3. Len(Contents(stacks[c])) > n
    BY <1>1
  <1>4. PICK all : all = [d \in Owners |-> Contents(stacks[d])]
    OBVIOUS
  <1>5. all[c] = Contents(stacks[c])
    BY <1>4
  <1>6. all[c] # << >> /\ n = Operands!SizeOf(Operands!Last(all[c])) /\ Len(all[c]) > n
    BY <1>2, <1>3, <1>5, Zenon
  <1> QED
    BY <1>4, <1>6, Zenon DEF Operands!Counted

(* Half of the address space is a number.                                  *)
LEMMA HalfWordNat ==
  HalfWord \in Nat
  BY HalfWordPower, WordAssumption

(* A count as size_t with as many values below it is not a negative one:   *)
(* half of the address space is more than any stack holds.                 *)
LEMMA EnoughCounted ==
  ASSUME StackIInv, NEW c \in Owners, NEW n \in 0 .. Depth(c), Enough(c, n)
  PROVE  /\ Operands!Counted(c, n)
         /\ Depth(c) > n /\ Depth(c) >= 1 /\ n \in Nat
  <1>1. PICK v \in Values : v = Top(Of(c), 1)[1] /\ v = Operands!Last(Contents(stacks[c]))
    <2>1. Depth(c) \in Nat
      BY OfCarries
    <2>2. Depth(c) >= 1
      BY <2>1 DEF Enough
    <2> QED
      BY <2>2, TopValue
  <1>2. n = IF v \notin Ints THEN 0 ELSE IF v < 0 THEN v + 2 * HalfWord ELSE v
    BY <1>1 DEF Enough, Count
  <1>3. Depth(c) \in Nat /\ Depth(c) <= MaxAllocated /\ MaxAllocated \in Nat /\ Depth(c) > n /\ n \in Nat
    BY OfCarries DEF Enough
  <1>4. HalfWord \in Nat /\ HalfWord > MaxAllocated + 1
    BY HalfWordNat, WordAssumption
  <1>5. n = Operands!SizeOf(v)
    <2>1. CASE v \notin Ints
      BY <1>2, <2>1 DEF Operands!SizeOf
    <2>2. CASE v \in Ints
      <3>1. v \in - HalfWord .. HalfWord - 1
        BY <2>2, WordAssumption
      <3>2. v \in Int /\ v >= - HalfWord
        BY <1>4, <3>1
      <3>3. ~ (v < 0)
        BY <1>2, <1>3, <1>4, <2>2, <3>2
      <3>4. n = v
        BY <1>2, <2>2, <3>3
      <3> QED
        BY <1>3, <2>2, <3>4 DEF Operands!SizeOf
    <2> QED
      BY <2>1, <2>2
  <1> QED
    BY <1>1, <1>3, <1>5, CountedIs

(* The number of parameters of CORO is a signed count.                     *)
LEMMA ParamsCounted ==
  ASSUME StackIInv, NEW c \in Owners, NEW n \in 0 .. Depth(c), n = Params(c), Depth(c) > n
  PROVE  Operands!Counted(c, n)
  <1>1. Depth(c) \in Nat /\ n \in Nat /\ Depth(c) >= 1
    BY OfCarries
  <1>2. PICK v : v = Top(Of(c), 1)[1] /\ v = Operands!Last(Contents(stacks[c]))
    BY <1>1, TopValue
  <1>3. n = Operands!SizeOf(v)
    BY <1>2 DEF Params, Operands!SizeOf
  <1> QED
    BY <1>1, <1>2, <1>3, CountedIs

(* A literal is pushed, or nothing changes.                                *)
LEMMA LiteralIs ==
  ASSUME StackIInv, NEW c \in Owners, Literal(c)
  PROVE  (\E v \in Values : Operands!Push(c, v)) \/ UNCHANGED Operands!vars
  <1>1. PICK v \in Values : Become(c, PushNew(Of(c), v))
    BY DEF Literal
  <1>2. PICK u : u = Contents(stacks[c])
    OBVIOUS
  <1>3. PICK a : a = Allocated(stacks[c])
    OBVIOUS
  <1>4. Carries(Of(c), u, a)
    BY <1>2, <1>3, OfCarries
  <1>5. CASE Refused(Of(c).stack, 1)
    <2>1. Carries(PushNew(Of(c), v), u, a)
      BY <1>4, <1>5, CarriesPushNew
    <2>2. Operands!Becomes(c, u)
      BY <1>1, <2>1, BecomesIs
    <2> QED
      BY <1>2, <2>2, SameSequence
  <1>6. CASE ~ Refused(Of(c).stack, 1)
    <2>1. Carries(PushNew(Of(c), v), Append(u, v), a)
      BY <1>4, <1>6, CarriesPushNew
    <2>2. Operands!Becomes(c, Append(u, v))
      BY <1>1, <2>1, BecomesIs
    <2>3. Operands!Push(c, v)
      BY <1>2, <2>2, SeenThere, Zenon DEF Operands!Push
    <2> QED
      BY <2>3
  <1> QED
    BY <1>5, <1>6

(* Some values are popped, and one is pushed for them.                     *)
LEMMA ReplaceIs ==
  ASSUME StackIInv, NEW c \in Owners, NEW n \in Nat, Depth(c) >= n, NEW v,
         Operands!Becomes(c, Append(Operands!Below(Contents(stacks[c]), n), v))
  PROVE  Operands!Replace(c, n, v)
  <1>1. Len(Contents(stacks[c])) >= n
    BY OfCarries
  <1> QED
    BY <1>1, SeenThere, Zenon DEF Operands!Replace

(* Operands are replaced by the result: what they leave is room for it.    *)
LEMMA OperateIs ==
  ASSUME StackIInv, NEW c \in Owners, NEW n \in 1 .. 2, Operate(c, n)
  PROVE  \E v \in Values : Operands!Replace(c, n, v)
  <1>1. PICK v \in Ints : Become(c, Destroyed(PushNew(Popped(Of(c), n), v), Top(Of(c), n)))
    BY DEF Operate
  <1>2. v \in Values
    BY DEF Values
  <1>3. PICK u : u = Contents(stacks[c])
    OBVIOUS
  <1>4. PICK a \in Nat : a = Allocated(stacks[c])
    BY OfCarries, CarriesFacts
  <1>5. Carries(Of(c), u, a) /\ u \in Seq(Values) /\ Len(u) \in Nat /\ Len(u) <= a /\ Len(u) = Depth(c)
    BY <1>3, <1>4, OfCarries
  <1>6. n \in 0 .. Len(u) /\ n \in Nat /\ Depth(c) >= n
    BY <1>5 DEF Operate
  <1>7. PICK low : low = Operands!Below(u, n)
    OBVIOUS
  <1>8. PICK m, list : m = Popped(Of(c), n) /\ list = Top(Of(c), n)
    OBVIOUS
  <1>9. Carries(m, low, a) /\ list \in Seq(Values)
    BY <1>5, <1>6, <1>7, <1>8, CarriesPopped
  <1>10. Len(low) + 1 <= a
    <2>1. Len(low) = Len(u) - n
      BY <1>5, <1>6, <1>7, PartLengths
    <2> QED
      BY <1>5, <2>1
  <1>11. Carries(PushNew(m, v), Append(low, v), a)
    BY <1>2, <1>9, <1>10, CarriesPushNew
  <1>12. Carries(Destroyed(PushNew(m, v), list), Append(low, v), a)
    BY <1>9, <1>11, CarriesDestroyed
  <1>13. Operands!Becomes(c, Append(low, v))
    BY <1>1, <1>8, <1>12, BecomesIs
  <1>14. Operands!Replace(c, n, v)
    BY <1>3, <1>6, <1>7, <1>13, ReplaceIs
  <1> QED
    BY <1>2, <1>14

(* The top goes.                                                           *)
LEMMA DropIs ==
  ASSUME StackIInv, NEW c \in Owners, Depth(c) >= 1,
         Operands!Becomes(c, Operands!Below(Contents(stacks[c]), 1))
  PROVE  Operands!Drop(c)
  <1>1. Contents(stacks[c]) # << >>
    BY TopValue
  <1> QED
    BY <1>1, SeenThere, Zenon DEF Operands!Drop

(* After the count is popped, a stack carries what was below it.           *)
LEMMA CountPoppedCarries ==
  ASSUME StackIInv, NEW c \in Owners, Depth(c) >= 1
  PROVE  /\ Carries(CountPopped(c), Operands!Below(Contents(stacks[c]), 1), Allocated(stacks[c]))
         /\ Carries(Popped(Of(c), 1), Operands!Below(Contents(stacks[c]), 1), Allocated(stacks[c]))
         /\ Top(Of(c), 1) \in Seq(Values)
         /\ Len(Top(Of(c), 1)) = 1
         /\ Top(Of(c), 1) = Operands!Reverse(Operands!TopOf(Contents(stacks[c]), 1))
         /\ Operands!Below(Contents(stacks[c]), 1) \in Seq(Values)
         /\ Len(Operands!Below(Contents(stacks[c]), 1)) = Depth(c) - 1
  <1>1. PICK u, a : u = Contents(stacks[c]) /\ a = Allocated(stacks[c])
    OBVIOUS
  <1>2. Carries(Of(c), u, a) /\ u \in Seq(Values) /\ Len(u) = Depth(c) /\ Depth(c) \in Nat
    BY <1>1, OfCarries
  <1>3. 1 \in 0 .. Len(u)
    BY <1>2
  <1>4. /\ Carries(PoppedAway(Of(c), 1), Operands!Below(u, 1), a)
        /\ Carries(Popped(Of(c), 1), Operands!Below(u, 1), a)
        /\ Top(Of(c), 1) \in Seq(Values) /\ Len(Top(Of(c), 1)) = 1
        /\ Top(Of(c), 1) = Operands!Reverse(Operands!TopOf(u, 1))
    BY <1>2, <1>3, CarriesPopped
  <1>5. Operands!Below(u, 1) \in Seq(Values) /\ Len(Operands!Below(u, 1)) = Depth(c) - 1
    BY <1>2, <1>3, PartLengths
  <1> QED
    BY <1>1, <1>4, <1>5 DEF CountPopped

(* JMP0 and JMPU drop the condition.                                       *)
LEMMA BranchIs ==
  ASSUME StackIInv, NEW c \in Owners, Branch(c)
  PROVE  Operands!Drop(c)
  <1>1. Depth(c) >= 1 /\ Become(c, Destroyed(Popped(Of(c), 1), Top(Of(c), 1)))
    BY DEF Branch
  <1>2. Carries(Destroyed(Popped(Of(c), 1), Top(Of(c), 1)),
                Operands!Below(Contents(stacks[c]), 1), Allocated(stacks[c]))
    BY <1>1, CountPoppedCarries, CarriesDestroyed
  <1>3. Operands!Becomes(c, Operands!Below(Contents(stacks[c]), 1))
    BY <1>1, <1>2, BecomesIs
  <1> QED
    BY <1>1, <1>3, DropIs

(* DROP, and ROT, TOR or REV without memory.                               *)
LEMMA PoppedAwayIs ==
  ASSUME StackIInv, NEW c \in Owners, Depth(c) >= 1, Become(c, CountPopped(c))
  PROVE  Operands!Drop(c)
  <1>1. Carries(CountPopped(c), Operands!Below(Contents(stacks[c]), 1), Allocated(stacks[c]))
    BY CountPoppedCarries
  <1>2. Operands!Becomes(c, Operands!Below(Contents(stacks[c]), 1))
    BY <1>1, BecomesIs
  <1> QED
    BY <1>2, DropIs

(* REV without memory replaces the count by a zero.                        *)
LEMMA RevFailsIs ==
  ASSUME StackIInv, NEW c \in Owners, RevFails(c)
  PROVE  Operands!RevFails(c)
  <1>1. Depth(c) >= 1 /\ Become(c, PushNew(CountPopped(c), 0))
    BY DEF RevFails, NoMemory
  <1>2. PICK a \in Nat : a = Allocated(stacks[c])
    BY OfCarries, CarriesFacts
  <1>3. PICK low : low = Operands!Below(Contents(stacks[c]), 1)
    OBVIOUS
  <1>4. Carries(CountPopped(c), low, a) /\ Len(low) = Depth(c) - 1
    BY <1>1, <1>2, <1>3, CountPoppedCarries
  <1>5. Len(low) + 1 <= a
    BY <1>2, <1>4, OfCarries
  <1>6. 0 \in Values
    BY StackAssumption DEF Values
  <1>7. Carries(PushNew(CountPopped(c), 0), Append(low, 0), a)
    BY <1>4, <1>5, <1>6, CarriesPushNew
  <1>8. Operands!Becomes(c, Append(low, 0))
    BY <1>1, <1>7, BecomesIs
  <1>9. Operands!Replace(c, 1, 0)
    BY <1>1, <1>3, <1>8, ReplaceIs
  <1> QED
    BY <1>9 DEF Operands!RevFails

(* A value is copied from below the top.                                   *)
LEMMA CopyPushes ==
  ASSUME StackIInv, NEW c \in Owners, NEW d \in 1 .. 2, Copy(c, d)
  PROVE  \/ UNCHANGED Operands!vars
         \/ Operands!Becomes(c, Append(Contents(stacks[c]), Contents(stacks[c])[(Depth(c) + 1) - d]))
  <1>1. CASE Stops("wild")
    BY <1>1, SameStacks DEF Stops
  <1>2. CASE Become(c, Pushed(Of(c), <<stacks[c].items[Depth(c) - d]>>))
    <2>1. PICK u, a : u = Contents(stacks[c]) /\ a = Allocated(stacks[c])
      OBVIOUS
    <2>2. Carries(Of(c), u, a) /\ u \in Seq(Values) /\ Len(u) = Depth(c) /\ Depth(c) \in Nat
            /\ Depth(c) <= MaxAllocated /\ MaxAllocated \in Nat
      BY <2>1, OfCarries
    <2>3. PICK v : v = stacks[c].items[Depth(c) - d]
      OBVIOUS
    <2>4. (Depth(c) + 1) - d \in 1 .. Depth(c) /\ ((Depth(c) + 1) - d) - 1 = Depth(c) - d
      <3>1. Depth(c) >= d
        BY DEF Copy
      <3>2. Depth(c) \in Nat
        BY <2>2
      <3> QED
        BY <3>1, <3>2
    <2>5. v = u[(Depth(c) + 1) - d]
      <3>1. stacks[c] \in Stacks /\ stacks[c].count = Depth(c)
        BY DEF StackIInv, Depth
      <3>2. u[(Depth(c) + 1) - d] = stacks[c].items[((Depth(c) + 1) - d) - 1]
        BY <2>1, <2>4, <3>1, ContentsAre
      <3> QED
        BY <2>3, <2>4, <3>2
    <2>6. v \in Values
      BY <2>2, <2>4, <2>5, ElementOfSeq
    <2>7. PICK list : list = <<v>>
      OBVIOUS
    <2>8. list \in Seq(Values) /\ Len(list) = 1 /\ Operands!Reverse(list) = <<v>>
      BY <2>6, <2>7, OneValue, ReverseOne
    <2>9. u \o <<v>> = Append(u, v)
      BY <2>2, <2>6, AppendIsConcat, Zenon
    <2>10. Len(u) + 1 <= MaxAllocated + 1 /\ 1 \in Nat
      BY <2>2
    <2>11. Become(c, Pushed(Of(c), list))
      BY <1>2, <2>3, <2>7
    <2>12. CASE Refused(Of(c).stack, 1)
      <3>1. Carries(Pushed(Of(c), list), u, a)
        BY <2>2, <2>8, <2>10, <2>12, CarriesPushed
      <3>2. Operands!Becomes(c, u)
        BY <2>11, <3>1, BecomesIs
      <3> QED
        BY <2>1, <3>2, SameSequence
    <2>13. CASE ~ Refused(Of(c).stack, 1)
      <3>1. Carries(Pushed(Of(c), list), u \o Operands!Reverse(list), a)
        BY <2>2, <2>8, <2>10, <2>13, CarriesPushed
      <3>2. Carries(Pushed(Of(c), list), Append(u, v), a)
        BY <2>8, <2>9, <3>1
      <3>3. Operands!Becomes(c, Append(u, v))
        BY <2>11, <3>2, BecomesIs
      <3> QED
        BY <2>1, <2>5, <3>3
    <2> QED
      BY <2>12, <2>13
  <1> QED
    BY <1>1, <1>2 DEF Copy

(* DUP pushes the top again, or changes nothing.                           *)
LEMMA DupIs ==
  ASSUME StackIInv, NEW c \in Owners, Dup(c)
  PROVE  Operands!Dup(c) \/ UNCHANGED Operands!vars
  <1>1. PICK u : u = Contents(stacks[c])
    OBVIOUS
  <1>2. Depth(c) >= 1 /\ Copy(c, 1)
    BY DEF Dup, Copy
  <1>3. u # << >> /\ u \in Seq(Values) /\ Len(u) = Depth(c) /\ Depth(c) \in Nat
    BY <1>1, <1>2, OfCarries, TopValue
  <1>4. Operands!Last(u) = u[Depth(c)] /\ (Depth(c) + 1) - 1 = Depth(c)
    BY <1>3 DEF Operands!Last
  <1>5. UNCHANGED Operands!vars \/ Operands!Becomes(c, Append(u, u[(Depth(c) + 1) - 1]))
    BY <1>1, <1>2, CopyPushes
  <1>6. ASSUME Operands!Becomes(c, Append(u, Operands!Last(u)))
        PROVE  Operands!Dup(c)
    BY <1>1, <1>3, <1>6, SeenThere, Zenon DEF Operands!Dup, Operands!Push
  <1> QED
    BY <1>4, <1>5, <1>6

(* OVER pushes the value under the top, or changes nothing.                *)
LEMMA OverIs ==
  ASSUME StackIInv, NEW c \in Owners, Over(c)
  PROVE  Operands!Over(c) \/ UNCHANGED Operands!vars
  <1>1. PICK u : u = Contents(stacks[c])
    OBVIOUS
  <1>2. Depth(c) >= 2 /\ Copy(c, 2)
    BY DEF Over, Copy
  <1>3. PICK l \in Nat : l = Depth(c) /\ u \in Seq(Values) /\ Len(u) = l /\ l >= 2 /\ 2 \in 0 .. l
    BY <1>1, <1>2, OfCarries
  <1>4. Operands!TopOf(u, 2)[1] = u[(l + 1) - 2]
    <2>1. HighPart(Operands!TopOf(u, 2), u, l, 2)
      BY <1>3, Parts
    <2>2. Operands!TopOf(u, 2)[1] = u[(l - 2) + 1]
      BY <2>1 DEF HighPart
    <2>3. (l - 2) + 1 = (l + 1) - 2
      OBVIOUS
    <2> QED
      BY <2>2, <2>3
  <1>5. UNCHANGED Operands!vars \/ Operands!Becomes(c, Append(u, u[(l + 1) - 2]))
    BY <1>1, <1>2, <1>3, CopyPushes
  <1>6. Len(u) > 1
    BY <1>3
  <1>7. ASSUME Operands!Becomes(c, Append(u, Operands!TopOf(u, 2)[1]))
        PROVE  Operands!Over(c)
    BY <1>1, <1>6, <1>7, SeenThere, Zenon DEF Operands!Over, Operands!Push
  <1> QED
    BY <1>4, <1>5, <1>7

(* The two values on top, the other way round.                             *)
LEMMA SwapContents ==
  ASSUME NEW s \in Stacks, s.count > 1
  PROVE  Contents(Swapped(s))
           = Operands!Below(Contents(s), 2) \o Operands!Reverse(Operands!TopOf(Contents(s), 2))
  <1>1. PICK l \in Nat : l = s.count /\ l > 1
    BY StackFacts
  <1>2. PICK t : t = Swapped(s)
    OBVIOUS
  <1>3. /\ t \in Stacks /\ t.count = l
        /\ \A i \in 0 .. l - 3 : t.items[i] = s.items[i]
        /\ t.items[l - 1] = s.items[l - 2]
        /\ t.items[l - 2] = s.items[l - 1]
    BY <1>1, <1>2, SwappedSame
  <1>4. PICK u : u = Contents(s)
    OBVIOUS
  <1>5. u \in Seq(Values) /\ Len(u) = l /\ \A i \in 1 .. l : u[i] = s.items[i - 1]
    BY <1>1, <1>4, ContentsAre
  <1>6. PICK w : w = Contents(t)
    OBVIOUS
  <1>7. w \in Seq(Values) /\ Len(w) = l /\ \A i \in 1 .. l : w[i] = t.items[i - 1]
    BY <1>3, <1>6, ContentsAre
  <1>8. PICK k \in Nat : k = l - 2
    BY <1>1
  <1>9. l \in 1 .. l /\ l - 1 \in 1 .. l /\ (l - 1) - 1 = l - 2
    BY <1>1
  <1>10. w[l] = u[l - 1] /\ w[l - 1] = u[l]
    BY <1>3, <1>5, <1>7, <1>9
  <1>11. \A i \in 1 .. k : w[i] = u[i]
    <2> TAKE i \in 1 .. k
    <2>1. i \in 1 .. l /\ i - 1 \in 0 .. l - 3
      BY <1>8
    <2> QED
      BY <1>3, <1>5, <1>7, <2>1
  <1>12. PICK low, top : low = Operands!Below(u, 2) /\ top = Operands!TopOf(u, 2)
    OBVIOUS
  <1>13. 2 \in 0 .. l
    BY <1>1
  <1>14. LowPart(low, u, l, 2) /\ HighPart(top, u, l, 2)
    BY <1>5, <1>12, <1>13, Parts
  <1>15. low \in Seq(Values) /\ Len(low) = k /\ \A i \in 1 .. k : low[i] = u[i]
    BY <1>8, <1>14 DEF LowPart
  <1>16. top \in Seq(Values) /\ Len(top) = 2 /\ \A i \in 1 .. 2 : top[i] = u[(l - 2) + i]
    BY <1>14 DEF HighPart
  <1>17. PICK r : r = Operands!Reverse(top)
    OBVIOUS
  <1>18. r \in Seq(Values) /\ Len(r) = 2 /\ \A i \in 1 .. 2 : r[i] = top[(2 + 1) - i]
    BY <1>16, <1>17, ReverseIs
  <1>19. r[1] = u[l] /\ r[2] = u[l - 1]
    <2>1. r[1] = top[2] /\ r[2] = top[1]
      BY <1>18
    <2>2. top[2] = u[(l - 2) + 2] /\ top[1] = u[(l - 2) + 1]
      BY <1>16
    <2>3. (l - 2) + 2 = l /\ (l - 2) + 1 = l - 1
      OBVIOUS
    <2> QED
      BY <2>1, <2>2, <2>3
  <1>20. PICK z : z = low \o r
    OBVIOUS
  <1>21. JoinOf(z, low, r, k, 2)
    <2>1. low \in Seq(Values) /\ Len(low) = k /\ r \in Seq(Values) /\ Len(r) = 2 /\ 2 \in Nat
      BY <1>15, <1>18
    <2> QED
      BY <1>20, <2>1, Joined
  <1>22. z \in Seq(Values) /\ Len(z) = k + 2 /\ (\A i \in 1 .. k : z[i] = low[i])
           /\ \A i \in k + 1 .. k + 2 : z[i] = r[i - k]
    BY <1>21 DEF JoinOf
  <1>23. z[l] = w[l] /\ z[l - 1] = w[l - 1]
    <2>1. l \in k + 1 .. k + 2 /\ l - 1 \in k + 1 .. k + 2 /\ l - k = 2 /\ (l - 1) - k = 1
      BY <1>8
    <2>2. z[l] = r[2] /\ z[l - 1] = r[1]
      BY <1>22, <2>1
    <2> QED
      BY <1>10, <1>19, <2>2
  <1>24. \A i \in 1 .. l : i \in 1 .. k \/ i = l - 1 \/ i = l
    BY <1>8
  <1>25. \A i \in 1 .. l : w[i] = z[i]
    BY <1>11, <1>15, <1>22, <1>23, <1>24
  <1>26. Len(z) = l
    <2>1. k + 2 = l
      BY <1>8
    <2> QED
      BY <1>22, <2>1
  <1>27. w = z
    BY <1>7, <1>22, <1>25, <1>26, Extensional
  <1> QED
    BY <1>2, <1>4, <1>6, <1>12, <1>17, <1>20, <1>27

(* SWAP turns over the two values on top.                                  *)
LEMMA SwapSwaps ==
  ASSUME StackIInv, NEW c \in Owners, Swap(c)
  PROVE  Operands!Swap(c)
  <1>1. PICK s \in Stacks : s = stacks[c]
    BY DEF StackIInv
  <1>2. s.count > 1 /\ Depth(c) > 1
    BY <1>1 DEF Swap, Depth
  <1>3. PICK m : m = [stack |-> Swapped(s), held |-> held]
    OBVIOUS
  <1>4. stacks' = [stacks EXCEPT ![c] = Swapped(s)]
    <2>1. Become(c, m) /\ m.stack = Swapped(s)
      BY <1>1, <1>3, SwapIs
    <2> QED
      BY <2>1 DEF Become
  <1>5. Operands!Becomes(c, Contents(Swapped(s)))
    BY <1>4, StackBecomes
  <1>6. Len(Contents(stacks[c])) > 1
    BY <1>2, OfCarries
  <1> QED
    BY <1>1, <1>2, <1>5, <1>6, SwapContents, SeenThere, Zenon DEF Operands!Swap

-----------------------------------------------------------------------------
(* ROT, TOR and REV have their stack effects                               *)

(* ROT moves the top below the others.                                     *)
LEMMA RotIs ==
  ASSUME StackIInv, NEW c \in Owners, NEW n \in 0 .. Depth(c), Rot(c, n)
  PROVE  Operands!Rot(c, n)
  <1>1. Operands!Counted(c, n) /\ Depth(c) > n /\ Depth(c) >= 1 /\ n \in Nat
    BY EnoughCounted DEF Rot
  <1>2. PICK m : m = CountPopped(c)
    OBVIOUS
  <1>3. PICK a : a = Allocated(stacks[c])
    OBVIOUS
  <1>4. PICK s : s = Operands!Below(Contents(stacks[c]), 1)
    OBVIOUS
  <1>5. Carries(m, s, a) /\ s \in Seq(Values) /\ Len(s) = Depth(c) - 1
    BY <1>1, <1>2, <1>3, <1>4, CountPoppedCarries
  <1>6. PICK l \in Nat : l = Len(s) /\ n <= l /\ l <= a /\ n \in 0 .. Len(s)
    BY <1>1, <1>3, <1>5, OfCarries, CarriesFacts
  <1>7. PICK list : list = Operands!TopOf(s, n)
    OBVIOUS
  <1>8. PICK x : x = IF n = 0 THEN s ELSE (Operands!Below(s, n) \o <<Operands!Last(list)>>) \o Operands!Front(list)
    OBVIOUS
  <1>9. ASSUME n <= 1 PROVE Operands!Becomes(c, x)
    <2>1. Become(c, m)
      BY <1>1, <1>2, <1>9 DEF Rot
    <2>2. Operands!Becomes(c, s)
      BY <1>5, <2>1, BecomesIs
    <2>3. x = s
      <3>1. CASE n = 0
        BY <1>8, <3>1
      <3>2. CASE n = 1
        <4>1. Len(s) >= 1 /\ n # 0
          BY <1>6, <3>2
        <4>2. (Operands!Below(s, n) \o <<Operands!Last(list)>>) \o Operands!Front(list) = s
          BY <1>5, <1>7, <3>2, <4>1, OneTurned, Zenon
        <4> QED
          BY <1>8, <4>1, <4>2, Zenon
      <3> QED
        BY <1>1, <1>9, <3>1, <3>2
    <2> QED
      BY <2>2, <2>3
  <1>10. ASSUME n > 1 PROVE Operands!Becomes(c, x)
    <2>1. PICK y \in Nat : y = n - 1
      BY <1>10
    <2>2. Become(c, Destroyed(Pushed(Pushed(Popped(Popped(m, 1), y), Top(m, 1)), Top(Popped(m, 1), y)),
                              Top(m, 1) \o Top(Popped(m, 1), y)))
      BY <1>2, <1>10, <2>1, Zenon DEF Rot
    <2>3. 1 \in Nat /\ n = 1 + y /\ Len(s) <= a
      BY <1>1, <1>6, <2>1
    <2>4. Carries(Destroyed(Pushed(Pushed(Popped(Popped(m, 1), y), Top(m, 1)), Top(Popped(m, 1), y)),
                            Top(m, 1) \o Top(Popped(m, 1), y)),
                  (Operands!Below(s, n) \o Operands!TopOf(s, 1)) \o Operands!TopOf(Operands!Below(s, 1), y), a)
      BY <1>5, <1>6, <2>3, TurnedOver
    <2>5. Operands!Becomes(c, (Operands!Below(s, n) \o Operands!TopOf(s, 1))
                                \o Operands!TopOf(Operands!Below(s, 1), y))
      BY <2>2, <2>4, BecomesIs
    <2>6. n \in 2 .. l
      BY <1>6, <1>10
    <2>7. /\ Operands!TopOf(s, 1) = <<Operands!Last(list)>>
          /\ Operands!TopOf(Operands!Below(s, 1), y) = Operands!Front(list)
      BY <1>5, <1>6, <1>7, <2>1, <2>6, TopParts, Zenon
    <2>8. n # 0
      BY <1>10
    <2> QED
      BY <1>8, <2>5, <2>7, <2>8, Zenon
  <1>11. Operands!Becomes(c, x)
    BY <1>1, <1>9, <1>10
  <1>12. Operands!Becomes(c, IF n = 0 THEN s ELSE (Operands!Below(s, n) \o <<Operands!Last(list)>>) \o Operands!Front(list))
    BY <1>8, <1>11, Zenon
  <1> QED
    BY <1>1, <1>4, <1>7, <1>12, SeenThere, Zenon DEF Operands!Rot

(* TOR moves the lowest above the others.                                  *)
LEMMA TorIs ==
  ASSUME StackIInv, NEW c \in Owners, NEW n \in 0 .. Depth(c), Tor(c, n)
  PROVE  Operands!Tor(c, n)
  <1>1. Operands!Counted(c, n) /\ Depth(c) > n /\ Depth(c) >= 1 /\ n \in Nat
    BY EnoughCounted DEF Tor
  <1>2. PICK m : m = CountPopped(c)
    OBVIOUS
  <1>3. PICK a : a = Allocated(stacks[c])
    OBVIOUS
  <1>4. PICK s : s = Operands!Below(Contents(stacks[c]), 1)
    OBVIOUS
  <1>5. Carries(m, s, a) /\ s \in Seq(Values) /\ Len(s) = Depth(c) - 1
    BY <1>1, <1>2, <1>3, <1>4, CountPoppedCarries
  <1>6. PICK l \in Nat : l = Len(s) /\ n <= l /\ l <= a /\ n \in 0 .. Len(s)
    BY <1>1, <1>3, <1>5, OfCarries, CarriesFacts
  <1>7. PICK list : list = Operands!TopOf(s, n)
    OBVIOUS
  <1>8. PICK x : x = IF n = 0 THEN s ELSE (Operands!Below(s, n) \o Tail(list)) \o <<Head(list)>>
    OBVIOUS
  <1>9. ASSUME n <= 1 PROVE Operands!Becomes(c, x)
    <2>1. Become(c, m)
      BY <1>1, <1>2, <1>9 DEF Tor
    <2>2. Operands!Becomes(c, s)
      BY <1>5, <2>1, BecomesIs
    <2>3. x = s
      <3>1. CASE n = 0
        BY <1>8, <3>1
      <3>2. CASE n = 1
        <4>1. Len(s) >= 1 /\ n # 0
          BY <1>6, <3>2
        <4>2. (Operands!Below(s, n) \o Tail(list)) \o <<Head(list)>> = s
          BY <1>5, <1>7, <3>2, <4>1, OneTurned, Zenon
        <4> QED
          BY <1>8, <4>1, <4>2, Zenon
      <3> QED
        BY <1>1, <1>9, <3>1, <3>2
    <2> QED
      BY <2>2, <2>3
  <1>10. ASSUME n > 1 PROVE Operands!Becomes(c, x)
    <2>1. PICK y \in Nat : y = n - 1
      BY <1>10
    <2>2. Become(c, Destroyed(Pushed(Pushed(Popped(Popped(m, y), 1), Top(m, y)), Top(Popped(m, y), 1)),
                              Top(m, y) \o Top(Popped(m, y), 1)))
      BY <1>2, <1>10, <2>1, Zenon DEF Tor
    <2>3. 1 \in Nat /\ n = y + 1 /\ Len(s) <= a
      BY <1>1, <1>6, <2>1
    <2>4. Carries(Destroyed(Pushed(Pushed(Popped(Popped(m, y), 1), Top(m, y)), Top(Popped(m, y), 1)),
                            Top(m, y) \o Top(Popped(m, y), 1)),
                  (Operands!Below(s, n) \o Operands!TopOf(s, y)) \o Operands!TopOf(Operands!Below(s, y), 1), a)
      BY <1>5, <1>6, <2>3, TurnedOver
    <2>5. Operands!Becomes(c, (Operands!Below(s, n) \o Operands!TopOf(s, y))
                                \o Operands!TopOf(Operands!Below(s, y), 1))
      BY <2>2, <2>4, BecomesIs
    <2>6. n \in 2 .. l
      BY <1>6, <1>10
    <2>7. /\ Operands!TopOf(s, y) = Tail(list)
          /\ Operands!TopOf(Operands!Below(s, y), 1) = <<Head(list)>>
      BY <1>5, <1>6, <1>7, <2>1, <2>6, TopParts, Zenon
    <2>8. n # 0
      BY <1>10
    <2> QED
      BY <1>8, <2>5, <2>7, <2>8, Zenon
  <1>11. Operands!Becomes(c, x)
    BY <1>1, <1>9, <1>10
  <1>12. Operands!Becomes(c, IF n = 0 THEN s ELSE (Operands!Below(s, n) \o Tail(list)) \o <<Head(list)>>)
    BY <1>8, <1>11, Zenon
  <1> QED
    BY <1>1, <1>4, <1>7, <1>12, SeenThere, Zenon DEF Operands!Tor

(* REV turns over the values under the count, and keeps the count.         *)
LEMMA RevIs ==
  ASSUME StackIInv, NEW c \in Owners, NEW n \in 0 .. Depth(c), Rev(c, n)
  PROVE  Operands!Rev(c, n)
  <1>1. Operands!Counted(c, n) /\ Depth(c) > n /\ Depth(c) >= 1 /\ n \in Nat
    BY EnoughCounted DEF Rev
  <1>2. PICK u, a : u = Contents(stacks[c]) /\ a = Allocated(stacks[c])
    OBVIOUS
  <1>3. PICK m, count : m = Popped(Of(c), 1) /\ count = Top(Of(c), 1)
    OBVIOUS
  <1>4. PICK s : s = Operands!Below(u, 1)
    OBVIOUS
  <1>5. Carries(m, s, a) /\ s \in Seq(Values) /\ Len(s) = Depth(c) - 1
          /\ count \in Seq(Values) /\ Len(count) = 1
          /\ count = Operands!Reverse(Operands!TopOf(u, 1))
    BY <1>1, <1>2, <1>3, <1>4, CountPoppedCarries
  <1>6. u \in Seq(Values) /\ Len(u) = Depth(c) /\ Depth(c) \in Nat /\ Depth(c) <= a /\ Depth(c) <= MaxAllocated
          /\ MaxAllocated \in Nat /\ a \in Nat
    BY <1>2, <1>5, OfCarries, CarriesFacts
  <1>7. n \in 0 .. Len(s)
    BY <1>1, <1>5, <1>6
  <1>8. PICK low, top : low = Operands!Below(s, n) /\ top = Operands!TopOf(s, n)
    OBVIOUS
  <1>9. low \in Seq(Values) /\ Len(low) = Len(s) - n /\ top \in Seq(Values) /\ Len(top) = n
    BY <1>5, <1>7, <1>8, PartLengths
  <1>10. PICK m1, list : m1 = Popped(m, n) /\ list = Top(m, n)
    OBVIOUS
  <1>11. Carries(m1, low, a) /\ list \in Seq(Values) /\ Len(list) = n /\ list = Operands!Reverse(top)
    BY <1>5, <1>7, <1>8, <1>10, CarriesPopped
  <1>12. PICK turned : turned = [i \in 1 .. n |-> list[n + 1 - i]]
    OBVIOUS
  <1>13. turned = top
    <2>1. turned = Operands!Reverse(list)
      <3>1. Operands!Reverse(list) = [i \in 1 .. n |-> list[(n - i) + 1]]
        BY <1>11 DEF Operands!Reverse
      <3>2. \A i \in 1 .. n : (n - i) + 1 = n + 1 - i
        BY <1>1
      <3> QED
        BY <1>12, <3>1, <3>2
    <2>2. Operands!Reverse(Operands!Reverse(top)) = top
      BY <1>9, ReverseTwice
    <2> QED
      BY <1>11, <2>1, <2>2, Zenon
  <1>14. PICK m2 : m2 = Pushed(m1, turned)
    OBVIOUS
  <1>15. PICK z : z = low \o Operands!Reverse(top)
    OBVIOUS
  <1>16. Carries(m2, z, a)
    <2>1. Len(low) + n <= MaxAllocated + 1 /\ Len(low) + n <= a
      BY <1>1, <1>5, <1>6, <1>9, SMTT(30)
    <2>2. turned \in Seq(Values) /\ Len(turned) = n
      BY <1>9, <1>13
    <2>3. ~ Refused(m1.stack, n)
      BY <1>1, <1>11, <2>1, <2>2, CarriesPushed
    <2>4. Carries(Pushed(m1, turned), low \o Operands!Reverse(turned), a)
      BY <1>1, <1>11, <2>1, <2>2, <2>3, CarriesPushed
    <2> QED
      BY <1>13, <1>14, <1>15, <2>4, Zenon
  <1>17. PICK m3 : m3 = Destroyed(m2, list)
    OBVIOUS
  <1>18. Carries(m3, z, a)
    BY <1>11, <1>16, <1>17, CarriesDestroyed
  <1>19. Len(z) = Depth(c) - 1
    <2>1. PICK r \in Seq(Values) : r = Operands!Reverse(top) /\ Len(r) = n
      BY <1>11
    <2>2. Len(low \o r) = Len(low) + Len(r)
      BY <1>9, <2>1, ConcatProperties, Zenon
    <2> QED
      BY <1>1, <1>5, <1>6, <1>9, <1>15, <2>1, <2>2, SMTT(30)
  <1>20. PICK end : end = Operands!Last(u)
    OBVIOUS
  <1>21. Operands!Reverse(count) = <<end>>
    <2>1. PICK l \in Nat : l = Depth(c) /\ Len(u) = l /\ 1 <= l /\ 1 \in 0 .. l
      BY <1>1, <1>6
    <2>2. HighPart(Operands!TopOf(u, 1), u, l, 1)
      BY <1>6, <2>1, Parts
    <2>3. Operands!TopOf(u, 1) = <<u[l]>>
      BY <1>6, <2>1, <2>2, OneValueAbove
    <2>4. end = u[l]
      BY <1>20, <2>1 DEF Operands!Last
    <2>5. Operands!TopOf(u, 1) \in Seq(Values)
      BY <2>2 DEF HighPart
    <2>6. Operands!Reverse(Operands!Reverse(Operands!TopOf(u, 1))) = Operands!TopOf(u, 1)
      BY <2>5, ReverseTwice
    <2> QED
      BY <1>5, <2>3, <2>4, <2>6, Zenon
  <1>22. Carries(Pushed(m3, count), z \o <<end>>, a)
    <2>1. Len(z) + 1 <= MaxAllocated + 1 /\ Len(z) + 1 <= a /\ 1 \in Nat
      BY <1>1, <1>6, <1>19
    <2>2. ~ Refused(m3.stack, 1)
      BY <1>5, <1>18, <2>1, CarriesPushed
    <2>3. Carries(Pushed(m3, count), z \o Operands!Reverse(count), a)
      BY <1>5, <1>18, <2>1, <2>2, CarriesPushed
    <2> QED
      BY <1>21, <2>3
  <1>23. Carries(Destroyed(Pushed(m3, count), count), z \o <<end>>, a)
    BY <1>5, <1>22, CarriesDestroyed
  <1>24. Become(c, Destroyed(Pushed(m3, count), count))
    <2>1. Become(c, Destroyed(Pushed(Destroyed(Pushed(Popped(m, n), [i \in 1 .. n |-> Top(m, n)[n + 1 - i]]),
                                               Top(m, n)), count), count))
      BY <1>3, Zenon DEF Rev
    <2> QED
      BY <1>10, <1>12, <1>14, <1>17, <2>1, Zenon
  <1>25. Operands!Becomes(c, z \o <<end>>)
    BY <1>23, <1>24, BecomesIs
  <1> QED
    BY <1>1, <1>2, <1>4, <1>8, <1>15, <1>20, <1>25, SeenThere, Zenon DEF Operands!Rev

-----------------------------------------------------------------------------
(* CORO and END have theirs                                                *)

(* What CORO takes from its context.                                       *)
LEMMA ParentCarries ==
  ASSUME StackIInv, NEW c \in Owners, NEW n \in 0 .. Depth(c), Depth(c) > n,
         NEW s, s = Operands!Below(Contents(stacks[c]), 1)
  PROVE  /\ Depth(c) >= 1 /\ n \in Nat
         /\ s = Contents(CountPopped(c).stack)
         /\ s \in Seq(Values)
         /\ n \in 0 .. Len(s)
         /\ Contents(Parent(c, n).stack) = Operands!Below(s, n)
         /\ Operands!TopOf(s, n) \in Seq(Values)
         /\ Top(CountPopped(c), n) \in Seq(Values)
         /\ Len(Top(CountPopped(c), n)) = n
         /\ Top(CountPopped(c), n) = Operands!Reverse(Operands!TopOf(s, n))
  <1>1. Depth(c) \in Nat /\ n \in Nat /\ Depth(c) >= 1
    BY OfCarries
  <1>2. PICK m, a : m = CountPopped(c) /\ a = Allocated(stacks[c])
    OBVIOUS
  <1>3. Carries(m, s, a) /\ s \in Seq(Values) /\ Len(s) = Depth(c) - 1
    BY <1>1, <1>2, CountPoppedCarries
  <1>4. n \in 0 .. Len(s)
    BY <1>1, <1>3
  <1>5. /\ Carries(Popped(m, n), Operands!Below(s, n), a)
        /\ Top(m, n) = Operands!Reverse(Operands!TopOf(s, n))
        /\ Top(m, n) \in Seq(Values) /\ Len(Top(m, n)) = n
    BY <1>3, <1>4, CarriesPopped
  <1>6. Operands!TopOf(s, n) \in Seq(Values)
    BY <1>3, <1>4, PartLengths
  <1>7. Contents(Popped(m, n).stack) = Operands!Below(s, n) /\ s = Contents(m.stack)
    BY <1>3, <1>5 DEF Carries
  <1> QED
    BY <1>1, <1>2, <1>3, <1>4, <1>5, <1>6, <1>7, Zenon DEF Parent

(* The values are lost: CORO failed, or the new context has none of them.  *)
LEMMA CoroFailsIs ==
  ASSUME StackIInv, NEW c \in Owners, NEW n \in 0 .. Depth(c), Depth(c) > n, n = Params(c),
         Operands!Becomes(c, Operands!Below(Operands!Below(Contents(stacks[c]), 1), n))
  PROVE  Operands!CoroFails(c, n)
  <1>1. Operands!Counted(c, n)
    BY ParamsCounted
  <1> QED
    BY <1>1, SeenThere, Zenon DEF Operands!CoroFails

(* CORO without a thread drops the parameters.                             *)
LEMMA CoroUncreatedIs ==
  ASSUME StackIInv, NEW c \in Owners, NEW n \in 0 .. Depth(c), CoroUncreated(c, n)
  PROVE  Operands!CoroFails(c, n)
  <1>1. Depth(c) > n /\ n = Params(c)
    BY DEF CoroUncreated
  <1>2. PICK s : s = Operands!Below(Contents(stacks[c]), 1)
    OBVIOUS
  <1>3. Contents(Parent(c, n).stack) = Operands!Below(s, n)
    BY <1>1, <1>2, ParentCarries
  <1>4. PICK ps : ps = Parent(c, n).stack
    OBVIOUS
  <1>5. PICK r : r = Child(c, n)
    OBVIOUS
  <1>6. PICK cs, h : r = [stack |-> cs, held |-> h]
    BY <1>1, <1>5, ChildSound
  <1>7. PICK list : list = Top(r, r.stack.count)
    OBVIOUS
  <1>8. PICK m : m = [Destroyed(r, list) EXCEPT !.stack = ps]
    OBVIOUS
  <1>9. m.stack = ps
    <2>1. Destroyed(r, list) = [stack |-> cs, held |-> Minus(h, list)]
      BY <1>6 DEF Destroyed, Minus
    <2> QED
      BY <1>8, <2>1
  <1>10. Become(c, m)
    <2>1. Become(c, [Destroyed(r, Top(r, r.stack.count)) EXCEPT !.stack = Parent(c, n).stack])
      BY <1>5, Zenon DEF CoroUncreated
    <2> QED
      BY <1>4, <1>7, <1>8, <2>1
  <1>11. stacks' = [stacks EXCEPT ![c] = ps]
    BY <1>9, <1>10 DEF Become
  <1>12. Operands!Becomes(c, Operands!Below(s, n))
    BY <1>3, <1>4, <1>11, StackBecomes
  <1> QED
    BY <1>1, <1>2, <1>12, CoroFailsIs

(* CORO without a context drops the parameters.                            *)
LEMMA CoroForgetsIs ==
  ASSUME StackIInv, NEW c \in Owners, NEW n \in 0 .. Depth(c), CoroForgets(c, n)
  PROVE  Operands!CoroFails(c, n)
  <1>1. Depth(c) > n /\ n = Params(c) /\ stacks' = [stacks EXCEPT ![c] = Parent(c, n).stack]
    BY DEF CoroForgets
  <1>2. PICK s : s = Operands!Below(Contents(stacks[c]), 1)
    OBVIOUS
  <1>3. Contents(Parent(c, n).stack) = Operands!Below(s, n)
    BY <1>1, <1>2, ParentCarries
  <1>4. Operands!Becomes(c, Operands!Below(s, n))
    BY <1>1, <1>3, StackBecomes
  <1> QED
    BY <1>1, <1>2, <1>4, CoroFailsIs

(* A context that has not been started has no values.                      *)
LEMMA NothingThere ==
  ASSUME StackIInv, NEW d \in Owners, d \notin started
  PROVE  /\ Contents(stacks[d]) = << >>
         /\ Len(Contents(NewStack)) = 0
         /\ Contents(NewStack) \in Seq(Values)
         /\ Contents(NewStack) = << >>
  <1>1. stacks[d] \in Stacks /\ stacks[d].count = 0
    BY DEF StackIInv
  <1>2. Contents(stacks[d]) \in Seq(Values) /\ Len(Contents(stacks[d])) = 0
    BY <1>1, ContentsAre
  <1>3. Contents(NewStack) \in Seq(Values) /\ Len(Contents(NewStack)) = 0
    BY NewStacks, ContentsAre
  <1> QED
    BY <1>2, <1>3, Empty

(* Two stacks change, and the sequences with them.                         *)
TwoStacks(c, d, s, t) == stacks' = [stacks EXCEPT ![c] = s, ![d] = t]

TwoSequences(c, d, u, w) ==
  [e \in Owners |-> Contents(stacks[e])]'
    = [[e \in Owners |-> Contents(stacks[e])] EXCEPT ![c] = u, ![d] = w]

(* When two stacks are replaced, two sequences are.                        *)
LEMMA StacksBecome ==
  ASSUME StackIInv, NEW c \in Owners, NEW d \in Owners, c # d, NEW s, NEW t, TwoStacks(c, d, s, t)
  PROVE  TwoSequences(c, d, Contents(s), Contents(t))
  <1>1. DOMAIN stacks = Owners
    BY DEF StackIInv
  <1>2. stacks'[c] = s /\ stacks'[d] = t /\ \A e \in Owners \ {c, d} : stacks'[e] = stacks[e]
    BY <1>1 DEF TwoStacks
  <1>3. \A e \in Owners : Contents(stacks'[e])
                            = IF e = d THEN Contents(t) ELSE IF e = c THEN Contents(s) ELSE Contents(stacks[e])
    <2> TAKE e \in Owners
    <2>1. CASE e = d
      BY <1>2, <2>1
    <2>2. CASE e = c
      BY <1>2, <2>2
    <2>3. CASE e \in Owners \ {c, d}
      <3>1. e # d /\ e # c
        BY <2>3
      <3>2. stacks'[e] = stacks[e]
        BY <1>2, <2>3
      <3> QED
        BY <3>1, <3>2
    <2> QED
      BY <2>1, <2>2, <2>3
  <1>4. [e \in Owners |-> Contents(stacks'[e])]
          = [[e \in Owners |-> Contents(stacks[e])] EXCEPT ![c] = Contents(s), ![d] = Contents(t)]
    BY <1>3
  <1>5. [e \in Owners |-> Contents(stacks[e])]' = [e \in Owners |-> Contents(stacks'[e])]
    BY DEF Contents
  <1> QED
    BY <1>4, <1>5 DEF TwoSequences

(* The new stack is as empty as the one it replaces.                       *)
LEMMA NewStackBecomes ==
  ASSUME StackIInv, NEW c \in Owners, NEW d \in Owners, c # d, d \notin started, NEW s,
         TwoStacks(c, d, s, NewStack)
  PROVE  Operands!Becomes(c, Contents(s))
  <1>1. PICK all : all = [e \in Owners |-> Contents(stacks[e])]
    OBVIOUS
  <1>2. PICK u, w : u = Contents(s) /\ w = Contents(NewStack)
    OBVIOUS
  <1>3. [e \in Owners |-> Contents(stacks[e])]' = [all EXCEPT ![c] = u, ![d] = w]
    <2>1. TwoSequences(c, d, Contents(s), Contents(NewStack))
      BY StacksBecome
    <2>2. TwoSequences(c, d, u, w)
      BY <1>2, <2>1
    <2> QED
      BY <1>1, <2>2, Zenon DEF TwoSequences
  <1>4. all[d] = w
    BY <1>1, <1>2, NothingThere, SeenThere, Zenon
  <1>5. [all EXCEPT ![c] = u, ![d] = w] = [all EXCEPT ![c] = u]
    <2>1. all = [e \in Owners |-> all[e]]
      BY <1>1
    <2>2. \A e \in Owners : [all EXCEPT ![c] = u, ![d] = w][e] = [all EXCEPT ![c] = u][e]
      BY <1>4, <2>1
    <2> QED
      BY <2>1, <2>2
  <1> QED
    BY <1>1, <1>2, <1>3, <1>5, Zenon DEF Operands!Becomes

(* CORO without memory for the parameters drops the count and starts the   *)
(* context without them.                                                   *)
LEMMA CoroBareIs ==
  ASSUME StackIInv, NEW c \in Owners, NEW d \in Owners, CoroBare(c, d)
  PROVE  Operands!Drop(c)
  <1>1. c \in started /\ d \notin started /\ c # d /\ Depth(c) >= 1
    BY DEF CoroBare, MayCoro, Running
  <1>2. TwoStacks(c, d, CountPopped(c).stack, NewStack)
    BY DEF CoroBare, TwoStacks
  <1>3. Operands!Becomes(c, Contents(CountPopped(c).stack))
    BY <1>1, <1>2, NewStackBecomes
  <1>4. Contents(CountPopped(c).stack) = Operands!Below(Contents(stacks[c]), 1)
    BY <1>1, CountPoppedCarries DEF Carries
  <1> QED
    BY <1>1, <1>3, <1>4, DropIs

(* CORO gives the parameters to the new context in their order, or, when   *)
(* the new stack has no room, to nobody.                                   *)
LEMMA CoroStartsIs ==
  ASSUME StackIInv, NEW c \in Owners, NEW d \in Owners, NEW n \in 0 .. Depth(c), CoroStarts(c, d, n)
  PROVE  Operands!Coro(c, d, n) \/ Operands!CoroFails(c, n)
  <1>1. c \in started /\ d \notin started /\ c # d /\ Depth(c) > n /\ n = Params(c)
    BY DEF CoroStarts, MayCoro, Running
  <1>2. TwoStacks(c, d, Parent(c, n).stack, Child(c, n).stack)
    BY DEF CoroStarts, TwoStacks
  <1>3. PICK s : s = Operands!Below(Contents(stacks[c]), 1)
    OBVIOUS
  <1>4. Contents(Parent(c, n).stack) = Operands!Below(s, n)
    BY <1>1, <1>3, ParentCarries
  <1>5. CASE Refused(NewStack, n)
    <2>1. Child(c, n).stack = NewStack
      BY <1>1, <1>5, ChildSound
    <2>2. Operands!Becomes(c, Contents(Parent(c, n).stack))
      BY <1>1, <1>2, <2>1, NewStackBecomes
    <2>3. Operands!CoroFails(c, n)
      BY <1>1, <1>3, <1>4, <2>2, CoroFailsIs
    <2> QED
      BY <2>3
  <1>6. CASE ~ Refused(NewStack, n)
    <2>1. PICK params \in Seq(Values) : params = Top(CountPopped(c), n) /\ Len(params) = n
                                          /\ params = Operands!Reverse(Operands!TopOf(s, n))
      BY <1>1, <1>3, ParentCarries
    <2>2. PICK top \in Seq(Values) : top = Operands!TopOf(s, n)
      BY <1>1, <1>3, ParentCarries
    <2>3. Child(c, n).stack = Placed(NewStack, params)
      BY <1>1, <1>6, <2>1, ChildSound
    <2>4. NewStack.count + Len(params) <= MaxAllocated + 1 /\ ~ Refused(NewStack, Len(params))
      <3>1. NewStack.count = 0 /\ n \in Nat /\ n <= MaxAllocated /\ MaxAllocated \in Nat
        BY NewStacks, OfCarries
      <3> QED
        BY <1>6, <2>1, <3>1
    <2>5. Contents(Placed(NewStack, params)) = Contents(NewStack) \o Operands!Reverse(params)
      BY <2>4, NewStacks, PlacedContents
    <2>6. Operands!Reverse(params) = top
      BY <2>1, <2>2, ReverseTwice
    <2>7. Contents(NewStack) \o top = top
      BY <1>1, NothingThere, JoinedToNothing
    <2>8. Contents(Child(c, n).stack) = top
      BY <2>3, <2>5, <2>6, <2>7, Zenon
    <2>9. PICK all : all = [e \in Owners |-> Contents(stacks[e])]
      OBVIOUS
    <2>10. [e \in Owners |-> Contents(stacks[e])]'
             = [all EXCEPT ![c] = Operands!Below(s, n), ![d] = Operands!TopOf(s, n)]
      <3>1. [e \in Owners |-> Contents(stacks[e])]'
             = [all EXCEPT ![c] = Contents(Parent(c, n).stack), ![d] = Contents(Child(c, n).stack)]
        <4>1. TwoSequences(c, d, Contents(Parent(c, n).stack), Contents(Child(c, n).stack))
          BY <1>1, <1>2, StacksBecome
        <4> QED
          BY <2>9, <4>1, Zenon DEF TwoSequences
      <3> QED
        BY <1>4, <2>2, <2>8, <3>1, Zenon
    <2>11. all[c] = Contents(stacks[c]) /\ all[d] = << >>
      BY <1>1, <2>9, NothingThere, SeenThere, Zenon
    <2>12. Operands!Counted(c, n)
      BY <1>1, ParamsCounted
    <2>13. Operands!Coro(c, d, n)
      BY <1>1, <1>3, <2>9, <2>10, <2>11, <2>12, Zenon DEF Operands!Coro
    <2> QED
      BY <2>13
  <1> QED
    BY <1>5, <1>6

(* A context that ends leaves an empty sequence.                           *)
LEMMA EndIs ==
  ASSUME StackIInv, NEW c \in Owners, End(c)
  PROVE  Operands!End(c)
  <1>1. stacks' = [stacks EXCEPT ![c] = NoStack]
    BY DEF End
  <1>2. Operands!Becomes(c, Contents(NoStack))
    BY <1>1, StackBecomes
  <1>3. Contents(NoStack) \in Seq(Values) /\ Len(Contents(NoStack)) = 0
    BY NewStacks, ContentsAre
  <1>4. Contents(NoStack) = << >>
    BY <1>3, Empty
  <1> QED
    BY <1>2, <1>4, Zenon DEF Operands!End

(* At the start the sequences are empty.                                   *)
LEMMA StackInitIs ==
  StackInit => Operands!Init
  <1> SUFFICES ASSUME StackInit PROVE Operands!Init
    OBVIOUS
  <1>1. \A c \in Owners : stacks[c] \in Stacks /\ stacks[c].count = 0
    BY NewStacks DEF StackInit
  <1>2. \A c \in Owners : Contents(stacks[c]) = << >>
    <2> TAKE c \in Owners
    <2>1. Contents(stacks[c]) \in Seq(Values) /\ Len(Contents(stacks[c])) = 0
      BY <1>1, ContentsAre
    <2> QED
      BY <2>1, Empty
  <1> QED
    BY <1>2, Zenon DEF Operands!Init

(* Whatever is stopped leaves the stacks as they are.                      *)
LEMMA StoppedIs ==
  ASSUME NEW how, Stops(how)
  PROVE  UNCHANGED Operands!vars
  BY SameStacks DEF Stops

-----------------------------------------------------------------------------
(* Stack implements OperandStack                                           *)

(* The values of the two modules are the same.                             *)
LEMMA SameValues ==
  Operands!Values = Values
  BY DEF Operands!Values, Values

(* The steps of the abstract stacks, one context and one kind at a time.   *)
LEMMA OperandSteps ==
  ASSUME StackIInv, NEW c \in Owners
  PROVE  /\ (\E v \in Values : Operands!Push(c, v)) => Operands!Next
         /\ (\E v \in Values : Operands!Replace(c, 1, v)) => Operands!Next
         /\ (\E v \in Values : Operands!Replace(c, 2, v)) => Operands!Next
         /\ Operands!Drop(c) => Operands!Next
         /\ Operands!Swap(c) => Operands!Next
         /\ Operands!Dup(c) => Operands!Next
         /\ Operands!Over(c) => Operands!Next
         /\ Operands!RevFails(c) => Operands!Next
         /\ Operands!End(c) => Operands!Next
  <1>1. /\ (\E v \in Values : Operands!Push(c, v)) => Operands!Next
        /\ (\E v \in Values : Operands!Replace(c, 1, v)) => Operands!Next
        /\ (\E v \in Values : Operands!Replace(c, 2, v)) => Operands!Next
    BY SameValues, Zenon DEF Operands!Next
  <1>2. /\ Operands!Drop(c) => Operands!Next
        /\ Operands!Swap(c) => Operands!Next
        /\ Operands!Dup(c) => Operands!Next
        /\ Operands!Over(c) => Operands!Next
        /\ Operands!RevFails(c) => Operands!Next
        /\ Operands!End(c) => Operands!Next
    BY Zenon DEF Operands!Next
  <1> QED
    BY <1>1, <1>2, Zenon

(* Those that take a count.                                                *)
LEMMA CountedSteps ==
  ASSUME StackIInv, NEW c \in Owners, NEW n \in 0 .. Depth(c)
  PROVE  /\ Operands!Rot(c, n) => Operands!Next
         /\ Operands!Tor(c, n) => Operands!Next
         /\ Operands!Rev(c, n) => Operands!Next
         /\ Operands!CoroFails(c, n) => Operands!Next
         /\ (\E d \in Owners : Operands!Coro(c, d, n)) => Operands!Next
  <1>1. Len([d \in Owners |-> Contents(stacks[d])][c]) = Depth(c)
    BY OfCarries, SeenThere, Zenon
  <1>2. n \in 0 .. Len([d \in Owners |-> Contents(stacks[d])][c])
    BY <1>1, Zenon
  <1>3. /\ Operands!Rot(c, n) => Operands!Next
        /\ Operands!Tor(c, n) => Operands!Next
        /\ Operands!Rev(c, n) => Operands!Next
        /\ Operands!CoroFails(c, n) => Operands!Next
    BY <1>2, Zenon DEF Operands!Next
  <1>4. (\E d \in Owners : Operands!Coro(c, d, n)) => Operands!Next
    BY <1>2, Zenon DEF Operands!Next
  <1> QED
    BY <1>3, <1>4, Zenon

(* Every step of Stack is a step of OperandStack, or changes no sequence.  *)
LEMMA StackStepIs ==
  ASSUME StackIInv, [StackNext]_stackVars
  PROVE  [Operands!Next]_(Operands!vars)
  <1>1. CASE UNCHANGED stackVars
    BY <1>1, SameStacks DEF stackVars
  <1>2. ASSUME NEW c \in Owners, Literal(c)
        PROVE  [Operands!Next]_(Operands!vars)
    BY <1>2, LiteralIs, OperandSteps, Zenon
  <1>3. ASSUME NEW c \in Owners, Branch(c)
        PROVE  [Operands!Next]_(Operands!vars)
    BY <1>3, BranchIs, OperandSteps, Zenon
  <1>4. ASSUME NEW c \in Owners, Drop(c)
        PROVE  [Operands!Next]_(Operands!vars)
    BY <1>4, PoppedAwayIs, OperandSteps, Zenon DEF Drop, CountPopped
  <1>5. ASSUME NEW c \in Owners, Swap(c)
        PROVE  [Operands!Next]_(Operands!vars)
    BY <1>5, SwapSwaps, OperandSteps, Zenon
  <1>6. ASSUME NEW c \in Owners, Dup(c)
        PROVE  [Operands!Next]_(Operands!vars)
    BY <1>6, DupIs, OperandSteps, Zenon
  <1>7. ASSUME NEW c \in Owners, Over(c)
        PROVE  [Operands!Next]_(Operands!vars)
    BY <1>7, OverIs, OperandSteps, Zenon
  <1>8. ASSUME NEW c \in Owners, End(c)
        PROVE  [Operands!Next]_(Operands!vars)
    BY <1>8, EndIs, OperandSteps, Zenon
  <1>9. ASSUME NEW c \in Owners, NEW n \in 1 .. 2, Operate(c, n)
        PROVE  [Operands!Next]_(Operands!vars)
    <2>1. \E v \in Values : Operands!Replace(c, n, v)
      BY <1>9, OperateIs, Zenon
    <2>2. n = 1 \/ n = 2
      OBVIOUS
    <2> QED
      BY <2>1, <2>2, OperandSteps, Zenon
  <1>10. ASSUME NEW how, Stops(how)
         PROVE  [Operands!Next]_(Operands!vars)
    BY <1>10, StoppedIs, Zenon
  <1>11. ASSUME NEW c \in Owners, NEW n \in 1 .. 2, Underflow(c, n)
         PROVE  [Operands!Next]_(Operands!vars)
    BY <1>10, <1>11, Zenon DEF Underflow
  <1>12. ASSUME NEW c \in Owners, TooFew(c, 1) \/ CoroTooFew(c)
         PROVE  [Operands!Next]_(Operands!vars)
    BY <1>10, <1>12, Zenon DEF TooFew, CoroTooFew
  <1>13. ASSUME NEW c \in Owners, RotateFails(c)
         PROVE  [Operands!Next]_(Operands!vars)
    BY <1>13, PoppedAwayIs, OperandSteps, Zenon DEF RotateFails, NoMemory
  <1>14. ASSUME NEW c \in Owners, RevFails(c)
         PROVE  [Operands!Next]_(Operands!vars)
    BY <1>14, RevFailsIs, OperandSteps, Zenon
  <1>15. ASSUME NEW c \in Owners, NEW n \in 0 .. Depth(c), Rot(c, n)
         PROVE  [Operands!Next]_(Operands!vars)
    BY <1>15, RotIs, CountedSteps, Zenon
  <1>16. ASSUME NEW c \in Owners, NEW n \in 0 .. Depth(c), Tor(c, n)
         PROVE  [Operands!Next]_(Operands!vars)
    BY <1>16, TorIs, CountedSteps, Zenon
  <1>17. ASSUME NEW c \in Owners, NEW n \in 0 .. Depth(c), Rev(c, n)
         PROVE  [Operands!Next]_(Operands!vars)
    BY <1>17, RevIs, CountedSteps, Zenon
  <1>18. ASSUME NEW c \in Owners, NEW n \in 0 .. Depth(c), CoroUncreated(c, n)
         PROVE  [Operands!Next]_(Operands!vars)
    BY <1>18, CoroUncreatedIs, CountedSteps, Zenon
  <1>19. ASSUME NEW c \in Owners, NEW n \in 0 .. Depth(c), CoroForgets(c, n)
         PROVE  [Operands!Next]_(Operands!vars)
    BY <1>19, CoroForgetsIs, CountedSteps, Zenon
  <1>20. ASSUME NEW c \in Owners, NEW d \in Owners, CoroBare(c, d)
         PROVE  [Operands!Next]_(Operands!vars)
    BY <1>20, CoroBareIs, OperandSteps, Zenon
  <1>21. ASSUME NEW c \in Owners, NEW d \in Owners, NEW n \in 0 .. Depth(c), CoroStarts(c, d, n)
         PROVE  [Operands!Next]_(Operands!vars)
    BY <1>21, CoroStartsIs, CountedSteps, Zenon
  <1>22. CASE StackNext
    <2>1. PICK c \in Owners :
            \/ Literal(c) \/ Branch(c) \/ Drop(c) \/ Swap(c) \/ Dup(c) \/ Over(c) \/ End(c)
            \/ \E n \in 1 .. 2 : Operate(c, n) \/ Underflow(c, n)
            \/ TooFew(c, 1) \/ RotateFails(c) \/ RevFails(c) \/ CoroTooFew(c)
            \/ \E n \in 0 .. Depth(c) :
                 Rot(c, n) \/ Tor(c, n) \/ Rev(c, n) \/ CoroUncreated(c, n) \/ CoroForgets(c, n)
            \/ \E d \in Owners :
                 CoroBare(c, d) \/ \E n \in 0 .. Depth(c) : CoroStarts(c, d, n)
      BY <1>22, Zenon DEF StackNext
    <2>2. CASE Literal(c) \/ Branch(c) \/ Drop(c) \/ Swap(c) \/ Dup(c) \/ Over(c) \/ End(c)
      BY <2>2, <1>2, <1>3, <1>4, <1>5, <1>6, <1>7, <1>8, Zenon
    <2>3. CASE \E n \in 1 .. 2 : Operate(c, n) \/ Underflow(c, n)
      BY <2>3, <1>9, <1>11, Zenon
    <2>4. CASE TooFew(c, 1) \/ RotateFails(c) \/ RevFails(c) \/ CoroTooFew(c)
      BY <2>4, <1>12, <1>13, <1>14, Zenon
    <2>5. CASE \E n \in 0 .. Depth(c) :
                 Rot(c, n) \/ Tor(c, n) \/ Rev(c, n) \/ CoroUncreated(c, n) \/ CoroForgets(c, n)
      BY <2>5, <1>15, <1>16, <1>17, <1>18, <1>19, Zenon
    <2>6. CASE \E d \in Owners :
                 CoroBare(c, d) \/ \E n \in 0 .. Depth(c) : CoroStarts(c, d, n)
      BY <2>6, <1>20, <1>21, Zenon
    <2> QED
      BY <2>1, <2>2, <2>3, <2>4, <2>5, <2>6, Zenon
  <1> QED
    BY <1>1, <1>22, Zenon

(* The stack instructions have their documented effects on sequences of    *)
(* values, in every context, for every number of contexts and values and   *)
(* every size of memory: whatever a pop or a push does to slots, counts,   *)
(* blocks and clones, the values below stay, in their order, and the       *)
(* instruction that runs out of memory or operands leaves what it says.    *)
THEOREM StackIsOperandStack == StackSpec => IsOperandStack
  <1>1. StackInit => Operands!Init
    BY StackInitIs
  <1>2. StackIInv /\ [StackNext]_stackVars => [Operands!Next]_(Operands!vars)
    BY StackStepIs
  <1>3. StackInit => StackIInv
    BY StackInitIInv
  <1>4. StackIInv /\ [StackNext]_stackVars => StackIInv'
    BY StackNextIInv
  <1> QED
    BY <1>1, <1>2, <1>3, <1>4, PTL DEF StackSpec, IsOperandStack, Operands!Spec
================================================================================
