------------------------------- MODULE Scopes --------------------------------
(***************************************************************************)
(* The life of execution contexts and of their scopes (vm.c, the control   *)
(* instructions of bytecode.c, symboltable.c): every function call opens a *)
(* scope, a symbol table counted by references and listed in a global      *)
(* registry; every context is listed in a registry of contexts, which      *)
(* vm_main waits to see empty before it collects the remaining symbol      *)
(* tables and destroys the object pools.                                   *)
(*                                                                         *)
(* Atomicity.  A symbol table is reached from one context only (CORO gives *)
(* its child a chain of its own), so what one instruction does to the      *)
(* chain is one action.  The steps by which a context ends and vm_main     *)
(* waits for it are actions of their own, cut where the mutex of the       *)
(* context registry is taken and released and where m_changed is signalled.*)
(*                                                                         *)
(* Data.  Symbols and bytecode are left out: a context is "in its code" or *)
(* at the END in position 0 to which the outermost function returns.       *)
(***************************************************************************)
EXTENDS Integers, Sequences, FiniteSets, SequencesExt

CONSTANTS
  Contexts,      \* vm_context_t objects
  Main,          \* the one vm_main executes itself
  MaxTables,     \* bound: the number of symbol tables ever created
  MaxCalls,      \* bound: the number of calls a context has open
  EndCalls       \* bound: the number of calls open when END is executed

ASSUME ScopesAssumption ==
  /\ Main \in Contexts
  /\ IsFiniteSet(Contexts)
  /\ MaxTables \in Nat /\ Cardinality(Contexts) <= MaxTables
  /\ MaxCalls \in Nat
  /\ EndCalls \in Nat

NoTable == 0     \* NULL

VARIABLES
  made,          \* the number of symbol tables created; they are 1 .. made
  tables,        \* m_references and m_parent of each, and the registry
  scope,         \* m_symboltable of each context
  stack,         \* m_return_stack of each context, innermost call last
  counter,       \* m_counter of each context
  at,            \* where each context is in its life
  registered,    \* the contexts listed in _vm_context_registry
  main           \* where vm_main is

vars == <<made, tables, scope, stack, counter, at, registered, main>>

(***************************************************************************)
(* A context is "unborn", "created" by vm_context_init, "running" in       *)
(* vm_execute, "ending" (its loop left), "closing" (its last scope ended), *)
(* "leaving" (about to remove itself from the registry), "telling" (about  *)
(* to signal m_changed) and "gone".                                        *)
(*                                                                         *)
(* vm_main is in "execute", "wait" (holds the mutex of the registry, about *)
(* to look at it), "asleep" on m_changed, "collect" and "exit".            *)
(***************************************************************************)
Running(c) == at[c] = "running" /\ counter[c] = "code"

Registry == {tables.registry[i] : i \in 1 .. Len(tables.registry)}

CallsOpen(c) == Len(stack[c]) - 1    \* the bottom entry is the initial state

Init ==
  /\ made = 0
  /\ tables = [refs     |-> [n \in 1 .. MaxTables |-> 0],
               parent   |-> [n \in 1 .. MaxTables |-> NoTable],
               registry |-> <<>>]
  /\ scope = [c \in Contexts |-> NoTable]
  /\ stack = [c \in Contexts |-> <<>>]
  /\ counter = [c \in Contexts |-> "code"]
  /\ at = [c \in Contexts |-> IF c = Main THEN "created" ELSE "unborn"]
  /\ registered = {Main}
  /\ main = "execute"

-----------------------------------------------------------------------------
(* Symbol tables.  These operators map the tables before to those after.   *)

Referenced(ts, n) ==
  IF n = NoTable THEN ts ELSE [ts EXCEPT !.refs[n] = @ + 1]

(* symboltable_init: a new table with one reference, which takes one to    *)
(* its parent and goes to the front of the registry.                       *)
Created(ts, n, parent) ==
  [refs     |-> [Referenced(ts, parent).refs EXCEPT ![n] = 1],
   parent   |-> [ts.parent EXCEPT ![n] = parent],
   registry |-> <<n>> \o ts.registry]

(* Mutant of Destroyed: the parent keeps the reference of a dead child.    *)
MutantDestroyed(ts, n) ==
  IF n = NoTable THEN ts
  ELSE IF ts.refs[n] # 1 THEN [ts EXCEPT !.refs[n] = @ - 1]
  ELSE [ts EXCEPT !.refs[n] = 0, !.parent[n] = NoTable,
                  !.registry = RemoveFirst(@, n)]

(* symboltable_destroy: gives back one reference; with the last one the    *)
(* table leaves the registry and its reference to its parent is dropped,   *)
(* without destroying the parent.                                          *)
Destroyed(ts, n) ==
  LET p == ts.parent[n]
      kept == IF p = NoTable THEN ts ELSE [ts EXCEPT !.refs[p] = @ - 1]
  IN IF n = NoTable THEN ts
     ELSE IF ts.refs[n] # 1 THEN [ts EXCEPT !.refs[n] = @ - 1]
     ELSE [kept EXCEPT !.refs[n] = 0, !.parent[n] = NoTable,
                       !.registry = RemoveFirst(@, n)]

(* vm_end_scope until the scope "top" is current again, or none is left;   *)
(* the pair of the tables and the current scope.                           *)
Ended(ts, n, top) ==
  LET EndScopeOf(s) == IF s.scope = NoTable \/ s.scope = top THEN s
                       ELSE [tables |-> Destroyed(s.tables, s.scope),
                             scope  |-> s.tables.parent[s.scope]]
      turn[i \in 0 .. MaxTables] ==
        IF i = 0 THEN [tables |-> ts, scope |-> n] ELSE EndScopeOf(turn[i - 1])
  IN turn[MaxTables]

-----------------------------------------------------------------------------
(* Calls and returns                                                       *)

(* Mutant of PushAndStartScope: the saved state holds no reference.        *)
MutantPushAndStartScope(c, position) ==
  /\ stack' = [stack EXCEPT ![c] =
                 Append(@, [position |-> position, top |-> scope[c]])]
  /\ tables' = Created(tables, made + 1, scope[c])
  /\ scope' = [scope EXCEPT ![c] = made + 1]
  /\ made' = made + 1

(* vm_rs_push of the current state and vm_start_scope.  The return stack   *)
(* holds a reference to the scope it will return to.                       *)
PushAndStartScope(c, position) ==
  /\ stack' = [stack EXCEPT ![c] =
                 Append(@, [position |-> position, top |-> scope[c]])]
  /\ tables' = Created(Referenced(tables, scope[c]), made + 1, scope[c])
  /\ scope' = [scope EXCEPT ![c] = made + 1]
  /\ made' = made + 1

(* The start of vm_execute: the outermost function returns to position 0.  *)
Start(c) ==
  /\ at[c] = "created"
  /\ PushAndStartScope(c, "end")
  /\ at' = [at EXCEPT ![c] = "running"]
  /\ UNCHANGED <<counter, registered, main>>

(* Every context that has not started yet is sure of its first table.      *)
TablesLeft ==
  made + Cardinality({c \in Contexts : at[c] \in {"unborn", "created"}})
    < MaxTables

(* CALL, FRCALL, and the entry of a signal handler.                        *)
Call(c) ==
  /\ Running(c)
  /\ CallsOpen(c) < MaxCalls
  /\ TablesLeft
  /\ PushAndStartScope(c, "code")
  /\ UNCHANGED <<counter, at, registered, main>>

(* Mutant of Return: the scope of the call is not ended.                   *)
MutantReturn(c) ==
  LET state == stack[c][Len(stack[c])]
  IN /\ Running(c)
     /\ stack' = [stack EXCEPT ![c] = Front(@)]
     /\ counter' = [counter EXCEPT ![c] = state.position]
     /\ tables' = Destroyed(tables, state.top)
     /\ UNCHANGED <<made, scope, at, registered, main>>

(* RETURN: pops the state, drops the reference that came with it, and ends *)
(* scopes until the caller's is current.                                   *)
Return(c) ==
  LET state == stack[c][Len(stack[c])]
      ended == Ended(Destroyed(tables, state.top), scope[c], state.top)
  IN /\ Running(c)
     /\ stack' = [stack EXCEPT ![c] = Front(@)]
     /\ counter' = [counter EXCEPT ![c] = state.position]
     /\ tables' = ended.tables
     /\ scope' = [scope EXCEPT ![c] = ended.scope]
     /\ UNCHANGED <<made, at, registered, main>>

-----------------------------------------------------------------------------
(* Coroutines                                                              *)

(* pthread_cond_signal(&m_changed): only vm_main waits for it.             *)
MainTold == IF main = "asleep" THEN "wait" ELSE main

(* Mutant of Coro: the child is left to register itself.                   *)
MutantCoro(c, child) ==
  /\ Running(c)
  /\ at[child] = "unborn"
  /\ at' = [at EXCEPT ![child] = "created"]
  /\ main' = MainTold
  /\ UNCHANGED <<made, tables, scope, stack, counter, registered>>

(* CORO, FRCORO: the child is registered before its thread is created.     *)
Coro(c, child) ==
  /\ Running(c)
  /\ at[child] = "unborn"
  /\ registered' = registered \cup {child}
  /\ at' = [at EXCEPT ![child] = "created"]
  /\ main' = MainTold
  /\ UNCHANGED <<made, tables, scope, stack, counter>>

(* pthread_create fails: the child is unregistered again by its parent,    *)
(* which is registered all the while.                                      *)
CoroFails(c) ==
  /\ Running(c)
  /\ main' = MainTold
  /\ UNCHANGED <<made, tables, scope, stack, counter, at, registered>>

-----------------------------------------------------------------------------
(* The end of a context                                                    *)

(* END, in position 0 after the last RETURN or anywhere in the code, or a  *)
(* program counter past the end of the bytecode.                           *)
End(c) ==
  /\ at[c] = "running"
  /\ counter[c] = "end" \/ CallsOpen(c) <= EndCalls
  /\ at' = [at EXCEPT ![c] = "ending"]
  /\ UNCHANGED <<made, tables, scope, stack, counter, registered, main>>

(* vm_execute after its loop: one vm_end_scope, if there is a scope.       *)
EndScope(c) ==
  /\ at[c] = "ending"
  /\ tables' = Destroyed(tables, scope[c])
  /\ scope' = [scope EXCEPT ![c] =
                 IF @ = NoTable THEN NoTable ELSE tables.parent[@]]
  /\ at' = [at EXCEPT ![c] = "closing"]
  /\ UNCHANGED <<made, stack, counter, registered, main>>

(* The references of a return stack are given back from the top.           *)
Unwound(ts, states) ==
  LET left[i \in 0 .. Len(states)] ==
        IF i = 0 THEN ts ELSE Destroyed(left[i - 1], states[Len(states) + 1 - i].top)
  IN left[Len(states)]

(* vm_context_destroy: the return stack, then the scope.                   *)
Close(c) ==
  /\ at[c] = "closing"
  /\ tables' = Destroyed(Unwound(tables, stack[c]), scope[c])
  /\ stack' = [stack EXCEPT ![c] = <<>>]
  /\ scope' = [scope EXCEPT ![c] = NoTable]
  /\ at' = [at EXCEPT ![c] = "leaving"]
  /\ UNCHANGED <<made, counter, registered, main>>

Leave(c) ==
  /\ at[c] = "leaving"
  /\ registered' = registered \ {c}
  /\ at' = [at EXCEPT ![c] = "telling"]
  /\ UNCHANGED <<made, tables, scope, stack, counter, main>>

(* Mutant of Tell: m_changed is not signalled.                             *)
MutantTell(c) ==
  /\ at[c] = "telling"
  /\ at' = [at EXCEPT ![c] = "gone"]
  /\ UNCHANGED <<made, tables, scope, stack, counter, registered, main>>

(* m_changed is signalled after the mutex is released.                     *)
Tell(c) ==
  /\ at[c] = "telling"
  /\ at' = [at EXCEPT ![c] = "gone"]
  /\ main' = MainTold
  /\ UNCHANGED <<made, tables, scope, stack, counter, registered>>

-----------------------------------------------------------------------------
(* vm_main                                                                 *)

(* The main context's vm_execute has returned.                             *)
MainExecuted ==
  /\ main = "execute"
  /\ at[Main] = "gone"
  /\ main' = "wait"
  /\ UNCHANGED <<made, tables, scope, stack, counter, at, registered>>

(* The condition is looked at again after every wake-up.                   *)
MainLooks ==
  /\ main = "wait"
  /\ main' = IF registered # {} THEN "asleep" ELSE "collect"
  /\ UNCHANGED <<made, tables, scope, stack, counter, at, registered>>

SpuriousWakeup ==
  /\ main = "asleep"
  /\ main' = "wait"
  /\ UNCHANGED <<made, tables, scope, stack, counter, at, registered>>

(* One turn of symboltable_garbage_collect: from the front of the registry *)
(* up to the first table that is still referenced.                         *)
Collected(ts) ==
  LET CollectFirst(s) ==
        IF s.registry = <<>> THEN s
        ELSE IF s.refs[Head(s.registry)] > 0 THEN s
        ELSE LET p == s.parent[Head(s.registry)]
             IN [refs |-> IF p = NoTable THEN s.refs ELSE [s.refs EXCEPT ![p] = @ - 1],
                 parent |-> s.parent,
                 registry |-> Tail(s.registry)]
      turn[i \in 0 .. Len(ts.registry)] ==
        IF i = 0 THEN ts ELSE CollectFirst(turn[i - 1])
  IN turn[Len(ts.registry)]

(* The pools are destroyed once every symbol table is; until then vm_main  *)
(* sleeps for a second and tries again.                                    *)
Collect ==
  /\ main = "collect"
  /\ tables' = Collected(tables)
  /\ main' = IF tables'.registry = <<>> THEN "exit" ELSE "collect"
  /\ UNCHANGED <<made, scope, stack, counter, at, registered>>

-----------------------------------------------------------------------------

(* What a context does by itself once it has left its loop, or to enter it.*)
Proceed(c) == Start(c) \/ EndScope(c) \/ Close(c) \/ Leave(c) \/ Tell(c)

MainProceeds == MainExecuted \/ MainLooks \/ Collect

Next ==
  \/ \E c \in Contexts :
       \/ Proceed(c) \/ Call(c) \/ Return(c) \/ CoroFails(c) \/ End(c)
       \/ \E child \in Contexts : Coro(c, child)
  \/ MainProceeds
  \/ SpuriousWakeup

Spec == Init /\ [][Next]_vars

(***************************************************************************)
(* Fairness.  The threads are scheduled, and none of these steps waits for *)
(* anything but a mutex held for a few instructions.  A program need not   *)
(* call, return or end.                                                    *)
(***************************************************************************)
FairSpec ==
  /\ Spec
  /\ \A c \in Contexts : WF_vars(Proceed(c))
  /\ WF_vars(MainProceeds)

-----------------------------------------------------------------------------
(* Properties                                                              *)

(* Types of the variables.                                                 *)
TypeOK ==
  /\ made \in 0 .. MaxTables
  /\ tables.refs \in [1 .. MaxTables -> Nat]
  /\ tables.parent \in [1 .. MaxTables -> 0 .. made]
  /\ Registry \subseteq 1 .. made
  /\ scope \in [Contexts -> 0 .. made]
  /\ counter \in [Contexts -> {"code", "end"}]
  /\ registered \subseteq Contexts

EntriesTo(n) ==
  {e \in Contexts \X (1 .. MaxCalls + 1) :
     e[2] <= Len(stack[e[1]]) /\ stack[e[1]][e[2]].top = n}

Children(n) == {m \in Registry : tables.parent[m] = n}

(* Each table has one reference of its own, one for each child scope and   *)
(* one for each return stack entry to it: no table dies under a scope or a *)
(* return that will need it, while contexts run, and none is left without  *)
(* its references when they end (symboltable_init, vm_state_clone, RETURN).*)
RefsBalance ==
  \A n \in Registry :
    tables.refs[n] = 1 + Cardinality(Children(n)) + Cardinality(EntriesTo(n))

(* A symbol lookup that climbs from the current scope of a context meets   *)
(* only live tables, and so does a RETURN whenever it comes, also while    *)
(* other contexts start, end and remove their tables from the registry.    *)
ScopesLive ==
  /\ TypeOK
  /\ \A c \in Contexts : scope[c] # NoTable => scope[c] \in Registry
  /\ \A n \in Registry : tables.parent[n] \in Registry \cup {NoTable}
  /\ \A c \in Contexts : \A i \in 1 .. Len(stack[c]) :
       stack[c][i].top \in Registry \cup {NoTable}

(* RETURN makes the scope of the matching call current again, whatever was *)
(* called in between (inst_RETURN, vm_end_scope).                          *)
ReturnRestoresScope ==
  [][\A c \in Contexts :
       Running(c) /\ Len(stack'[c]) < Len(stack[c])
         => scope'[c] = stack[c][Len(stack[c])].top]_vars

(* vm_main collects and destroys the pools only after every context has    *)
(* dropped its stacks and its scopes: a coroutine is never left running on *)
(* destroyed pools, even if its parent ended right after creating it.      *)
PoolsOutliveContexts ==
  main \in {"collect", "exit"} =>
    \A c \in Contexts :
      at[c] \in {"unborn", "telling", "gone"} /\ scope[c] = NoTable /\ stack[c] = <<>>

AllEnded == \A c \in Contexts : at[c] \in {"unborn", "telling", "gone"}

(* Once every context has ended, vm_main notices, collects and returns:    *)
(* the signal sent after the unlock is never missed.                       *)
MainEnds == AllEnded ~> main = "exit"

(* "symbols defined in a scope ... cease to exist when the scope and all   *)
(* its descendants have ended" (vm.c, vm_start_scope): when all contexts   *)
(* have ended, so do the symbol tables.                                    *)
ScopesCease == AllEnded ~> tables.registry = <<>>
=============================================================================
