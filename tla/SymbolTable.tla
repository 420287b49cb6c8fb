----------------------------- MODULE SymbolTable ------------------------------
(***************************************************************************)
(* The symbol tables of one execution context (symboltable.c) and the      *)
(* SYM... instructions (bytecode.c): each open scope has a binary search   *)
(* tree of symbols, ordered by identifier; a symbol holds a reference to   *)
(* the object it stands for, unless that is a function.                    *)
(*                                                                         *)
(* Atomicity.  A chain of scopes belongs to one context, so an instruction *)
(* is one action.  How the tables themselves are counted, shared with the  *)
(* return stack and collected is the subject of Scopes.                    *)
(*                                                                         *)
(* Data.  In one table no two symbols have the same identifier, so within  *)
(* it a pointer to a symbol is the identifier, Null, or Gone if the symbol *)
(* it points to has been freed.  Memory ends after MaxSymbols symbols.  An *)
(* object is a number; how many references to it the symbols have taken is *)
(* counted here, and those on the data stack are left out.  What an        *)
(* instruction pushes is "result".                                         *)
(***************************************************************************)
EXTENDS Integers, Sequences, FiniteSets

CONSTANTS
  Identifiers,   \* the identifiers in the bytecode
  FunctionIds,   \* those of them that the bytecode defines as functions
  MaxSymbols,    \* the number of symbols calloc can provide at a time
  MaxScopes,     \* bound: the number of open scopes
  MaxOuter,      \* bound: the number of symbols when a scope is opened
  MaxObjects     \* bound: the number of objects in use

ASSUME SymbolTableAssumption ==
  /\ Identifiers \subseteq Nat
  /\ FunctionIds \subseteq Identifiers
  /\ MaxSymbols \in Nat
  /\ MaxScopes \in Nat
  /\ MaxOuter \in Nat
  /\ MaxObjects \in Nat

Null == -1
Gone == -2        \* a pointer to freed memory
Function == -1    \* the referent of any SYMBOL_FUNCTION
Objects == 1 .. MaxObjects

VARIABLES
  trees,         \* the symbol table of each open scope, innermost last:
                 \* its root (m_symbols), and its symbols with their
                 \* m_parent, m_left_child, m_right_child and m_referent
  references,    \* the references symbols have taken to each object
  result,        \* what the last instruction pushed, 0 for undef
  status         \* "ok"; "wild": an assertion has failed, or memory was
                 \* used through NULL or after it was freed; "cyclic":
                 \* a symbol has become its own child

symbolVars == <<trees, references, result, status>>

EmptyTable == [root |-> Null, symbols |-> <<>>]

SymbolInit ==
  /\ trees = <<>>
  /\ references = [o \in Objects |-> 0]
  /\ result = 0
  /\ status = "ok"

InScope == status = "ok" /\ trees # <<>>

Innermost == Len(trees)

Current == trees[Innermost]

Breaks(how) == status' = how /\ UNCHANGED <<trees, references, result>>

-----------------------------------------------------------------------------
(* Objects                                                                 *)

(* ..._reference, ..._release of what a symbol stands for.                 *)
Taken(o) == IF o = Function THEN references ELSE [references EXCEPT ![o] = @ + 1]

GivenBack(o) == IF o = Function THEN references ELSE [references EXCEPT ![o] = @ - 1]

(* What the bytecode defines an identifier as: a function, a new object or *)
(* one that a reference on the data stack refers to.                       *)
Referents(id) ==
  IF id \in FunctionIds THEN {Function}
  ELSE {o \in Objects : \A p \in 1 .. o - 1 : references[p] > 0}

-----------------------------------------------------------------------------
(* Trees                                                                   *)

(* The last symbol on the way down from the root by an identifier, or NULL *)
(* in an empty table; it is the one looked for if there is one.            *)
Descent(table, id) ==
  LET down[n \in DOMAIN table.symbols] ==
        LET next == IF id < n THEN table.symbols[n].left ELSE table.symbols[n].right
        IN IF n = id \/ next = Null THEN n ELSE down[next]
  IN IF table.root = Null THEN Null ELSE down[table.root]

Found(table, id) == Descent(table, id) = id

Object(k, id) == trees[k].symbols[id].object

(* The innermost of some scopes                                            *)
Inner(ks) == CHOOSE k \in ks : \A j \in ks : j <= k

(* Mutant of Lookup: the search begins at the global scope.                *)
MutantLookup(k, id) ==
  LET known == {j \in 1 .. k : Found(trees[j], id)}
  IN IF known = {} THEN 0 ELSE Object(CHOOSE j \in known : \A i \in known : j <= i, id)

(* symbol_lookup, from the k-th scope outwards: what is found, 0 if        *)
(* nothing is.                                                             *)
Lookup(k, id) ==
  LET known == {j \in 1 .. k : Found(trees[j], id)}
  IN IF known = {} THEN 0 ELSE Object(Inner(known), id)

(* The symbols that can be reached from the root.                          *)
Tree(table) ==
  LET below[n \in DOMAIN table.symbols \cup {Null}] ==
        IF n = Null THEN {}
        ELSE {n} \cup below[table.symbols[n].left] \cup below[table.symbols[n].right]
  IN below[table.root]

(* The symbols in use, each with its scope                                 *)
AllSymbols ==
  {p \in (1 .. Innermost) \X (Identifiers \cup {0}) : p[2] \in DOMAIN trees[p[1]].symbols}

SymbolsInUse == Cardinality(AllSymbols)

-----------------------------------------------------------------------------
(* SYMDEF, SYMCLONE                                                        *)

Child(symbols, n, side) == IF side = "left" THEN symbols[n].left ELSE symbols[n].right

(* The symbols, n having another child on one side, and another parent     *)
WithChild(symbols, n, side, child) ==
  [symbols EXCEPT ![n] = IF side = "left" THEN [@ EXCEPT !.left = child]
                         ELSE [@ EXCEPT !.right = child]]

WithParent(symbols, n, parent) == [symbols EXCEPT ![n] = [@ EXCEPT !.parent = parent]]

(* _symboltable_insert of a new symbol                                     *)
Inserted(table, id, object) ==
  LET parent == Descent(table, id)
      new == [parent |-> parent, left |-> Null, right |-> Null, object |-> object]
      linked == IF parent = Null THEN table.symbols
                ELSE WithChild(table.symbols, parent,
                               IF id < parent THEN "left" ELSE "right", id)
  IN [root |-> IF parent = Null THEN id ELSE table.root,
      symbols |-> [i \in DOMAIN linked \cup {id} |-> IF i = id THEN new ELSE linked[i]]]

Insert(id, object) ==
  trees' = [trees EXCEPT ![Innermost] = Inserted(@, id, object)]

(* Mutant of Enter: the refused symbol keeps its reference.                *)
MutantEnter(id, object) ==
  IF Found(Current, id) \/ SymbolsInUse >= MaxSymbols
    THEN result' = 0 /\ references' = Taken(object) /\ UNCHANGED trees
    ELSE /\ result' = object
         /\ references' = Taken(object)
         /\ Insert(id, object)

(* A new symbol is put into the innermost scope.  The reference to its     *)
(* object is taken before, and given back if the scope already has the     *)
(* identifier.                                                             *)
Enter(id, object) ==
  IF Found(Current, id) \/ SymbolsInUse >= MaxSymbols
    THEN result' = 0 /\ UNCHANGED <<trees, references>>
    ELSE /\ result' = object
         /\ references' = Taken(object)
         /\ Insert(id, object)

SYMDEF(id, object) ==
  /\ InScope
  /\ Enter(id, object)
  /\ UNCHANGED status

(* m_identifier of the clone is never set, and stays 0.                    *)
SYMCLONE(id) ==
  /\ InScope
  /\ IF Innermost = 1
       THEN Breaks("wild")
       ELSE LET remote == Lookup(Innermost - 1, id)
            IN /\ IF Found(Current, id) \/ remote = 0
                    THEN UNCHANGED <<trees, references>> /\ result' = Lookup(Innermost, id)
                    ELSE Enter(0, remote)
               /\ UNCHANGED status

SYMFIND(id) ==
  /\ InScope
  /\ UNCHANGED <<trees, references, status>>
  /\ result' = Lookup(Innermost, id)

-----------------------------------------------------------------------------
(* SYMUNDEF                                                                *)

(* The symbols with "child" in the place that n has with its parent.       *)
Relinked(symbols, n, child) ==
  LET p == symbols[n].parent
  IN IF p = Null THEN symbols
     ELSE IF symbols[p].left = n THEN WithChild(symbols, p, "left", child)
     ELSE IF symbols[p].right = n THEN WithChild(symbols, p, "right", child)
     ELSE symbols

(* The symbols without n, which is freed.                                  *)
Without(symbols, n) ==
  LET after(pointer) == IF pointer = n THEN Gone ELSE pointer
  IN [i \in DOMAIN symbols \ {n} |->
        [parent |-> after(symbols[i].parent), left |-> after(symbols[i].left),
         right |-> after(symbols[i].right), object |-> symbols[i].object]]

(* "child" takes the place of n among the symbols.                         *)
Replaced(table, n, symbols, child) ==
  [root |-> IF table.symbols[n].parent = Null THEN child ELSE table.root,
   symbols |-> Without(Relinked(symbols, n, child), n)]

(* That is done unless the parent of n has been freed; n gives up its      *)
(* reference and is freed.                                                 *)
Replace(n, symbols, child) ==
  IF Current.symbols[n].parent = Gone
    THEN Breaks("wild")
    ELSE /\ UNCHANGED <<result, status>>
         /\ references' = GivenBack(Current.symbols[n].object)
         /\ trees' = [trees EXCEPT ![Innermost] = Replaced(@, n, symbols, child)]

(* Mutant of UndefineLeafOrOne: a right child is forgotten.                *)
MutantUndefineLeafOrOne(n) ==
  LET s == Current.symbols
  IN /\ s[n].left = Null \/ s[n].right = Null
     /\ Replace(n, s, s[n].left)

(* At most one child, which takes the place.  Its m_parent is set only if  *)
(* it becomes the root, and is left pointing to freed memory otherwise.    *)
UndefineLeafOrOne(n) ==
  LET s == Current.symbols
      child == IF s[n].left # Null THEN s[n].left ELSE s[n].right
  IN /\ s[n].left = Null \/ s[n].right = Null
     /\ Replace(n,
                IF s[n].parent = Null /\ child # Null THEN WithParent(s, child, Null) ELSE s,
                child)

Other(side) == IF side = "left" THEN "right" ELSE "left"

(* The last symbol reached from n's left child by going right, or from its *)
(* right child by going left.                                              *)
Neighbour(s, n, side) ==
  LET along[m \in DOMAIN s] ==
        LET next == Child(s, m, Other(side))
        IN IF next = Null THEN m ELSE along[next]
  IN along[Child(s, n, side)]

(* The symbols once the neighbour of n is out of its place, to its own     *)
(* child's benefit, and has taken over what n is linked to.                *)
Swapped(s, n, new, side) ==
  LET join == s[new].parent
      orphan == Child(s, new, side)
      joined == WithParent(WithChild(s, join, Other(side), orphan), orphan, join)
      placed == [joined EXCEPT ![new] = [s[n] EXCEPT !.object = s[new].object]]
  IN WithParent(WithParent(placed, s[n].left, new), s[n].right, new)

(* Two children: the neighbour on the side that a random number says is    *)
(* taken out of its place and put in n's.  A neighbour without the child   *)
(* that is to take its own place is an access through NULL; one that is a  *)
(* child of n becomes its own child.                                       *)
UndefineBoth(n, side) ==
  LET s == Current.symbols
      new == Neighbour(s, n, side)
  IN /\ s[n].left # Null
     /\ s[n].right # Null
     /\ IF s[new].parent = Gone \/ Child(s, new, side) = Null THEN Breaks("wild")
        ELSE IF s[new].parent = n THEN Breaks("cyclic")
        ELSE Replace(n, Swapped(s, n, new, side), new)

SYMUNDEF(id) ==
  /\ InScope
  /\ \/ ~ Found(Current, id) /\ UNCHANGED symbolVars
     \/ Found(Current, id) /\ UndefineLeafOrOne(id)
     \/ Found(Current, id) /\ \E side \in {"left", "right"} : UndefineBoth(id, side)

-----------------------------------------------------------------------------
(* Scopes                                                                  *)

(* vm_start_scope, symboltable_init.                                       *)
OpenScope ==
  /\ status = "ok"
  /\ Innermost < MaxScopes
  /\ SymbolsInUse <= MaxOuter
  /\ UNCHANGED <<references, result, status>>
  /\ trees' = Append(trees, EmptyTable)

(* vm_end_scope, symboltable_destroy with the last reference, _symbol_reap:*)
(* every symbol of the tree gives its reference back and is freed.         *)
CloseScope ==
  /\ InScope
  /\ UNCHANGED <<result, status>>
  /\ trees' = SubSeq(trees, 1, Innermost - 1)
  /\ references' = [o \in Objects |->
                references[o] - Cardinality({n \in Tree(Current) : Object(Innermost, n) = o})]

SymbolNext ==
  \/ \E id \in Identifiers :
       \/ SYMFIND(id) \/ SYMCLONE(id) \/ SYMUNDEF(id)
       \/ \E object \in Referents(id) : SYMDEF(id, object)
  \/ OpenScope \/ CloseScope

SymbolSpec == SymbolInit /\ [][SymbolNext]_symbolVars

-----------------------------------------------------------------------------
(* Properties                                                              *)

(* Types of the variables.  No root or child is a pointer to a symbol that *)
(* has been freed or belongs to another table: only m_parent may be.       *)
SymbolTypeOK ==
  /\ \A k \in 1 .. Innermost :
       LET own == DOMAIN trees[k].symbols
       IN /\ own \subseteq Identifiers \cup {0}
          /\ trees[k].root \in own \cup {Null}
          /\ trees[k].symbols \in
               [own -> [parent : own \cup {Null, Gone},
                        left : own \cup {Null}, right : own \cup {Null},
                        object : Objects \cup {Function}]]
  /\ references \in [Objects -> Nat]
  /\ result \in Objects \cup {Function, 0}
  /\ status \in {"ok", "wild", "cyclic"}

(* The symbols that stand for an object                                    *)
Holders(o) == {p \in AllSymbols : Object(p[1], p[2]) = o}

(* The symbols hold one reference each to what they stand for and there    *)
(* are no others: no reference leaks when a definition is refused, a       *)
(* symbol undefined or cloned or a scope ended, and none is given back     *)
(* twice (symbol_define, symbol_clone, _symbol_reap).                      *)
RefsExact == \A o \in Objects : references[o] = Cardinality(Holders(o))

(* Every symbol that has not been freed is reached from the root of its    *)
(* scope, through insertion and the kinds of removal that do not break     *)
(* the tree, so that the end of the scope frees it (_symbol_reap), and no  *)
(* root or child leads to one that has been freed (SymbolTypeOK).          *)
SymbolsReached ==
  /\ SymbolTypeOK
  /\ \A k \in 1 .. Innermost : Tree(trees[k]) = DOMAIN trees[k].symbols

(* The scopes as what their trees give a meaning to.                       *)
MeaningsOf(table) == [id \in Tree(table) |-> table.symbols[id].object]

Meanings == [k \in 1 .. Innermost |-> MeaningsOf(trees[k])]

Env == INSTANCE Environment WITH scopes <- Meanings

(* The innermost scope knows the identifier.                               *)
KnownHere(id) == Innermost \in Env!Knowing(id)

Short == SymbolsInUse >= MaxSymbols

(* What a clone of another identifier than 0 is instead: it goes by the    *)
(* identifier 0, and is refused if the scope has such a symbol.            *)
Misnamed(id) ==
  /\ id # 0
  /\ \/ Env!CloneAs(0, id)
     \/ 0 \in DOMAIN Meanings[Innermost] /\ Env!Refuse

(* Each instruction does what it promises of its identifier: it is defined *)
(* unless it is taken, cloned unless it is known, and so on, and refused   *)
(* only if memory is short.  Not if it breaks the tables, and but for the  *)
(* name of a clone.                                                        *)
Serves(id) ==
  /\ SYMFIND(id) => Env!Find(id)
  /\ \A object \in Referents(id) : SYMDEF(id, object) =>
       IF KnownHere(id) \/ Short THEN Env!Refuse ELSE Env!Define(id, object)
  /\ SYMCLONE(id) =>
       \/ status' # "ok"
       \/ (KnownHere(id) \/ Env!Meaning(id) = 0) /\ Env!Find(id)
       \/ Env!Clone(id)
       \/ Short /\ Env!Refuse
       \/ Misnamed(id)
  /\ SYMUNDEF(id) => status' # "ok" \/ Env!Undefine(id)

(* The tables are nested scopes to every instruction: through any history  *)
(* of insertions and removals what is found is the innermost definition of *)
(* the very identifier that is asked for (symbol_lookup), as long as no    *)
(* removal breaks a tree and but for the name of a clone.                  *)
IsEnvironment ==
  /\ Env!Init
  /\ [][/\ \A id \in Identifiers : Serves(id)
        /\ OpenScope => Env!Open
        /\ CloseScope => Env!Close]_symbolVars

(* "Makes the identifier available directly within the current scope."     *)
(* (SYMCLONE), "Clones the specified symbol" (symbol_clone): the code      *)
(* makes it available under the identifier 0.                              *)
ClonesAreNamed ==
  [][\A id \in Identifiers : SYMCLONE(id) /\ trees' # trees => Env!Clone(id)]_symbolVars

(* "Removes a symbol from the current scope." (symbol_undefine), whichever *)
(* symbol that is: the code does so without breaking the tree.             *)
UndefineRemoves == status # "cyclic"
=============================================================================
