-------------------------------- MODULE Stream --------------------------------
(***************************************************************************)
(* Streams (stream.c), under OPEN, CLOSE, IN, INL, OUT, OUTL, STREAM and    *)
(* what releases references (bytecode.c): files, TCP connections, and pipes *)
(* to or from a child process, which is waited for when the stream is       *)
(* closed, with the stream's mutex held.  So are the bytes that IN reads    *)
(* and OUT writes, however long they take to come or to go.                 *)
(*                                                                         *)
(* The process has a table of descriptors; a child begins with a copy of    *)
(* those that are not FD_CLOEXEC when it is forked.  A pipe is named after  *)
(* the child it is for.  The child ends on its own account, and surely when *)
(* the other end of its pipe is closed in every process: it has read all    *)
(* there is, or cannot write any more.                                      *)
(*                                                                         *)
(* Each context has at most one reference to a stream here (PoolObject and  *)
(* SharedScalars count them).  Programs follow two rules: only a context    *)
(* that has the only reference to a stream opens or closes it, and not more *)
(* than MaxOpening contexts open streams at the same time.                  *)
(***************************************************************************)
EXTENDS Integers, Sequences, FiniteSets

CONSTANTS
  Threads,      \* the execution contexts
  Streams,      \* the objects of the stream pool
  Children,     \* the processes that can be forked, and their pipes
  MaxFd,        \* bound: the highest descriptor
  Kinds,        \* what programs open: "file", "sock", and "read" and "write"
                \* for pipes from and to a child
  MaxOpening,   \* how many contexts execute OPEN at the same time
  None          \* no descriptor, no child, no owner

Fds == 0 .. MaxFd

PipeEnds(c) == {<<c, "r">>, <<c, "w">>}

(* What a descriptor can be                                                *)
Ends == {<<"file">>, <<"sock">>} \cup UNION {PipeEnds(c) : c \in Children}

(* What an instruction does to its stream                                  *)
Works == {"file", "read", "write", "sock", "close", "use", "drop"}

ASSUME StreamAssumption ==
  /\ MaxFd \in Nat
  /\ Kinds \subseteq {"file", "read", "write", "sock"}
  /\ MaxOpening \in Nat \ {0}
  /\ None \notin Threads \cup Streams \cup Children
  /\ None \notin Fds
  /\ None \notin Works
  /\ None \notin Ends

VARIABLES
  stream,       \* m_flags (the type), the descriptor of m_file and m_meta.child_pid
  holders,      \* the contexts with a reference to each stream
  owner,        \* the context that has each stream's mutex
  pc,           \* where in its instruction each context is
  arg,          \* the stream, what it is to be opened as, and the child
  fildes,       \* the descriptors an OPEN has made and not yet disposed of
  table,        \* what each descriptor of the process is; None: nothing
  cloexec,      \* those with FD_CLOEXEC
  child,        \* each child: none, running or zombie
  ends,         \* the ends of pipes that each child has
  leaked,       \* the descriptors that failed forks have left behind
  orphans       \* the children that failed fdopens have left behind

vars ==
  <<stream, holders, owner, pc, arg, fildes, table, cloexec, child, ends, leaked, orphans>>

Closed == [type |-> "undef", fd |-> None, child |-> None]

Init ==
  /\ stream = [s \in Streams |-> Closed]
  /\ holders = [s \in Streams |-> {}]
  /\ owner = [s \in Streams |-> None]
  /\ pc = [t \in Threads |-> "idle"]
  /\ arg = [t \in Threads |-> <<None, None, None>>]
  /\ fildes = [t \in Threads |-> <<>>]
  /\ table = [f \in Fds |-> None]
  /\ cloexec = {}
  /\ child = [c \in Children |-> "none"]
  /\ ends = [c \in Children |-> {}]
  /\ leaked = {}
  /\ orphans = {}

-----------------------------------------------------------------------------
(* Descriptors                                                             *)

Free(tb) == {f \in Fds : tb[f] = None}

Lowest(fds) == CHOOSE f \in fds : \A g \in fds : f <= g

(* open, socket: the lowest free descriptor                                *)
NewFd == Lowest(Free(table))

(* close                                                                   *)
Close(fd) ==
  /\ table' = [table EXCEPT ![fd] = None]
  /\ cloexec' = cloexec \ {fd}

(* The ends of pipes that are open in any process                          *)
OpenEnds == {table[f] : f \in Fds} \cup UNION {ends[c] : c \in Children}

ParentEnd(kind) == IF kind = "read" THEN "r" ELSE "w"

-----------------------------------------------------------------------------
(* Instructions begin.                                                     *)

Stream(t) == arg[t][1]

Kind(t) == arg[t][2]

Child(t) == arg[t][3]

Begin(t, s, kind) ==
  /\ pc[t] = "idle"
  /\ t \in holders[s]
  /\ pc' = [pc EXCEPT ![t] = "lock"]
  /\ arg' = [arg EXCEPT ![t] = <<s, kind, None>>]
  /\ UNCHANGED <<stream, holders, owner, fildes, table, cloexec, child, ends, leaked, orphans>>

Opening == {t \in Threads : Kind(t) \in Kinds}

OPEN(t, s, kind) ==
  /\ holders[s] = {t}
  /\ Cardinality(Opening) < MaxOpening
  /\ Begin(t, s, kind)

(* The assertions in _stream_close and in what reads and writes say that a *)
(* program does so with open streams only.                                 *)
CLOSE(t, s) ==
  /\ holders[s] = {t}
  /\ stream[s].type # "undef"
  /\ Begin(t, s, "close")

(* IN, INL, OUT and OUTL                                                   *)
Use(t, s) ==
  /\ stream[s].type # "undef"
  /\ Begin(t, s, "use")

(* DROP and whatever else releases a reference                             *)
Drop(t, s) == Begin(t, s, "drop")

STREAM(t, s) ==
  /\ pc[t] = "idle"
  /\ holders[s] = {}
  /\ holders' = [holders EXCEPT ![s] = {t}]
  /\ UNCHANGED <<stream, owner, pc, arg, fildes, table, cloexec, child, ends, leaked, orphans>>

(* Another context gets a reference, through a shared scalar or a channel. *)
(* POOL_REFERENCE counts it with the stream's mutex locked.                *)
Share(t, u, s) ==
  /\ pc[t] = "idle"
  /\ owner[s] = None
  /\ t \in holders[s]
  /\ u \notin holders[s]
  /\ holders' = [holders EXCEPT ![s] = @ \cup {u}]
  /\ UNCHANGED <<stream, owner, pc, arg, fildes, table, cloexec, child, ends, leaked, orphans>>

-----------------------------------------------------------------------------
(* stream_open, stream_close, stream_read and so on, and POOL_RELEASE      *)

Goes(t, at) == pc' = [pc EXCEPT ![t] = at]

AfterClose(t) == IF Kind(t) \in Kinds THEN Kind(t) ELSE "unlock"

(* POOL_RELEASE destroys the stream with the last reference.               *)
Leaves(t) == Kind(t) = "drop" /\ holders[Stream(t)] # {t}

(* Mutant of AfterLock: OPEN opens an open stream as it is.                *)
MutantAfterLock(t) ==
  CASE Kind(t) = "use" -> "io"
    [] /\ Kind(t) \in {"close", "drop"} /\ ~ Leaves(t)
       /\ stream[Stream(t)].type # "undef" -> "fclose"
    [] OTHER -> AfterClose(t)

(* What follows POOL_LOCK.  OPEN, like the destruction of a stream, closes *)
(* it if it is open.                                                       *)
AfterLock(t) ==
  CASE Kind(t) = "use" -> "io"
    [] /\ Kind(t) # "use" /\ ~ Leaves(t)
       /\ stream[Stream(t)].type # "undef" -> "fclose"
    [] OTHER -> AfterClose(t)

Lock(t) ==
  /\ pc[t] = "lock"
  /\ owner[Stream(t)] = None
  /\ owner' = [owner EXCEPT ![Stream(t)] = t]
  /\ Goes(t, AfterLock(t))
  /\ UNCHANGED <<stream, holders, arg, fildes, table, cloexec, child, ends, leaked, orphans>>

(* getdelim, fread and fwrite end when the other side has sent what they   *)
(* wait for, or taken what they have, if ever.                             *)
Io(t) ==
  /\ pc[t] = "io"
  /\ Goes(t, "unlock")
  /\ UNCHANGED <<stream, holders, owner, arg, fildes, table, cloexec, child, ends, leaked, orphans>>

(* _stream_close                                                           *)
Fclose(t) ==
  LET s == Stream(t) IN
  /\ pc[t] = "fclose"
  /\ Close(stream[s].fd)
  /\ IF stream[s].child = None
       THEN /\ stream' = [stream EXCEPT ![s] = Closed]
            /\ Goes(t, AfterClose(t))
       ELSE /\ stream' = [stream EXCEPT ![s].fd = None]
            /\ Goes(t, "waitpid")
  /\ UNCHANGED <<holders, owner, arg, fildes, child, ends, leaked, orphans>>

(* waitpid fails at once when there is no such child any more.             *)
Waitpid(t) ==
  LET s == Stream(t) IN
  /\ pc[t] = "waitpid"
  /\ child[stream[s].child] # "running"
  /\ child' = [child EXCEPT ![stream[s].child] = "none"]
  /\ stream' = [stream EXCEPT ![s] = Closed]
  /\ Goes(t, AfterClose(t))
  /\ UNCHANGED <<holders, owner, arg, fildes, table, cloexec, ends, leaked, orphans>>

(* The stream is left closed.                                              *)
OpenFails(t, at) ==
  /\ Goes(t, at)
  /\ UNCHANGED <<stream, holders, owner, arg, ends>>

Opened(t, type, fd, c) ==
  /\ stream' = [stream EXCEPT ![Stream(t)] = [type |-> type, fd |-> fd, child |-> c]]
  /\ cloexec' = cloexec \cup {fd}
  /\ fildes' = [fildes EXCEPT ![t] = <<>>]
  /\ Goes(t, "unlock")

(* _stream_open_file; without a mode, or when fopen fails, nothing is opened. *)
OpenFile(t) ==
  /\ pc[t] = "file"
  /\ \/ /\ Free(table) # {}
        /\ table' = [table EXCEPT ![NewFd] = <<"file">>]
        /\ Opened(t, "file", NewFd, None)
        /\ UNCHANGED <<holders, owner, arg, child, ends, leaked, orphans>>
     \/ /\ OpenFails(t, "unlock")
        /\ UNCHANGED <<fildes, table, cloexec, child, leaked, orphans>>

(* _stream_open_pipe: pipe(), if there are two descriptors and a pipe left *)
Pipe(t) ==
  LET r == NewFd
      w == Lowest(Free(table) \ {r})
      unused == {c \in Children : /\ child[c] = "none" /\ c \notin orphans
                                  /\ \A s \in Streams : stream[s].child # c
                                  /\ PipeEnds(c) \cap OpenEnds = {}
                                  /\ \A u \in Threads : Child(u) # c}
  IN
  /\ pc[t] \in {"read", "write"}
  /\ IF Cardinality(Free(table)) >= 2 /\ unused # {}
       THEN LET c == CHOOSE c \in unused : TRUE IN
            /\ table' = [table EXCEPT ![r] = <<c, "r">>, ![w] = <<c, "w">>]
            /\ fildes' = [fildes EXCEPT ![t] = <<r, w>>]
            /\ arg' = [arg EXCEPT ![t][3] = c]
            /\ Goes(t, "fork")
            /\ UNCHANGED <<stream, holders, owner, cloexec, child, ends, leaked, orphans>>
       ELSE /\ OpenFails(t, "unlock")
            /\ UNCHANGED <<fildes, table, cloexec, child, leaked, orphans>>

(* fork(), and in the child all up to the shell.  When it fails, the pipe  *)
(* is neither closed nor remembered.                                       *)
Fork(t) ==
  LET c == Child(t)
      inherited == {table[f] : f \in Fds \ cloexec} \cap UNION {PipeEnds(d) : d \in Children}
  IN
  /\ pc[t] = "fork"
  /\ \/ /\ child' = [child EXCEPT ![c] = "running"]
        /\ ends' = [ends EXCEPT ![c] = inherited \ {<<c, ParentEnd(Kind(t))>>}]
        /\ Goes(t, "parent")
        /\ UNCHANGED <<stream, holders, owner, arg, fildes, table, cloexec, leaked, orphans>>
     \/ /\ OpenFails(t, "unlock")
        /\ leaked' = leaked \cup {fildes[t][1], fildes[t][2]}
        /\ fildes' = [fildes EXCEPT ![t] = <<>>]
        /\ UNCHANGED <<table, cloexec, child, orphans>>

MyEnd(t) == IF Kind(t) = "read" THEN fildes[t][1] ELSE fildes[t][2]

ItsEnd(t) == IF Kind(t) = "read" THEN fildes[t][2] ELSE fildes[t][1]

(* fdopen fails.  The parent closes its own end too and waits, not for the *)
(* child, but for the process whose number m_meta.child_pid holds: 0, for  *)
(* any child, if the stream has never been open, and otherwise what is     *)
(* left of an earlier open, which is no child's.                           *)
FdopenFails(t) ==
  /\ table' = [table EXCEPT ![ItsEnd(t)] = None, ![MyEnd(t)] = None]
  /\ fildes' = [fildes EXCEPT ![t] = <<>>]
  /\ orphans' = orphans \cup {Child(t)}
  /\ \E at \in {"waitany", "unlock"} : OpenFails(t, at)
  /\ UNCHANGED <<cloexec, child, leaked>>

(* Mutant of Parent: the child's end of the pipe stays open.               *)
MutantParent(t) ==
  /\ pc[t] = "parent"
  /\ \/ /\ UNCHANGED table
        /\ Opened(t, Kind(t), MyEnd(t), Child(t))
        /\ UNCHANGED <<holders, owner, arg, child, ends, leaked, orphans>>
     \/ FdopenFails(t)

(* Mutant of Parent: later children inherit the parent's end.              *)
NoCloexec(t) ==
  /\ pc[t] = "parent"
  /\ \/ /\ table' = [table EXCEPT ![ItsEnd(t)] = None]
        /\ stream' = [stream EXCEPT ![Stream(t)] =
                        [type |-> Kind(t), fd |-> MyEnd(t), child |-> Child(t)]]
        /\ fildes' = [fildes EXCEPT ![t] = <<>>]
        /\ Goes(t, "unlock")
        /\ UNCHANGED <<holders, owner, arg, cloexec, child, ends, leaked, orphans>>
     \/ FdopenFails(t)

(* The parent closes the child's end, and fdopens and marks its own.       *)
Parent(t) ==
  /\ pc[t] = "parent"
  /\ \/ /\ table' = [table EXCEPT ![ItsEnd(t)] = None]
        /\ Opened(t, Kind(t), MyEnd(t), Child(t))
        /\ UNCHANGED <<holders, owner, arg, child, ends, leaked, orphans>>
     \/ FdopenFails(t)

(* waitpid(0): the first child to end, whosever it is, or none at all      *)
Waitany(t) ==
  /\ pc[t] = "waitany"
  /\ \/ \E c \in Children : /\ child[c] = "zombie"
                            /\ child' = [child EXCEPT ![c] = "none"]
     \/ /\ \A c \in Children : child[c] = "none"
        /\ UNCHANGED child
  /\ Goes(t, "unlock")
  /\ UNCHANGED <<stream, holders, owner, arg, fildes, table, cloexec, ends, leaked, orphans>>

(* _stream_open_socket: the name is resolved and a socket made, or not.    *)
Socket(t) ==
  /\ pc[t] = "sock"
  /\ \/ /\ Free(table) # {}
        /\ table' = [table EXCEPT ![NewFd] = <<"sock">>]
        /\ fildes' = [fildes EXCEPT ![t] = <<NewFd>>]
        /\ Goes(t, "connect")
        /\ UNCHANGED <<stream, holders, owner, arg, cloexec, child, ends, leaked, orphans>>
     \/ /\ OpenFails(t, "unlock")
        /\ UNCHANGED <<fildes, table, cloexec, child, leaked, orphans>>

(* A socket that cannot connect to the last address is closed, but s keeps *)
(* its number and fdopen follows.                                          *)
Connect(t) ==
  /\ pc[t] = "connect"
  /\ \/ UNCHANGED <<table, cloexec>>
     \/ Close(fildes[t][1])
  /\ Goes(t, "fdopen")
  /\ UNCHANGED <<stream, holders, owner, arg, fildes, child, ends, leaked, orphans>>

(* fdopen succeeds on whatever the descriptor is by now.                   *)
Fdopen(t) ==
  LET fd == fildes[t][1] IN
  /\ pc[t] = "fdopen"
  /\ \/ /\ table[fd] # None
        /\ Opened(t, "sock", fd, None)
        /\ UNCHANGED <<holders, owner, arg, table, child, ends, leaked, orphans>>
     \/ /\ table[fd] = None
        /\ OpenFails(t, "reclose")
        /\ UNCHANGED <<fildes, table, cloexec, child, leaked, orphans>>

(* and when it fails the descriptor is closed once more.                   *)
CloseAgain(t) ==
  /\ pc[t] = "reclose"
  /\ Close(fildes[t][1])
  /\ fildes' = [fildes EXCEPT ![t] = <<>>]
  /\ Goes(t, "unlock")
  /\ UNCHANGED <<stream, holders, owner, arg, child, ends, leaked, orphans>>

(* POOL_UNLOCK, with the reference that POOL_RELEASE takes back.  CLOSE    *)
(* goes on to release its reference, under the mutex again.                *)
Unlock(t) ==
  LET s == Stream(t) IN
  /\ pc[t] = "unlock"
  /\ owner' = [owner EXCEPT ![s] = None]
  /\ IF Kind(t) = "close"
       THEN /\ Goes(t, "lock")
            /\ arg' = [arg EXCEPT ![t] = <<s, "drop", None>>]
            /\ UNCHANGED holders
       ELSE /\ Goes(t, "idle")
            /\ arg' = [arg EXCEPT ![t] = <<None, None, None>>]
            /\ holders' = IF Kind(t) = "drop" THEN [holders EXCEPT ![s] = @ \ {t}] ELSE holders
  /\ UNCHANGED <<stream, fildes, table, cloexec, child, ends, leaked, orphans>>

-----------------------------------------------------------------------------
(* Children (external)                                                     *)

Dies(c) ==
  /\ child[c] = "running"
  /\ child' = [child EXCEPT ![c] = "zombie"]
  /\ ends' = [ends EXCEPT ![c] = {}]
  /\ UNCHANGED <<stream, holders, owner, pc, arg, fildes, table, cloexec, leaked, orphans>>

(* The child has read everything, or writes to a pipe without a reader.    *)
HungUp(c) ==
  /\ PipeEnds(c) \cap OpenEnds \subseteq ends[c]
  /\ Dies(c)

Step(t) ==
  \/ Lock(t) \/ Fclose(t) \/ Waitpid(t) \/ OpenFile(t) \/ Pipe(t) \/ Fork(t) \/ Parent(t)
  \/ Waitany(t) \/ Socket(t) \/ Connect(t) \/ Fdopen(t) \/ CloseAgain(t) \/ Unlock(t)

Instruction(t) ==
  \E s \in Streams :
    \/ \E kind \in Kinds : OPEN(t, s, kind)
    \/ CLOSE(t, s) \/ Use(t, s) \/ Drop(t, s) \/ STREAM(t, s)
    \/ \E u \in Threads : Share(t, u, s)

Next ==
  \/ \E t \in Threads : Instruction(t) \/ Step(t) \/ Io(t)
  \/ \E c \in Children : Dies(c)

Spec ==
  /\ Init /\ [][Next]_vars
  /\ \A t \in Threads : WF_vars(Step(t))
  /\ \A c \in Children : WF_vars(HungUp(c))

-----------------------------------------------------------------------------
(* Properties                                                              *)

Places == {"idle", "lock", "io", "fclose", "waitpid", "file", "read", "write", "fork",
           "parent", "waitany", "sock", "connect", "fdopen", "reclose", "unlock"}

TypeOK ==
  /\ stream \in [Streams -> [type : Kinds \cup {"undef"}, fd : Fds \cup {None},
                             child : Children \cup {None}]]
  /\ \A s \in Streams : stream[s].child # None <=> stream[s].type \in {"read", "write"}
  /\ holders \in [Streams -> SUBSET Threads]
  /\ owner \in [Streams -> Threads \cup {None}]
  /\ pc \in [Threads -> Places]
  /\ \A t \in Threads :
       /\ pc[t] = "idle" <=> Stream(t) = None
       /\ pc[t] = "waitpid" => stream[Stream(t)].child # None
       /\ Len(fildes[t]) = (IF pc[t] \in {"fork", "parent"} THEN 2
                            ELSE IF pc[t] \in {"connect", "fdopen", "reclose"} THEN 1 ELSE 0)
  /\ cloexec \subseteq Fds \ Free(table)
  /\ child \in [Children -> {"none", "running", "zombie"}]

(* What the descriptor of an open stream has to be                         *)
IsFor(s, end) ==
  CASE stream[s].type \in {"file", "sock"} -> end = <<stream[s].type>>
    [] stream[s].type \in {"read", "write"} -> end = <<stream[s].child, ParentEnd(stream[s].type)>>

(* An open stream's descriptor is open, is what the stream was opened as,  *)
(* and is no other stream's; and every open descriptor belongs to a        *)
(* stream, to an OPEN that goes on, or to a fork that has failed.          *)
DescriptorsOwned ==
  LET open == {s \in Streams : stream[s].fd # None} IN
  /\ TypeOK
  /\ \A s \in open : table[stream[s].fd] # None /\ IsFor(s, table[stream[s].fd])
  /\ \A r, s \in open : stream[r].fd = stream[s].fd => r = s
  /\ \A f \in Fds \ Free(table) :
       \/ \E s \in open : stream[s].fd = f
       \/ \E t \in Threads : \E i \in DOMAIN fildes[t] : fildes[t][i] = f
       \/ f \in leaked

Parents(c) ==
  Cardinality({s \in Streams : stream[s].child = c})
  + Cardinality({t \in Threads : pc[t] = "parent" /\ Child(t) = c})

(* Every child that has been forked and not waited for will be: it is the  *)
(* child of exactly one stream or of an OPEN that goes on, or an fdopen    *)
(* has failed on its pipe.  Until one does, nobody else takes the end of a *)
(* stream's child.                                                         *)
ChildrenWaited ==
  /\ \A c \in Children \ orphans : child[c] # "none" => Parents(c) = 1
  /\ orphans = {} =>
       \A s \in Streams : stream[s].child # None => child[stream[s].child] # "none"

(* A context that opens, closes or drops a stream gets done with it, or    *)
(* others have the stream's mutex for ever or again and again: the child   *)
(* that it waits for, with the mutex locked, has no reason to live on,     *)
(* because nobody else has its pipe.                                       *)
ClosesEnd ==
  \A t \in Threads :
    Kind(t) \in Kinds \cup {"close", "drop"} ~>
      \/ pc[t] = "idle"
      \/ owner[Stream(t)] \notin {None, t}

(* Violated: _stream_open_pipe says that it waits for the child whose pipe *)
(* it cannot open (stream.c:468).                                          *)
NoChildForgotten == \A c \in Children : child[c] # "none" => Parents(c) = 1

(* Violated: a stream's child ends up with whoever closes the stream.      *)
NoChildTaken ==
  \A s \in Streams : stream[s].child # None => child[stream[s].child] # "none"

(* Violated: a DROP waits behind another context's IN, which may never end. *)
DropsEnd == \A t \in Threads : Kind(t) = "drop" ~> pc[t] = "idle"
=============================================================================
