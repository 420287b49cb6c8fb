---------------------------- MODULE StreamProofs ----------------------------
(***************************************************************************)
(* Proofs, for every set of contexts, streams, children and descriptors,   *)
(* of the safety properties of Stream.                                     *)
(***************************************************************************)
EXTENDS Stream, FiniteSetTheorems, WellFoundedInduction, TLAPS

-----------------------------------------------------------------------------
(* The inductive invariants                                                *)

(* Places between lock and unlock at which a stream is being opened        *)
OpeningAt == {"file", "read", "write", "fork", "parent", "sock", "connect", "fdopen", "reclose"}

(* and all of these places                                                 *)
Locked == OpeningAt \cup {"io", "fclose", "waitpid", "waitany", "unlock"}

(* Pipes and sockets that are being made                                   *)
PipeAt == {"fork", "parent"}
SocketAt == {"connect", "fdopen", "reclose"}

Typed ==
  /\ stream \in [Streams -> [type : Kinds \cup {"undef"}, fd : Fds \cup {None},
                             child : Children \cup {None}]]
  /\ holders \in [Streams -> SUBSET Threads]
  /\ owner \in [Streams -> Threads \cup {None}]
  /\ pc \in [Threads -> Places]
  /\ arg \in [Threads -> (Streams \cup {None}) \X (Works \cup {None}) \X (Children \cup {None})]
  /\ fildes \in [Threads -> Seq(Fds)]
  /\ table \in [Fds -> Ends \cup {None}]
  /\ cloexec \subseteq Fds
  /\ child \in [Children -> {"none", "running", "zombie"}]
  /\ orphans \subseteq Children

(* What a context does is told by its place: it has a stream, and from     *)
(* the lock to the unlock its mutex;                                       *)
Placed(t) ==
  /\ pc[t] = "idle" => Stream(t) = None /\ Kind(t) = None /\ Child(t) = None
  /\ pc[t] # "idle" => Stream(t) \in Streams /\ Kind(t) \in Works
  /\ pc[t] \in Locked => owner[Stream(t)] = t

(* what it opens is closed until it is open, and of the kind asked for;    *)
Opens(t) ==
  /\ pc[t] \in OpeningAt => stream[Stream(t)] = Closed
  /\ pc[t] \in {"file", "read", "write", "sock"} => Kind(t) = pc[t]
  /\ pc[t] \in PipeAt => Kind(t) \in {"read", "write"} /\ Child(t) \in Children
  /\ pc[t] \in SocketAt => Kind(t) = "sock"
  /\ Kind(t) \in {"file", "read", "write", "sock"} => Kind(t) \in Kinds

(* and it has the descriptors that it has made.                            *)
Makes(t) ==
  Len(fildes[t]) = (IF pc[t] \in PipeAt THEN 2 ELSE IF pc[t] \in SocketAt THEN 1 ELSE 0)

(* A stream with a child is one to or from a pipe, and it has given up its *)
(* descriptor when its child is waited for; any child is waited for only   *)
(* after an fdopen has failed.                                             *)
Whole(s) ==
  /\ stream[s].type = "undef" => stream[s] = Closed
  /\ stream[s].child # None <=> stream[s].type \in {"read", "write"}

Waits(t) ==
  /\ pc[t] = "waitpid" => stream[Stream(t)].child # None /\ stream[Stream(t)].fd = None
  /\ pc[t] = "waitany" => orphans # {}

(* Each child is that of one stream or of one context that has forked it,  *)
(* and there are no other children but those that failed fdopens have left *)
(* behind, which are also the reason why others may be waited for already. *)
ChildrenApart ==
  /\ \A r, s \in Streams : stream[r].child = stream[s].child /\ stream[s].child # None => r = s
  /\ \A t, u \in Threads : Child(t) = Child(u) /\ Child(u) # None => t = u
  /\ \A s \in Streams, t \in Threads : pc[t] \in PipeAt => stream[s].child # Child(t)

NoneWaited ==
  /\ \A s \in Streams : stream[s].child # None => child[stream[s].child] # "none"
  /\ \A t \in Threads : pc[t] = "parent" => child[Child(t)] # "none"

ChildrenKnown ==
  /\ orphans = {} => NoneWaited
  /\ \A c \in Children \ orphans : child[c] # "none" =>
       \/ \E s \in Streams : stream[s].child = c
       \/ \E t \in Threads : pc[t] = "parent" /\ Child(t) = c

Inv ==
  /\ Typed
  /\ \A t \in Threads : Placed(t) /\ Opens(t) /\ Makes(t) /\ Waits(t)
  /\ \A s \in Streams : Whole(s)
  /\ ChildrenApart
  /\ ChildrenKnown

(* Sockets are made by one context at a time, if programs use any.         *)
OneAtATime == MaxOpening = 1 \/ "sock" \notin Kinds

OneOpens ==
  "sock" \in Kinds => \A t, u \in Threads : Kind(t) \in Kinds /\ Kind(u) \in Kinds => t = u

(* The descriptors an OPEN has made                                        *)
Making(t, f) == \E i \in 1 .. Len(fildes[t]) : fildes[t][i] = f

Has(s, f) == stream[s].fd = f /\ f # None

(* Each descriptor is that of one stream or of one context, is open, and   *)
(* is what it is used as.                                                  *)
StreamsTheirs ==
  /\ \A s \in Streams : stream[s].fd # None => IsFor(s, table[stream[s].fd])
  /\ \A r, s \in Streams, f \in Fds : Has(r, f) /\ Has(s, f) => r = s
  /\ \A s \in Streams, t \in Threads, f \in Fds : ~ (Has(s, f) /\ Making(t, f))

OpenersTheirs ==
  \A t, u \in Threads, f \in Fds : Making(t, f) /\ Making(u, f) => t = u

EndsMade(t) ==
  /\ pc[t] \in PipeAt => /\ table[fildes[t][1]] = <<Child(t), "r">>
                         /\ table[fildes[t][2]] = <<Child(t), "w">>
  /\ pc[t] = "connect" => table[fildes[t][1]] = <<"sock">>
  /\ pc[t] = "fdopen" => table[fildes[t][1]] \in {<<"sock">>, None}
  /\ pc[t] = "reclose" => table[fildes[t][1]] = None

NoneLost ==
  /\ \A f \in Fds : table[f] # None =>
       \/ \E s \in Streams : Has(s, f)
       \/ \E t \in Threads : Making(t, f)
       \/ f \in leaked
  /\ \A f \in cloexec : \E s \in Streams : Has(s, f)

FdInv ==
  /\ OneOpens
  /\ StreamsTheirs
  /\ OpenersTheirs
  /\ \A t \in Threads : EndsMade(t)
  /\ NoneLost

-----------------------------------------------------------------------------
(* Helpers                                                                 *)

(* Nothing is none of the other things.                                    *)
LEMMA NoneApart ==
  /\ None \notin Threads /\ None \notin Streams /\ None \notin Children
  /\ None \notin Fds /\ None \notin Works /\ None \notin Ends
  /\ None \notin Kinds /\ Kinds \subseteq Works
  BY StreamAssumption DEF Works

(* The type of arg, by its parts.                                          *)
LEMMA ArgParts ==
  ASSUME Typed, NEW t \in Threads
  PROVE  /\ Stream(t) \in Streams \cup {None}
         /\ Kind(t) \in Works \cup {None}
         /\ Child(t) \in Children \cup {None}
  BY DEF Typed, Stream, Kind, Child

LEMMA BeginInv ==
  ASSUME Inv, NEW t \in Threads, NEW s \in Streams, NEW kind \in Works,
         kind \in {"file", "read", "write", "sock"} => kind \in Kinds,
         Begin(t, s, kind)
  PROVE  Inv'
  <1>1. /\ pc[t] = "idle"
        /\ pc' = [pc EXCEPT ![t] = "lock"]
        /\ arg' = [arg EXCEPT ![t] = <<s, kind, None>>]
        /\ UNCHANGED <<stream, holders, owner, fildes, table, cloexec, child, ends, leaked, orphans>>
    BY DEF Begin
  <1>2. Typed'
    BY <1>1 DEF Inv, Typed, Places
  <1>3. /\ Stream(t)' = s /\ Kind(t)' = kind /\ Child(t)' = None
        /\ \A u \in Threads \ {t} : Stream(u)' = Stream(u) /\ Kind(u)' = Kind(u) /\ Child(u)' = Child(u)
    BY <1>1 DEF Stream, Kind, Child, Inv, Typed
  <1>4. pc'[t] = "lock" /\ \A u \in Threads \ {t} : pc'[u] = pc[u]
    BY <1>1 DEF Inv, Typed
  <1>5. \A u \in Threads : (Placed(u) /\ Opens(u) /\ Makes(u) /\ Waits(u))'
    <2> TAKE u \in Threads
    <2>1. CASE u = t
      BY <1>1, <1>3, <1>4, <2>1 DEF Inv, Placed, Opens, Makes, Waits, Locked, OpeningAt, PipeAt, SocketAt
    <2>2. CASE u # t
      BY <1>1, <1>3, <1>4, <2>2 DEF Inv, Placed, Opens, Makes, Waits, Locked, OpeningAt, PipeAt, SocketAt
    <2> QED
      BY <2>1, <2>2
  <1>6. \A r \in Streams : Whole(r)'
    BY <1>1 DEF Inv, Whole
  <1>7. ChildrenApart'
    BY <1>1, <1>3, <1>4 DEF Inv, ChildrenApart, PipeAt
  <1>8. ChildrenKnown'
    BY <1>1, <1>3, <1>4 DEF Inv, ChildrenKnown, NoneWaited
  <1> QED
    BY <1>2, <1>5, <1>6, <1>7, <1>8 DEF Inv

LEMMA LockInv ==
  ASSUME Inv, NEW t \in Threads, Lock(t)
  PROVE  Inv'
  <1> DEFINE s == Stream(t)
  <1>1. /\ pc[t] = "lock" /\ owner[s] = None
        /\ owner' = [owner EXCEPT ![s] = t]
        /\ pc' = [pc EXCEPT ![t] = AfterLock(t)]
        /\ UNCHANGED <<stream, holders, arg, fildes, table, cloexec, child, ends, leaked, orphans>>
    BY DEF Lock, Goes
  <1>2. s \in Streams /\ Kind(t) \in Works
    BY <1>1 DEF Inv, Placed, Locked
  <1>3. AfterLock(t) \in {"unlock", "io", "fclose", "file", "read", "write", "sock"}
    <2>1. Kind(t) \in {"file", "read", "write", "sock"} => Kind(t) \in Kinds
      BY DEF Inv, Opens
    <2> QED
      BY <1>2, <2>1, StreamAssumption DEF AfterLock, AfterClose, Works
  <1>4. /\ AfterLock(t) \notin {"unlock", "io", "fclose"} => AfterLock(t) = Kind(t) /\ stream[s] = Closed
        /\ AfterLock(t) = "fclose" => stream[s].type # "undef"
    BY <1>2, StreamAssumption DEF AfterLock, AfterClose, Leaves, Inv, Whole, Works
  <1>5. Typed'
    BY <1>1, <1>2, <1>3 DEF Inv, Typed, Places
  <1>6. /\ \A u \in Threads : Stream(u)' = Stream(u) /\ Kind(u)' = Kind(u) /\ Child(u)' = Child(u)
        /\ pc'[t] = AfterLock(t) /\ \A u \in Threads \ {t} : pc'[u] = pc[u]
        /\ owner'[s] = t /\ \A r \in Streams \ {s} : owner'[r] = owner[r]
    BY <1>1, <1>2 DEF Stream, Kind, Child, Inv, Typed
  <1> HIDE DEF s
  <1>7. \A u \in Threads : (Placed(u) /\ Opens(u) /\ Makes(u) /\ Waits(u))'
    <2> TAKE u \in Threads
    <2>1. CASE u = t
      BY <1>1, <1>2, <1>3, <1>4, <1>6, <2>1
         DEF s, Inv, Placed, Opens, Makes, Waits, Locked, OpeningAt, PipeAt, SocketAt
    <2>2. CASE u # t
      BY <1>1, <1>2, <1>6, <2>2, NoneApart DEF Inv, Placed, Opens, Makes, Waits, Locked, OpeningAt, PipeAt, SocketAt
    <2> QED
      BY <2>1, <2>2
  <1>8. \A r \in Streams : Whole(r)'
    BY <1>1 DEF Inv, Whole
  <1>9. ChildrenApart'
    BY <1>1, <1>3, <1>6 DEF Inv, ChildrenApart, PipeAt
  <1>10. ChildrenKnown'
    BY <1>1, <1>3, <1>6 DEF Inv, ChildrenKnown, NoneWaited
  <1> QED
    BY <1>5, <1>7, <1>8, <1>9, <1>10 DEF Inv

(* What follows the closing of a stream                                    *)
LEMMA AfterCloseTo ==
  ASSUME Inv, NEW t \in Threads, pc[t] # "idle"
  PROVE  /\ AfterClose(t) \in {"unlock", "file", "read", "write", "sock"}
         /\ AfterClose(t) # "unlock" => AfterClose(t) = Kind(t)
  <1>1. Kind(t) \in Works
    BY DEF Inv, Placed, Locked
  <1> QED
    BY <1>1, StreamAssumption DEF AfterClose

(* A step of t that leaves its stream closed.                              *)
LEMMA StreamCloses ==
  ASSUME Inv, NEW t \in Threads, pc[t] \in {"fclose", "waitpid"},
         pc' = [pc EXCEPT ![t] = AfterClose(t)],
         stream' = [stream EXCEPT ![Stream(t)] = Closed],
         UNCHANGED <<holders, owner, arg, fildes, orphans>>,
         Typed',
         \A c \in Children : child[c] # "none" /\ c # stream[Stream(t)].child => child'[c] # "none",
         \A c \in Children : child'[c] # "none" => child[c] # "none" /\ c # stream[Stream(t)].child
  PROVE  Inv'
  <1> DEFINE s == Stream(t)
  <1>2. s \in Streams /\ Kind(t) \in Works /\ owner[s] = t
    BY DEF Inv, Placed, Locked
  <1>3. /\ AfterClose(t) \in {"unlock", "file", "read", "write", "sock"}
        /\ AfterClose(t) # "unlock" => AfterClose(t) = Kind(t)
    BY AfterCloseTo
  <1>6. /\ \A u \in Threads : Stream(u)' = Stream(u) /\ Kind(u)' = Kind(u) /\ Child(u)' = Child(u)
        /\ pc'[t] = AfterClose(t) /\ \A u \in Threads \ {t} : pc'[u] = pc[u]
        /\ stream'[s] = Closed /\ \A r \in Streams \ {s} : stream'[r] = stream[r]
    BY <1>2 DEF Stream, Kind, Child, Inv, Typed
  <1> HIDE DEF s
  <1>7. \A u \in Threads : (Placed(u) /\ Opens(u) /\ Makes(u) /\ Waits(u))'
    <2> TAKE u \in Threads
    <2>1. CASE u = t
      BY <1>2, <1>3, <1>6, <2>1 DEF s, Inv, Placed, Opens, Makes, Waits, Locked, OpeningAt, PipeAt, SocketAt
    <2>2. CASE u # t
      <3>1. (Placed(u) /\ Opens(u) /\ Makes(u))'
        BY <1>2, <1>6, <2>2, NoneApart DEF Inv, Placed, Opens, Makes, Locked, OpeningAt, PipeAt, SocketAt
      <3>2. pc[u] = "waitpid" => Stream(u) # s /\ Stream(u) \in Streams
        BY <1>2, <2>2 DEF Inv, Placed, Locked
      <3>3. Waits(u)'
        BY <1>2, <1>6, <2>2, <3>2 DEF Inv, Waits
      <3> QED
        BY <3>1, <3>3
    <2> QED
      BY <2>1, <2>2
  <1>8. \A r \in Streams : Whole(r)'
    <2> TAKE r \in Streams
    <2>1. CASE r = s
      BY <1>6, <2>1, NoneApart DEF Whole, Closed
    <2>2. CASE r # s
      BY <1>6, <2>2 DEF Inv, Whole
    <2> QED
      BY <2>1, <2>2
  <1>9. ChildrenApart'
    <2>1. \A r \in Streams : stream'[r].child # None => r # s /\ stream'[r] = stream[r]
      BY <1>6 DEF Closed
    <2>2. \A u \in Threads : pc'[u] \in PipeAt => u # t /\ pc[u] \in PipeAt /\ Child(u) # None
      BY <1>3, <1>6, NoneApart DEF Inv, Opens, PipeAt
    <2>3. \A r \in Streams : stream'[r].child # None => stream'[r].child = stream[r].child
      BY <2>1
    <2> QED
      BY <1>6, <2>2, <2>3 DEF Inv, ChildrenApart
  <1>10. ChildrenKnown'
    <2>1. \A r \in Streams : stream'[r].child # None => r # s /\ stream'[r] = stream[r]
      BY <1>6 DEF Closed
    <2>2. \A r \in Streams \ {s} : stream[r].child # None => stream[r].child # stream[s].child
      BY <1>2 DEF Inv, ChildrenApart
    <2>3. \A r \in Streams : stream[r].child \in Children \cup {None}
      BY DEF Inv, Typed
    <2>4. ASSUME orphans = {}
          PROVE  \A r \in Streams : stream'[r].child # None => child'[stream'[r].child] # "none"
      BY <2>1, <2>2, <2>3, <2>4 DEF s, Inv, ChildrenKnown, NoneWaited
    <2>5. \A u \in Threads : pc'[u] = "parent" =>
            /\ u # t /\ Child(u) \in Children /\ Child(u) # stream[s].child
            /\ orphans = {} => child[Child(u)] # "none"
      BY <1>2, <1>3, <1>6 DEF Inv, ChildrenKnown, NoneWaited, ChildrenApart, Opens, PipeAt
    <2>6. orphans = {} => \A u \in Threads : pc'[u] = "parent" => child'[Child(u)'] # "none"
      BY <1>6, <2>5 DEF s
    <2>7. ASSUME NEW c \in Children \ orphans, child'[c] # "none"
          PROVE  \/ \E r \in Streams : stream'[r].child = c
                 \/ \E u \in Threads : pc'[u] = "parent" /\ Child(u)' = c
      <3>1. child[c] # "none" /\ c # stream[s].child
        BY <2>7 DEF s
      <3>2. CASE \E r \in Streams : stream[r].child = c
        BY <1>6, <3>1, <3>2
      <3>3. CASE \E u \in Threads : pc[u] = "parent" /\ Child(u) = c
        BY <1>6, <3>1, <3>3
      <3> QED
        BY <3>1, <3>2, <3>3 DEF Inv, ChildrenKnown, NoneWaited
    <2> QED
      BY <2>4, <2>6, <2>7 DEF ChildrenKnown, NoneWaited
  <1> QED
    BY <1>7, <1>8, <1>9, <1>10 DEF Inv

LEMMA FcloseInv ==
  ASSUME Inv, NEW t \in Threads, Fclose(t)
  PROVE  Inv'
  <1> DEFINE s == Stream(t)
  <1>1. /\ pc[t] = "fclose"
        /\ table' = [table EXCEPT ![stream[s].fd] = None]
        /\ cloexec' = cloexec \ {stream[s].fd}
        /\ UNCHANGED <<holders, owner, arg, fildes, child, ends, leaked, orphans>>
    BY DEF Fclose, Close
  <1>2. s \in Streams /\ Kind(t) \in Works /\ owner[s] = t
    BY <1>1 DEF Inv, Placed, Locked
  <1>3. table' \in [Fds -> Ends \cup {None}] /\ cloexec' \subseteq Fds
    BY <1>1 DEF Inv, Typed
  <1>4. CASE stream[s].child = None
    <2>1. /\ stream' = [stream EXCEPT ![s] = Closed]
          /\ pc' = [pc EXCEPT ![t] = AfterClose(t)]
      BY <1>4 DEF Fclose, Goes
    <2>2. AfterClose(t) \in Places
      BY <1>1, AfterCloseTo DEF Places
    <2>3. Typed'
      BY <1>1, <1>2, <1>3, <2>1, <2>2 DEF Inv, Typed, Closed
    <2>4. \A c \in Children : c # stream[s].child
      BY <1>4, NoneApart
    <2> QED
      BY <1>1, <2>1, <2>3, <2>4, StreamCloses
  <1>5. CASE stream[s].child # None
    <2>1. /\ stream' = [stream EXCEPT ![s].fd = None]
          /\ pc' = [pc EXCEPT ![t] = "waitpid"]
      BY <1>5 DEF Fclose, Goes
    <2>2. stream'[s] = [stream[s] EXCEPT !.fd = None] /\ \A r \in Streams \ {s} : stream'[r] = stream[r]
      BY <1>2, <2>1 DEF Inv, Typed
    <2>3. /\ stream'[s].fd = None /\ stream'[s].type = stream[s].type /\ stream'[s].child = stream[s].child
          /\ \A r \in Streams : stream'[r].child = stream[r].child
      <3>1. stream[s] \in [type : Kinds \cup {"undef"}, fd : Fds \cup {None}, child : Children \cup {None}]
        BY <1>2 DEF Inv, Typed
      <3> HIDE DEF s
      <3> QED
        BY <2>2, <3>1
    <2>4. Typed'
      <3> DEFINE R == [type : Kinds \cup {"undef"}, fd : Fds \cup {None}, child : Children \cup {None}]
      <3>1. stream \in [Streams -> R]
        BY DEF Inv, Typed
      <3>2. stream'[s] \in R
        BY <1>2, <2>2, <3>1
      <3> HIDE DEF R
      <3>3. stream' \in [Streams -> R]
        BY <1>2, <2>1, <3>1, <3>2
      <3> HIDE DEF s
      <3> QED
        BY <1>1, <1>2, <1>3, <2>1, <3>3 DEF R, Inv, Typed, Places
    <2>5. /\ \A u \in Threads : Stream(u)' = Stream(u) /\ Kind(u)' = Kind(u) /\ Child(u)' = Child(u)
          /\ pc'[t] = "waitpid" /\ \A u \in Threads \ {t} : pc'[u] = pc[u]
      BY <1>1, <2>1 DEF Stream, Kind, Child, Inv, Typed
    <2>6. \A u \in Threads : (Placed(u) /\ Opens(u) /\ Makes(u) /\ Waits(u))'
      <3> TAKE u \in Threads
      <3>1. CASE u = t
        BY <1>1, <1>2, <1>5, <2>3, <2>5, <3>1
           DEF Inv, Placed, Opens, Makes, Waits, Locked, OpeningAt, PipeAt, SocketAt
      <3>2. CASE u # t
        <4>1. pc[u] \in OpeningAt \cup {"waitpid"} => Stream(u) # s /\ Stream(u) \in Streams
          BY <1>2, <3>2 DEF Inv, Placed, Locked, OpeningAt
        <4> HIDE DEF s
        <4> QED
          BY <1>1, <2>2, <2>5, <3>2, <4>1 DEF Inv, Placed, Opens, Makes, Waits, Locked, OpeningAt, PipeAt, SocketAt
      <3> QED
        BY <3>1, <3>2
    <2>7. \A r \in Streams : Whole(r)'
      <3> TAKE r \in Streams
      <3>1. CASE r = s
        BY <1>2, <1>5, <2>3, <3>1, NoneApart DEF Inv, Whole, Closed
      <3>2. CASE r # s
        BY <2>2, <3>2 DEF Inv, Whole
      <3> QED
        BY <3>1, <3>2
    <2>8. ChildrenApart'
      BY <1>1, <2>3, <2>5 DEF Inv, ChildrenApart, PipeAt
    <2>9. ChildrenKnown'
      BY <1>1, <2>3, <2>5 DEF Inv, ChildrenKnown, NoneWaited
    <2> QED
      BY <2>4, <2>6, <2>7, <2>8, <2>9 DEF Inv
  <1> QED
    BY <1>4, <1>5

LEMMA WaitpidInv ==
  ASSUME Inv, NEW t \in Threads, Waitpid(t)
  PROVE  Inv'
  <1> DEFINE s == Stream(t)
             c == stream[s].child
  <1>1. /\ pc[t] = "waitpid" /\ child[c] # "running"
        /\ child' = [child EXCEPT ![c] = "none"]
        /\ stream' = [stream EXCEPT ![s] = Closed]
        /\ pc' = [pc EXCEPT ![t] = AfterClose(t)]
        /\ UNCHANGED <<holders, owner, arg, fildes, table, cloexec, ends, leaked, orphans>>
    BY DEF Waitpid, Goes
  <1>2. s \in Streams
    BY <1>1 DEF Inv, Placed, Locked
  <1>3. c \in Children
    BY <1>1, <1>2 DEF Inv, Waits, Typed
  <1>4. AfterClose(t) \in Places
    BY <1>1, AfterCloseTo DEF Places
  <1>5. Typed'
    BY <1>1, <1>2, <1>3, <1>4 DEF Inv, Typed, Closed
  <1>6. child'[c] = "none" /\ \A d \in Children \ {c} : child'[d] = child[d]
    BY <1>1, <1>3 DEF Inv, Typed
  <1> QED
    BY <1>1, <1>5, <1>6, StreamCloses

(* A step of an OPEN by which it fails, or goes on with its socket.        *)
LEMMA OpeningMoves ==
  ASSUME Inv, NEW t \in Threads, pc[t] \in OpeningAt,
         NEW at \in {"unlock", "waitany"} \cup SocketAt, at \in SocketAt => Kind(t) = "sock",
         pc' = [pc EXCEPT ![t] = at],
         UNCHANGED <<stream, owner, arg, child>>,
         orphans \subseteq orphans',
         pc[t] = "parent" => Child(t) \in orphans',
         at = "waitany" => orphans' # {},
         Typed',
         Len(fildes'[t]) = (IF at \in SocketAt THEN 1 ELSE 0),
         \A u \in Threads \ {t} : fildes'[u] = fildes[u]
  PROVE  Inv'
  <1>1. /\ \A u \in Threads : Stream(u)' = Stream(u) /\ Kind(u)' = Kind(u) /\ Child(u)' = Child(u)
        /\ pc'[t] = at /\ \A u \in Threads \ {t} : pc'[u] = pc[u]
    BY DEF Stream, Kind, Child, Inv, Typed
  <1>2. \A u \in Threads : (Placed(u) /\ Opens(u) /\ Makes(u) /\ Waits(u))'
    <2> TAKE u \in Threads
    <2>1. CASE u = t
      BY <1>1, <2>1 DEF Inv, Placed, Opens, Makes, Waits, Locked, OpeningAt, PipeAt, SocketAt
    <2>2. CASE u # t
      BY <1>1, <2>2 DEF Inv, Placed, Opens, Makes, Waits, Locked, OpeningAt
    <2> QED
      BY <2>1, <2>2
  <1>3. \A r \in Streams : Whole(r)'
    BY DEF Inv, Whole
  <1>4. ChildrenApart'
    BY <1>1 DEF Inv, ChildrenApart, PipeAt, SocketAt
  <1>5. ChildrenKnown'
    <2>1. orphans' = {} => NoneWaited'
      BY <1>1 DEF Inv, ChildrenKnown, NoneWaited, SocketAt
    <2>2. ASSUME NEW c \in Children, c \notin orphans', child'[c] # "none"
          PROVE  \/ \E r \in Streams : stream'[r].child = c
                 \/ \E u \in Threads : pc'[u] = "parent" /\ Child(u)' = c
      <3>1. \/ \E r \in Streams : stream[r].child = c
            \/ \E u \in Threads : pc[u] = "parent" /\ Child(u) = c
        BY <2>2 DEF Inv, ChildrenKnown
      <3>2. \A u \in Threads : pc[u] = "parent" /\ Child(u) = c => u # t
        BY <2>2
      <3> QED
        BY <1>1, <3>1, <3>2
    <2> QED
      BY <2>1, <2>2 DEF ChildrenKnown
  <1> QED
    BY <1>2, <1>3, <1>4, <1>5 DEF Inv

(* The step of an OPEN by which its stream is open                         *)
LEMMA OpenedInv ==
  ASSUME Inv, NEW t \in Threads, pc[t] \in OpeningAt,
         NEW type \in Kinds, NEW fd \in Fds, NEW c \in Children \cup {None},
         c # None <=> type \in {"read", "write"},
         c # None => pc[t] = "parent" /\ c = Child(t),
         c = None => pc[t] # "parent",
         Opened(t, type, fd, c),
         UNCHANGED <<holders, owner, arg, child, orphans>>,
         table' \in [Fds -> Ends \cup {None}]
  PROVE  Inv'
  <1> DEFINE s == Stream(t)
             new == [type |-> type, fd |-> fd, child |-> c]
  <1>1. /\ stream' = [stream EXCEPT ![s] = new]
        /\ cloexec' = cloexec \cup {fd}
        /\ fildes' = [fildes EXCEPT ![t] = <<>>]
        /\ pc' = [pc EXCEPT ![t] = "unlock"]
    BY DEF Opened, Goes
  <1>2. s \in Streams /\ Kind(t) \in Works /\ owner[s] = t /\ stream[s] = Closed
    BY DEF Inv, Placed, Opens, Locked, OpeningAt
  <1>3. Typed'
    BY <1>1, <1>2 DEF Inv, Typed, Places
  <1>4. /\ \A u \in Threads : Stream(u)' = Stream(u) /\ Kind(u)' = Kind(u) /\ Child(u)' = Child(u)
        /\ pc'[t] = "unlock" /\ \A u \in Threads \ {t} : pc'[u] = pc[u]
        /\ Len(fildes'[t]) = 0 /\ \A u \in Threads \ {t} : fildes'[u] = fildes[u]
    BY <1>1 DEF Stream, Kind, Child, Inv, Typed
  <1>5. /\ stream'[s].type = type /\ stream'[s].child = c
        /\ \A r \in Streams \ {s} : stream'[r] = stream[r]
    BY <1>1, <1>2 DEF Inv, Typed
  <1> HIDE DEF s, new
  <1>6. \A u \in Threads : (Placed(u) /\ Opens(u) /\ Makes(u) /\ Waits(u))'
    <2> TAKE u \in Threads
    <2>1. CASE u = t
      BY <1>2, <1>4, <2>1 DEF Inv, Placed, Opens, Makes, Waits, Locked, OpeningAt, PipeAt, SocketAt
    <2>2. CASE u # t
      <3>1. pc[u] \in OpeningAt \cup {"waitpid"} => Stream(u) # s /\ Stream(u) \in Streams
        BY <1>2, <2>2 DEF Inv, Placed, Locked, OpeningAt
      <3> QED
        BY <1>4, <1>5, <2>2, <3>1 DEF Inv, Placed, Opens, Makes, Waits, Locked, OpeningAt
    <2> QED
      BY <2>1, <2>2
  <1>7. \A r \in Streams : Whole(r)'
    <2> TAKE r \in Streams
    <2>1. CASE r = s
      BY <1>5, <2>1, StreamAssumption DEF Whole
    <2>2. CASE r # s
      BY <1>5, <2>2 DEF Inv, Whole
    <2> QED
      BY <2>1, <2>2
  <1>8. c # None => /\ orphans = {} => child[c] # "none"
                    /\ c \in Children
                    /\ \A r \in Streams : stream[r].child # c
                    /\ \A u \in Threads \ {t} : Child(u) # c
    BY DEF Inv, ChildrenApart, ChildrenKnown, NoneWaited, PipeAt
  <1>9. ChildrenApart'
    <2>1. \A r \in Streams : (r = s /\ stream'[r].child = c) \/ (r # s /\ stream'[r].child = stream[r].child)
      BY <1>5
    <2>2. \A u \in Threads : pc'[u] \in PipeAt => u # t /\ pc[u] \in PipeAt /\ Child(u) # None
      BY <1>4, NoneApart DEF Inv, Opens, PipeAt
    <2>3. \A r, q \in Streams : stream'[r].child = stream'[q].child /\ stream'[q].child # None => r = q
      BY <1>8, <2>1 DEF Inv, ChildrenApart
    <2>4. \A r \in Streams, u \in Threads : pc'[u] \in PipeAt => stream'[r].child # Child(u)
      BY <1>8, <2>1, <2>2 DEF Inv, ChildrenApart
    <2> QED
      BY <1>4, <2>3, <2>4 DEF Inv, ChildrenApart
  <1>10. ChildrenKnown'
    <2>1. orphans = {} => \A r \in Streams : stream'[r].child # None => child'[stream'[r].child] # "none"
      BY <1>5, <1>8 DEF Inv, ChildrenKnown, NoneWaited
    <2>2. orphans = {} => \A u \in Threads : pc'[u] = "parent" => child'[Child(u)'] # "none"
      BY <1>4 DEF Inv, ChildrenKnown, NoneWaited
    <2>3. \A d \in Children \ orphans : child'[d] # "none" =>
            \/ \E r \in Streams : stream'[r].child = d
            \/ \E u \in Threads : pc'[u] = "parent" /\ Child(u)' = d
      <3> SUFFICES ASSUME NEW d \in Children \ orphans, child[d] # "none"
                   PROVE  \/ \E r \in Streams : stream'[r].child = d
                          \/ \E u \in Threads : pc'[u] = "parent" /\ Child(u)' = d
        OBVIOUS
      <3>1. ASSUME NEW r \in Streams, stream[r].child = d
            PROVE  \E q \in Streams : stream'[q].child = d
        <4>1. r # s
          BY <1>2, <3>1, NoneApart DEF Closed
        <4> QED
          BY <1>5, <3>1, <4>1
      <3>2. ASSUME NEW u \in Threads, pc[u] = "parent", Child(u) = d, u = t
            PROVE  stream'[s].child = d
        BY <1>5, <3>2
      <3>3. ASSUME NEW u \in Threads, pc[u] = "parent", Child(u) = d, u # t
            PROVE  pc'[u] = "parent" /\ Child(u)' = d
        BY <1>4, <3>3
      <3> QED
        BY <1>2, <3>1, <3>2, <3>3 DEF Inv, ChildrenKnown, NoneWaited
    <2> QED
      BY <2>1, <2>2, <2>3 DEF ChildrenKnown, NoneWaited
  <1> QED
    BY <1>3, <1>6, <1>7, <1>9, <1>10 DEF Inv

(* The lowest of some descriptors is one of them.                          *)
LEMMA LowestOf ==
  ASSUME NEW fds, fds \subseteq Fds, fds # {}
  PROVE  Lowest(fds) \in fds
  <1> DEFINE Less == OpToRel(<, Nat)
  <1>1. Fds \subseteq Nat
    BY StreamAssumption DEF Fds
  <1>2. IsWellFoundedOn(Less, Nat)
    BY NatLessThanWellFounded
  <1>3. \A m, n \in Nat : m < n => <<m, n>> \in Less
    BY DEF OpToRel
  <1> HIDE DEF Less
  <1>4. PICK f \in fds : \A g \in fds : <<g, f>> \notin Less
    <2>1. PICK g \in fds : TRUE
      OBVIOUS
    <2> QED
      BY <1>1, <1>2, <2>1, WFMin
  <1>5. \A g \in fds : f <= g
    <2> TAKE g \in fds
    <2>1. f \in Nat /\ g \in Nat
      BY <1>1
    <2>2. ~ (g < f)
      BY <1>3, <1>4, <2>1
    <2> QED
      BY <2>1, <2>2
  <1> QED
    BY <1>5, Zenon DEF Lowest

LEMMA FreeFds ==
  ASSUME Inv
  PROVE  /\ Free(table) \subseteq Fds
         /\ Free(table) # {} => NewFd \in Free(table)
  BY LowestOf DEF Free, NewFd

LEMMA OpenFileInv ==
  ASSUME Inv, NEW t \in Threads, OpenFile(t)
  PROVE  Inv'
  <1>1. pc[t] = "file" /\ Kind(t) = "file" /\ Kind(t) \in Kinds
    BY DEF OpenFile, Inv, Opens
  <1>2. CASE /\ Free(table) # {}
             /\ table' = [table EXCEPT ![NewFd] = <<"file">>]
             /\ Opened(t, "file", NewFd, None)
             /\ UNCHANGED <<holders, owner, arg, child, ends, leaked, orphans>>
    <2>1. NewFd \in Fds
      BY <1>2, FreeFds
    <2>2. table' \in [Fds -> Ends \cup {None}]
      BY <1>2 DEF Inv, Typed, Ends
    <2> QED
      BY <1>1, <1>2, <2>1, <2>2, OpenedInv DEF OpeningAt
  <1>3. CASE OpenFails(t, "unlock") /\ UNCHANGED <<fildes, table, cloexec, child, leaked, orphans>>
    <2>1. Typed'
      BY <1>3 DEF OpenFails, Goes, Inv, Typed, Places
    <2>2. Len(fildes'[t]) = 0
      BY <1>1, <1>3 DEF Inv, Makes, PipeAt, SocketAt
    <2> QED
      BY <1>1, <1>3, <2>1, <2>2, OpeningMoves DEF OpeningAt, SocketAt, OpenFails, Goes
  <1> QED
    BY <1>2, <1>3 DEF OpenFile

LEMMA SocketInv ==
  ASSUME Inv, NEW t \in Threads, Socket(t)
  PROVE  Inv'
  <1>1. pc[t] = "sock" /\ Kind(t) = "sock"
    BY DEF Socket, Inv, Opens
  <1>2. CASE /\ Free(table) # {}
             /\ table' = [table EXCEPT ![NewFd] = <<"sock">>]
             /\ fildes' = [fildes EXCEPT ![t] = <<NewFd>>]
             /\ Goes(t, "connect")
             /\ UNCHANGED <<stream, holders, owner, arg, cloexec, child, ends, leaked, orphans>>
    <2>1. NewFd \in Fds
      BY <1>2, FreeFds
    <2> DEFINE fd == NewFd
    <2> HIDE DEF fd
    <2>2. table' \in [Fds -> Ends \cup {None}]
      BY <1>2 DEF Inv, Typed, Ends
    <2>3. Typed'
      BY <1>2, <2>1, <2>2 DEF Goes, Inv, Typed, Places
    <2>4. Len(fildes'[t]) = 1 /\ \A u \in Threads \ {t} : fildes'[u] = fildes[u]
      BY <1>2 DEF Inv, Typed
    <2> QED
      BY <1>1, <1>2, <2>3, <2>4, OpeningMoves DEF OpeningAt, SocketAt, Goes
  <1>3. CASE OpenFails(t, "unlock") /\ UNCHANGED <<fildes, table, cloexec, child, leaked, orphans>>
    <2>1. Typed'
      BY <1>3 DEF OpenFails, Goes, Inv, Typed, Places
    <2>2. Len(fildes'[t]) = 0
      BY <1>1, <1>3 DEF Inv, Makes, PipeAt, SocketAt
    <2> QED
      BY <1>1, <1>3, <2>1, <2>2, OpeningMoves DEF OpeningAt, SocketAt, OpenFails, Goes
  <1> QED
    BY <1>2, <1>3 DEF Socket

(* The descriptors of what is being made                                   *)
LEMMA MadeFds ==
  ASSUME Inv, NEW t \in Threads
  PROVE  /\ pc[t] \in PipeAt => fildes[t][1] \in Fds /\ fildes[t][2] \in Fds
         /\ pc[t] \in SocketAt => fildes[t][1] \in Fds
  <1>1. fildes[t] \in Seq(Fds) /\ Makes(t)
    BY DEF Inv, Typed
  <1> QED
    BY <1>1 DEF Makes, PipeAt, SocketAt

LEMMA ClosedFd ==
  ASSUME Inv, NEW fd, Close(fd)
  PROVE  table' \in [Fds -> Ends \cup {None}] /\ cloexec' \subseteq Fds
  BY DEF Close, Inv, Typed

LEMMA ConnectInv ==
  ASSUME Inv, NEW t \in Threads, Connect(t)
  PROVE  Inv'
  <1>1. pc[t] = "connect" /\ Kind(t) = "sock"
    BY DEF Connect, Inv, Opens, SocketAt
  <1>2. table' \in [Fds -> Ends \cup {None}] /\ cloexec' \subseteq Fds
    <2>1. CASE UNCHANGED <<table, cloexec>>
      BY <2>1 DEF Inv, Typed
    <2>2. CASE Close(fildes[t][1])
      BY <2>2, ClosedFd
    <2> QED
      BY <2>1, <2>2 DEF Connect
  <1>3. Typed'
    BY <1>2 DEF Connect, Goes, Inv, Typed, Places
  <1>4. Len(fildes'[t]) = 1
    BY <1>1 DEF Connect, Inv, Makes, PipeAt, SocketAt
  <1> QED
    BY <1>1, <1>3, <1>4, OpeningMoves DEF Connect, OpeningAt, SocketAt, Goes

LEMMA FdopenInv ==
  ASSUME Inv, NEW t \in Threads, Fdopen(t)
  PROVE  Inv'
  <1> DEFINE fd == fildes[t][1]
  <1>1. pc[t] = "fdopen" /\ Kind(t) = "sock" /\ Kind(t) \in Kinds /\ fd \in Fds
    BY MadeFds DEF Fdopen, Inv, Opens, SocketAt
  <1>2. CASE Opened(t, "sock", fd, None) /\ UNCHANGED <<holders, owner, arg, table, child, ends, leaked, orphans>>
    <2>1. table' \in [Fds -> Ends \cup {None}]
      BY <1>2 DEF Inv, Typed
    <2> HIDE DEF fd
    <2> QED
      BY <1>1, <1>2, <2>1, OpenedInv DEF OpeningAt
  <1>3. CASE OpenFails(t, "reclose") /\ UNCHANGED <<fildes, table, cloexec, child, leaked, orphans>>
    <2>1. Typed'
      BY <1>3 DEF OpenFails, Goes, Inv, Typed, Places
    <2>2. Len(fildes'[t]) = 1
      BY <1>1, <1>3 DEF Inv, Makes, PipeAt, SocketAt
    <2> QED
      BY <1>1, <1>3, <2>1, <2>2, OpeningMoves DEF OpeningAt, SocketAt, OpenFails, Goes
  <1> QED
    BY <1>2, <1>3 DEF Fdopen

LEMMA CloseAgainInv ==
  ASSUME Inv, NEW t \in Threads, CloseAgain(t)
  PROVE  Inv'
  <1>1. pc[t] = "reclose"
    BY DEF CloseAgain
  <1>2. table' \in [Fds -> Ends \cup {None}] /\ cloexec' \subseteq Fds
    BY ClosedFd DEF CloseAgain
  <1>3. fildes' = [fildes EXCEPT ![t] = <<>>]
    BY DEF CloseAgain
  <1>4. Typed'
    BY <1>2, <1>3 DEF CloseAgain, Goes, Inv, Typed, Places
  <1>5. Len(fildes'[t]) = 0 /\ \A u \in Threads \ {t} : fildes'[u] = fildes[u]
    BY <1>3 DEF Inv, Typed
  <1>6. pc' = [pc EXCEPT ![t] = "unlock"] /\ UNCHANGED <<stream, owner, arg, child, orphans>>
    BY DEF CloseAgain, Goes
  <1> QED
    BY <1>1, <1>4, <1>5, <1>6, OpeningMoves DEF OpeningAt, SocketAt

(* An element of a set of at least two descriptors leaves some.            *)
LEMMA TwoFree ==
  ASSUME Inv, Cardinality(Free(table)) >= 2, NEW r \in Free(table)
  PROVE  Free(table) \ {r} # {}
  <1>1. IsFiniteSet(Free(table))
    <2>1. IsFiniteSet(Fds)
      BY FS_Interval, StreamAssumption DEF Fds
    <2> QED
      BY <2>1, FreeFds, FS_Subset
  <1>2. ASSUME Free(table) \ {r} = {}
        PROVE  FALSE
    <2>1. Free(table) = {r}
      BY <1>2
    <2> QED
      BY <2>1, FS_Singleton
  <1> QED
    BY <1>2

(* A context gets a pipe.                                                  *)
Piped(t, c, r, w) ==
  /\ table' = [table EXCEPT ![r] = <<c, "r">>, ![w] = <<c, "w">>]
  /\ fildes' = [fildes EXCEPT ![t] = <<r, w>>]
  /\ arg' = [arg EXCEPT ![t][3] = c]
  /\ Goes(t, "fork")
  /\ UNCHANGED <<stream, holders, owner, cloexec, child, ends, leaked, orphans>>

LEMMA PipeSteps ==
  ASSUME Inv, NEW t \in Threads, Pipe(t)
  PROVE  /\ pc[t] \in {"read", "write"} /\ Kind(t) = pc[t]
         /\ \/ OpenFails(t, "unlock") /\ UNCHANGED <<fildes, table, cloexec, child, leaked, orphans>>
            \/ \E c \in Children, r, w \in Free(table) :
                 /\ \A s \in Streams : stream[s].child # c
                 /\ \A u \in Threads : Child(u) # c
                 /\ r # w
                 /\ Piped(t, c, r, w)
  <1> DEFINE r == NewFd
             w == Lowest(Free(table) \ {r})
             unused == {c \in Children : /\ child[c] = "none" /\ c \notin orphans
                                         /\ \A s \in Streams : stream[s].child # c
                                         /\ PipeEnds(c) \cap OpenEnds = {}
                                         /\ \A u \in Threads : Child(u) # c}
  <1>1. pc[t] \in {"read", "write"} /\ Kind(t) = pc[t]
    BY DEF Pipe, Inv, Opens
  <1>2. CASE Cardinality(Free(table)) >= 2 /\ unused # {}
    <2> DEFINE c == CHOOSE c \in unused : TRUE
    <2>1. c \in unused
      BY <1>2
    <2>2. Piped(t, c, r, w)
      BY <1>2, Zenon DEF Pipe, Piped
    <2>3. r \in Free(table)
      <3>1. Free(table) # {}
        BY <1>2, FS_EmptySet
      <3> QED
        BY <3>1, FreeFds
    <2>4. w \in Free(table) \ {r}
      <3>1. Free(table) \ {r} # {}
        BY <1>2, <2>3, TwoFree
      <3>2. Free(table) \ {r} \subseteq Fds
        BY FreeFds
      <3> HIDE DEF r
      <3> QED
        BY <3>1, <3>2, LowestOf
    <2>5. /\ c \in Children
          /\ \A s \in Streams : stream[s].child # c
          /\ \A u \in Threads : Child(u) # c
      BY <2>1
    <2> HIDE DEF r, w, c, unused
    <2> QED
      BY <1>1, <2>2, <2>3, <2>4, <2>5
  <1>3. CASE ~ (Cardinality(Free(table)) >= 2 /\ unused # {})
    BY <1>1, <1>3, Zenon DEF Pipe
  <1> QED
    BY <1>2, <1>3

(* The part of arg that Pipe changes                                       *)
LEMMA ArgChild ==
  ASSUME Typed, NEW t \in Threads, NEW c \in Children, arg' = [arg EXCEPT ![t][3] = c]
  PROVE  /\ arg' \in [Threads -> (Streams \cup {None}) \X (Works \cup {None}) \X (Children \cup {None})]
         /\ \A u \in Threads : Stream(u)' = Stream(u) /\ Kind(u)' = Kind(u)
         /\ Child(t)' = c
         /\ \A u \in Threads \ {t} : Child(u)' = Child(u)
  <1> DEFINE A == (Streams \cup {None}) \X (Works \cup {None}) \X (Children \cup {None})
  <1>1. arg \in [Threads -> A]
    BY DEF Typed
  <1>2. ASSUME NEW a \in A
        PROVE  LET b == [a EXCEPT ![3] = c] IN b \in A /\ b[1] = a[1] /\ b[2] = a[2] /\ b[3] = c
    BY <1>2
  <1> HIDE DEF A
  <1>3. arg' = [arg EXCEPT ![t] = [arg[t] EXCEPT ![3] = c]]
    OBVIOUS
  <1>4. arg[t] \in A
    BY <1>1
  <1>5. arg'[t] = [arg[t] EXCEPT ![3] = c] /\ \A u \in Threads \ {t} : arg'[u] = arg[u]
    BY <1>1, <1>3
  <1>6. arg'[t] \in A /\ arg'[t][1] = arg[t][1] /\ arg'[t][2] = arg[t][2] /\ arg'[t][3] = c
    BY <1>2, <1>4, <1>5
  <1>7. arg' \in [Threads -> A]
    BY <1>1, <1>3, <1>5, <1>6
  <1> QED
    BY <1>5, <1>6, <1>7 DEF A, Stream, Kind, Child

LEMMA PipedInv ==
  ASSUME Inv, NEW t \in Threads, NEW c \in Children, NEW r \in Free(table), NEW w \in Free(table),
         pc[t] \in {"read", "write"}, \A s \in Streams : stream[s].child # c,
         \A u \in Threads : Child(u) # c,
         Piped(t, c, r, w)
  PROVE  Inv'
  <1>1. /\ table' = [table EXCEPT ![r] = <<c, "r">>, ![w] = <<c, "w">>]
        /\ fildes' = [fildes EXCEPT ![t] = <<r, w>>]
        /\ arg' = [arg EXCEPT ![t][3] = c]
        /\ pc' = [pc EXCEPT ![t] = "fork"]
        /\ UNCHANGED <<stream, holders, owner, cloexec, child, ends, leaked, orphans>>
    BY DEF Piped, Goes
  <1>2. /\ arg' \in [Threads -> (Streams \cup {None}) \X (Works \cup {None}) \X (Children \cup {None})]
        /\ \A u \in Threads : Stream(u)' = Stream(u) /\ Kind(u)' = Kind(u)
        /\ Child(t)' = c
        /\ \A u \in Threads \ {t} : Child(u)' = Child(u)
    BY <1>1, ArgChild DEF Inv
  <1>3. r \in Fds /\ w \in Fds
    BY FreeFds
  <1>4. table' \in [Fds -> Ends \cup {None}]
    <2>1. <<c, "r">> \in Ends /\ <<c, "w">> \in Ends
      BY DEF Ends, PipeEnds
    <2> QED
      BY <1>1, <2>1 DEF Inv, Typed
  <1>5. Typed'
    <2>1. fildes' \in [Threads -> Seq(Fds)]
      BY <1>1, <1>3 DEF Inv, Typed
    <2> QED
      BY <1>1, <1>2, <1>4, <2>1 DEF Inv, Typed, Places
  <1>6. /\ pc'[t] = "fork" /\ \A u \in Threads \ {t} : pc'[u] = pc[u]
        /\ Len(fildes'[t]) = 2 /\ \A u \in Threads \ {t} : fildes'[u] = fildes[u]
    BY <1>1, <1>3 DEF Inv, Typed
  <1>7. \A u \in Threads : (Placed(u) /\ Opens(u) /\ Makes(u) /\ Waits(u))'
    <2> TAKE u \in Threads
    <2>1. CASE u = t
      <3>1. Placed(t)'
        BY <1>1, <1>2, <1>6 DEF Inv, Placed, Locked, OpeningAt
      <3>2. Opens(t)'
        BY <1>1, <1>2, <1>6 DEF Inv, Opens, OpeningAt, PipeAt, SocketAt
      <3>3. Makes(t)' /\ Waits(t)'
        BY <1>6 DEF Makes, Waits, PipeAt
      <3> QED
        BY <2>1, <3>1, <3>2, <3>3
    <2>2. CASE u # t
      BY <1>1, <1>2, <1>6, <2>2 DEF Inv, Placed, Opens, Makes, Waits, Locked, OpeningAt
    <2> QED
      BY <2>1, <2>2
  <1>8. \A s \in Streams : Whole(s)'
    BY <1>1 DEF Inv, Whole
  <1>10. ChildrenApart'
    BY <1>1, <1>2, <1>6 DEF Inv, ChildrenApart, PipeAt
  <1>11. ChildrenKnown'
    BY <1>1, <1>2, <1>6 DEF Inv, ChildrenKnown, NoneWaited
  <1> QED
    BY <1>5, <1>7, <1>8, <1>10, <1>11 DEF Inv

LEMMA PipeInv ==
  ASSUME Inv, NEW t \in Threads, Pipe(t)
  PROVE  Inv'
  <1>1. CASE OpenFails(t, "unlock") /\ UNCHANGED <<fildes, table, cloexec, child, leaked, orphans>>
    <2>1. Typed'
      BY <1>1 DEF OpenFails, Goes, Inv, Typed, Places
    <2>2. pc[t] \in {"read", "write"}
      BY PipeSteps
    <2>3. Len(fildes'[t]) = 0
      BY <1>1, <2>2 DEF Inv, Makes, PipeAt, SocketAt
    <2> QED
      BY <1>1, <2>1, <2>2, <2>3, OpeningMoves DEF OpeningAt, SocketAt, OpenFails, Goes
  <1> QED
    BY <1>1, PipeSteps, PipedInv

LEMMA ForkInv ==
  ASSUME Inv, NEW t \in Threads, Fork(t)
  PROVE  Inv'
  <1> DEFINE c == Child(t)
  <1>1. pc[t] = "fork" /\ c \in Children
    BY DEF Fork, Inv, Opens, PipeAt
  <1>2. CASE /\ child' = [child EXCEPT ![c] = "running"]
             /\ Goes(t, "parent")
             /\ UNCHANGED <<stream, holders, owner, arg, fildes, table, cloexec, leaked, orphans>>
    <2>1. Typed'
      BY <1>1, <1>2 DEF Goes, Inv, Typed, Places
    <2>2. /\ \A u \in Threads : Stream(u)' = Stream(u) /\ Kind(u)' = Kind(u) /\ Child(u)' = Child(u)
          /\ pc'[t] = "parent" /\ \A u \in Threads \ {t} : pc'[u] = pc[u]
          /\ child'[c] = "running" /\ \A d \in Children \ {c} : child'[d] = child[d]
      BY <1>1, <1>2 DEF Goes, Stream, Kind, Child, Inv, Typed
    <2>3. \A u \in Threads : (Placed(u) /\ Opens(u) /\ Makes(u) /\ Waits(u))'
      <3> TAKE u \in Threads
      <3>1. CASE u = t
        BY <1>1, <1>2, <2>2, <3>1 DEF Inv, Placed, Opens, Makes, Waits, Locked, OpeningAt, PipeAt, SocketAt
      <3>2. CASE u # t
        BY <1>1, <1>2, <2>2, <3>2 DEF Inv, Placed, Opens, Makes, Waits, Locked, OpeningAt
      <3> QED
        BY <3>1, <3>2
    <2>4. \A s \in Streams : Whole(s)'
      BY <1>2 DEF Inv, Whole
    <2>5. ChildrenApart'
      BY <1>1, <1>2, <2>2 DEF Inv, ChildrenApart, PipeAt
    <2>6. ChildrenKnown'
      <3>1. \A s \in Streams : stream[s].child \in Children \cup {None}
        BY DEF Inv, Typed
      <3>2. \A d \in Children : child[d] # "none" => child'[d] # "none"
        BY <2>2
      <3>3. orphans = {} => \A s \in Streams : stream'[s].child # None => child'[stream'[s].child] # "none"
        BY <1>2, <3>1, <3>2 DEF Inv, ChildrenKnown, NoneWaited
      <3>4. ASSUME orphans = {}, NEW u \in Threads, pc'[u] = "parent"
            PROVE  child'[Child(u)'] # "none"
        <4>1. CASE u = t
          BY <2>2, <4>1
        <4>2. CASE u # t
          <5>1. Child(u) \in Children /\ child[Child(u)] # "none"
            BY <2>2, <3>4, <4>2 DEF Inv, Opens, ChildrenKnown, NoneWaited, PipeAt
          <5> QED
            BY <2>2, <3>2, <5>1
        <4> QED
          BY <4>1, <4>2
      <3>5. ASSUME NEW d \in Children \ orphans, child'[d] # "none"
            PROVE  \/ \E s \in Streams : stream'[s].child = d
                   \/ \E u \in Threads : pc'[u] = "parent" /\ Child(u)' = d
        <4>1. CASE d = c
          BY <2>2, <4>1
        <4>2. CASE d # c
          <5>1. \/ \E s \in Streams : stream[s].child = d
                \/ \E u \in Threads : pc[u] = "parent" /\ Child(u) = d
            BY <2>2, <3>5, <4>2 DEF Inv, ChildrenKnown, NoneWaited
          <5> QED
            BY <1>1, <1>2, <2>2, <5>1
        <4> QED
          BY <4>1, <4>2
      <3> QED
        BY <1>2, <3>3, <3>4, <3>5 DEF ChildrenKnown, NoneWaited
    <2> QED
      BY <2>1, <2>3, <2>4, <2>5, <2>6 DEF Inv
  <1>3. CASE /\ OpenFails(t, "unlock")
             /\ fildes' = [fildes EXCEPT ![t] = <<>>]
             /\ UNCHANGED <<table, cloexec, child, orphans>>
    <2>1. Typed'
      BY <1>3 DEF OpenFails, Goes, Inv, Typed, Places
    <2>2. Len(fildes'[t]) = 0 /\ \A u \in Threads \ {t} : fildes'[u] = fildes[u]
      BY <1>3 DEF Inv, Typed
    <2>3. pc' = [pc EXCEPT ![t] = "unlock"] /\ UNCHANGED <<stream, owner, arg, child, orphans>>
      BY <1>3 DEF OpenFails, Goes
    <2> QED
      BY <1>1, <2>1, <2>2, <2>3, OpeningMoves DEF OpeningAt, SocketAt
  <1> QED
    BY <1>2, <1>3, Zenon DEF Fork

(* The two ends of a pipe in the parent                                    *)
LEMMA EndFds ==
  ASSUME Inv, NEW t \in Threads, pc[t] = "parent"
  PROVE  MyEnd(t) \in Fds /\ ItsEnd(t) \in Fds
  BY MadeFds DEF MyEnd, ItsEnd, PipeAt

LEMMA FdopenFailsInv ==
  ASSUME Inv, NEW t \in Threads, pc[t] = "parent", FdopenFails(t)
  PROVE  Inv'
  <1>1. PICK at \in {"waitany", "unlock"} : OpenFails(t, at)
    BY DEF FdopenFails
  <1>2. /\ pc' = [pc EXCEPT ![t] = at]
        /\ UNCHANGED <<stream, holders, owner, arg, ends, cloexec, child, leaked>>
        /\ fildes' = [fildes EXCEPT ![t] = <<>>]
        /\ orphans' = orphans \cup {Child(t)}
    BY <1>1 DEF FdopenFails, OpenFails, Goes
  <1>3. Child(t) \in Children
    BY DEF Inv, Opens, PipeAt
  <1>4. table' \in [Fds -> Ends \cup {None}]
    BY DEF FdopenFails, Inv, Typed
  <1>5. Typed'
    BY <1>2, <1>3, <1>4 DEF Inv, Typed, Places
  <1>6. Len(fildes'[t]) = 0 /\ \A u \in Threads \ {t} : fildes'[u] = fildes[u]
    BY <1>2 DEF Inv, Typed
  <1>7. orphans \subseteq orphans' /\ Child(t) \in orphans' /\ orphans' # {}
    BY <1>2
  <1>8. pc[t] \in OpeningAt /\ at \notin SocketAt
    BY DEF OpeningAt, SocketAt
  <1>9. pc' = [pc EXCEPT ![t] = at] /\ UNCHANGED <<stream, owner, arg, child>>
    BY <1>2
  <1> QED
    BY <1>5, <1>6, <1>7, <1>8, <1>9, OpeningMoves

LEMMA ParentInv ==
  ASSUME Inv, NEW t \in Threads, Parent(t)
  PROVE  Inv'
  <1>1. pc[t] = "parent"
    BY DEF Parent
  <1>2. Kind(t) \in {"read", "write"} /\ Kind(t) \in Kinds /\ Child(t) \in Children
    BY <1>1 DEF Inv, Opens, PipeAt
  <1>3. MyEnd(t) \in Fds
    BY <1>1, EndFds
  <1>4. CASE /\ table' = [table EXCEPT ![ItsEnd(t)] = None]
             /\ Opened(t, Kind(t), MyEnd(t), Child(t))
             /\ UNCHANGED <<holders, owner, arg, child, ends, leaked, orphans>>
    <2>1. table' \in [Fds -> Ends \cup {None}]
      BY <1>4 DEF Inv, Typed
    <2> QED
      BY <1>1, <1>2, <1>3, <1>4, <2>1, OpenedInv, NoneApart DEF OpeningAt
  <1>5. CASE FdopenFails(t)
    BY <1>1, <1>5, FdopenFailsInv
  <1> QED
    BY <1>4, <1>5 DEF Parent

(* What only ends the work that a context does between lock and unlock     *)
LEMMA WorkDone ==
  ASSUME Inv, NEW t \in Threads, pc[t] \in {"io", "waitany"},
         pc' = [pc EXCEPT ![t] = "unlock"],
         UNCHANGED <<stream, holders, owner, arg, fildes, table, cloexec, leaked, orphans>>,
         child' \in [Children -> {"none", "running", "zombie"}],
         \A c \in Children : child'[c] # "none" => child[c] # "none",
         orphans = {} => UNCHANGED child
  PROVE  Inv'
  <1>1. Typed'
    BY DEF Inv, Typed, Places
  <1>2. /\ \A u \in Threads : Stream(u)' = Stream(u) /\ Kind(u)' = Kind(u) /\ Child(u)' = Child(u)
        /\ pc'[t] = "unlock" /\ \A u \in Threads \ {t} : pc'[u] = pc[u]
    BY DEF Stream, Kind, Child, Inv, Typed
  <1>3. \A u \in Threads : (Placed(u) /\ Opens(u) /\ Makes(u) /\ Waits(u))'
    <2> TAKE u \in Threads
    <2>1. CASE u = t
      BY <1>2, <2>1 DEF Inv, Placed, Opens, Makes, Waits, Locked, OpeningAt, PipeAt, SocketAt
    <2>2. CASE u # t
      BY <1>2, <2>2 DEF Inv, Placed, Opens, Makes, Waits
    <2> QED
      BY <2>1, <2>2
  <1>4. (\A r \in Streams : Whole(r))' /\ ChildrenApart'
    BY <1>2 DEF Inv, Whole, ChildrenApart, PipeAt
  <1>5. ChildrenKnown'
    BY <1>2 DEF Inv, ChildrenKnown, NoneWaited
  <1> QED
    BY <1>1, <1>3, <1>4, <1>5 DEF Inv

LEMMA IoInv ==
  ASSUME Inv, NEW t \in Threads, Io(t)
  PROVE  Inv'
  <1>1. child \in [Children -> {"none", "running", "zombie"}]
    BY DEF Inv, Typed
  <1> QED
    BY <1>1, WorkDone DEF Io, Goes

LEMMA WaitanyInv ==
  ASSUME Inv, NEW t \in Threads, Waitany(t)
  PROVE  Inv'
  <1>1. child \in [Children -> {"none", "running", "zombie"}] /\ orphans # {}
    BY DEF Waitany, Inv, Typed, Waits
  <1>2. UNCHANGED child \/ \E c \in Children : child' = [child EXCEPT ![c] = "none"]
    BY DEF Waitany
  <1>3. /\ child' \in [Children -> {"none", "running", "zombie"}]
        /\ \A c \in Children : child'[c] # "none" => child[c] # "none"
    BY <1>1, <1>2
  <1> QED
    BY <1>1, <1>3, WorkDone DEF Waitany, Goes

(* References to a stream that one context more has, or one less           *)
LEMMA HoldersTyped ==
  ASSUME Inv, NEW s \in Streams, NEW S, S \subseteq Threads,
         holders' = [holders EXCEPT ![s] = S]
  PROVE  holders' \in [Streams -> SUBSET Threads]
  <1>1. holders \in [Streams -> SUBSET Threads]
    BY DEF Inv, Typed
  <1>2. S \in SUBSET Threads
    OBVIOUS
  <1> QED
    BY <1>1, <1>2

LEMMA HoldersOf ==
  ASSUME Inv, NEW s \in Streams
  PROVE  holders[s] \subseteq Threads
  BY DEF Inv, Typed

(* A context that gets done with its instruction, or goes on to release    *)
LEMMA IdleTyped ==
  ASSUME Inv, NEW t \in Threads, NEW s \in Streams,
         \/ arg' = [arg EXCEPT ![t] = <<s, "drop", None>>]
         \/ arg' = [arg EXCEPT ![t] = <<None, None, None>>]
  PROVE  arg' \in [Threads -> (Streams \cup {None}) \X (Works \cup {None}) \X (Children \cup {None})]
  <1> DEFINE A == (Streams \cup {None}) \X (Works \cup {None}) \X (Children \cup {None})
             none == <<None, None, None>>
             drop == <<s, "drop", None>>
  <1>1. none \in A /\ drop \in A
    BY DEF Works
  <1>2. arg \in [Threads -> A]
    BY DEF Inv, Typed
  <1>3. arg' = [arg EXCEPT ![t] = drop] \/ arg' = [arg EXCEPT ![t] = none]
    OBVIOUS
  <1> HIDE DEF A, none, drop
  <1>4. arg' \in [Threads -> A]
    BY <1>1, <1>2, <1>3
  <1> QED
    BY <1>4 DEF A

LEMMA UnlockInv ==
  ASSUME Inv, NEW t \in Threads, Unlock(t)
  PROVE  Inv'
  <1> DEFINE s == Stream(t)
  <1>1. /\ pc[t] = "unlock"
        /\ owner' = [owner EXCEPT ![s] = None]
        /\ UNCHANGED <<stream, fildes, table, cloexec, child, ends, leaked, orphans>>
    BY DEF Unlock
  <1>2. s \in Streams /\ owner[s] = t
    BY <1>1 DEF Inv, Placed, Locked
  <1>3. \/ pc' = [pc EXCEPT ![t] = "lock"] /\ arg' = [arg EXCEPT ![t] = <<s, "drop", None>>]
        \/ pc' = [pc EXCEPT ![t] = "idle"] /\ arg' = [arg EXCEPT ![t] = <<None, None, None>>]
    BY DEF Unlock, Goes
  <1>4. Typed'
    <2>1. arg' \in [Threads -> (Streams \cup {None}) \X (Works \cup {None}) \X (Children \cup {None})]
      BY <1>2, <1>3, IdleTyped
    <2>2. pc' \in [Threads -> Places]
      BY <1>3 DEF Inv, Typed, Places
    <2>3. holders' \in [Streams -> SUBSET Threads]
      <3>1. UNCHANGED holders \/ holders' = [holders EXCEPT ![s] = holders[s] \ {t}]
        BY DEF Unlock
      <3>2. holders[s] \ {t} \subseteq Threads
        BY <1>2, HoldersOf
      <3> HIDE DEF s
      <3> QED
        BY <1>2, <3>1, <3>2, HoldersTyped DEF Inv, Typed
    <2> HIDE DEF s
    <2> QED
      BY <1>1, <1>2, <2>1, <2>2, <2>3 DEF Inv, Typed
  <1>5. /\ \A u \in Threads \ {t} : /\ pc'[u] = pc[u]
                                    /\ Stream(u)' = Stream(u) /\ Kind(u)' = Kind(u) /\ Child(u)' = Child(u)
        /\ pc'[t] \in {"lock", "idle"}
        /\ pc'[t] = "lock" => Stream(t)' = s /\ Kind(t)' = "drop" /\ Child(t)' = None
        /\ pc'[t] = "idle" => Stream(t)' = None /\ Kind(t)' = None /\ Child(t)' = None
        /\ \A r \in Streams \ {s} : owner'[r] = owner[r]
    BY <1>1, <1>2, <1>3 DEF Stream, Kind, Child, Inv, Typed
  <1>6. \A u \in Threads : (Placed(u) /\ Opens(u) /\ Makes(u) /\ Waits(u))'
    <2> TAKE u \in Threads
    <2>1. CASE u = t
      BY <1>1, <1>2, <1>5, <2>1, NoneApart
         DEF Inv, Placed, Opens, Makes, Waits, Locked, OpeningAt, PipeAt, SocketAt, Works
    <2>2. CASE u # t
      <3>1. pc[u] \in Locked => Stream(u) # s /\ Stream(u) \in Streams
        BY <1>2, <2>2 DEF Inv, Placed, Locked, OpeningAt
      <3> HIDE DEF s
      <3> QED
        BY <1>1, <1>5, <2>2, <3>1 DEF Inv, Placed, Opens, Makes, Waits
    <2> QED
      BY <2>1, <2>2
  <1>7. \A r \in Streams : Whole(r)'
    BY <1>1 DEF Inv, Whole
  <1>8. ChildrenApart'
    BY <1>1, <1>5 DEF Inv, ChildrenApart, PipeAt
  <1>9. ChildrenKnown'
    BY <1>1, <1>5 DEF Inv, ChildrenKnown, NoneWaited
  <1> QED
    BY <1>4, <1>6, <1>7, <1>8, <1>9 DEF Inv

(* References are taken and given, and nothing else.                       *)
LEMMA HoldersInv ==
  ASSUME Inv, holders' \in [Streams -> SUBSET Threads],
         UNCHANGED <<stream, owner, pc, arg, fildes, table, cloexec, child, ends, leaked, orphans>>
  PROVE  Inv'
  <1>1. Typed'
    BY DEF Inv, Typed
  <1>2. \A u \in Threads : (Placed(u) /\ Opens(u) /\ Makes(u) /\ Waits(u))'
    BY DEF Inv, Placed, Opens, Makes, Waits, Stream, Kind, Child
  <1>3. (\A s \in Streams : Whole(s))' /\ ChildrenApart' /\ ChildrenKnown'
    BY DEF Inv, Whole, ChildrenApart, ChildrenKnown, NoneWaited, Stream, Kind, Child
  <1> QED
    BY <1>1, <1>2, <1>3 DEF Inv

LEMMA DiesInv ==
  ASSUME Inv, NEW c \in Children, Dies(c)
  PROVE  Inv'
  <1>1. /\ child[c] = "running"
        /\ child' = [child EXCEPT ![c] = "zombie"]
        /\ UNCHANGED <<stream, holders, owner, pc, arg, fildes, table, cloexec, leaked, orphans>>
    BY DEF Dies
  <1>2. Typed'
    BY <1>1 DEF Inv, Typed
  <1>3. \A d : child'[d] = "none" <=> child[d] = "none"
    BY <1>1 DEF Inv, Typed
  <1>4. \A u \in Threads : (Placed(u) /\ Opens(u) /\ Makes(u) /\ Waits(u))'
    BY <1>1 DEF Inv, Placed, Opens, Makes, Waits, Stream, Kind, Child
  <1>5. (\A s \in Streams : Whole(s))' /\ ChildrenApart'
    BY <1>1 DEF Inv, Whole, ChildrenApart, Stream, Kind, Child
  <1>6. ChildrenKnown'
    BY <1>1, <1>3 DEF Inv, ChildrenKnown, NoneWaited, Stream, Kind, Child
  <1> QED
    BY <1>2, <1>4, <1>5, <1>6 DEF Inv

(* What an instruction begins with: its work on a stream, or a reference.  *)
LEMMA InstructionSteps ==
  ASSUME Inv, NEW t \in Threads, Instruction(t)
  PROVE  \/ \E s \in Streams, kind \in Works :
              /\ kind \in {"file", "read", "write", "sock"} => kind \in Kinds
              /\ kind \in Kinds => Cardinality(Opening) < MaxOpening
              /\ Begin(t, s, kind)
         \/ /\ holders' \in [Streams -> SUBSET Threads]
            /\ UNCHANGED <<stream, owner, pc, arg, fildes, table, cloexec, child, ends, leaked, orphans>>
  <1>1. PICK s \in Streams :
          \/ \E kind \in Kinds : OPEN(t, s, kind)
          \/ CLOSE(t, s) \/ Use(t, s) \/ Drop(t, s) \/ STREAM(t, s)
          \/ \E u \in Threads : Share(t, u, s)
    BY DEF Instruction
  <1>2. CASE \E kind \in Kinds : OPEN(t, s, kind)
    BY <1>2, NoneApart DEF OPEN
  <1>3. CASE CLOSE(t, s) \/ Use(t, s) \/ Drop(t, s)
    <2>1. {"close", "use", "drop"} \subseteq Works \ {"file", "read", "write", "sock"}
      BY DEF Works
    <2>2. {"close", "use", "drop"} \cap Kinds = {}
      BY StreamAssumption
    <2>3. \E kind \in {"close", "use", "drop"} : Begin(t, s, kind)
      BY <1>3 DEF CLOSE, Use, Drop
    <2> QED
      BY <2>1, <2>2, <2>3
  <1>4. CASE STREAM(t, s) \/ \E u \in Threads : Share(t, u, s)
    <2>1. \E S \in SUBSET Threads : holders' = [holders EXCEPT ![s] = S]
      <3>1. CASE STREAM(t, s)
        BY <3>1 DEF STREAM
      <3>2. ASSUME NEW u \in Threads, Share(t, u, s)
            PROVE  \E S \in SUBSET Threads : holders' = [holders EXCEPT ![s] = S]
        <4>1. holders' = [holders EXCEPT ![s] = holders[s] \cup {u}]
          BY <3>2 DEF Share
        <4>2. holders[s] \cup {u} \subseteq Threads
          BY HoldersOf
        <4> QED
          BY <4>1, <4>2
      <3> QED
        BY <1>4, <3>1, <3>2
    <2>2. holders' \in [Streams -> SUBSET Threads]
      BY <2>1, HoldersTyped
    <2> QED
      BY <1>4, <2>2 DEF STREAM, Share
  <1> QED
    BY <1>1, <1>2, <1>3, <1>4

LEMMA InitInv ==
  Init => Inv
  <1> SUFFICES ASSUME Init
               PROVE  Inv
    OBVIOUS
  <1>1. Typed
    BY DEF Init, Typed, Closed, Places
  <1>2. \A t \in Threads : Placed(t) /\ Opens(t) /\ Makes(t) /\ Waits(t)
    BY NoneApart
       DEF Init, Placed, Opens, Makes, Waits, Stream, Kind, Child, Locked, OpeningAt, PipeAt, SocketAt, Works
  <1>3. \A s \in Streams : Whole(s)
    BY DEF Init, Whole, Closed
  <1>4. ChildrenApart
    BY DEF Init, ChildrenApart, Closed, Child, PipeAt
  <1>5. ChildrenKnown
    BY DEF Init, ChildrenKnown, NoneWaited, Closed
  <1> QED
    BY <1>1, <1>2, <1>3, <1>4, <1>5 DEF Inv

LEMMA NextInv ==
  Inv /\ [Next]_vars => Inv'
  <1> SUFFICES ASSUME Inv, [Next]_vars
               PROVE  Inv'
    OBVIOUS
  <1>1. ASSUME NEW t \in Threads, Instruction(t)
        PROVE  Inv'
    BY <1>1, InstructionSteps, BeginInv, HoldersInv
  <1>2. ASSUME NEW t \in Threads, Step(t) \/ Io(t)
        PROVE  Inv'
    BY <1>2, LockInv, IoInv, FcloseInv, WaitpidInv, OpenFileInv, PipeInv, ForkInv, ParentInv,
       WaitanyInv, SocketInv, ConnectInv, FdopenInv, CloseAgainInv, UnlockInv DEF Step
  <1>3. ASSUME NEW c \in Children, Dies(c)
        PROVE  Inv'
    BY <1>3, DiesInv
  <1>4. ASSUME UNCHANGED vars
        PROVE  Inv'
    BY <1>4, HoldersInv DEF vars, Inv, Typed
  <1> QED
    BY <1>1, <1>2, <1>3, <1>4 DEF Next

(* Theorem.  However many contexts open and close pipes at once, each      *)
(* child process that has not been waited for is the child of exactly one  *)
(* stream, whose closing waits for it, or of the OPEN that has just forked *)
(* it, or of one whose fdopen has failed; and while none has failed,       *)
(* nobody but its closing waits for a stream's child.                      *)
THEOREM EveryChildWaited ==
  Spec => []ChildrenWaited
  <1>1. ASSUME Inv, NEW c \in Children \ orphans, child[c] # "none"
        PROVE  Parents(c) = 1
    <2> DEFINE S == {s \in Streams : stream[s].child = c}
               T == {t \in Threads : pc[t] = "parent" /\ Child(t) = c}
    <2>1. c # None
      BY NoneApart
    <2>2. /\ \A r, s \in S : r = s
          /\ \A t, u \in T : t = u
          /\ S = {} \/ T = {}
          /\ S # {} \/ T # {}
      BY <1>1, <2>1 DEF Inv, ChildrenApart, ChildrenKnown, NoneWaited, PipeAt
    <2> HIDE DEF S, T
    <2>3. CASE S = {}
      <3>1. PICK t \in T : T = {t}
        BY <2>2, <2>3
      <3>2. Cardinality(T) = 1 /\ Cardinality(S) = 0
        BY <2>3, <3>1, FS_Singleton, FS_EmptySet
      <3> QED
        BY <3>2 DEF S, T, Parents
    <2>4. CASE T = {}
      <3>1. PICK s \in S : S = {s}
        BY <2>2, <2>4
      <3>2. Cardinality(S) = 1 /\ Cardinality(T) = 0
        BY <2>4, <3>1, FS_Singleton, FS_EmptySet
      <3> QED
        BY <3>2 DEF S, T, Parents
    <2> QED
      BY <2>2, <2>3, <2>4
  <1>2. Inv => ChildrenWaited
    BY <1>1 DEF ChildrenWaited, Inv, ChildrenKnown, NoneWaited
  <1> QED
    BY <1>2, InitInv, NextInv, PTL DEF Spec

-----------------------------------------------------------------------------
(* Descriptors                                                             *)

(* Nobody begins to open a stream, or nobody else does.                    *)
LEMMA OneOpensKept ==
  ASSUME OneOpens, \A u \in Threads : Kind(u)' = Kind(u) \/ Kind(u)' \notin Kinds
  PROVE  OneOpens'
  BY DEF OneOpens

LEMMA OneOpensBegins ==
  ASSUME OneAtATime, Inv, OneOpens, NEW t \in Threads, NEW s, NEW kind \in Works,
         kind \in Kinds => Cardinality(Opening) < MaxOpening,
         Begin(t, s, kind)
  PROVE  OneOpens'
  <1>1. /\ Kind(t)' = kind
        /\ \A u \in Threads \ {t} : Kind(u)' = Kind(u)
    BY DEF Begin, Kind, Inv, Typed
  <1>2. CASE kind \notin Kinds \/ "sock" \notin Kinds
    BY <1>1, <1>2 DEF OneOpens
  <1>3. CASE kind \in Kinds /\ "sock" \in Kinds
    <2>1. MaxOpening = 1
      BY <1>3 DEF OneAtATime
    <2>2. Opening = {}
      <3> SUFFICES ASSUME NEW u \in Opening
                   PROVE  FALSE
        OBVIOUS
      <3>1. Opening = {u}
        BY <1>3 DEF Opening, OneOpens
      <3>2. Cardinality(Opening) = 1
        BY <3>1, FS_Singleton
      <3>3. ~ (1 < 1)
        OBVIOUS
      <3> QED
        BY <1>3, <2>1, <3>2, <3>3, Zenon
    <2> QED
      BY <1>1, <2>2 DEF OneOpens, Opening
  <1> QED
    BY <1>2, <1>3

(* What a stream's descriptor has to be is something.                      *)
LEMMA IsForEnds ==
  ASSUME Inv, NEW s \in Streams, stream[s].fd # None, NEW end, IsFor(s, end)
  PROVE  end \in Ends /\ end # None
  <1>1. /\ stream[s].type \in Kinds /\ stream[s].child \in Children \cup {None}
        /\ stream[s].child # None <=> stream[s].type \in {"read", "write"}
    <2>1. stream[s] \in [type : Kinds \cup {"undef"}, fd : Fds \cup {None}, child : Children \cup {None}]
      BY DEF Inv, Typed
    <2>2. stream[s].type # "undef"
      BY DEF Inv, Whole, Closed
    <2> QED
      BY <2>1, <2>2 DEF Inv, Whole
  <1>2. CASE stream[s].type \in {"file", "sock"}
    BY <1>2, NoneApart DEF IsFor, Ends
  <1>3. CASE stream[s].type \in {"read", "write"}
    <2>1. end = <<stream[s].child, ParentEnd(stream[s].type)>>
      BY <1>3 DEF IsFor
    <2>2. end \in PipeEnds(stream[s].child)
      BY <2>1 DEF PipeEnds, ParentEnd
    <2>3. stream[s].child \in Children
      BY <1>1, <1>3
    <2> QED
      BY <2>2, <2>3, NoneApart DEF Ends
  <1> QED
    BY <1>1, <1>2, <1>3, NoneApart, StreamAssumption

(* A free descriptor is nobody's, when a context opens something.          *)
LEMMA FreshFd ==
  ASSUME Inv, FdInv, NEW t \in Threads, pc[t] \in {"file", "read", "write", "sock"},
         NEW f \in Fds, table[f] = None
  PROVE  /\ \A s \in Streams : ~ Has(s, f)
         /\ \A u \in Threads : ~ Making(u, f)
  <1>1. ASSUME NEW s \in Streams, Has(s, f)
        PROVE  FALSE
    BY <1>1, IsForEnds DEF Has, FdInv, StreamsTheirs
  <1>2. ASSUME NEW u \in Threads, Making(u, f)
        PROVE  FALSE
    <2>1. Makes(u) /\ EndsMade(u) /\ Opens(u) /\ Opens(t)
      BY DEF Inv, FdInv
    <2>2. PICK i \in 1 .. Len(fildes[u]) : fildes[u][i] = f
      BY <1>2 DEF Making
    <2>3. CASE pc[u] \in PipeAt
      <3>1. Child(u) \in Children
        BY <2>1, <2>3 DEF Opens
      <3>2. <<Child(u), "r">> # None /\ <<Child(u), "w">> # None
        BY <3>1, NoneApart DEF Ends, PipeEnds
      <3>3. i = 1 \/ i = 2
        BY <2>1, <2>2, <2>3 DEF Makes
      <3> QED
        BY <2>1, <2>2, <2>3, <3>2, <3>3 DEF EndsMade
    <2>4. CASE pc[u] \in SocketAt
      <3>1. Kind(u) = "sock" /\ Kind(t) = pc[t] /\ Kind(u) \in Kinds /\ Kind(t) \in Kinds
        BY <2>1, <2>4 DEF Opens
      <3>2. u = t
        BY <3>1 DEF FdInv, OneOpens
      <3> QED
        BY <2>4, <3>2 DEF SocketAt
    <2> QED
      BY <2>1, <2>2, <2>3, <2>4 DEF Makes
  <1> QED
    BY <1>1, <1>2

(* A step that has nothing to do with descriptors.                         *)
LEMMA QuietFds ==
  ASSUME FdInv, OneOpens', UNCHANGED <<stream, fildes, table, cloexec>>, leaked \subseteq leaked',
         \A u \in Threads : EndsMade(u)'
  PROVE  FdInv'
  <1>1. \A u, f : Making(u, f)' <=> Making(u, f)
    BY DEF Making
  <1>2. \A s, f : Has(s, f)' <=> Has(s, f)
    BY DEF Has
  <1>3. StreamsTheirs'
    BY <1>1, <1>2 DEF FdInv, StreamsTheirs, IsFor
  <1>4. OpenersTheirs'
    BY <1>1 DEF FdInv, OpenersTheirs
  <1>5. NoneLost'
    BY <1>1, <1>2 DEF FdInv, NoneLost
  <1> QED
    BY <1>3, <1>4, <1>5 DEF FdInv

(* What is being made stays what it is.                                    *)
LEMMA EndsKept ==
  ASSUME FdInv, NEW u \in Threads, UNCHANGED table, fildes'[u] = fildes[u], Child(u)' = Child(u),
         \/ pc'[u] = pc[u]
         \/ pc'[u] \notin PipeAt \cup SocketAt
         \/ pc[u] \in PipeAt /\ pc'[u] \in PipeAt
  PROVE  EndsMade(u)'
  <1>1. EndsMade(u)
    BY DEF FdInv
  <1>2. CASE pc'[u] = pc[u]
    BY <1>1, <1>2 DEF EndsMade
  <1>3. CASE pc'[u] \notin PipeAt \cup SocketAt
    BY <1>3 DEF EndsMade, PipeAt, SocketAt
  <1>4. CASE pc[u] \in PipeAt /\ pc'[u] \in PipeAt
    BY <1>1, <1>4 DEF EndsMade, PipeAt
  <1> QED
    BY <1>2, <1>3, <1>4

(* A step by which a stream gives up its descriptor, which is closed.      *)
LEMMA ClosingFds ==
  ASSUME Inv, FdInv, NEW s \in Streams, Close(stream[s].fd),
         stream'[s].fd = None,
         \A r \in Streams \ {s} : stream'[r] = stream[r],
         UNCHANGED <<arg, fildes, leaked, orphans>>,
         \A u \in Threads : pc'[u] = pc[u] \/ pc'[u] \notin PipeAt \cup SocketAt
  PROVE  FdInv'
  <1>1. /\ table' = [table EXCEPT ![stream[s].fd] = None]
        /\ cloexec' = cloexec \ {stream[s].fd}
    BY DEF Close
  <1>2. /\ \A u, f : Making(u, f)' <=> Making(u, f)
        /\ \A u : Child(u)' = Child(u) /\ Kind(u)' = Kind(u)
    BY DEF Making, Child, Kind
  <1>3. /\ \A f : ~ Has(s, f)'
        /\ \A r \in Streams \ {s} : \A f : Has(r, f)' <=> Has(r, f)
    BY DEF Has
  <1>4. \A f \in Fds : /\ ~ Has(s, f) => table'[f] = table[f]
                       /\ Has(s, f) => table'[f] = None
    BY <1>1, NoneApart DEF Has, Inv, Typed
  <1>5. OneOpens'
    BY <1>2, OneOpensKept DEF FdInv
  <1>6. StreamsTheirs'
    <2>1. ASSUME NEW r \in Streams, stream'[r].fd # None
          PROVE  IsFor(r, table[stream[r].fd])'
      <3>1. r # s /\ stream'[r] = stream[r]
        BY <2>1
      <3>2. stream[r].fd \in Fds /\ Has(r, stream[r].fd)
        BY <2>1, <3>1 DEF Has, Inv, Typed
      <3>3. ~ Has(s, stream[r].fd)
        BY <3>1, <3>2 DEF FdInv, StreamsTheirs
      <3>4. IsFor(r, table[stream[r].fd])
        BY <2>1, <3>1 DEF FdInv, StreamsTheirs
      <3> QED
        BY <1>4, <3>1, <3>2, <3>3, <3>4 DEF IsFor
    <2> QED
      BY <1>2, <1>3, <2>1 DEF FdInv, StreamsTheirs
  <1>7. OpenersTheirs'
    BY <1>2 DEF FdInv, OpenersTheirs
  <1>8. ASSUME NEW u \in Threads
        PROVE  EndsMade(u)'
    <2>1. Makes(u) /\ EndsMade(u) /\ fildes[u] \in Seq(Fds)
      BY DEF Inv, Typed, FdInv
    <2>2. \A i \in 1 .. Len(fildes[u]) : table'[fildes[u][i]] = table[fildes[u][i]]
      <3> TAKE i \in 1 .. Len(fildes[u])
      <3>1. fildes[u][i] \in Fds /\ Making(u, fildes[u][i])
        BY <2>1 DEF Making
      <3>2. ~ Has(s, fildes[u][i])
        BY <3>1 DEF FdInv, StreamsTheirs
      <3> QED
        BY <1>4, <3>1, <3>2
    <2>3. CASE pc'[u] \in PipeAt
      BY <1>2, <2>1, <2>2, <2>3 DEF EndsMade, Makes, PipeAt, SocketAt
    <2>4. CASE pc'[u] \in SocketAt
      BY <1>2, <2>1, <2>2, <2>4 DEF EndsMade, Makes, PipeAt, SocketAt
    <2>5. CASE pc'[u] \notin PipeAt \cup SocketAt
      BY <2>5 DEF EndsMade, PipeAt, SocketAt
    <2> QED
      BY <2>3, <2>4, <2>5
  <1>9. NoneLost'
    <2>1. ASSUME NEW f \in Fds, table'[f] # None
          PROVE  \/ \E r \in Streams : Has(r, f)'
                 \/ \E u \in Threads : Making(u, f)'
                 \/ f \in leaked'
      BY <1>2, <1>3, <1>4, <2>1 DEF FdInv, NoneLost
    <2>2. ASSUME NEW f \in cloexec'
          PROVE  \E r \in Streams : Has(r, f)'
      <3>1. f \in cloexec /\ f # stream[s].fd
        BY <1>1, <2>2
      <3>2. PICK r \in Streams : Has(r, f)
        BY <3>1 DEF FdInv, NoneLost
      <3> QED
        BY <1>3, <3>1, <3>2 DEF Has
    <2> QED
      BY <2>1, <2>2 DEF NoneLost
  <1> QED
    BY <1>5, <1>6, <1>7, <1>8, <1>9 DEF FdInv

(* A step by which a closed stream gets a descriptor, and its context has  *)
(* none any more.                                                          *)
LEMMA OpenedFds ==
  ASSUME Inv, FdInv, NEW t \in Threads, pc[t] \in OpeningAt,
         NEW type, NEW fd \in Fds, NEW c,
         Opened(t, type, fd, c),
         \/ type \in {"file", "sock"} /\ table'[fd] = <<type>>
         \/ type \in {"read", "write"} /\ table'[fd] = <<c, ParentEnd(type)>>,
         \A s \in Streams : ~ Has(s, fd),
         \A u \in Threads \ {t} : ~ Making(u, fd),
         \A f \in Fds \ {fd} : /\ Making(t, f) => table'[f] = None
                               /\ ~ Making(t, f) => table'[f] = table[f],
         UNCHANGED <<arg, leaked, orphans>>
  PROVE  FdInv'
  <1> DEFINE new == [type |-> type, fd |-> fd, child |-> c]
  <1>0. PICK s \in Streams : s = Stream(t)
    BY DEF Inv, Placed, Locked, OpeningAt
  <1>1. /\ stream' = [stream EXCEPT ![s] = new]
        /\ cloexec' = cloexec \cup {fd}
        /\ fildes' = [fildes EXCEPT ![t] = <<>>]
        /\ pc' = [pc EXCEPT ![t] = "unlock"]
    BY <1>0 DEF Opened, Goes
  <1>2. stream[s] = Closed
    BY <1>0 DEF Inv, Opens
  <1>3. \A u \in Threads : Kind(u)' = Kind(u) /\ Child(u)' = Child(u)
    BY DEF Kind, Child
  <1>4. /\ pc'[t] = "unlock" /\ \A u \in Threads \ {t} : pc'[u] = pc[u]
        /\ Len(fildes'[t]) = 0 /\ \A u \in Threads \ {t} : fildes'[u] = fildes[u]
    BY <1>1 DEF Inv, Typed
  <1>5. stream'[s] = new /\ \A r \in Streams \ {s} : stream'[r] = stream[r]
    BY <1>1, <1>2 DEF Inv, Typed
  <1>6. /\ \A f : ~ Making(t, f)'
        /\ \A u \in Threads \ {t} : \A f : Making(u, f)' <=> Making(u, f)
    BY <1>4 DEF Making
  <1>7. /\ \A f : ~ Has(s, f)
        /\ \A f : Has(s, f)' <=> f = fd
        /\ \A r \in Streams \ {s} : \A f : Has(r, f)' <=> Has(r, f)
    BY <1>2, <1>5, NoneApart DEF Has, Closed
  <1>8. OneOpens'
    BY <1>3, OneOpensKept DEF FdInv
  <1>9. StreamsTheirs'
    <2>1. ASSUME NEW r \in Streams, stream'[r].fd # None
          PROVE  IsFor(r, table[stream[r].fd])'
      <3>1. CASE r = s
        <4>1. stream'[r].type = type /\ stream'[r].child = c /\ table'[stream'[r].fd] = table'[fd]
          BY <1>5, <3>1
        <4>2. CASE type \in {"file", "sock"}
          BY <4>1, <4>2 DEF IsFor
        <4>3. CASE type \in {"read", "write"}
          BY <4>1, <4>3 DEF IsFor, ParentEnd
        <4> QED
          BY <4>2, <4>3
      <3>2. CASE r # s
        <4> HIDE DEF new
        <4>1. stream'[r] = stream[r] /\ stream[r].fd \in Fds /\ Has(r, stream[r].fd)
          BY <1>5, <2>1, <3>2 DEF Has, Inv, Typed
        <4>2. stream[r].fd # fd /\ ~ Making(t, stream[r].fd)
          BY <4>1 DEF FdInv, StreamsTheirs
        <4>3. IsFor(r, table[stream[r].fd])
          BY <2>1, <4>1 DEF FdInv, StreamsTheirs
        <4>4. table'[stream[r].fd] = table[stream[r].fd]
          BY <4>1, <4>2
        <4> QED
          BY <4>1, <4>3, <4>4 DEF IsFor
      <3> QED
        BY <3>1, <3>2
    <2> HIDE DEF new
    <2>2. \A r, q \in Streams, f \in Fds : Has(r, f)' /\ Has(q, f)' => r = q
      BY <1>7 DEF FdInv, StreamsTheirs
    <2>3. \A r \in Streams, u \in Threads, f \in Fds : ~ (Has(r, f)' /\ Making(u, f)')
      BY <1>6, <1>7 DEF FdInv, StreamsTheirs
    <2> QED
      BY <2>1, <2>2, <2>3 DEF StreamsTheirs
  <1> HIDE DEF new
  <1>10. OpenersTheirs'
    BY <1>6 DEF FdInv, OpenersTheirs
  <1>11. ASSUME NEW u \in Threads
         PROVE  EndsMade(u)'
    <2>1. CASE u = t
      BY <1>4, <2>1 DEF EndsMade, PipeAt
    <2>2. CASE u # t
      <3>1. Makes(u) /\ EndsMade(u) /\ fildes[u] \in Seq(Fds)
        BY DEF Inv, Typed, FdInv
      <3>2. \A i \in 1 .. Len(fildes[u]) : table'[fildes[u][i]] = table[fildes[u][i]]
        <4> TAKE i \in 1 .. Len(fildes[u])
        <4>1. fildes[u][i] \in Fds /\ Making(u, fildes[u][i])
          BY <3>1 DEF Making
        <4>2. fildes[u][i] # fd /\ ~ Making(t, fildes[u][i])
          BY <2>2, <4>1 DEF FdInv, OpenersTheirs
        <4> QED
          BY <4>1, <4>2
      <3> QED
        BY <1>3, <1>4, <2>2, <3>1, <3>2 DEF EndsMade, Makes, PipeAt, SocketAt
    <2> QED
      BY <2>1, <2>2
  <1>12. NoneLost'
    <2>1. ASSUME NEW f \in Fds, table'[f] # None
          PROVE  \/ \E r \in Streams : Has(r, f)'
                 \/ \E u \in Threads : Making(u, f)'
                 \/ f \in leaked'
      <3>1. CASE f = fd
        BY <1>2, <1>7, <3>1
      <3>2. CASE f # fd
        <4>1. ~ Making(t, f) /\ table[f] # None
          BY <2>1, <3>2
        <4> QED
          BY <1>6, <1>7, <4>1 DEF FdInv, NoneLost
      <3> QED
        BY <3>1, <3>2
    <2>2. ASSUME NEW f \in cloexec'
          PROVE  \E r \in Streams : Has(r, f)'
      BY <1>1, <1>2, <1>7, <2>2 DEF FdInv, NoneLost
    <2> QED
      BY <2>1, <2>2 DEF NoneLost
  <1> QED
    BY <1>8, <1>9, <1>10, <1>11, <1>12 DEF FdInv

(* A step by which a context opens descriptors that are nobody's.          *)
LEMMA MadeNewFds ==
  ASSUME Inv, FdInv, NEW t \in Threads, Len(fildes[t]) = 0,
         \A f \in Fds : Making(t, f)' => table[f] = None /\ table'[f] # None,
         \A f \in Fds : ~ Making(t, f)' => table'[f] = table[f],
         \A f \in Fds : Making(t, f)' => /\ \A s \in Streams : ~ Has(s, f)
                                         /\ \A u \in Threads : ~ Making(u, f),
         \A u \in Threads \ {t} : /\ fildes'[u] = fildes[u] /\ pc'[u] = pc[u]
                                  /\ Child(u)' = Child(u),
         \A u \in Threads : Kind(u)' = Kind(u),
         EndsMade(t)',
         UNCHANGED <<stream, cloexec, leaked, orphans>>
  PROVE  FdInv'
  <1>1. \A u \in Threads \ {t} : \A f : Making(u, f)' <=> Making(u, f)
    BY DEF Making
  <1>2. \A r, f : Has(r, f)' <=> Has(r, f)
    BY DEF Has
  <1>3. OneOpens'
    BY OneOpensKept DEF FdInv
  <1>4. StreamsTheirs'
    <2>1. ASSUME NEW r \in Streams, stream'[r].fd # None
          PROVE  IsFor(r, table[stream[r].fd])'
      <3>1. stream[r].fd \in Fds /\ Has(r, stream[r].fd)
        BY <2>1 DEF Has, Inv, Typed
      <3>2. table'[stream[r].fd] = table[stream[r].fd]
        BY <3>1
      <3>3. IsFor(r, table[stream[r].fd])
        BY <2>1 DEF FdInv, StreamsTheirs
      <3> QED
        BY <3>2, <3>3 DEF IsFor
    <2> QED
      BY <1>1, <1>2, <2>1 DEF FdInv, StreamsTheirs
  <1>5. OpenersTheirs'
    BY <1>1 DEF FdInv, OpenersTheirs
  <1>6. ASSUME NEW u \in Threads \ {t}
        PROVE  EndsMade(u)'
    <2>1. Makes(u) /\ EndsMade(u) /\ fildes[u] \in Seq(Fds)
      BY DEF Inv, Typed, FdInv
    <2>2. \A i \in 1 .. Len(fildes[u]) : table'[fildes[u][i]] = table[fildes[u][i]]
      <3> TAKE i \in 1 .. Len(fildes[u])
      <3>1. fildes[u][i] \in Fds /\ Making(u, fildes[u][i])
        BY <2>1 DEF Making
      <3>2. ~ Making(t, fildes[u][i])'
        BY <3>1
      <3> QED
        BY <3>1, <3>2
    <2> QED
      BY <2>1, <2>2 DEF EndsMade, Makes, PipeAt, SocketAt
  <1>7. NoneLost'
    <2>1. ASSUME NEW f \in Fds, table'[f] # None
          PROVE  \/ \E r \in Streams : Has(r, f)'
                 \/ \E u \in Threads : Making(u, f)'
                 \/ f \in leaked'
      <3>1. CASE Making(t, f)'
        BY <3>1
      <3>2. CASE ~ Making(t, f)'
        <4>1. table[f] # None /\ ~ Making(t, f)
          BY <2>1, <3>2 DEF Making
        <4> QED
          BY <1>1, <1>2, <4>1 DEF FdInv, NoneLost
      <3> QED
        BY <3>1, <3>2
    <2> QED
      BY <1>2, <2>1 DEF FdInv, NoneLost
  <1> QED
    BY <1>3, <1>4, <1>5, <1>6, <1>7 DEF FdInv

(* A step by which a context closes a descriptor that it has made.         *)
LEMMA ClosedOwnFd ==
  ASSUME Inv, FdInv, NEW t \in Threads, NEW fd \in Fds, Making(t, fd), Close(fd),
         \A u \in Threads \ {t} : pc'[u] = pc[u],
         EndsMade(t)',
         UNCHANGED <<stream, arg, fildes, leaked, orphans>>
  PROVE  FdInv'
  <1>1. /\ table'[fd] = None /\ \A f \in Fds \ {fd} : table'[f] = table[f]
        /\ cloexec' \subseteq cloexec
    BY DEF Close, Inv, Typed
  <1>2. /\ \A u, f : Making(u, f)' <=> Making(u, f)
        /\ \A s, f : Has(s, f)' <=> Has(s, f)
        /\ \A u \in Threads : Kind(u)' = Kind(u) /\ Child(u)' = Child(u)
    BY DEF Making, Has, Kind, Child
  <1>3. OneOpens'
    BY <1>2, OneOpensKept DEF FdInv
  <1>4. StreamsTheirs'
    <2>1. ASSUME NEW r \in Streams, stream[r].fd # None
          PROVE  IsFor(r, table'[stream[r].fd])
      <3>1. stream[r].fd \in Fds /\ Has(r, stream[r].fd)
        BY <2>1 DEF Has, Inv, Typed
      <3>2. table'[stream[r].fd] = table[stream[r].fd]
        BY <1>1, <3>1 DEF FdInv, StreamsTheirs
      <3>3. IsFor(r, table[stream[r].fd])
        BY <2>1 DEF FdInv, StreamsTheirs
      <3> QED
        BY <3>2, <3>3
    <2> QED
      BY <1>2, <2>1 DEF FdInv, StreamsTheirs, IsFor
  <1>5. OpenersTheirs'
    BY <1>2 DEF FdInv, OpenersTheirs
  <1>6. ASSUME NEW u \in Threads \ {t}
        PROVE  EndsMade(u)'
    <2>1. Makes(u) /\ EndsMade(u) /\ fildes[u] \in Seq(Fds)
      BY DEF Inv, Typed, FdInv
    <2>2. \A i \in 1 .. Len(fildes[u]) : table'[fildes[u][i]] = table[fildes[u][i]]
      <3> TAKE i \in 1 .. Len(fildes[u])
      <3>1. fildes[u][i] \in Fds /\ Making(u, fildes[u][i])
        BY <2>1 DEF Making
      <3>2. fildes[u][i] # fd
        BY <3>1 DEF FdInv, OpenersTheirs
      <3> QED
        BY <1>1, <3>1, <3>2
    <2> QED
      BY <1>2, <2>1, <2>2 DEF EndsMade, Makes, PipeAt, SocketAt
  <1>7. NoneLost'
    BY <1>1, <1>2 DEF FdInv, NoneLost
  <1> QED
    BY <1>3, <1>4, <1>5, <1>6, <1>7 DEF FdInv

(* A step by which a context forgets the descriptors that it has made,     *)
(* which it closes or else leaves open for good.                           *)
LEMMA DroppedFds ==
  ASSUME Inv, FdInv, NEW t \in Threads, pc'[t] \notin PipeAt \cup SocketAt, Len(fildes'[t]) = 0,
         \A u \in Threads \ {t} : pc'[u] = pc[u] /\ fildes'[u] = fildes[u],
         \A f \in Fds : Making(t, f) => table'[f] = None \/ f \in leaked',
         \A f \in Fds : ~ Making(t, f) => table'[f] = table[f],
         leaked \subseteq leaked',
         UNCHANGED <<stream, arg, cloexec>>
  PROVE  FdInv'
  <1>1. /\ \A f : ~ Making(t, f)'
        /\ \A u \in Threads \ {t} : \A f : Making(u, f)' <=> Making(u, f)
    BY DEF Making
  <1>2. /\ \A s, f : Has(s, f)' <=> Has(s, f)
        /\ \A u \in Threads : Kind(u)' = Kind(u) /\ Child(u)' = Child(u)
    BY DEF Has, Kind, Child
  <1>3. OneOpens'
    BY <1>2, OneOpensKept DEF FdInv
  <1>4. StreamsTheirs'
    <2>1. ASSUME NEW r \in Streams, stream[r].fd # None
          PROVE  IsFor(r, table'[stream[r].fd])
      <3>1. stream[r].fd \in Fds /\ Has(r, stream[r].fd)
        BY <2>1 DEF Has, Inv, Typed
      <3>2. table'[stream[r].fd] = table[stream[r].fd]
        BY <3>1 DEF FdInv, StreamsTheirs
      <3>3. IsFor(r, table[stream[r].fd])
        BY <2>1 DEF FdInv, StreamsTheirs
      <3> QED
        BY <3>2, <3>3
    <2>2. \A r, q \in Streams, f \in Fds : Has(r, f)' /\ Has(q, f)' => r = q
      BY <1>2 DEF FdInv, StreamsTheirs
    <2>3. \A r \in Streams, u \in Threads, f \in Fds : ~ (Has(r, f)' /\ Making(u, f)')
      BY <1>1, <1>2 DEF FdInv, StreamsTheirs
    <2> QED
      BY <2>1, <2>2, <2>3 DEF StreamsTheirs, IsFor
  <1>5. OpenersTheirs'
    BY <1>1 DEF FdInv, OpenersTheirs
  <1>6. \A u \in Threads : EndsMade(u)'
    <2>1. EndsMade(t)'
      BY DEF EndsMade, PipeAt, SocketAt
    <2>2. ASSUME NEW u \in Threads \ {t}
          PROVE  EndsMade(u)'
      <3>1. Makes(u) /\ EndsMade(u) /\ fildes[u] \in Seq(Fds)
        BY DEF Inv, Typed, FdInv
      <3>2. \A i \in 1 .. Len(fildes[u]) : table'[fildes[u][i]] = table[fildes[u][i]]
        <4> TAKE i \in 1 .. Len(fildes[u])
        <4>1. fildes[u][i] \in Fds /\ Making(u, fildes[u][i])
          BY <3>1 DEF Making
        <4>2. ~ Making(t, fildes[u][i])
          BY <4>1 DEF FdInv, OpenersTheirs
        <4> QED
          BY <4>1, <4>2
      <3> QED
        BY <1>2, <3>1, <3>2 DEF EndsMade, Makes, PipeAt, SocketAt
    <2> QED
      BY <2>1, <2>2
  <1>7. NoneLost'
    <2>1. ASSUME NEW f \in Fds, table'[f] # None
          PROVE  \/ \E r \in Streams : Has(r, f)'
                 \/ \E u \in Threads : Making(u, f)'
                 \/ f \in leaked'
      <3>1. CASE Making(t, f)
        BY <2>1, <3>1
      <3>2. CASE ~ Making(t, f)
        BY <1>1, <1>2, <2>1, <3>2 DEF FdInv, NoneLost
      <3> QED
        BY <3>1, <3>2
    <2> QED
      BY <1>2, <2>1 DEF FdInv, NoneLost
  <1> QED
    BY <1>3, <1>4, <1>5, <1>6, <1>7 DEF FdInv

LEMMA FcloseFds ==
  ASSUME Inv, FdInv, NEW t \in Threads, Fclose(t)
  PROVE  FdInv'
  <1>1. PICK s \in Streams : s = Stream(t)
    BY DEF Fclose, Inv, Placed
  <1>2. /\ pc[t] = "fclose" /\ Close(stream[s].fd)
        /\ UNCHANGED <<arg, fildes, leaked, orphans>>
    BY <1>1 DEF Fclose
  <1>3. CASE stream' = [stream EXCEPT ![s] = Closed] /\ pc' = [pc EXCEPT ![t] = AfterClose(t)]
    <2>1. stream'[s].fd = None /\ \A r \in Streams \ {s} : stream'[r] = stream[r]
      BY <1>3 DEF Closed, Inv, Typed
    <2>2. pc'[t] \notin PipeAt \cup SocketAt /\ \A u \in Threads \ {t} : pc'[u] = pc[u]
      BY <1>2, <1>3, AfterCloseTo DEF PipeAt, SocketAt, Inv, Typed
    <2> QED
      BY <1>2, <2>1, <2>2, ClosingFds
  <1>4. CASE stream' = [stream EXCEPT ![s].fd = None] /\ pc' = [pc EXCEPT ![t] = "waitpid"]
    <2>1. stream'[s].fd = None /\ \A r \in Streams \ {s} : stream'[r] = stream[r]
      <3>1. stream[s] \in [type : Kinds \cup {"undef"}, fd : Fds \cup {None}, child : Children \cup {None}]
        BY DEF Inv, Typed
      <3>2. stream'[s] = [stream[s] EXCEPT !.fd = None] /\ \A r \in Streams \ {s} : stream'[r] = stream[r]
        BY <1>4 DEF Inv, Typed
      <3> QED
        BY <3>1, <3>2
    <2>2. pc'[t] \notin PipeAt \cup SocketAt /\ \A u \in Threads \ {t} : pc'[u] = pc[u]
      BY <1>4 DEF PipeAt, SocketAt, Inv, Typed
    <2> QED
      BY <1>2, <2>1, <2>2, ClosingFds
  <1> QED
    BY <1>1, <1>3, <1>4 DEF Fclose, Goes

(* The stream that waits for its child has no descriptor any more.         *)
LEMMA WaitpidFds ==
  ASSUME Inv, FdInv, NEW t \in Threads, Waitpid(t)
  PROVE  FdInv'
  <1>1. PICK s \in Streams : s = Stream(t)
    BY DEF Waitpid, Inv, Placed
  <1>2. /\ pc[t] = "waitpid" /\ stream[s].fd = None
        /\ stream' = [stream EXCEPT ![s] = Closed]
        /\ pc' = [pc EXCEPT ![t] = AfterClose(t)]
        /\ UNCHANGED <<arg, fildes, table, cloexec, leaked, orphans>>
    BY <1>1 DEF Waitpid, Goes, Inv, Waits
  <1>3. Close(stream[s].fd)
    <2>1. table' = [table EXCEPT ![None] = None]
      BY <1>2, NoneApart DEF Inv, Typed
    <2>2. cloexec' = cloexec \ {None}
      BY <1>2, NoneApart DEF Inv, Typed
    <2> QED
      BY <1>2, <2>1, <2>2 DEF Close
  <1>4. stream'[s].fd = None /\ \A r \in Streams \ {s} : stream'[r] = stream[r]
    BY <1>2 DEF Closed, Inv, Typed
  <1>5. pc'[t] \notin PipeAt \cup SocketAt /\ \A u \in Threads \ {t} : pc'[u] = pc[u]
    BY <1>2, AfterCloseTo DEF PipeAt, SocketAt, Inv, Typed
  <1> QED
    BY <1>2, <1>3, <1>4, <1>5, ClosingFds

(* An OPEN that fails without any descriptor, or a step of that kind       *)
LEMMA FailsQuietly ==
  ASSUME Inv, FdInv, NEW t \in Threads, NEW at, at \notin PipeAt \cup SocketAt,
         pc' = [pc EXCEPT ![t] = at],
         UNCHANGED <<stream, arg, fildes, table, cloexec>>, leaked \subseteq leaked'
  PROVE  FdInv'
  <1>1. \A u \in Threads : Kind(u)' = Kind(u) /\ Child(u)' = Child(u)
    BY DEF Kind, Child
  <1>2. \A u \in Threads : pc'[u] = pc[u] \/ pc'[u] \notin PipeAt \cup SocketAt
    BY DEF Inv, Typed
  <1>3. \A u \in Threads : EndsMade(u)'
    BY <1>1, <1>2, EndsKept
  <1>4. OneOpens'
    BY <1>1, OneOpensKept DEF FdInv
  <1> QED
    BY <1>3, <1>4, QuietFds

LEMMA OpenFileFds ==
  ASSUME Inv, FdInv, NEW t \in Threads, OpenFile(t)
  PROVE  FdInv'
  <1>1. pc[t] = "file"
    BY DEF OpenFile
  <1>2. CASE /\ Free(table) # {}
             /\ table' = [table EXCEPT ![NewFd] = <<"file">>]
             /\ Opened(t, "file", NewFd, None)
             /\ UNCHANGED <<holders, owner, arg, child, ends, leaked, orphans>>
    <2>1. PICK fd \in Fds : fd = NewFd /\ table[fd] = None
      BY <1>2, FreeFds DEF Free
    <2>2. /\ \A s \in Streams : ~ Has(s, fd)
          /\ \A u \in Threads : ~ Making(u, fd)
      BY <1>1, <2>1, FreshFd
    <2>3. table'[fd] = <<"file">> /\ \A f \in Fds \ {fd} : table'[f] = table[f]
      BY <1>2, <2>1 DEF Inv, Typed
    <2>4. \A f : ~ Making(t, f)
      BY <1>1 DEF Inv, Makes, Making, PipeAt, SocketAt
    <2> QED
      BY <1>1, <1>2, <2>1, <2>2, <2>3, <2>4, OpenedFds DEF OpeningAt
  <1>3. CASE OpenFails(t, "unlock") /\ UNCHANGED <<fildes, table, cloexec, child, leaked, orphans>>
    BY <1>3, FailsQuietly DEF OpenFails, Goes, PipeAt, SocketAt
  <1> QED
    BY <1>2, <1>3 DEF OpenFile

LEMMA SocketFds ==
  ASSUME Inv, FdInv, NEW t \in Threads, Socket(t)
  PROVE  FdInv'
  <1>1. pc[t] = "sock"
    BY DEF Socket
  <1>2. CASE /\ Free(table) # {}
             /\ table' = [table EXCEPT ![NewFd] = <<"sock">>]
             /\ fildes' = [fildes EXCEPT ![t] = <<NewFd>>]
             /\ Goes(t, "connect")
             /\ UNCHANGED <<stream, holders, owner, arg, cloexec, child, ends, leaked, orphans>>
    <2>1. PICK fd \in Fds : fd = NewFd /\ table[fd] = None
      BY <1>2, FreeFds DEF Free
    <2>2. /\ \A s \in Streams : ~ Has(s, fd)
          /\ \A u \in Threads : ~ Making(u, fd)
      BY <1>1, <2>1, FreshFd
    <2>3. table'[fd] = <<"sock">> /\ \A f \in Fds \ {fd} : table'[f] = table[f]
      BY <1>2, <2>1 DEF Inv, Typed
    <2>4. <<"sock">> # None
      BY NoneApart DEF Ends
    <2>5. Len(fildes[t]) = 0
      BY <1>1 DEF Inv, Typed, Makes, PipeAt, SocketAt
    <2>6. /\ fildes'[t] = <<fd>> /\ \A u \in Threads \ {t} : fildes'[u] = fildes[u]
          /\ pc'[t] = "connect" /\ \A u \in Threads \ {t} : pc'[u] = pc[u]
      BY <1>2, <2>1 DEF Goes, Inv, Typed
    <2>7. \A f : Making(t, f)' <=> f = fd
      BY <2>6 DEF Making
    <2>8. EndsMade(t)'
      BY <2>3, <2>6 DEF EndsMade, PipeAt
    <2>9. \A u \in Threads : Kind(u)' = Kind(u) /\ Child(u)' = Child(u)
      BY <1>2 DEF Kind, Child
    <2> QED
      BY <1>2, <2>1, <2>2, <2>3, <2>4, <2>5, <2>6, <2>7, <2>8, <2>9, MadeNewFds
  <1>3. CASE OpenFails(t, "unlock") /\ UNCHANGED <<fildes, table, cloexec, child, leaked, orphans>>
    BY <1>3, FailsQuietly DEF OpenFails, Goes, PipeAt, SocketAt
  <1> QED
    BY <1>2, <1>3 DEF Socket

LEMMA PipeFds ==
  ASSUME Inv, FdInv, NEW t \in Threads, Pipe(t)
  PROVE  FdInv'
  <1>1. pc[t] \in {"read", "write"}
    BY PipeSteps
  <1>2. CASE OpenFails(t, "unlock") /\ UNCHANGED <<fildes, table, cloexec, child, leaked, orphans>>
    BY <1>2, FailsQuietly DEF OpenFails, Goes, PipeAt, SocketAt
  <1>3. ASSUME NEW c \in Children, NEW r \in Free(table), NEW w \in Free(table), r # w, Piped(t, c, r, w)
        PROVE  FdInv'
    <2>1. r \in Fds /\ w \in Fds /\ table[r] = None /\ table[w] = None
      BY DEF Free
    <2>2. /\ \A s \in Streams : ~ Has(s, r) /\ ~ Has(s, w)
          /\ \A u \in Threads : ~ Making(u, r) /\ ~ Making(u, w)
      BY <1>1, <2>1, FreshFd
    <2>3. /\ table' = [table EXCEPT ![r] = <<c, "r">>, ![w] = <<c, "w">>]
          /\ fildes' = [fildes EXCEPT ![t] = <<r, w>>]
          /\ arg' = [arg EXCEPT ![t][3] = c]
          /\ pc' = [pc EXCEPT ![t] = "fork"]
          /\ UNCHANGED <<stream, holders, owner, cloexec, child, ends, leaked, orphans>>
      BY <1>3 DEF Piped, Goes
    <2>4. /\ table'[r] = <<c, "r">> /\ table'[w] = <<c, "w">>
          /\ \A f \in Fds \ {r, w} : table'[f] = table[f]
      BY <1>3, <2>1, <2>3 DEF Inv, Typed
    <2>5. <<c, "r">> # None /\ <<c, "w">> # None
      BY NoneApart DEF Ends, PipeEnds
    <2>6. Len(fildes[t]) = 0
      BY <1>1 DEF Inv, Typed, Makes, PipeAt, SocketAt
    <2>7. /\ fildes'[t] = <<r, w>> /\ \A u \in Threads \ {t} : fildes'[u] = fildes[u]
          /\ pc'[t] = "fork" /\ \A u \in Threads \ {t} : pc'[u] = pc[u]
      BY <2>3 DEF Inv, Typed
    <2>8. \A f : Making(t, f)' <=> f = r \/ f = w
      BY <2>7 DEF Making
    <2>9. /\ \A u \in Threads : Kind(u)' = Kind(u)
          /\ Child(t)' = c /\ \A u \in Threads \ {t} : Child(u)' = Child(u)
      BY <2>3, ArgChild DEF Inv
    <2>10. EndsMade(t)'
      BY <2>4, <2>7, <2>9 DEF EndsMade, PipeAt
    <2> QED
      BY <2>1, <2>2, <2>3, <2>4, <2>5, <2>6, <2>7, <2>8, <2>9, <2>10, MadeNewFds, ZenonT(60)
  <1> QED
    BY <1>2, <1>3, PipeSteps

LEMMA ForkFds ==
  ASSUME Inv, FdInv, NEW t \in Threads, Fork(t)
  PROVE  FdInv'
  <1>1. pc[t] = "fork"
    BY DEF Fork
  <1>2. CASE /\ Goes(t, "parent")
             /\ UNCHANGED <<stream, holders, owner, arg, fildes, table, cloexec, leaked, orphans>>
    <2>1. \A u \in Threads : Kind(u)' = Kind(u) /\ Child(u)' = Child(u)
      BY <1>2 DEF Kind, Child
    <2>2. \A u \in Threads : pc'[u] = pc[u] \/ (pc[u] \in PipeAt /\ pc'[u] \in PipeAt)
      BY <1>1, <1>2 DEF Goes, PipeAt, Inv, Typed
    <2>3. \A u \in Threads : EndsMade(u)'
      BY <1>2, <2>1, <2>2, EndsKept
    <2>4. OneOpens'
      BY <2>1, OneOpensKept DEF FdInv
    <2> QED
      BY <1>2, <2>3, <2>4, QuietFds
  <1>3. CASE /\ OpenFails(t, "unlock")
             /\ leaked' = leaked \cup {fildes[t][1], fildes[t][2]}
             /\ fildes' = [fildes EXCEPT ![t] = <<>>]
             /\ UNCHANGED <<table, cloexec, child, orphans>>
    <2>1. pc' = [pc EXCEPT ![t] = "unlock"] /\ UNCHANGED <<stream, arg>>
      BY <1>3 DEF OpenFails, Goes
    <2>2. \A f \in Fds : Making(t, f) => f \in leaked'
      BY <1>1, <1>3 DEF Making, Inv, Makes, PipeAt
    <2>3. leaked \subseteq leaked' /\ UNCHANGED <<table, cloexec>>
      BY <1>3
    <2>5. pc'[t] \notin PipeAt \cup SocketAt
      BY <2>1 DEF PipeAt, SocketAt, Inv, Typed
    <2>4. /\ pc'[t] = "unlock" /\ \A u \in Threads \ {t} : pc'[u] = pc[u]
          /\ Len(fildes'[t]) = 0 /\ \A u \in Threads \ {t} : fildes'[u] = fildes[u]
      BY <1>3, <2>1 DEF Inv, Typed
    <2> QED
      BY <2>1, <2>2, <2>3, <2>4, <2>5, DroppedFds
  <1> QED
    BY <1>2, <1>3 DEF Fork

(* What the parent of a pipe has made is its two ends.                     *)
LEMMA PipesMade ==
  ASSUME Inv, NEW t \in Threads, pc[t] = "parent"
  PROVE  \A f : Making(t, f) <=> f = MyEnd(t) \/ f = ItsEnd(t)
  BY DEF Making, MyEnd, ItsEnd, Inv, Makes, PipeAt

LEMMA FdopenFailsFds ==
  ASSUME Inv, FdInv, NEW t \in Threads, pc[t] = "parent", FdopenFails(t)
  PROVE  FdInv'
  <1>1. PICK mine \in Fds, its \in Fds : mine = MyEnd(t) /\ its = ItsEnd(t)
    BY EndFds
  <1>2. PICK at \in {"waitany", "unlock"} : OpenFails(t, at)
    BY DEF FdopenFails
  <1>3. /\ table' = [table EXCEPT ![its] = None, ![mine] = None]
        /\ fildes' = [fildes EXCEPT ![t] = <<>>]
        /\ pc' = [pc EXCEPT ![t] = at]
        /\ UNCHANGED <<stream, arg, cloexec, leaked>>
    BY <1>1, <1>2 DEF FdopenFails, OpenFails, Goes
  <1>4. \A f : Making(t, f) <=> f = mine \/ f = its
    BY <1>1, PipesMade
  <1>5. /\ table'[mine] = None /\ table'[its] = None
        /\ \A f \in Fds \ {mine, its} : table'[f] = table[f]
    BY <1>3 DEF Inv, Typed
  <1>6. /\ pc'[t] = at /\ \A u \in Threads \ {t} : pc'[u] = pc[u]
        /\ Len(fildes'[t]) = 0 /\ \A u \in Threads \ {t} : fildes'[u] = fildes[u]
    BY <1>3 DEF Inv, Typed
  <1>7. pc'[t] \notin PipeAt \cup SocketAt
    BY <1>6 DEF PipeAt, SocketAt
  <1>8. \A f \in Fds : Making(t, f) => table'[f] = None
    BY <1>4, <1>5
  <1>9. \A f \in Fds : ~ Making(t, f) => table'[f] = table[f]
    BY <1>4, <1>5
  <1> QED
    BY <1>3, <1>6, <1>7, <1>8, <1>9, DroppedFds

LEMMA ParentFds ==
  ASSUME Inv, FdInv, NEW t \in Threads, Parent(t)
  PROVE  FdInv'
  <1>1. pc[t] = "parent"
    BY DEF Parent
  <1>2. CASE FdopenFails(t)
    BY <1>1, <1>2, FdopenFailsFds
  <1>3. CASE /\ table' = [table EXCEPT ![ItsEnd(t)] = None]
             /\ Opened(t, Kind(t), MyEnd(t), Child(t))
             /\ UNCHANGED <<holders, owner, arg, child, ends, leaked, orphans>>
    <2>1. PICK mine \in Fds, its \in Fds : mine = MyEnd(t) /\ its = ItsEnd(t)
      BY <1>1, EndFds
    <2>2. PICK type : type = Kind(t) /\ type \in {"read", "write"}
      BY <1>1 DEF Inv, Opens, PipeAt
    <2>3. PICK c : c = Child(t)
      OBVIOUS
    <2>4. \A f : Making(t, f) <=> f = mine \/ f = its
      BY <1>1, <2>1, PipesMade
    <2>5. table[mine] = <<c, ParentEnd(type)>> /\ mine # its
      <3>1. table[fildes[t][1]] = <<c, "r">> /\ table[fildes[t][2]] = <<c, "w">>
        BY <1>1, <2>3 DEF FdInv, EndsMade, PipeAt
      <3> QED
        BY <2>1, <2>2, <3>1 DEF MyEnd, ItsEnd, ParentEnd
    <2>6. table'[its] = None /\ \A f \in Fds \ {its} : table'[f] = table[f]
      BY <1>3, <2>1 DEF Inv, Typed
    <2>7. /\ \A s \in Streams : ~ Has(s, mine)
          /\ \A u \in Threads \ {t} : ~ Making(u, mine)
      BY <2>4 DEF FdInv, StreamsTheirs, OpenersTheirs
    <2>8. Opened(t, type, mine, c) /\ UNCHANGED <<arg, leaked, orphans>>
      BY <1>3, <2>1, <2>2, <2>3
    <2> QED
      BY <1>1, <2>2, <2>4, <2>5, <2>6, <2>7, <2>8, OpenedFds DEF OpeningAt
  <1> QED
    BY <1>2, <1>3 DEF Parent

LEMMA ConnectFds ==
  ASSUME Inv, FdInv, NEW t \in Threads, Connect(t)
  PROVE  FdInv'
  <1>1. PICK fd \in Fds : fd = fildes[t][1]
    BY MadeFds DEF Connect, SocketAt
  <1>2. /\ pc[t] = "connect"
        /\ UNCHANGED <<table, cloexec>> \/ Close(fd)
        /\ pc' = [pc EXCEPT ![t] = "fdopen"]
        /\ UNCHANGED <<stream, arg, fildes, leaked, orphans>>
    BY <1>1 DEF Connect, Goes
  <1>3. pc'[t] = "fdopen" /\ \A u \in Threads \ {t} : pc'[u] = pc[u]
    BY <1>2 DEF Inv, Typed
  <1>4. Making(t, fd)
    BY <1>1, <1>2 DEF Making, Inv, Makes, PipeAt, SocketAt
  <1>5. CASE UNCHANGED <<table, cloexec>>
    <2>1. \A u \in Threads : Kind(u)' = Kind(u) /\ Child(u)' = Child(u)
      BY <1>2 DEF Kind, Child
    <2>2. EndsMade(t)'
      BY <1>2, <1>3, <1>5 DEF FdInv, EndsMade, PipeAt
    <2>3. \A u \in Threads \ {t} : EndsMade(u)'
      BY <1>2, <1>3, <1>5, <2>1, EndsKept
    <2>4. OneOpens'
      BY <2>1, OneOpensKept DEF FdInv
    <2> QED
      BY <1>2, <1>5, <2>2, <2>3, <2>4, QuietFds
  <1>6. CASE Close(fd)
    <2>1. EndsMade(t)'
      BY <1>1, <1>2, <1>3, <1>6 DEF Close, EndsMade, PipeAt, Inv, Typed
    <2> QED
      BY <1>2, <1>3, <1>4, <1>6, <2>1, ClosedOwnFd
  <1> QED
    BY <1>2, <1>5, <1>6

LEMMA FdopenFds ==
  ASSUME Inv, FdInv, NEW t \in Threads, Fdopen(t)
  PROVE  FdInv'
  <1>1. PICK fd \in Fds : fd = fildes[t][1]
    BY MadeFds DEF Fdopen, SocketAt
  <1>2. pc[t] = "fdopen"
    BY DEF Fdopen
  <1>3. \A f : Making(t, f) <=> f = fd
    BY <1>1, <1>2 DEF Making, Inv, Makes, PipeAt, SocketAt
  <1>4. CASE /\ table[fd] # None
             /\ Opened(t, "sock", fd, None)
             /\ UNCHANGED <<holders, owner, arg, table, child, ends, leaked, orphans>>
    <2>1. table'[fd] = <<"sock">>
      BY <1>1, <1>2, <1>4 DEF FdInv, EndsMade
    <2>2. /\ \A s \in Streams : ~ Has(s, fd)
          /\ \A u \in Threads \ {t} : ~ Making(u, fd)
      BY <1>3 DEF FdInv, StreamsTheirs, OpenersTheirs
    <2> QED
      BY <1>2, <1>3, <1>4, <2>1, <2>2, OpenedFds DEF OpeningAt
  <1>5. CASE /\ table[fd] = None
             /\ OpenFails(t, "reclose")
             /\ UNCHANGED <<fildes, table, cloexec, child, leaked, orphans>>
    <2>1. pc' = [pc EXCEPT ![t] = "reclose"] /\ UNCHANGED <<stream, arg>>
      BY <1>5 DEF OpenFails, Goes
    <2>2. pc'[t] = "reclose" /\ \A u \in Threads \ {t} : pc'[u] = pc[u]
      BY <2>1 DEF Inv, Typed
    <2>3. \A u \in Threads : Kind(u)' = Kind(u) /\ Child(u)' = Child(u)
      BY <2>1 DEF Kind, Child
    <2>4. EndsMade(t)'
      BY <1>1, <1>5, <2>2 DEF EndsMade, PipeAt
    <2>5. \A u \in Threads \ {t} : EndsMade(u)'
      BY <1>5, <2>2, <2>3, EndsKept
    <2>6. OneOpens'
      BY <2>3, OneOpensKept DEF FdInv
    <2> QED
      BY <1>5, <2>1, <2>4, <2>5, <2>6, QuietFds
  <1> QED
    BY <1>1, <1>4, <1>5 DEF Fdopen

LEMMA CloseAgainFds ==
  ASSUME Inv, FdInv, NEW t \in Threads, CloseAgain(t)
  PROVE  FdInv'
  <1>1. PICK fd \in Fds : fd = fildes[t][1]
    BY MadeFds DEF CloseAgain, SocketAt
  <1>2. /\ pc[t] = "reclose" /\ Close(fd)
        /\ fildes' = [fildes EXCEPT ![t] = <<>>]
        /\ pc' = [pc EXCEPT ![t] = "unlock"]
        /\ UNCHANGED <<stream, arg, leaked, orphans>>
    BY <1>1 DEF CloseAgain, Goes
  <1>3. Making(t, fd) /\ table[fd] = None
    BY <1>1, <1>2 DEF Making, Inv, Makes, PipeAt, SocketAt, FdInv, EndsMade
  <1>4. \A s \in Streams : ~ Has(s, fd)
    BY <1>3 DEF FdInv, StreamsTheirs
  <1>5. UNCHANGED <<table, cloexec>>
    BY <1>2, <1>3, <1>4 DEF Close, Inv, Typed, FdInv, NoneLost
  <1>6. \A f \in Fds : Making(t, f) => table[f] = None
    BY <1>1, <1>2, <1>3 DEF Making, Inv, Makes, PipeAt, SocketAt
  <1>7. /\ pc'[t] = "unlock" /\ \A u \in Threads \ {t} : pc'[u] = pc[u]
        /\ Len(fildes'[t]) = 0 /\ \A u \in Threads \ {t} : fildes'[u] = fildes[u]
    BY <1>2 DEF Inv, Typed
  <1>8. pc'[t] \notin PipeAt \cup SocketAt
    BY <1>7 DEF PipeAt, SocketAt
  <1> QED
    BY <1>2, <1>5, <1>6, <1>7, <1>8, DroppedFds

LEMMA OtherStepsFds ==
  ASSUME Inv, FdInv, NEW t \in Threads, Lock(t) \/ Io(t) \/ Waitany(t) \/ Unlock(t)
  PROVE  FdInv'
  <1>1. UNCHANGED <<stream, fildes, table, cloexec, leaked, orphans>>
    BY DEF Lock, Io, Waitany, Unlock
  <1>2. /\ pc[t] \in {"lock", "io", "waitany", "unlock"}
        /\ \A u \in Threads \ {t} : pc'[u] = pc[u] /\ arg'[u] = arg[u]
        /\ \/ UNCHANGED arg
           \/ arg'[t][2] \in {None, "drop"}
    BY DEF Lock, Io, Waitany, Unlock, Goes, Inv, Typed
  <1>3. \A u \in Threads : Kind(u)' = Kind(u) \/ Kind(u)' \notin Kinds
    BY <1>2, NoneApart, StreamAssumption DEF Kind, Inv, Typed
  <1>4. \A u \in Threads \ {t} : Child(u)' = Child(u)
    BY <1>2 DEF Child
  <1>5. pc'[t] \notin PipeAt \cup SocketAt
    <2>1. CASE Lock(t)
      <3>1. pc'[t] = AfterLock(t)
        BY <2>1 DEF Lock, Goes, Inv, Typed
      <3>2. AfterLock(t) \in {"io", "fclose", AfterClose(t)}
        BY Zenon DEF AfterLock
      <3> QED
        BY <1>2, <3>1, <3>2, AfterCloseTo DEF PipeAt, SocketAt
    <2>2. CASE Io(t) \/ Waitany(t) \/ Unlock(t)
      BY <2>2 DEF Io, Waitany, Unlock, Goes, Inv, Typed, PipeAt, SocketAt
    <2> QED
      BY <2>1, <2>2
  <1>6. EndsMade(t)'
    BY <1>5 DEF EndsMade, PipeAt, SocketAt
  <1>7. \A u \in Threads \ {t} : EndsMade(u)'
    BY <1>1, <1>2, <1>4, EndsKept
  <1>8. OneOpens'
    BY <1>3, OneOpensKept DEF FdInv
  <1> QED
    BY <1>1, <1>6, <1>7, <1>8, QuietFds

LEMMA BeginFds ==
  ASSUME OneAtATime, Inv, FdInv, NEW t \in Threads, NEW s, NEW kind \in Works,
         kind \in Kinds => Cardinality(Opening) < MaxOpening,
         Begin(t, s, kind)
  PROVE  FdInv'
  <1>1. OneOpens'
    BY OneOpensBegins DEF FdInv
  <1>2. /\ UNCHANGED <<stream, fildes, table, cloexec, leaked, orphans>>
        /\ pc'[t] = "lock"
        /\ \A u \in Threads \ {t} : pc'[u] = pc[u] /\ Child(u)' = Child(u)
    BY DEF Begin, Child, Inv, Typed
  <1>3. EndsMade(t)'
    BY <1>2 DEF EndsMade, PipeAt
  <1>4. \A u \in Threads \ {t} : EndsMade(u)'
    BY <1>2, EndsKept
  <1> QED
    BY <1>1, <1>2, <1>3, <1>4, QuietFds

(* References change hands, or a child dies, or nothing happens.           *)
LEMMA UnrelatedFds ==
  ASSUME FdInv, UNCHANGED <<stream, pc, arg, fildes, table, cloexec, leaked, orphans>>
  PROVE  FdInv'
  <1>1. \A u \in Threads : Kind(u)' = Kind(u) /\ Child(u)' = Child(u)
    BY DEF Kind, Child
  <1>2. OneOpens'
    BY <1>1, OneOpensKept DEF FdInv
  <1>3. \A u \in Threads : EndsMade(u)'
    BY <1>1, EndsKept
  <1> QED
    BY <1>2, <1>3, QuietFds

LEMMA InitFds ==
  Init => FdInv
  <1> SUFFICES ASSUME Init
               PROVE  FdInv
    OBVIOUS
  <1>1. /\ \A u \in Threads : pc[u] = "idle" /\ Kind(u) = None /\ \A f : ~ Making(u, f)
        /\ \A s \in Streams : stream[s].fd = None /\ \A f : ~ Has(s, f)
        /\ \A f \in Fds : table[f] = None
        /\ cloexec = {}
    BY DEF Init, Kind, Making, Has, Closed
  <1>2. OneOpens
    BY <1>1, NoneApart DEF OneOpens
  <1>3. StreamsTheirs /\ OpenersTheirs /\ NoneLost
    BY <1>1 DEF StreamsTheirs, OpenersTheirs, NoneLost
  <1>4. \A u \in Threads : EndsMade(u)
    BY <1>1 DEF EndsMade, PipeAt
  <1> QED
    BY <1>2, <1>3, <1>4 DEF FdInv

LEMMA NextFds ==
  OneAtATime /\ Inv /\ FdInv /\ [Next]_vars => FdInv'
  <1> SUFFICES ASSUME OneAtATime, Inv, FdInv, [Next]_vars
               PROVE  FdInv'
    OBVIOUS
  <1>1. ASSUME NEW t \in Threads, Instruction(t)
        PROVE  FdInv'
    BY <1>1, InstructionSteps, BeginFds, UnrelatedFds
  <1>2. ASSUME NEW t \in Threads, Step(t) \/ Io(t)
        PROVE  FdInv'
    BY <1>2, FcloseFds, WaitpidFds, OpenFileFds, PipeFds, ForkFds, ParentFds, SocketFds,
       ConnectFds, FdopenFds, CloseAgainFds, OtherStepsFds DEF Step
  <1>3. ASSUME NEW c \in Children, Dies(c)
        PROVE  FdInv'
    BY <1>3, UnrelatedFds DEF Dies
  <1>4. ASSUME UNCHANGED vars
        PROVE  FdInv'
    BY <1>4, UnrelatedFds DEF vars
  <1> QED
    BY <1>1, <1>2, <1>3, <1>4 DEF Next

LEMMA InvTypeOK ==
  ASSUME Inv, NoneLost, \A s \in Streams : stream[s].fd # None => table[stream[s].fd] # None
  PROVE  TypeOK
  <1>1. \A t \in Threads :
          /\ pc[t] = "idle" <=> Stream(t) = None
          /\ pc[t] = "waitpid" => stream[Stream(t)].child # None
    BY NoneApart DEF Inv, Placed, Waits
  <1>2. \A t \in Threads :
          Len(fildes[t]) = (IF pc[t] \in {"fork", "parent"} THEN 2
                            ELSE IF pc[t] \in {"connect", "fdopen", "reclose"} THEN 1 ELSE 0)
    BY DEF Inv, Makes, PipeAt, SocketAt
  <1>3. cloexec \subseteq Fds \ Free(table)
    BY DEF Free, NoneLost, Has, Inv, Typed
  <1>4. \A s \in Streams : stream[s].child # None <=> stream[s].type \in {"read", "write"}
    BY DEF Inv, Whole
  <1> QED
    BY <1>1, <1>2, <1>3, <1>4 DEF TypeOK, Inv, Typed

(* Theorem.  While one context at a time opens streams, or programs use no *)
(* sockets, the descriptor of every open stream is open, is what it was    *)
(* opened as and belongs to no other stream, whatever is opened and closed *)
(* at once; and no open descriptor is forgotten but by a fork that fails.  *)
THEOREM DescriptorsHaveOwners ==
  ASSUME OneAtATime
  PROVE  Spec => []DescriptorsOwned
  <1>1. ASSUME Inv, FdInv
        PROVE  DescriptorsOwned
    <2>1. \A s \in Streams : stream[s].fd # None =>
            /\ IsFor(s, table[stream[s].fd])
            /\ stream[s].fd \in Fds
            /\ table[stream[s].fd] # None
      BY <1>1, IsForEnds DEF FdInv, StreamsTheirs, Inv, Typed
    <2>2. TypeOK
      BY <1>1, <2>1, InvTypeOK DEF FdInv
    <2>3. \A r, s \in Streams : stream[r].fd # None /\ stream[r].fd = stream[s].fd => r = s
      BY <1>1, <2>1 DEF FdInv, StreamsTheirs, Has
    <2>4. \A f \in Fds \ Free(table) :
            \/ \E s \in {s \in Streams : stream[s].fd # None} : stream[s].fd = f
            \/ \E t \in Threads : \E i \in DOMAIN fildes[t] : fildes[t][i] = f
            \/ f \in leaked
      <3> SUFFICES ASSUME NEW f \in Fds, table[f] # None
                   PROVE  \/ \E s \in {s \in Streams : stream[s].fd # None} : stream[s].fd = f
                          \/ \E t \in Threads : \E i \in DOMAIN fildes[t] : fildes[t][i] = f
                          \/ f \in leaked
        BY DEF Free
      <3>1. \A s \in Streams : Has(s, f) => stream[s].fd = f /\ stream[s].fd # None
        BY DEF Has
      <3>2. \A t \in Threads : Making(t, f) => \E i \in DOMAIN fildes[t] : fildes[t][i] = f
        BY <1>1 DEF Making, Inv, Typed
      <3> QED
        BY <1>1, <3>1, <3>2 DEF FdInv, NoneLost
    <2> QED
      BY <2>1, <2>2, <2>3, <2>4 DEF DescriptorsOwned
  <1>2. Init => Inv /\ FdInv
    BY InitInv, InitFds
  <1>3. (Inv /\ FdInv) /\ [Next]_vars => (Inv /\ FdInv)'
    BY NextInv, NextFds
  <1> QED
    BY <1>1, <1>2, <1>3, PTL DEF Spec
=============================================================================
