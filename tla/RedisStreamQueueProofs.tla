------------------------ MODULE RedisStreamQueueProofs ------------------------
(***************************************************************************)
(* Theorems about RedisStreamQueue, for any number of calls, messages,     *)
(* attempts and any expiry of the lock.                                    *)
(***************************************************************************)
EXTENDS RedisStreamQueue, TLAPS

\* The clauses of Lock and Call, for the steps of the proofs.
LEMMA LockType ==
    ASSUME NEW l \in Lock
    PROVE  /\ l = [by |-> l.by, left |-> l.left]
           /\ l.by \in Pops \cup {None}
           /\ l.left \in 0..Expire
BY DEF Lock

LEMMA CallType ==
    ASSUME NEW c \in Call
    PROVE  /\ c.at \in Places /\ c.left \in 0..Attempts
           /\ c.id \in 0..MaxMessages /\ c.result \in Results
BY DEF Call

-------------------------------------------------------------------------------
(* Type correctness.                                                       *)

LEMMA InitType == Init => TypeOK
BY ConstantsAssumption
   DEF Init, TypeOK, Free, Lock, Call, Places, Results

LEMMA FreeType == Free \in Lock
BY ConstantsAssumption DEF Free, Lock

LEMMA AgedType == ASSUME lock \in Lock PROVE Aged \in Lock
<1>1. CASE lock.left \in {0, 1}
  BY <1>1, FreeType DEF Aged
<1>2. CASE lock.left \notin {0, 1}
  <2>1. lock.left \in 0..Expire /\ lock.by \in Pops \cup {None}
    BY LockType
  <2>2. lock.left - 1 \in 0..Expire
    BY <1>2, <2>1, ConstantsAssumption
  <2> QED BY <1>2, <2>1, <2>2 DEF Aged, Lock
<1> QED BY <1>1, <1>2

LEMMA NextType == TypeOK /\ [Next]_vars => TypeOK'
<1> SUFFICES ASSUME TypeOK, [Next]_vars PROVE TypeOK'
  OBVIOUS
<1> USE DEF TypeOK
<1>1. CASE Put
  <2>1. last + 1 \in 0..MaxMessages /\ 1..last \subseteq 1..(last + 1) /\ last + 1 \in 1..(last + 1)
    BY <1>1, ConstantsAssumption DEF Put
  <2> QED BY <1>1, <2>1 DEF Put
<1>2. CASE Tick
  <2>1. lock' \in Lock
    BY <1>2, AgedType DEF Tick
  <2>2. ASSUME NEW p \in Pops PROVE Woken(calls[p]) \in Call
    BY DEF Woken, Call, Places
  <2>3. late' \subseteq Pops
    BY <1>2 DEF Tick
  <2> QED BY <1>2, <2>1, <2>2, <2>3 DEF Tick
<1>3. ASSUME NEW p \in Pops, Begin(p) \/ Pop(p) \/ Fault(p)
      PROVE  TypeOK'
  <2> DEFINE c == calls[p]
  <2>1. c \in Call /\ c.at \in Places /\ c.left \in 0..Attempts
        /\ c.id \in 0..MaxMessages /\ c.result \in Results
    BY CallType
  <2>2. [by |-> p, left |-> Expire] \in Lock
    BY ConstantsAssumption DEF Lock
  <2>3. last' = last /\ late' = late
    BY <1>3 DEF Begin, Pop, Fault, Acquire, Refused, GiveUp, Read, ReadNothing,
       Delete, Release, Fail, FailInSet, FailInDelete, FailInRelease, Die
  <2>4. stream' \subseteq stream
    BY <1>3 DEF Begin, Pop, Fault, Acquire, Refused, GiveUp, Read, ReadNothing,
       Delete, Release, Fail, FailInSet, FailInDelete, FailInRelease, Die
  <2>5. lock' \in Lock
    BY <1>3, <2>2, FreeType
    DEF Begin, Pop, Fault, Acquire, Refused, GiveUp, Read, ReadNothing,
       Delete, Release, Fail, FailInSet, FailInDelete, FailInRelease, Die,
       SetLock, Unlock
  <2>6. calls' \in [Pops -> Call]
    <3>1. CASE Refused(p)
      <4>1. c.left - 1 \in 0..Attempts
        BY <3>1, <2>1, ConstantsAssumption DEF Refused
      <4> QED BY <3>1, <4>1, <2>1 DEF Refused, Call, Places
    <3>2. CASE Read(p)
      <4>1. PICK m \in stream :
               calls' = [calls EXCEPT ![p].at = "delete", ![p].id = m]
        BY <3>2, Zenon DEF Read
      <4>2. m \in 0..MaxMessages
        BY ConstantsAssumption
      <4> QED BY <4>1, <4>2, <2>1 DEF Call, Places
    <3>3. CASE Begin(p) \/ Acquire(p)
      BY <3>3, <2>1 DEF Begin, Acquire, Call, Places
    <3>4. CASE GiveUp(p) \/ ReadNothing(p) \/ Delete(p) \/ Release(p)
      BY <3>4, <2>1 DEF GiveUp, ReadNothing, Delete, Release, Call, Places, Results
    <3>5. CASE FailInSet(p) \/ FailInDelete(p) \/ FailInRelease(p)
      BY <3>5, <2>1 DEF FailInSet, FailInDelete, FailInRelease, Call, Places, Results
    <3>6. 0 \in 0..MaxMessages
      BY ConstantsAssumption
    <3>7. CASE Fail(p)
      BY <3>7, <3>6, <2>1 DEF Fail, Call, Places, Results
    <3>8. CASE Die(p)
      BY <3>8, <3>6, <2>1 DEF Die, Call, Places, Results
    <3> QED BY <1>3, <3>1, <3>2, <3>3, <3>4, <3>5, <3>7, <3>8 DEF Pop, Fault
  <2> QED BY <2>3, <2>4, <2>5, <2>6
<1>4. CASE UNCHANGED vars
  BY <1>4 DEF vars
<1> QED BY <1>1, <1>2, <1>3, <1>4 DEF Next

\* Every variable keeps its type: a waiting call counts its attempts down to 0
\* and no further, and the lock grows older down to 0 (_acquire_lock, 45-61).
THEOREM TypeCorrect == Spec => []TypeOK
<1>1. Init => TypeOK
  BY InitType
<1>2. TypeOK /\ [Next]_vars => TypeOK'
  BY NextType
<1> QED BY <1>1, <1>2, PTL DEF Spec

-------------------------------------------------------------------------------
(* What a step of one call changes.                                        *)

Step(p) == Begin(p) \/ Pop(p) \/ Fault(p)

\* The call p that takes a step changes its own record only, no step gives it a
\* message but Read, and only Delete and FailInDelete remove one.
LEMMA StepFrame ==
    ASSUME TypeOK, NEW p \in Pops, Step(p)
    PROVE  /\ last' = last /\ late' = late
           /\ calls[p].at # "over"
           /\ \A q \in Pops \ {p} : calls'[q] = calls[q]
           /\ \/ Read(p)
              \/ Delete(p)
              \/ FailInDelete(p)
              \/ /\ stream' = stream
                 /\ \/ calls'[p].id = calls[p].id /\ calls[p].at # "delete"
                    \/ calls'[p].id = 0 /\ calls[p].at \in {"read", "delete"}
                 /\ calls'[p].at # "delete"
<1> DEFINE C == [Pops -> Call]
<1>1. calls \in C
  BY DEF TypeOK
<1>2. CASE Read(p)
  <2>1. PICK m \in stream : calls' = [calls EXCEPT ![p].at = "delete", ![p].id = m]
    BY <1>2, Zenon DEF Read
  <2>2. last' = last /\ late' = late /\ calls[p].at = "read"
    BY <1>2, Zenon DEF Read
  <2>3. \A q \in Pops \ {p} : calls'[q] = calls[q]
    BY <1>1, <2>1
  <2> QED BY <1>2, <2>2, <2>3
<1>3. CASE Delete(p) \/ FailInDelete(p)
  BY <1>1, <1>3 DEF Delete, FailInDelete
<1>4. CASE Begin(p) \/ Acquire(p) \/ Refused(p) \/ GiveUp(p) \/ ReadNothing(p) \/ Release(p)
  BY <1>1, <1>4, CallType
  DEF Begin, Acquire, Refused, GiveUp, ReadNothing, Release, Call
<1>5. CASE FailInSet(p) \/ FailInRelease(p)
  BY <1>1, <1>5 DEF FailInSet, FailInRelease, Call
<1>6. CASE Fail(p)
  BY <1>1, <1>6 DEF Fail, Call
<1>7. CASE Die(p)
  BY <1>1, <1>7 DEF Die, Call
<1> QED BY <1>2, <1>3, <1>4, <1>5, <1>6, <1>7 DEF Step, Pop, Fault

\* Time changes where a sleeping call is, and nothing else of it.
LEMMA TickFrame ==
    ASSUME TypeOK, Tick, NEW p \in Pops
    PROVE  /\ last' = last /\ stream' = stream
           /\ late \subseteq late'
           /\ calls'[p].id = calls[p].id
           /\ calls'[p].result = calls[p].result
           /\ \/ calls'[p].at = calls[p].at
              \/ calls[p].at = "asleep" /\ calls'[p].at = "try"
BY DEF TypeOK, Tick, Woken, Call

-------------------------------------------------------------------------------
(* Messages leave the stream in order, each of them through a call that    *)
(* has read it, whether or not a lock expires under its holder.            *)

\* A call that has read nothing has no message.
NoneYet == \A p \in Pops :
              calls[p].at \in {"new", "try", "asleep", "read"} => calls[p].id = 0

\* What is in the stream was put no earlier than what a call has read, and what
\* a call has deleted is not in the stream.
Ordered == \A p \in Pops :
              calls[p].id # 0 =>
                 /\ calls[p].id <= last
                 /\ \A n \in stream : calls[p].id <= n
                 /\ calls[p].at # "delete" => calls[p].id \notin stream

LEMMA InitOrdered == Init => NoneYet /\ Ordered
BY DEF Init, NoneYet, Ordered

LEMMA NextNoneYet == TypeOK /\ NoneYet /\ [Next]_vars => NoneYet'
<1> SUFFICES ASSUME TypeOK, NoneYet, [Next]_vars, NEW q \in Pops,
                    calls'[q].at \in {"new", "try", "asleep", "read"}
             PROVE  calls'[q].id = 0
  BY DEF NoneYet
<1>1. CASE Put \/ UNCHANGED vars
  BY <1>1 DEF Put, vars, NoneYet
<1>2. CASE Tick
  BY <1>2, TickFrame DEF NoneYet
<1>3. ASSUME NEW p \in Pops, Step(p) PROVE calls'[q].id = 0
  <2>1. CASE q # p
    BY <1>3, <2>1, StepFrame DEF NoneYet
  <2>2. CASE q = p
    <3>1. calls \in [Pops -> Call]
      BY DEF TypeOK
    <3>2. CASE calls[p].at \in {"new", "try", "asleep", "read"}
      <4>1. ~ Delete(p) /\ ~ FailInDelete(p)
        BY <3>2 DEF Delete, FailInDelete
      <4>2. ~ Read(p)
        BY <3>1, <2>2 DEF Read, Call
      <4> QED BY <1>3, <2>2, <3>2, <4>1, <4>2, StepFrame DEF NoneYet
    <3>3. CASE calls[p].at \notin {"new", "try", "asleep", "read"}
      BY <1>3, <2>2, <3>1, <3>3
      DEF Step, Begin, Pop, Fault, Acquire, Refused, GiveUp, Read, ReadNothing,
          Delete, Release, Fail, FailInSet, FailInDelete, FailInRelease, Die, Call
    <3> QED BY <3>2, <3>3
  <2> QED BY <2>1, <2>2
<1> QED BY <1>1, <1>2, <1>3 DEF Next, Step

LEMMA NextOrdered == TypeOK /\ NoneYet /\ Ordered /\ [Next]_vars => Ordered'
<1> SUFFICES ASSUME TypeOK, NoneYet, Ordered, [Next]_vars, NEW q \in Pops,
                    calls'[q].id # 0
             PROVE  /\ calls'[q].id <= last'
                    /\ \A n \in stream' : calls'[q].id <= n
                    /\ calls'[q].at # "delete" => calls'[q].id \notin stream'
  BY DEF Ordered
<1>0. /\ calls \in [Pops -> Call] /\ calls[q].id \in Nat
      /\ last \in Nat /\ stream \subseteq 1..last
  BY CallType, ConstantsAssumption DEF TypeOK
<1>1. CASE Put
  <2>1. /\ last' = last + 1 /\ stream' = stream \cup {last + 1}
        /\ calls'[q] = calls[q]
    BY <1>1 DEF Put
  <2>2. /\ calls[q].id <= last
        /\ \A n \in stream : calls[q].id <= n
        /\ calls[q].at # "delete" => calls[q].id \notin stream
    BY <2>1 DEF Ordered
  <2> QED BY <1>0, <2>1, <2>2
<1>2. CASE UNCHANGED vars
  BY <1>2 DEF vars, Ordered
<1>3. CASE Tick
  BY <1>3, TickFrame DEF Ordered
<1>4. ASSUME NEW p \in Pops, Step(p), q # p
      PROVE  /\ calls'[q].id <= last'
             /\ \A n \in stream' : calls'[q].id <= n
             /\ calls'[q].at # "delete" => calls'[q].id \notin stream'
  <2>1. last' = last /\ calls'[q] = calls[q]
    BY <1>4, StepFrame
  <2>2. stream' \subseteq stream
    BY <1>4, StepFrame DEF Read, Delete, FailInDelete
  <2> QED BY <2>1, <2>2 DEF Ordered
<1>5. ASSUME Step(q)
      PROVE  /\ calls'[q].id <= last'
             /\ \A n \in stream' : calls'[q].id <= n
             /\ calls'[q].at # "delete" => calls'[q].id \notin stream'
  <2>1. CASE Read(q)
    <3>1. PICK m \in stream : /\ IsFirst(m)
                              /\ calls' = [calls EXCEPT ![q].at = "delete", ![q].id = m]
      BY <2>1 DEF Read
    <3>2. calls'[q].id = m /\ calls'[q].at = "delete"
      BY <1>0, <3>1 DEF Call
    <3>3. last' = last /\ stream' = stream
      BY <2>1 DEF Read
    <3> QED BY <1>0, <3>1, <3>2, <3>3 DEF IsFirst
  <2>2. CASE Delete(q) \/ FailInDelete(q)
    <3>1. calls'[q].id = calls[q].id /\ stream' = stream \ {calls[q].id} /\ last' = last
      BY <1>0, <2>2 DEF Delete, FailInDelete, Call
    <3> QED BY <3>1 DEF Ordered
  <2>3. CASE ~ Read(q) /\ ~ Delete(q) /\ ~ FailInDelete(q)
    <3>1. /\ stream' = stream /\ last' = last
          /\ calls'[q].id = calls[q].id /\ calls[q].at # "delete"
      BY <1>5, <2>3, StepFrame
    <3> QED BY <3>1 DEF Ordered
  <2> QED BY <2>1, <2>2, <2>3
<1> QED BY <1>1, <1>2, <1>3, <1>4, <1>5 DEF Next, Step

\* Of two calls that read the stream one after the other, the later gets the
\* later message (pop, 219-227), even if a lock expired under its holder.
THEOREM Fifo == Spec => InOrder
<1> DEFINE GetsLater(p, q) ==
       calls[p].id = 0 /\ calls'[p].id # 0 /\ calls[q].at = "over"
          => calls'[p].id > calls[q].id
<1>1. TypeOK /\ NoneYet /\ Ordered /\ [Next]_vars
         => [\A p, q \in Pops : GetsLater(p, q)]_vars
  <2> SUFFICES ASSUME TypeOK, NoneYet, Ordered, Next, NEW p \in Pops, NEW q \in Pops,
                      calls[p].id = 0, calls'[p].id # 0, calls[q].at = "over"
               PROVE  calls'[p].id > calls[q].id
    BY DEF vars
  <2>0. /\ calls \in [Pops -> Call] /\ calls[q].id \in Nat
        /\ last \in Nat /\ stream \subseteq 1..last
    BY CallType, ConstantsAssumption DEF TypeOK
  <2>1. ~ Put /\ ~ Tick
    BY TickFrame DEF Put
  <2>2. PICK r \in Pops : Step(r)
    BY <2>1 DEF Next, Step
  <2>3. r = p
    BY <2>2, StepFrame
  <2>4. ~ Delete(p) /\ ~ FailInDelete(p)
    BY <2>0 DEF Delete, FailInDelete, Call
  <2>5. Read(p)
    BY <2>2, <2>3, <2>4, StepFrame
  <2>6. PICK m \in stream : calls' = [calls EXCEPT ![p].at = "delete", ![p].id = m]
    BY <2>5 DEF Read
  <2>7. calls'[p].id = m
    BY <2>0, <2>6 DEF Call
  <2>8. calls[q].id # 0 => calls[q].id <= m /\ calls[q].id # m
    BY DEF Ordered
  <2> QED BY <2>0, <2>7, <2>8
<1>2. Init => TypeOK /\ NoneYet /\ Ordered
  BY InitType, InitOrdered
<1>3. TypeOK /\ NoneYet /\ Ordered /\ [Next]_vars => (TypeOK /\ NoneYet /\ Ordered)'
  BY NextType, NextNoneYet, NextOrdered
<1> QED BY <1>1, <1>2, <1>3, PTL DEF Spec, InOrder

-------------------------------------------------------------------------------
(* What a step does to the message a call has taken.                       *)

\* Only XDEL gives a call a message that it did not have, namely the one it
\* removes from the stream; nothing takes it away from the call again.
LEMMA TakenFrame ==
    ASSUME TypeOK, NoneYet, NEW p \in Pops, Step(p)
    PROVE  /\ \A q \in Pops \ {p} : Taken(q)' = Taken(q)
           /\ \/ /\ Delete(p) \/ FailInDelete(p)
                 /\ Taken(p) = 0
                 /\ Taken(p)' = calls[p].id
                 /\ stream' = stream \ {calls[p].id}
              \/ /\ ~ Delete(p) /\ ~ FailInDelete(p)
                 /\ Taken(p)' = Taken(p)
                 /\ stream' = stream
<1>0. calls \in [Pops -> Call]
  BY DEF TypeOK
<1>1. \A q \in Pops \ {p} : Taken(q)' = Taken(q)
  BY StepFrame DEF Taken
<1>2. CASE Delete(p) \/ FailInDelete(p)
  BY <1>0, <1>1, <1>2 DEF Delete, FailInDelete, Taken, Call
<1>3. CASE Read(p)
  <2>1. calls[p].id = 0 /\ calls[p].at = "read"
    BY <1>3 DEF Read, NoneYet
  <2>2. calls'[p].at = "delete" /\ stream' = stream
    BY <1>0, <1>3 DEF Read, Call
  <2>3. ~ Delete(p) /\ ~ FailInDelete(p)
    BY <2>1 DEF Delete, FailInDelete
  <2> QED BY <1>1, <2>1, <2>2, <2>3 DEF Taken
<1>4. CASE ~ Read(p) /\ ~ Delete(p) /\ ~ FailInDelete(p)
  <2>1. /\ stream' = stream
        /\ calls'[p].at # "delete"
        /\ \/ calls'[p].id = calls[p].id /\ calls[p].at # "delete"
           \/ calls'[p].id = 0 /\ calls[p].at \in {"read", "delete"}
    BY <1>4, StepFrame
  <2>2. calls[p].at = "read" => calls[p].id = 0
    BY DEF NoneYet
  <2>3. Taken(p)' = Taken(p)
    BY <2>1, <2>2 DEF Taken
  <2> QED BY <1>1, <1>4, <2>1, <2>3
<1> QED BY <1>2, <1>3, <1>4

LEMMA TickTaken ==
    ASSUME TypeOK, Tick, NEW p \in Pops
    PROVE  Taken(p)' = Taken(p)
BY TickFrame DEF Taken

LEMMA NextNotLost == TypeOK /\ NoneYet /\ NotLost /\ [Next]_vars => NotLost'
<1> SUFFICES ASSUME TypeOK, NoneYet, NotLost, [Next]_vars, NEW m \in 1..last',
                    m \notin stream'
             PROVE  \E p \in Pops : Taken(p)' = m
  BY DEF NotLost
<1>1. CASE Put
  <2>1. m \in 1..last /\ m \notin stream
    BY <1>1, ConstantsAssumption DEF Put, TypeOK
  <2>2. PICK p \in Pops : Taken(p) = m
    BY <2>1 DEF NotLost
  <2> QED BY <1>1, <2>2 DEF Put, Taken
<1>2. CASE UNCHANGED vars
  BY <1>2 DEF vars, NotLost, Taken
<1>3. CASE Tick
  <2>1. m \in 1..last /\ m \notin stream
    BY <1>3 DEF Tick
  <2>2. PICK p \in Pops : Taken(p) = m
    BY <2>1 DEF NotLost
  <2> QED BY <1>3, <2>2, TickTaken
<1>4. ASSUME NEW p \in Pops, Step(p) PROVE \E q \in Pops : Taken(q)' = m
  <2>1. m \in 1..last
    BY <1>4, StepFrame
  <2>2. CASE m \in stream
    BY <1>4, <2>2, TakenFrame
  <2>3. CASE m \notin stream
    <3>1. PICK q \in Pops : Taken(q) = m
      BY <2>1, <2>3 DEF NotLost
    <3>2. m # 0
      BY <2>1, ConstantsAssumption DEF TypeOK
    <3> QED BY <1>4, <3>1, <3>2, TakenFrame
  <2> QED BY <2>2, <2>3
<1> QED BY <1>1, <1>2, <1>3, <1>4 DEF Next, Step

\* No message leaves the stream but through a call that has read it, even if a
\* lock expires under its holder: XDEL names the message (pop, 219-227).
THEOREM NothingLost == Spec => []NotLost
<1>1. Init => TypeOK /\ NoneYet /\ Ordered /\ NotLost
  BY InitType, InitOrdered, ConstantsAssumption DEF Init, NotLost
<1>2. TypeOK /\ NoneYet /\ Ordered /\ NotLost /\ [Next]_vars
         => (TypeOK /\ NoneYet /\ Ordered /\ NotLost)'
  BY NextType, NextNoneYet, NextOrdered, NextNotLost
<1> QED BY <1>1, <1>2, PTL DEF Spec

-------------------------------------------------------------------------------
(* The lock excludes the calls from one another, but for the late ones.    *)

Holds(p) == lock.by = p /\ lock.left > 0

\* A call between the reply to its SET and its XDEL holds the lock, or is late.
Exclusive == \A p \in Pops :
                calls[p].at \in {"read", "delete"} => Holds(p) \/ p \in late

\* Two calls read the same message only if one of them is late.
ReadOnce == \A p, q \in Pops :
               calls[p].id # 0 /\ calls[p].id = calls[q].id
                  => p = q \/ p \in late \/ q \in late

LEMMA InitExclusive == Init => Exclusive
<1> SUFFICES ASSUME Init, NEW p \in Pops PROVE calls[p].at = "new"
  BY DEF Exclusive
<1> QED BY DEF Init

\* No step of another call takes the lock away from its holder.
LEMMA HoldsStep ==
    ASSUME TypeOK, NEW p \in Pops, NEW q \in Pops \ {p}, Step(p), Holds(q)
    PROVE  Holds(q)'
<1>1. lock.by # None /\ lock.by # p
  BY ConstantsAssumption DEF Holds
<1>2. lock' = lock
  BY <1>1 DEF Step, Begin, Pop, Fault, Acquire, Refused, GiveUp, Read, ReadNothing,
     Delete, Release, Fail, FailInSet, FailInDelete, FailInRelease, Die, SetLock, Unlock
<1> QED BY <1>2 DEF Holds

LEMMA NextExclusive == TypeOK /\ Exclusive /\ [Next]_vars => Exclusive'
<1> SUFFICES ASSUME TypeOK, Exclusive, [Next]_vars, NEW q \in Pops,
                    calls'[q].at \in {"read", "delete"}
             PROVE  Holds(q)' \/ q \in late'
  BY DEF Exclusive
<1>0. /\ calls \in [Pops -> Call] /\ calls[q] \in Call
      /\ lock \in Lock /\ lock.left \in 0..Expire /\ Expire \in Nat
  BY LockType, ConstantsAssumption DEF TypeOK
<1>1. CASE Put \/ UNCHANGED vars
  BY <1>1 DEF Put, vars, Exclusive, Holds
<1>2. CASE Tick
  <2>1. calls[q].at \in {"read", "delete"} /\ late \subseteq late'
    BY <1>2, TickFrame
  <2>2. CASE q \in late
    BY <2>1, <2>2
  <2>3. CASE Holds(q) /\ lock.left = 1
    BY <1>2, <2>1, <2>3 DEF Tick, Expiring, Holds
  <2>4. CASE Holds(q) /\ lock.left # 1
    <3>1. lock' = [lock EXCEPT !.left = lock.left - 1]
      BY <1>0, <1>2, <2>4 DEF Tick, Aged, Holds
    <3>2. lock'.by = q /\ lock'.left = lock.left - 1
      BY <1>0, <2>4, <3>1 DEF Holds, Lock
    <3> QED BY <1>0, <2>4, <3>2 DEF Holds
  <2> QED BY <2>1, <2>2, <2>3, <2>4 DEF Exclusive
<1>3. ASSUME NEW p \in Pops, Step(p), q # p PROVE Holds(q)' \/ q \in late'
  <2>1. calls'[q] = calls[q] /\ late' = late
    BY <1>3, StepFrame
  <2>2. Holds(q) => Holds(q)'
    BY <1>3, HoldsStep
  <2> QED BY <2>1, <2>2 DEF Exclusive
<1>4. ASSUME Step(q) PROVE Holds(q)' \/ q \in late'
  <2>1. CASE Acquire(q)
    <3>1. lock'.by = q /\ lock'.left = Expire
      BY <2>1 DEF Acquire, SetLock
    <3> QED BY <3>1, ConstantsAssumption DEF Holds
  <2>2. CASE Read(q)
    BY <2>2 DEF Read, Exclusive, Holds
  <2>3. CASE Begin(q) \/ Refused(q) \/ GiveUp(q) \/ ReadNothing(q) \/ Delete(q) \/ Release(q)
    <3>1. calls'[q].at \notin {"read", "delete"}
      BY <1>0, <2>3 DEF Begin, Refused, GiveUp, ReadNothing, Delete, Release, Call
    <3> QED BY <3>1
  <2>4. CASE Fault(q)
    <3>1. calls'[q].at \notin {"read", "delete"}
      BY <1>0, <2>4 DEF Fault, Fail, FailInSet, FailInDelete, FailInRelease, Die, Call
    <3> QED BY <3>1
  <2> QED BY <1>4, <2>1, <2>2, <2>3, <2>4 DEF Step, Pop
<1> QED BY <1>1, <1>2, <1>3, <1>4 DEF Next, Step

\* A call that reads a message finds nobody on time who has read it: who has not
\* deleted it yet would hold the lock, and what is deleted is not in the stream.
LEMMA NextReadOnce ==
    TypeOK /\ NoneYet /\ Ordered /\ Exclusive /\ ReadOnce /\ [Next]_vars => ReadOnce'
<1> SUFFICES ASSUME TypeOK, NoneYet, Ordered, Exclusive, ReadOnce, [Next]_vars,
                    NEW p \in Pops, NEW q \in Pops,
                    calls'[p].id # 0, calls'[p].id = calls'[q].id, p # q
             PROVE  p \in late' \/ q \in late'
  BY DEF ReadOnce
<1>0. calls \in [Pops -> Call]
  BY DEF TypeOK
<1>1. CASE Put \/ UNCHANGED vars
  BY <1>1 DEF Put, vars, ReadOnce
<1>2. CASE Tick
  BY <1>2, TickFrame DEF ReadOnce
<1>3. ASSUME NEW r \in Pops, Step(r) PROVE p \in late' \/ q \in late'
  <2>1. late' = late /\ \A o \in Pops \ {r} : calls'[o] = calls[o]
    BY <1>3, StepFrame
  <2>2. CASE Read(r)
    <3>1. PICK m \in stream : calls' = [calls EXCEPT ![r].at = "delete", ![r].id = m]
      BY <2>2 DEF Read
    <3>2. calls'[r].id = m /\ calls[r].at = "read"
      BY <1>0, <2>2, <3>1 DEF Call, Read
    <3>3. ASSUME NEW o \in Pops, o # r, calls[o].id = m PROVE o \in late \/ r \in late
      <4>1. m # 0 /\ m \in stream
        BY <3>1, ConstantsAssumption DEF TypeOK
      <4>2. calls[o].at = "delete"
        BY <3>3, <4>1 DEF Ordered
      <4>3. (Holds(o) \/ o \in late) /\ (Holds(r) \/ r \in late)
        BY <3>2, <4>2 DEF Exclusive
      <4> QED BY <3>3, <4>3 DEF Holds
    <3>4. CASE p = r \/ q = r
      BY <2>1, <3>2, <3>3, <3>4
    <3>5. CASE p # r /\ q # r
      BY <2>1, <3>5 DEF ReadOnce
    <3> QED BY <3>4, <3>5
  <2>3. CASE ~ Read(r)
    <3>1. calls'[r].id \in {calls[r].id, 0}
      <4>1. CASE Delete(r) \/ FailInDelete(r)
        BY <1>0, <4>1 DEF Delete, FailInDelete, Call
      <4> QED BY <1>3, <2>3, <4>1, StepFrame
    <3>2. calls'[p].id = calls[p].id /\ calls'[q].id = calls[q].id
      BY <2>1, <3>1
    <3> QED BY <2>1, <3>2 DEF ReadOnce
  <2> QED BY <2>2, <2>3
<1> QED BY <1>1, <1>2, <1>3 DEF Next, Step

QueueInv == TypeOK /\ NoneYet /\ Ordered /\ NotLost /\ Exclusive /\ ReadOnce

LEMMA QueueInvariant == Spec => []QueueInv
<1>1. Init => QueueInv
  <2>1. Init => NotLost /\ ReadOnce
    BY ConstantsAssumption DEF Init, NotLost, ReadOnce
  <2> QED BY <2>1, InitType, InitOrdered, InitExclusive DEF QueueInv
<1>2. QueueInv /\ [Next]_vars => QueueInv'
  BY NextType, NextNoneYet, NextOrdered, NextNotLost, NextExclusive, NextReadOnce DEF QueueInv
<1> QED BY <1>1, <1>2, PTL DEF Spec

\* Two calls get the same message only if the lock of one of them expired before
\* its XDEL, whatever else fails (pop, 203-238).
THEOREM NeverTwice == Spec => []TakenOnce
<1>1. QueueInv => TakenOnce
  BY DEF QueueInv, ReadOnce, TakenOnce, Taken
<1> QED BY <1>1, QueueInvariant, PTL

-------------------------------------------------------------------------------
(* The refinement of MessageQueue.                                         *)

takenBar == [p \in Pops |-> Taken(p)]
overBar == {p \in Pops : calls[p].at = "over"}

\* A step of pop() maps to Take if it is the XDEL of a message that is there, to
\* Share if somebody else was faster, to End if it ends the call, and to nothing
\* otherwise.
LEMMA StepRefines ==
    ASSUME QueueInv, NEW p \in Pops, Step(p)
    PROVE  \/ Queue!Take(p) \/ Queue!End(p) \/ UNCHANGED Queue!vars
           \/ \E q \in Pops : Queue!Share(p, q)
<1>0. /\ TypeOK /\ NoneYet /\ Ordered /\ NotLost /\ ReadOnce
      /\ calls \in [Pops -> Call] /\ calls' \in [Pops -> Call]
  BY NextType DEF QueueInv, TypeOK, Next, Step
<1>1. /\ last' = last /\ late' = late
      /\ p \notin overBar
      /\ \A q \in Pops \ {p} : calls'[q].at = calls[q].at /\ Taken(q)' = Taken(q)
  BY <1>0, StepFrame, TakenFrame DEF overBar
<1>2. CASE Delete(p) \/ FailInDelete(p)
  <2>1. /\ Taken(p) = 0 /\ Taken(p)' = calls[p].id
        /\ stream' = stream \ {calls[p].id}
    BY <1>0, <1>2, TakenFrame
  <2>2. takenBar' = [takenBar EXCEPT ![p] = calls[p].id]
    BY <1>1, <2>1 DEF takenBar
  <2>3. calls'[p].at = "release" /\ calls[p].at = "delete"
    BY <1>0, <1>2 DEF Delete, FailInDelete, Call
  <2>4. overBar' = overBar
    BY <1>1, <2>3 DEF overBar
  <2>5. takenBar[p] = 0
    BY <2>1 DEF takenBar
  <2>6. CASE calls[p].id \in stream
    <3>1. Queue!IsFirst(calls[p].id, stream)
      <4>1. calls[p].id # 0
        BY <1>0, <2>6, ConstantsAssumption DEF TypeOK
      <4> QED BY <1>0, <2>6, <4>1 DEF Ordered, Queue!IsFirst
    <3> QED BY <1>1, <2>1, <2>2, <2>4, <2>5, <2>6, <3>1
            DEF Queue!Take, takenBar, overBar
  <2>7. CASE calls[p].id = 0
    <3>1. takenBar' = takenBar /\ stream' = stream
      <4>1. 0 \notin stream
        BY <1>0, ConstantsAssumption DEF TypeOK
      <4> QED BY <1>1, <2>1, <2>7, <4>1 DEF takenBar
    <3> QED BY <1>1, <2>4, <3>1 DEF Queue!vars, takenBar, overBar
  <2>8. CASE calls[p].id \notin stream /\ calls[p].id # 0
    <3>1. calls[p].id \in 1..last
      <4>1. calls[p].id \in Nat /\ last \in Nat
        BY <1>0, CallType, ConstantsAssumption DEF TypeOK
      <4> QED BY <1>0, <2>8, <4>1 DEF Ordered
    <3>2. PICK q \in Pops : Taken(q) = calls[p].id
      BY <1>0, <2>8, <3>1 DEF NotLost
    <3>3. calls[q].id = calls[p].id /\ q # p
      BY <2>1, <2>8, <3>2 DEF Taken
    <3>4. p \in late \/ q \in late
      BY <1>0, <2>8, <3>3 DEF ReadOnce
    <3>5. takenBar[q] = calls[p].id
      BY <3>2 DEF takenBar
    <3>6. stream' = stream
      BY <2>1, <2>8
    <3>7. Queue!Share(p, q)
      BY <1>1, <2>2, <2>4, <2>5, <2>8, <3>4, <3>5, <3>6 DEF Queue!Share, takenBar, overBar
    <3> QED BY <3>7
  <2> QED BY <2>6, <2>7, <2>8
<1>3. CASE ~ Delete(p) /\ ~ FailInDelete(p)
  <2>1. stream' = stream /\ Taken(p)' = Taken(p)
    BY <1>0, <1>3, TakenFrame
  <2>2. takenBar' = takenBar
    BY <1>1, <2>1 DEF takenBar
  <2>3. CASE calls'[p].at = "over"
    <3>1. overBar' = overBar \cup {p}
      BY <1>1, <2>3 DEF overBar
    <3> QED BY <1>1, <2>1, <2>2, <3>1 DEF Queue!End, takenBar, overBar
  <2>4. CASE calls'[p].at # "over"
    <3>1. overBar' = overBar
      BY <1>1, <2>4 DEF overBar
    <3> QED BY <1>1, <2>1, <2>2, <3>1 DEF Queue!vars, takenBar, overBar
  <2> QED BY <2>3, <2>4
<1> QED BY <1>2, <1>3

\* A tick maps to Overstay if a lock expires under its holder: there is only one.
LEMMA TickRefines ==
    ASSUME QueueInv, Tick
    PROVE  UNCHANGED Queue!vars \/ \E p \in Pops : Queue!Overstay(p)
<1>0. TypeOK /\ NoneYet
  BY DEF QueueInv
<1>1. /\ last' = last /\ stream' = stream
      /\ \A p \in Pops : /\ Taken(p)' = Taken(p)
                         /\ calls'[p].at = "over" <=> calls[p].at = "over"
  BY <1>0, TickFrame, TickTaken DEF Tick
<1>2. takenBar' = takenBar /\ overBar' = overBar
  BY <1>1 DEF takenBar, overBar
<1>3. late' = late \cup {p \in Pops : Expiring(p)}
  BY DEF Tick
<1>4. CASE \A p \in Pops : ~ Expiring(p)
  <2>1. late' = late
    BY <1>3, <1>4
  <2> QED BY <1>1, <1>2, <2>1 DEF Queue!vars, takenBar, overBar
<1>5. ASSUME NEW p \in Pops, Expiring(p) PROVE Queue!Overstay(p)
  <2>1. late' = late \cup {p}
    BY <1>3, <1>5 DEF Expiring
  <2>2. p \notin overBar /\ takenBar[p] = 0
    BY <1>0, <1>5 DEF Expiring, overBar, takenBar, Taken, NoneYet
  <2> QED BY <1>1, <1>2, <2>1, <2>2 DEF Queue!Overstay, takenBar, overBar
<1> QED BY <1>4, <1>5

\* The queue implements MessageQueue, whose pop gets and removes the first
\* message in one step, and shares it only with or as a late call, whatever fails
\* and however long a call pauses (pop, 203-238).
THEOREM Refinement == Spec => Implements
<1>1. Init => Queue!Init
  BY DEF Init, Queue!Init, Taken
<1>2. QueueInv /\ [Next]_vars => [Queue!Next]_(Queue!vars)
  <2> SUFFICES ASSUME QueueInv, [Next]_vars
               PROVE  Queue!Next \/ UNCHANGED Queue!vars
    OBVIOUS
  <2>1. CASE Put
    BY <2>1 DEF Put, Queue!Next, Queue!Put, Taken
  <2>2. CASE UNCHANGED vars
    BY <2>2 DEF vars, Queue!vars, Taken
  <2>3. CASE Tick
    BY <2>3, TickRefines DEF Queue!Next
  <2>4. ASSUME NEW p \in Pops, Step(p) PROVE Queue!Next \/ UNCHANGED Queue!vars
    BY <2>4, StepRefines DEF Queue!Next
  <2> QED BY <2>1, <2>2, <2>3, <2>4 DEF Next, Step
<1> QED BY <1>1, <1>2, QueueInvariant, PTL DEF Spec, Implements, Queue!Spec

-------------------------------------------------------------------------------
(* The lock is let go: the argument for LockFrees.                         *)

\* A lock that is held has time left: it was set with its time to live in the one
\* command (SET NX EX), so that no death of its holder leaves it for ever.
LockLives == lock.by # None => lock.left > 0

\* A lock that is held is neither taken over nor prolonged: it is freed, or stays
\* as it is, and every tick takes from its time.
LockFalls ==
    [][lock.by # None => \/ lock' = Free
                         \/ lock' = lock /\ ~ Tick
                         \/ lock'.by = lock.by /\ lock'.left < lock.left]_vars

LEMMA LockStep ==
    TypeOK /\ LockLives /\ [Next]_vars =>
       /\ LockLives'
       /\ [lock.by # None => \/ lock' = Free
                             \/ lock' = lock /\ ~ Tick
                             \/ lock'.by = lock.by /\ lock'.left < lock.left]_vars
<1> SUFFICES ASSUME TypeOK, LockLives, [Next]_vars
             PROVE  /\ LockLives'
                    /\ [lock.by # None => \/ lock' = Free
                                          \/ lock' = lock /\ ~ Tick
                                          \/ lock'.by = lock.by /\ lock'.left < lock.left]_vars
  OBVIOUS
<1>0. lock.by \in Pops \cup {None} /\ lock.left \in 0..Expire /\ Expire \in Nat \ {0}
  BY LockType, ConstantsAssumption DEF TypeOK, Lock
<1>1. Free.by = None
  BY DEF Free
<1>2. CASE Tick
  <2>1. lock' = Aged
    BY <1>2 DEF Tick
  <2>2. CASE lock.by = None
    BY <1>1, <2>1, <2>2 DEF Aged, LockLives
  <2>3. CASE lock.by # None /\ lock.left = 1
    BY <1>1, <2>1, <2>3 DEF Aged, LockLives
  <2>4. CASE lock.by # None /\ lock.left # 1
    <3>1. lock.left > 1 /\ lock' = [lock EXCEPT !.left = lock.left - 1]
      BY <1>0, <2>1, <2>4 DEF Aged, LockLives
    <3>2. lock'.by = lock.by /\ lock'.left = lock.left - 1
      BY <3>1 DEF TypeOK, Lock
    <3> QED BY <1>0, <3>1, <3>2 DEF LockLives
  <2> QED BY <2>2, <2>3, <2>4
<1>3. ASSUME NEW p \in Pops, SetLock(p)
      PROVE  lock.by = None /\ LockLives'
  BY <1>0, <1>3 DEF SetLock, LockLives
<1>4. ASSUME NEW p \in Pops, Unlock(p)
      PROVE  lock' = Free \/ lock' = lock
  BY <1>4 DEF Unlock
<1>5. CASE ~ Tick
  <2>1. \/ lock' = Free \/ lock' = lock
        \/ \E p \in Pops : SetLock(p)
    <3>1. CASE Put
      BY <3>1 DEF Put
    <3>2. ASSUME NEW p \in Pops, Begin(p) \/ Pop(p) \/ Fault(p)
          PROVE  lock' = Free \/ lock' = lock \/ SetLock(p)
      BY <1>4, <3>2 DEF Begin, Pop, Acquire, Refused, GiveUp, Read, ReadNothing, Delete,
         Release, Fault, Fail, FailInSet, FailInDelete, FailInRelease, Die
    <3> QED BY <1>5, <3>1, <3>2 DEF Next, vars
  <2> QED BY <1>1, <1>3, <1>5, <2>1 DEF LockLives
<1> QED BY <1>2, <1>5

\* The lock of a call that fails, is cancelled or dies, or pauses for as long as it
\* likes, goes to others only when it is released or its time is over, and that time
\* runs (_acquire_lock, _release_lock), for any number of calls and any expiry.
THEOREM LockRunsOut == Spec => LockFalls /\ []LockLives
<1>1. Init => LockLives
  BY DEF Init, Free, LockLives
<1> QED BY <1>1, LockStep, TypeCorrect, PTL DEF Spec, LockFalls
===============================================================================
