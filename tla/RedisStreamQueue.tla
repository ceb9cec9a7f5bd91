--------------------------- MODULE RedisStreamQueue ---------------------------
(***************************************************************************)
(* RedisStreamQueue (message_queue/redis_stream_queue.py): a message queue *)
(* over a Redis stream, whose pop() reads the first message and deletes it *)
(* in two commands, under a lock in Redis that expires.                    *)
(*                                                                         *)
(* A message is named by the number that XADD gives it.  A call of pop()   *)
(* is named by the uuid it writes into the lock.  Each Redis command is    *)
(* one action; so is the sleep between two attempts to take the lock.      *)
(***************************************************************************)
EXTENDS Naturals

CONSTANTS Pops,         \* the calls of pop()
          None,
          MaxMessages,  \* a bound on the calls of put()
          Attempts,     \* timeout_seconds / 0.1: attempts to take the lock
          Expire        \* _lock_expire_seconds, in the same unit

ASSUME ConstantsAssumption == /\ None \notin Pops
                              /\ MaxMessages \in Nat
                              /\ Attempts \in Nat \ {0}
                              /\ Expire \in Nat \ {0}

VARIABLES last,    \* the last number XADD gave
          stream,  \* the messages in the stream
          lock,    \* the lock key: who set it, and the time it has left
          calls,   \* per call of pop(): where it is, attempts left, message_id,
                   \* and what it is to return
          late     \* history: the calls whose lock expired before their XDEL

vars == <<last, stream, lock, calls, late>>

Places == {"new", "try", "asleep", "read", "delete", "release", "over"}
Results == {"pending", "message", "none", "raised"}

Lock == [by : Pops \cup {None}, left : 0..Expire]
Call == [at : Places, left : 0..Attempts, id : 0..MaxMessages, result : Results]

TypeOK == /\ last \in 0..MaxMessages
          /\ stream \subseteq 1..last
          /\ lock \in Lock
          /\ calls \in [Pops -> Call]
          /\ late \subseteq Pops

Free == [by |-> None, left |-> 0]

Init == /\ last = 0
        /\ stream = {}
        /\ lock = Free
        /\ calls = [p \in Pops |-> [at |-> "new", left |-> Attempts,
                                    id |-> 0, result |-> "pending"]]
        /\ late = {}

\* XRANGE - + COUNT 1
IsFirst(m) == m \in stream /\ \A n \in stream : m <= n

-------------------------------------------------------------------------------
\* put: XADD.
Put == /\ last < MaxMessages
       /\ last' = last + 1
       /\ stream' = stream \cup {last + 1}
       /\ UNCHANGED <<lock, calls, late>>

\* pop is called.
Begin(p) == /\ calls[p].at = "new"
            /\ calls' = [calls EXCEPT ![p].at = "try"]
            /\ UNCHANGED <<last, stream, lock, late>>

\* Mutants: SET without NX, and without EX.
SetWithoutNX(p) == lock' = [by |-> p, left |-> Expire]

SetWithoutEX(p) == /\ lock.by = None
                   /\ lock' = [by |-> p, left |-> 0]

\* SET key uuid NX EX: it takes the lock if nobody has it.
SetLock(p) == /\ lock.by = None
              /\ lock' = [by |-> p, left |-> Expire]

Acquire(p) == /\ calls[p].at = "try"
              /\ calls[p].left > 0
              /\ SetLock(p)
              /\ calls' = [calls EXCEPT ![p].at = "read"]
              /\ UNCHANGED <<last, stream, late>>

\* Mutant: the loop does not look at end_time.
RefusedForEver(p) ==
    /\ calls[p].at = "try"
    /\ lock.by # None
    /\ calls' = [calls EXCEPT ![p].at = "asleep", ![p].left = @ - 1]
    /\ UNCHANGED <<last, stream, lock, late>>

\* SET found the key: sleep for 0.1 s and count it off.
Refused(p) == /\ calls[p].at = "try"
              /\ calls[p].left > 0
              /\ lock.by # None
              /\ calls' = [calls EXCEPT ![p].at = "asleep", ![p].left = @ - 1]
              /\ UNCHANGED <<last, stream, lock, late>>

\* end_time is reached: pop() returns (None, None).
GiveUp(p) == /\ calls[p].at = "try"
             /\ calls[p].left = 0
             /\ calls' = [calls EXCEPT ![p].at = "over", ![p].result = "none"]
             /\ UNCHANGED <<last, stream, lock, late>>

Read(p) == /\ calls[p].at = "read"
           /\ stream # {}
           /\ \E m \in stream :
                 /\ IsFirst(m)
                 /\ calls' = [calls EXCEPT ![p].at = "delete", ![p].id = m]
           /\ UNCHANGED <<last, stream, lock, late>>

ReadNothing(p) ==
    /\ calls[p].at = "read"
    /\ stream = {}
    /\ calls' = [calls EXCEPT ![p].at = "release", ![p].result = "none"]
    /\ UNCHANGED <<last, stream, lock, late>>

\* Mutant: a call whose lock has expired leaves the message to the next one.
DeleteIfHeld(p) ==
    /\ calls[p].at = "delete"
    /\ stream' = IF lock.by = p THEN stream \ {calls[p].id} ELSE stream
    /\ calls' = [calls EXCEPT ![p].at = "release", ![p].result = "message"]
    /\ UNCHANGED <<last, lock, late>>

\* XDEL, whose reply says whether the message was still there: it is ignored.
Delete(p) ==
    /\ calls[p].at = "delete"
    /\ stream' = stream \ {calls[p].id}
    /\ calls' = [calls EXCEPT ![p].at = "release", ![p].result = "message"]
    /\ UNCHANGED <<last, lock, late>>

\* The script of _release_lock: delete the key if it still holds this uuid.
Unlock(p) == lock' = IF lock.by = p THEN Free ELSE lock

Release(p) == /\ calls[p].at = "release"
              /\ Unlock(p)
              /\ calls' = [calls EXCEPT ![p].at = "over"]
              /\ UNCHANGED <<last, stream, late>>

\* A command fails, or the coroutine is cancelled in it, and it had no effect.
\* The finally block releases the lock; _release_lock lets no Exception out,
\* but a cancellation.
Fail(p) ==
    /\ \/ /\ calls[p].at \in {"try", "asleep"}
          /\ calls' = [calls EXCEPT ![p].at = "over", ![p].result = "raised"]
       \/ /\ calls[p].at \in {"read", "delete"}
          /\ calls' = [calls EXCEPT ![p].at = "release", ![p].id = 0,
                                    ![p].result = "raised"]
       \/ /\ calls[p].at = "release"
          /\ calls' = [calls EXCEPT ![p].at = "over"]
       \/ /\ calls[p].at = "release"
          /\ calls' = [calls EXCEPT ![p].at = "over", ![p].result = "raised"]
    /\ UNCHANGED <<last, stream, lock, late>>

\* The command had its effect, and the call does not learn of it.
FailInSet(p) ==
    /\ calls[p].at = "try"
    /\ calls[p].left > 0
    /\ SetLock(p)
    /\ calls' = [calls EXCEPT ![p].at = "over", ![p].result = "raised"]
    /\ UNCHANGED <<last, stream, late>>

FailInDelete(p) ==
    /\ calls[p].at = "delete"
    /\ stream' = stream \ {calls[p].id}
    /\ calls' = [calls EXCEPT ![p].at = "release", ![p].result = "raised"]
    /\ UNCHANGED <<last, lock, late>>

FailInRelease(p) ==
    /\ calls[p].at = "release"
    /\ Unlock(p)
    /\ calls' = [calls EXCEPT ![p].at = "over", ![p].result = "raised"]
    /\ UNCHANGED <<last, stream, late>>

\* The process of the call dies: the finally block does not run.
Die(p) ==
    /\ calls[p].at \notin {"new", "over"}
    /\ calls' = [calls EXCEPT ![p].at = "over", ![p].result = "raised",
                              ![p].id = IF calls[p].at = "delete" THEN 0 ELSE @]
    /\ UNCHANGED <<last, stream, lock, late>>

-------------------------------------------------------------------------------
\* Whose lock expires with the next tick, before its XDEL.
Expiring(p) == /\ calls[p].at \in {"read", "delete"}
               /\ lock.by = p
               /\ lock.left = 1

\* 0.1 s pass: sleepers wake, and the lock grows older and expires. A key that
\* was set without a time to live has 0 left and does not.
Aged == IF lock.left = 1 THEN Free
        ELSE IF lock.left = 0 THEN lock
        ELSE [lock EXCEPT !.left = lock.left - 1]

Woken(call) == IF call.at = "asleep" THEN [call EXCEPT !.at = "try"] ELSE call

Tick == /\ lock.left > 0 \/ \E p \in Pops : calls[p].at = "asleep"
        /\ lock' = Aged
        /\ late' = late \cup {p \in Pops : Expiring(p)}
        /\ calls' = [p \in Pops |-> Woken(calls[p])]
        /\ UNCHANGED <<last, stream>>

-------------------------------------------------------------------------------
\* What a call of pop() does next, if all goes well.
Pop(p) == \/ Acquire(p) \/ Refused(p) \/ GiveUp(p)
          \/ Read(p) \/ ReadNothing(p) \/ Delete(p)
          \/ Release(p)

Fault(p) == Fail(p) \/ FailInSet(p) \/ FailInDelete(p) \/ FailInRelease(p) \/ Die(p)

Next == \/ Put
        \/ Tick
        \/ \E p \in Pops : Begin(p) \/ Pop(p) \/ Fault(p)

Spec == Init /\ [][Next]_vars

FairSpec == Spec /\ WF_vars(Tick) /\ \A p \in Pops : WF_vars(Pop(p))

-------------------------------------------------------------------------------
\* The message a call has removed from the stream, or 0.
Taken(p) == IF calls[p].at = "delete" THEN 0 ELSE calls[p].id

\* The queue of the interface is the stream, and a message is taken by its XDEL.
Queue == INSTANCE MessageQueue WITH
            queue <- stream,
            taken <- [p \in Pops |-> Taken(p)],
            over <- {p \in Pops : calls[p].at = "over"}

\* Reading and deleting a message are one step, and a call that gets a message
\* which another one has removed is late or gets it from a late one: whatever
\* fails, is cancelled, dies or pauses past the expiry of its lock, at whatever
\* command (pop, 203-238).
Implements == Queue!Spec

\* Two calls of pop() get the same message only if the lock of one of them
\* expired before its XDEL (pop, 203-238).
TakenOnce == \A p, q \in Pops : Taken(p) # 0 /\ Taken(p) = Taken(q)
                                  => p = q \/ p \in late \/ q \in late

\* Even with locks that expired under their holders, no message leaves the
\* stream unless a call has read it: XDEL names the message that was read, not
\* the first one of the stream (pop, 219-227).
NotLost == \A m \in 1..last : m \in stream \/ \E p \in Pops : Taken(p) = m

\* Even then, a call that reads the stream gets a message that was put after
\* those which the calls that had ended before got: no message comes again to a
\* later call, and none comes out of order (pop, 219-227).
InOrder == [][\A p, q \in Pops :
                 calls[p].id = 0 /\ calls'[p].id # 0 /\ calls[q].at = "over"
                    => calls'[p].id > calls[q].id]_vars

\* A lock is not held for ever, even if its holder died before it could release
\* it, or never knew it had it (_acquire_lock, 47-52).
LockFrees == \A p \in Pops : (lock.by = p) ~> (lock.by # p)
===============================================================================
