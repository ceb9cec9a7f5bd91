----------------------------- MODULE MessageQueue -----------------------------
(***************************************************************************)
(* What the interface MessageQueue promises of put() and pop(): a pop gets *)
(* and removes the first message in one step.  A call of pop() that ends   *)
(* without a message may have got None, or have raised; one that raised    *)
(* may have taken a message with it.  A call that is late, in a sense that *)
(* is left to the implementation, may share its message with another.     *)
(*                                                                         *)
(* Messages are numbered in the order in which they were put; 0 is none.   *)
(***************************************************************************)
EXTENDS Naturals

CONSTANTS Pops,        \* the calls of pop()
          MaxMessages  \* a bound on the calls of put()

VARIABLES last,   \* the last message that was put
          queue,  \* the messages that are in the queue
          taken,  \* per call the message it removed, or 0
          over,   \* the calls that have ended
          late    \* the calls that were late

vars == <<last, queue, taken, over, late>>

Init == /\ last = 0
        /\ queue = {}
        /\ taken = [p \in Pops |-> 0]
        /\ over = {}
        /\ late = {}

Put == /\ last < MaxMessages
       /\ last' = last + 1
       /\ queue' = queue \cup {last + 1}
       /\ UNCHANGED <<taken, over, late>>

IsFirst(m, messages) == m \in messages /\ \A n \in messages : m <= n

Take(p) == /\ p \notin over
           /\ taken[p] = 0
           /\ \E m \in queue : /\ IsFirst(m, queue)
                               /\ taken' = [taken EXCEPT ![p] = m]
                               /\ queue' = queue \ {m}
           /\ UNCHANGED <<last, over, late>>

\* p gets a message that q has removed, and one of the two is late.
Share(p, q) == /\ p \notin over
               /\ taken[p] = 0 /\ taken[q] # 0
               /\ p \in late \/ q \in late
               /\ taken' = [taken EXCEPT ![p] = taken[q]]
               /\ UNCHANGED <<last, queue, over, late>>

Overstay(p) == /\ p \notin over
               /\ taken[p] = 0
               /\ late' = late \cup {p}
               /\ UNCHANGED <<last, queue, taken, over>>

End(p) == /\ p \notin over
          /\ over' = over \cup {p}
          /\ UNCHANGED <<last, queue, taken, late>>

Next == \/ Put
        \/ \E p \in Pops : Take(p) \/ Overstay(p) \/ End(p)
        \/ \E p, q \in Pops : Share(p, q)

Spec == Init /\ [][Next]_vars
===============================================================================
