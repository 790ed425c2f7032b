------------------------------- MODULE Handoff -------------------------------
(***************************************************************************)
(* What haiway.utils.stream.AsyncStream promises its producers and its     *)
(* consumer, without futures: elements leave the stream in the order in    *)
(* which they were offered, skipping those whose producer gave up, and a   *)
(* producer gets control back only when its element left the stream or the *)
(* stream is closed, which discards what is still in it.                   *)
(***************************************************************************)
EXTENDS Integers, Sequences

CONSTANT Elements   \* everything that may be offered

VARIABLES
    offered,    \* elements accepted by the stream, in order
    taken,      \* elements that left it towards the consumer, in order
    withdrawn,  \* elements whose producer gave up before they were taken
    released,   \* elements whose producer got control back
    closed      \* nothing is accepted or taken any more

vars == <<offered, taken, withdrawn, released, closed>>

Init ==
    /\ offered = <<>>
    /\ taken = <<>>
    /\ withdrawn = {}
    /\ released = {}
    /\ closed = FALSE

In(e, s) == \E i \in DOMAIN s : s[i] = e

\* Places of the elements that still wait to be taken.
Waiting == {i \in DOMAIN offered : ~In(offered[i], taken) /\ offered[i] \notin withdrawn}

\* An element is accepted and its producer waits.
Offer(e) ==
    /\ ~closed
    /\ ~In(e, offered)
    /\ offered' = Append(offered, e)
    /\ UNCHANGED <<taken, withdrawn, released, closed>>

\* The oldest element that waits in the stream goes to the consumer.
Take ==
    /\ ~closed
    /\ \E i \in Waiting :
        /\ \A j \in Waiting : i <= j
        /\ taken' = Append(taken, offered[i])
    /\ UNCHANGED <<offered, withdrawn, released, closed>>

\* An empty stream passes an element to a waiting consumer: nobody waits.
Pass(e) ==
    /\ ~closed
    /\ ~In(e, offered)
    /\ Waiting = {}
    /\ offered' = Append(offered, e)
    /\ taken' = Append(taken, e)
    /\ released' = released \cup {e}
    /\ UNCHANGED <<withdrawn, closed>>

\* A closed stream ignores what is sent to it and lets its producer go on.
Discard(e) ==
    /\ closed
    /\ ~In(e, offered)
    /\ released' = released \cup {e}
    /\ UNCHANGED <<offered, taken, withdrawn, closed>>

\* A producer gives up while its element waits.
Withdraw(e) ==
    /\ e \notin released
    /\ \E i \in Waiting : offered[i] = e
    /\ withdrawn' = withdrawn \cup {e}
    /\ UNCHANGED <<offered, taken, released, closed>>

Release(e) ==
    /\ In(e, taken) \/ (closed /\ In(e, offered))
    /\ e \notin withdrawn
    /\ released' = released \cup {e}
    /\ UNCHANGED <<offered, taken, withdrawn, closed>>

Close ==
    /\ ~closed
    /\ closed' = TRUE
    /\ UNCHANGED <<offered, taken, withdrawn, released>>

Next ==
    \/ Take
    \/ Close
    \/ \E e \in Elements : Offer(e) \/ Pass(e) \/ Withdraw(e) \/ Discard(e) \/ Release(e)

Spec == Init /\ [][Next]_vars
=============================================================================
