------------------------------ MODULE PagePool ------------------------------
(***************************************************************************)
(* What the page frame allocator promises: a fixed set of pages, each of   *)
(* them available or given to one caller, handed out and taken back one at *)
(* a time.  The kernel panics for want of a page only when none is left.   *)
(***************************************************************************)
CONSTANTS Callers

VARIABLES
    avail,      \* pages nobody has
    given,      \* pages each caller has
    phase       \* "boot", "run" or "panic"

poolVars == <<avail, given, phase>>

PoolInit ==
    /\ avail = {}
    /\ given = [t \in Callers |-> {}]
    /\ phase = "boot"

\* The memory map decides which pages there are.
Found ==
    /\ phase = "boot"
    /\ phase' = "run"
    /\ UNCHANGED given

Give(t) ==
    /\ phase = "run"
    /\ \E p \in avail :
        /\ avail' = avail \ {p}
        /\ given' = [given EXCEPT ![t] = @ \cup {p}]
    /\ UNCHANGED phase

TakeBack(t) ==
    /\ phase = "run"
    /\ \E p \in given[t] :
        /\ avail' = avail \cup {p}
        /\ given' = [given EXCEPT ![t] = @ \ {p}]
    /\ UNCHANGED phase

Exhausted ==
    /\ avail = {}
    /\ phase' = "panic"
    /\ UNCHANGED <<avail, given>>

PoolNext == Found \/ Exhausted \/ \E t \in Callers : Give(t) \/ TakeBack(t)

PoolSpec == PoolInit /\ [][PoolNext]_poolVars
=============================================================================
