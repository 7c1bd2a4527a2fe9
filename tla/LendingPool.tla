---------------------------- MODULE LendingPool ----------------------------
(***************************************************************************)
(* What mapnik::connection_pool promises, without its holders, its flags,  *)
(* its mutex and its condition variable: numbered connections, each on     *)
(* loan to at most one thread, never more of them than the cap, and no     *)
(* loan ended by anybody but the thread that holds it.                     *)
(***************************************************************************)
EXTENDS Integers

CONSTANT Threads    \* the borrowers

VARIABLES
    cap,    \* most connections the pool may have
    slots,  \* connections it has
    loans   \* the <<borrower, connection>> pairs of the loans under way

vars == <<cap, slots, loans>>

OnLoan(i) == \E t \in Threads : <<t, i>> \in loans

Init ==
    /\ cap \in Nat
    /\ slots \in 0..cap
    /\ loans = {}

\* A connection that is not on loan is lent.
Lend(t) ==
    /\ \E i \in 1..slots :
        /\ ~OnLoan(i)
        /\ loans' = loans \cup {<<t, i>>}
    /\ UNCHANGED <<cap, slots>>

\* Every connection is on loan: the pool makes one more and lends it.
LendNew(t) ==
    /\ \A i \in 1..slots : OnLoan(i)
    /\ slots < cap
    /\ slots' = slots + 1
    /\ loans' = loans \cup {<<t, slots + 1>>}
    /\ UNCHANGED cap

Return(t) ==
    /\ \E i \in 1..slots :
        /\ <<t, i>> \in loans
        /\ loans' = loans \ {<<t, i>>}
    /\ UNCHANGED <<cap, slots>>

\* The pool makes connections ahead of demand.
Stock ==
    /\ \E n \in slots..cap : slots' = n
    /\ UNCHANGED <<cap, loans>>

RaiseCap ==
    /\ cap' \in Nat
    /\ cap' >= cap
    /\ UNCHANGED <<slots, loans>>

Next ==
    \/ \E t \in Threads : Lend(t) \/ LendNew(t) \/ Return(t)
    \/ Stock
    \/ RaiseCap

Spec == Init /\ [][Next]_vars
=============================================================================
