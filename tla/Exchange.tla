------------------------------ MODULE Exchange ------------------------------
(***************************************************************************)
(* What the gateway promises for one request: it is forwarded at most      *)
(* once, and only when every hook that may veto it before has let it pass; *)
(* it is answered once; and its answer is a success only if it was         *)
(* forwarded and no hook vetoed it, before or after.                       *)
(***************************************************************************)
EXTENDS Integers

VARIABLES
    before,     \* hooks that have still to pass the request
    after,      \* hooks that have still to pass its answer
    vetoed,     \* a hook has refused
    forwards,   \* times the request was sent to a backend
    outcome     \* pending, success or error

vars == <<before, after, vetoed, forwards, outcome>>

Init ==
    /\ before \in Nat
    /\ after \in Nat
    /\ vetoed = FALSE
    /\ forwards = 0
    /\ outcome = "pending"

PassBefore ==
    /\ outcome = "pending" /\ ~vetoed /\ forwards = 0
    /\ before > 0
    /\ before' = before - 1
    /\ UNCHANGED <<after, vetoed, forwards, outcome>>

PassAfter ==
    /\ outcome = "pending" /\ ~vetoed /\ forwards = 1
    /\ after > 0
    /\ after' = after - 1
    /\ UNCHANGED <<before, vetoed, forwards, outcome>>

Veto ==
    /\ outcome = "pending" /\ ~vetoed
    /\ vetoed' = TRUE
    /\ UNCHANGED <<before, after, forwards, outcome>>

Forward ==
    /\ outcome = "pending" /\ ~vetoed /\ forwards = 0
    /\ before = 0
    /\ forwards' = 1
    /\ UNCHANGED <<before, after, vetoed, outcome>>

Succeed ==
    /\ outcome = "pending" /\ ~vetoed /\ forwards = 1
    /\ after = 0
    /\ outcome' = "success"
    /\ UNCHANGED <<before, after, vetoed, forwards>>

Fail ==
    /\ outcome = "pending"
    /\ outcome' = "error"
    /\ UNCHANGED <<before, after, vetoed, forwards>>

Next == PassBefore \/ PassAfter \/ Veto \/ Forward \/ Succeed \/ Fail

Spec == Init /\ [][Next]_vars

=============================================================================
