----------------------------- MODULE FramePipe -----------------------------
(***************************************************************************)
(* What the rest of the gateway may assume of the reader of an event       *)
(* stream: frames come out whole, one for one and in the order they went   *)
(* in, as soon as they are in; the half frame at the end comes out only if *)
(* the connection was closed in good order, and only after all the others; *)
(* and the reader learns how the connection ended.                         *)
(***************************************************************************)
EXTENDS Naturals

VARIABLES
    sent,       \* whole frames that have gone in
    taken,      \* whole frames that have come out
    half,       \* the half frame at the end has come out
    source,     \* the connection: open, eof (closed in good order) or broken
    reader      \* reading, ended, failed or stopped (by whoever reads)

vars == <<sent, taken, half, source, reader>>

Init ==
    /\ sent = 0
    /\ taken = 0
    /\ half = FALSE
    /\ source = "open"
    /\ reader = "reading"

Send ==
    /\ source = "open"
    /\ sent' = sent + 1
    /\ UNCHANGED <<taken, half, source, reader>>

GoDown ==
    /\ source = "open"
    /\ source' \in {"eof", "broken"}
    /\ UNCHANGED <<sent, taken, half, reader>>

Take ==
    /\ reader = "reading"
    /\ taken < sent
    /\ taken' = taken + 1
    /\ UNCHANGED <<sent, half, source, reader>>

TakeHalf ==
    /\ reader = "reading" /\ taken = sent
    /\ source = "eof" /\ ~half
    /\ half' = TRUE
    /\ UNCHANGED <<sent, taken, source, reader>>

End ==
    /\ reader = "reading" /\ taken = sent
    /\ reader' = IF source = "eof" THEN "ended" ELSE "failed"
    /\ source # "open"
    /\ UNCHANGED <<sent, taken, half, source>>

Stop ==
    /\ reader = "reading"
    /\ reader' = "stopped"
    /\ UNCHANGED <<sent, taken, half, source>>

Next == Send \/ GoDown \/ Take \/ TakeHalf \/ End \/ Stop

Safety == Init /\ [][Next]_vars
Spec == Safety /\ WF_vars(Take \/ TakeHalf \/ End)

=============================================================================
