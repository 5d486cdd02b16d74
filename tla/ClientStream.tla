---------------------------- MODULE ClientStream ----------------------------
(***************************************************************************)
(* What a streaming client is promised, whichever protocol it speaks: the  *)
(* stream begins before it carries anything; an Anthropic stream carries   *)
(* every piece inside a content block, opens the blocks one at a time with *)
(* consecutive indexes and closes them before it ends; nothing follows the *)
(* end but the report of an error, and nothing at all follows an error.    *)
(* The variables are what the client can tell from the frames it has got.  *)
(***************************************************************************)
EXTENDS Naturals

VARIABLES protocol, phase, open, begun, pieces

streamVars == <<protocol, phase, open, begun, pieces>>

Init ==
    /\ protocol \in {"openai", "anthropic"}
    /\ phase = "before"
    /\ open = {}
    /\ begun = 0
    /\ pieces = 0

Begin ==
    /\ phase = "before"
    /\ phase' = "open"
    /\ UNCHANGED <<protocol, open, begun, pieces>>

(* A tool block's start is a piece of the answer, a text block's is not.   *)
OpenBlock ==
    /\ protocol = "anthropic" /\ phase = "open"
    /\ open = {}
    /\ open' = {begun}
    /\ begun' = begun + 1
    /\ pieces' \in {pieces, pieces + 1}
    /\ UNCHANGED <<protocol, phase>>

Deliver ==
    /\ phase = "open"
    /\ protocol = "anthropic" => open # {}
    /\ pieces' = pieces + 1
    /\ UNCHANGED <<protocol, phase, open, begun>>

(* OpenAI has no blocks, and one chunk may announce several calls.         *)
DeliverChunk ==
    /\ protocol = "openai" /\ phase = "open"
    /\ pieces' >= pieces
    /\ UNCHANGED <<protocol, phase, open, begun>>

CloseBlock ==
    /\ phase = "open" /\ open # {}
    /\ open' = {}
    /\ UNCHANGED <<protocol, phase, begun, pieces>>

End ==
    /\ phase = "open" /\ open = {}
    /\ phase' = "ended"
    /\ UNCHANGED <<protocol, open, begun, pieces>>

Fail ==
    /\ phase # "failed"
    /\ phase' = "failed"
    /\ UNCHANGED <<protocol, open, begun, pieces>>

Next == Begin \/ OpenBlock \/ Deliver \/ DeliverChunk \/ CloseBlock \/ End \/ Fail

Spec == Init /\ [][Next]_streamVars

=============================================================================
