---------------------------- MODULE Conversation ----------------------------
(***************************************************************************)
(* The protocol-neutral request and response (internal/pipeline/model.go). *)
(*                                                                         *)
(* A text is a sequence of symbols, as coarse as the replacements of the   *)
(* hooks need it to be.  A tool call is known by its id; of its arguments  *)
(* only matters whether they are JSON.  A parameter is the sequence of the *)
(* at most one value it has; 0 is an id that is not there, "" a tool       *)
(* choice that is not.  Names, models and token counts are left out, and   *)
(* temperature stands for top_p and stop as well.                          *)
(***************************************************************************)
EXTENDS Pipeline, Naturals, SequencesExt

(* "null" is no symbol: it says that there is no text.  What is named      *)
(* beside STRING is in it: the provers do not know of any string that it   *)
(* is one.                                                                 *)
Symbol == (STRING \ {"null"}) \cup {"newline", "note"}
Text == Seq(Symbol)
Reason == STRING \cup {"", "stop", "length", "tool_calls"}
Roles == {"user", "assistant", "tool"}
ToolCall == [id: Nat, args: {"json", "broken"}]
ToolChoice == {"", "auto", "none", "required", "specific"}

(* answers is the ToolCallID.                                              *)
Message == [role: Roles, content: Text, calls: Seq(ToolCall), answers: Nat]

Saying(role, text) ==
    [role |-> role, content |-> text, calls |-> <<>>, answers |-> 0]
Calling(text, calls) ==
    [role |-> "assistant", content |-> text, calls |-> calls, answers |-> 0]
Answering(id, text) ==
    [role |-> "tool", content |-> text, calls |-> <<>>, answers |-> id]

(* raw is RawPrompt.                                                       *)
NormalizedRequest ==
    [kind: EndpointKinds, system: Text, messages: Seq(Message),
     maxTokens: Seq(Nat), temperature: Seq(Nat), n: Seq(Nat),
     tools: Seq(STRING), choice: ToolChoice, raw: Text]

PlainRequest(kind) ==
    [kind |-> kind, system |-> <<>>, messages |-> <<>>,
     maxTokens |-> <<>>, temperature |-> <<>>, n |-> <<>>,
     tools |-> <<>>, choice |-> "", raw |-> <<>>]

Choice == [text: Text, reason: Reason]

NormalizedResponse ==
    [content: Text, reason: Reason, calls: Seq(ToolCall), choices: Seq(Choice)]

(* SelectSeq, said with FlattenSeq, which the proofs can reason about.     *)
Those(s, Test(_)) ==
    FlattenSeq([n \in DOMAIN s |-> IF Test(s[n]) THEN <<s[n]>> ELSE <<>>])

IsBroken(calls) == \E n \in DOMAIN calls : calls[n].args = "broken"

=============================================================================
