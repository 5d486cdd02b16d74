----------------------------- MODULE TextHooks -----------------------------
(***************************************************************************)
(* The text modifiers (internal/hooks/builtin.go) and what handler.go does *)
(* about the two copies of a response's text.                              *)
(*                                                                         *)
(* A modifier's replacements are a Go map: each time it is ranged over,    *)
(* the order is another one.                                               *)
(***************************************************************************)
EXTENDS Conversation

Replacement == [old: Text, new: Text]
Targets == {"all", "system", "user", "assistant"}

-----------------------------------------------------------------------------
(* strings.ReplaceAll: from left to right, without overlaps; an empty old  *)
(* matches before every symbol and at the end.                             *)

IsAt(text, n, old) ==
    n + Len(old) - 1 <= Len(text) /\ SubSeq(text, n, n + Len(old) - 1) = old

Occurs(old, text) == \E n \in DOMAIN text : IsAt(text, n, old)

Everywhere(text, new) ==
    new \o FlattenSeq([n \in DOMAIN text |-> <<text[n]>> \o new])

Replaced(text, old, new) ==
    LET from[n \in 1..(Len(text) + Len(old) + 1)] ==
            IF n > Len(text) THEN <<>>
            ELSE IF IsAt(text, n, old) THEN new \o from[n + Len(old)]
            ELSE <<text[n]>> \o from[n + 1]
    IN  IF old = <<>> THEN Everywhere(text, new) ELSE from[1]

(* The replacements in the order the map gives them.                       *)
ReplaceInOrder(text, order) ==
    LET after[n \in 0..Len(order)] ==
            IF n = 0 THEN text
            ELSE Replaced(after[n - 1], order[n].old, order[n].new)
    IN  after[Len(order)]

Orders(replacements) == SetToSeqs(replacements)

-----------------------------------------------------------------------------
(* requestTextModifier: which messages it edits, and a request in which    *)
(* each text is edited in an order of its own: orders[0] is the system     *)
(* prompt's, orders[n] the n-th message's.                                 *)

Edits(target, m) ==
    \/ target = "all"
    \/ target = m.role /\ target \in {"user", "assistant"}

EditMessage(m, target, order) ==
    IF Edits(target, m)
    THEN [m EXCEPT !.content = ReplaceInOrder(@, order)] ELSE m

EditRequest(r, target, orders) ==
    [r EXCEPT
        !.system = IF target \in {"system", "all"}
                   THEN ReplaceInOrder(@, orders[0]) ELSE @,
        !.messages = [n \in DOMAIN @ |-> EditMessage(@[n], target, orders[n])]]

(* responseTextModifier: one order for the content and every choice.       *)
(* Variant: only the content is edited.                                    *)
EditContent(r, order) == [r EXCEPT !.content = ReplaceInOrder(@, order)]

EditChoice(c, order) == [c EXCEPT !.text = ReplaceInOrder(@, order)]

EditResponse(r, order) ==
    [r EXCEPT
        !.content = ReplaceInOrder(@, order),
        !.choices = [n \in DOMAIN @ |-> EditChoice(@[n], order)]]

-----------------------------------------------------------------------------
(* snapshotResponseTexts and syncResponseContent: before is the response   *)
(* as the hooks got it.                                                    *)

ChoicesChanged(r, before) ==
    \E n \in DOMAIN r.choices :
        n \in DOMAIN before.choices /\ r.choices[n].text # before.choices[n].text

(* Variant: only a new content is passed on.                               *)
SyncedFromContent(r, before) ==
    IF r.choices = <<>> \/ r.content = before.content THEN r
    ELSE [r EXCEPT !.choices[1].text = r.content]

(* Variant: the choices always count.                                      *)
SyncedFromChoices(r, before) ==
    IF r.choices = <<>> THEN r ELSE [r EXCEPT !.content = r.choices[1].text]

Synced(r, before) ==
    CASE r.choices = <<>> -> r
      [] r.choices # <<>> /\ ChoicesChanged(r, before) ->
            [r EXCEPT !.content = r.choices[1].text]
      [] r.choices # <<>> /\ ~ChoicesChanged(r, before)
                          /\ r.content # before.content ->
            [r EXCEPT !.choices[1].text = r.content]
      [] OTHER -> r

=============================================================================
